------------------------- MODULE NoiseSessionProofs -------------------------
(* Proofs that the Noise crypto provider never reuses a nonce and never
   delivers a frame twice, for any number of endpoints and sending tasks. *)
EXTENDS NoiseSession, TLAPS

(* The part of the invariant that only says where tasks are and what they
   hold. *)
LocalInv == TypeOK /\ GuardInv /\ TaskInv

-----------------------------------------------------------------------------
(* What an update changes *)

LEMMA BecomeUpdates ==
    ASSUME TypeOK, NEW n \in Nodes, NEW s \in Senders, NEW t \in SendTask,
           Become(n, s, t)
    PROVE  /\ snd' \in [Nodes -> [Senders -> SendTask]]
           /\ snd'[n][s] = t
           /\ \A m \in Nodes, u \in Senders :
                 m # n \/ u # s => snd'[m][u] = snd[m][u]
BY DEF Become, TypeOK

LEMMA SaveUpdates ==
    ASSUME TypeOK, NEW n \in Nodes, NEW d \in Nodes,
           NEW c \in Session \cup {None}, Save(n, d, c)
    PROVE  /\ sessions' \in [Nodes -> [Nodes -> Session \cup {None}]]
           /\ sessions'[n][d] = c
           /\ \A m, e \in Nodes : m # n \/ e # d => sessions'[m][e] = sessions[m][e]
BY DEF Save, TypeOK

(* The holder of the guard is alone past its lock. *)
LEMMA HolderAlone ==
    ASSUME LocalInv, NEW n \in Nodes, NEW s \in Senders, snd[n][s].pc \in Active
    PROVE  /\ guard[n] = s
           /\ \A u \in Senders : u # s => snd[n][u].pc \notin Active
           /\ rcv[n].pc \in {"idle", "respond"}
<1>1. guard[n] = s
  BY DEF LocalInv, GuardInv
<1>2. rcv[n].pc \in RecvPc
  BY DEF LocalInv, TypeOK, RecvTask
<1>. QED  BY <1>1, <1>2, SendersAssumption DEF LocalInv, GuardInv, RecvPc

(* A step of a send task keeps the other tasks as they are and its own locals
   in order. *)
LEMMA LocalBecome ==
    ASSUME LocalInv, NEW n \in Nodes, NEW s \in Senders, NEW t \in SendTask,
           Become(n, s, t), guard[n] \in {s, None},
           guard' \in [Nodes -> Senders \cup {"receive", None}],
           guard'[n] = s \/ t.pc \notin Active,
           \A m \in Nodes : m # n => guard'[m] = guard[m],
           rcv' = rcv,
           t.pc \in Active => t.dest \in Nodes,
           t.pc = "wait" => t.init \in Eph,
           t.pc \in Encrypted => t.copy \in Session
    PROVE  /\ snd' \in [Nodes -> [Senders -> SendTask]]
           /\ GuardInv'
           /\ TaskInv'
<1>1. TypeOK
  BY DEF LocalInv
<1>2. /\ snd' \in [Nodes -> [Senders -> SendTask]]
      /\ snd'[n][s] = t
      /\ \A m \in Nodes, u \in Senders : m # n \/ u # s => snd'[m][u] = snd[m][u]
  BY <1>1, BecomeUpdates
<1>4. rcv[n].pc \notin {"decrypted", "invalidate"}
  BY SendersAssumption, NoneAssumption DEF LocalInv, GuardInv
<1>5. \A u \in Senders : u # s => snd[n][u].pc \notin Active
  BY NoneAssumption DEF LocalInv, GuardInv
<1>6. GuardInv'
  <2>1. \A u \in Senders : snd'[n][u].pc \in Active => guard'[n] = u
    BY <1>2, <1>5
  <2>2. \A m \in Nodes, u \in Senders :
           m # n /\ snd'[m][u].pc \in Active => guard'[m] = u
    BY <1>2 DEF LocalInv, GuardInv
  <2>3. \A m \in Nodes : rcv'[m].pc \in {"decrypted", "invalidate"}
                             => guard'[m] = "receive"
    BY <1>4 DEF LocalInv, GuardInv
  <2>. QED  BY <2>1, <2>2, <2>3 DEF GuardInv, Active
<1>7. TaskInv'
  BY <1>2 DEF LocalInv, TaskInv
<1>. QED  BY <1>2, <1>6, <1>7

-----------------------------------------------------------------------------
(* LocalInv *)

LEMMA LocalInit == Init => LocalInv
BY NoneAssumption
   DEF Init, LocalInv, TypeOK, GuardInv, TaskInv, Idle, RecvIdle, SendTask,
       RecvTask, SendPc, RecvPc, Active, Encrypted

LEMMA IdleType ==
    /\ Idle \in SendTask
    /\ Idle.pc \notin Active
    /\ RecvIdle \in RecvTask
BY DEF Idle, SendTask, SendPc, Active, RecvIdle, RecvTask, RecvPc

(* A send that only moves on, under the guard. *)
LEMMA LocalGoto ==
    ASSUME LocalInv, NEW n \in Nodes, NEW s \in Senders, NEW pc \in Active,
           Goto(n, s, pc), snd[n][s].pc \in Active, pc # "wait",
           pc \in Encrypted => snd[n][s].pc \in Encrypted,
           UNCHANGED <<guard, rcv>>
    PROVE  /\ snd' \in [Nodes -> [Senders -> SendTask]]
           /\ guard' \in [Nodes -> Senders \cup {"receive", None}]
           /\ GuardInv'
           /\ TaskInv'
<1>. DEFINE t == [snd[n][s] EXCEPT !.pc = pc]
<1>1. snd[n][s] \in SendTask
  BY DEF LocalInv, TypeOK
<1>2. /\ t \in SendTask /\ t.pc = pc /\ t.dest = snd[n][s].dest
      /\ t.copy = snd[n][s].copy
  BY <1>1 DEF SendTask, Active
<1>3. guard[n] = s /\ guard' \in [Nodes -> Senders \cup {"receive", None}]
  BY HolderAlone DEF LocalInv, TypeOK
<1>4. /\ snd[n][s].dest \in Nodes
      /\ pc \in Encrypted => snd[n][s].copy \in Session
  BY DEF LocalInv, TaskInv
<1>. QED  BY <1>2, <1>3, <1>4, LocalBecome DEF Goto

(* A send that returns or panics. *)
LEMMA LocalReturn ==
    ASSUME LocalInv, NEW n \in Nodes, NEW s \in Senders, Return(n, s),
           snd[n][s].pc \in Active, rcv' = rcv
    PROVE  /\ snd' \in [Nodes -> [Senders -> SendTask]]
           /\ guard' \in [Nodes -> Senders \cup {"receive", None}]
           /\ GuardInv'
           /\ TaskInv'
<1>1. guard[n] = s
  BY HolderAlone
<1>2. Idle.pc # "wait" /\ Idle.pc \notin Encrypted
  BY DEF Idle, Encrypted
<1>3. /\ guard' \in [Nodes -> Senders \cup {"receive", None}]
      /\ \A m \in Nodes : m # n => guard'[m] = guard[m]
  BY DEF Return, Unlock, LocalInv, TypeOK
<1>. QED  BY <1>1, <1>2, <1>3, IdleType, LocalBecome DEF Return
LEMMA PostType ==
    ASSUME NEW box \in [Nodes -> Seq(Frame)], NEW d \in Nodes, NEW f \in Frame
    PROVE  Post(box, d, f) \in [Nodes -> Seq(Frame)]
BY DEF Post

LEMMA PopType ==
    ASSUME TypeOK, NEW n \in Nodes, inbox[n] # <<>>
    PROVE  /\ Rest(n) \in [Nodes -> Seq(Frame)]
           /\ Head(inbox[n]) \in Frame
<1>1. inbox[n] \in Seq(Frame)
  BY DEF TypeOK
<1>2. Tail(inbox[n]) \in Seq(Frame) /\ Head(inbox[n]) \in Frame
  BY <1>1
<1>. QED  BY <1>2 DEF TypeOK, Rest

(* What a send task encrypted. *)
LEMMA EncOfType ==
    ASSUME LocalInv, NEW n \in Nodes, NEW s \in Senders, snd[n][s].pc \in Encrypted
    PROVE  EncOf(n, s) \in Encryption
<1>1. snd[n][s].copy \in Session /\ snd[n][s].dest \in Nodes
  BY DEF LocalInv, TaskInv, Active, SendPc, Encrypted
<1>2. snd[n][s].no \in Nat
  BY DEF LocalInv, TypeOK, SendTask
<1>. QED  BY <1>1, <1>2 DEF EncOf, Session, Message, Encryption

LEMMA LocalSendStep ==
    ASSUME LocalInv, NEW n \in Nodes, NEW s \in Senders, SendStep(n, s)
    PROVE  LocalInv'
<1>. DEFINE Locals == /\ snd \in [Nodes -> [Senders -> SendTask]]
                      /\ guard \in [Nodes -> Senders \cup {"receive", None}]
                      /\ GuardInv
                      /\ TaskInv
<1>0. snd[n][s] \in SendTask /\ (snd[n][s].pc \in Active => snd[n][s].dest \in Nodes)
  BY DEF LocalInv, TypeOK, TaskInv
<1>1. CASE SendGet(n, s)
  <2>1. Locals'
    <3>1. PICK pc \in {"start", "expire", "load"} : Goto(n, s, pc)
      BY <1>1 DEF SendGet
    <3>2. pc \in Active /\ pc # "wait" /\ pc \notin Encrypted
      BY DEF Active, SendPc, Encrypted
    <3>3. snd[n][s].pc \in Active
      BY <1>1 DEF SendGet, Active, SendPc
    <3>. QED  BY <3>1, <3>2, <3>3, <1>1, LocalGoto DEF SendGet
  <2>. QED  BY <2>1, <1>1 DEF LocalInv, TypeOK, SendGet, history, bounds
<1>2. CASE SendExpire(n, s)
  <2>1. snd[n][s].pc \in Active
    BY <1>2 DEF SendExpire, Active, SendPc
  <2>2. Locals'
    <3>1. "start" \in Active /\ "start" \notin Encrypted
      BY DEF Active, SendPc, Encrypted
    <3>. QED  BY <3>1, <2>1, <1>2, LocalGoto DEF SendExpire
  <2>3. sessions' \in [Nodes -> [Nodes -> Session \cup {None}]]
    BY <2>1, <1>0, <1>2, SaveUpdates DEF SendExpire, Remove, LocalInv
  <2>. QED  BY <2>2, <2>3, <1>2 DEF LocalInv, TypeOK, SendExpire, history, bounds
<1>3. CASE HandshakeStart(n, s)
  <2>. DEFINE d == snd[n][s].dest
              i == NewEph(n, d)
              t == [snd[n][s] EXCEPT !.pc = "wait", !.init = i]
              f == [type |-> "start", src |-> n, init |-> i]
  <2>1. snd[n][s].pc \in Active /\ d \in Nodes
    BY <1>0, <1>3 DEF HandshakeStart, Active, SendPc
  <2>2. i \in Eph
    BY <2>1 DEF NewEph, Eph, LocalInv, TypeOK
  <2>3. /\ t \in SendTask /\ t.pc = "wait" /\ t.dest \in Nodes
        /\ t.init \in Eph /\ t.pc \notin Encrypted
    BY <1>0, <2>1, <2>2 DEF SendTask, SendPc, Encrypted
  <2>4. Locals'
    <3>1. guard[n] = s
      BY <2>1, HolderAlone
    <3>2. guard' = guard /\ guard \in [Nodes -> Senders \cup {"receive", None}]
      BY <1>3 DEF HandshakeStart, LocalInv, TypeOK
    <3>3. Become(n, s, t) /\ rcv' = rcv
      BY <1>3 DEF HandshakeStart
    <3>. HIDE DEF t
    <3>. QED  BY <3>1, <3>2, <3>3, <2>3, LocalBecome
  <2>5. inbox' \in [Nodes -> Seq(Frame)]
    <3>1. f \in Frame
      BY <2>2 DEF Frame
    <3>2. inbox' = Post(inbox, d, f)
      BY <1>3 DEF HandshakeStart
    <3>. QED  BY <3>1, <3>2, <2>1, PostType DEF LocalInv, TypeOK
  <2>6. eph' \in [Nodes -> Nat]
    BY <1>3 DEF HandshakeStart, LocalInv, TypeOK
  <2>. QED  BY <2>4, <2>5, <2>6, <1>3
            DEF LocalInv, TypeOK, HandshakeStart, history, bounds
<1>4. CASE HandshakeStartFails(n, s) \/ HandshakeTimeout(n, s)
  <2>1. snd[n][s].pc \in Active
    BY <1>4 DEF HandshakeStartFails, HandshakeTimeout, Active, SendPc
  <2>2. Locals'
    BY <2>1, <1>4, LocalReturn DEF HandshakeStartFails, HandshakeTimeout
  <2>. QED  BY <2>2, <1>4 DEF LocalInv, TypeOK, HandshakeStartFails, HandshakeTimeout,
                              history, bounds
<1>5. CASE HandshakeFinish(n, s)
  <2>. DEFINE c == NewSession(snd[n][s].init, snd[n][s].reply.resp, "initiator")
  <2>1. snd[n][s].pc \in Active /\ snd[n][s].dest \in Nodes
    BY <1>0, <1>5 DEF HandshakeFinish, Active, SendPc
  <2>2. CASE Return(n, s) /\ UNCHANGED sessions
    <3>1. Locals'
      BY <2>1, <2>2, <1>5, LocalReturn DEF HandshakeFinish
    <3>. QED  BY <3>1, <2>2, <1>5 DEF LocalInv, TypeOK, HandshakeFinish, history, bounds
  <2>3. CASE Save(n, snd[n][s].dest, c) /\ Goto(n, s, "load") /\ UNCHANGED guard
    <3>1. Locals'
      <4>1. "load" \in Active /\ "load" \notin Encrypted
        BY DEF Active, SendPc, Encrypted
      <4>. QED  BY <4>1, <2>1, <2>3, <1>5, LocalGoto DEF HandshakeFinish
    <3>2. c \in Session
      <4>1. snd[n][s].init \in Eph
        BY <1>5 DEF HandshakeFinish, LocalInv, TaskInv
      <4>2. snd[n][s].reply \in Reply
        BY <1>0, <1>5 DEF HandshakeFinish, SendTask
      <4>. QED  BY <4>1, <4>2 DEF NewSession, Session, Key, Roles, Reply
    <3>3. sessions' \in [Nodes -> [Nodes -> Session \cup {None}]]
      BY <3>2, <2>1, <2>3, SaveUpdates DEF LocalInv
    <3>. QED  BY <3>1, <3>3, <1>5 DEF LocalInv, TypeOK, HandshakeFinish, history, bounds
  <2>. QED  BY <2>2, <2>3, <1>5 DEF HandshakeFinish
<1>6. CASE SendEncrypt(n, s)
  <2>. DEFINE c == sessions[n][snd[n][s].dest]
              m == [from |-> n, no |-> snd[n][s].no, to |-> snd[n][s].dest]
              e == [key |-> c.key, nonce |-> c.sendNonce + 1, msg |-> m]
              c1 == [c EXCEPT !.sendNonce = @ + 1]
              t == [snd[n][s] EXCEPT !.pc = "transmit", !.copy = c1]
              p == [Idle EXCEPT !.pc = "panicked"]
  <2>1. snd[n][s].pc \in Active /\ snd[n][s].dest \in Nodes
    BY <1>0, <1>6 DEF SendEncrypt, Active, SendPc
  <2>2. guard[n] = s /\ rcv' = rcv
    BY <2>1, <1>6, HolderAlone DEF SendEncrypt
  <2>3. CASE c = None /\ Become(n, s, p) /\ Unlock(n) /\ UNCHANGED used
    <3>1. Locals'
      <4>1. /\ p \in SendTask /\ p.pc \notin Active /\ p.pc # "wait"
            /\ p.pc \notin Encrypted
        BY DEF Idle, SendTask, SendPc, Active, Encrypted
      <4>2. /\ guard' \in [Nodes -> Senders \cup {"receive", None}]
            /\ \A k \in Nodes : k # n => guard'[k] = guard[k]
        BY <2>3 DEF Unlock, LocalInv, TypeOK
      <4>. HIDE DEF p
      <4>. QED  BY <4>1, <4>2, <2>2, <2>3, LocalBecome
    <3>. QED  BY <3>1, <2>3, <1>6 DEF LocalInv, TypeOK, SendEncrypt, history, bounds
  <2>4. CASE c # None /\ Become(n, s, t) /\ used' = used \cup {e} /\ UNCHANGED guard
    <3>1. c \in Session
      BY <2>1, <2>4 DEF LocalInv, TypeOK
    <3>2. c1 \in Session /\ c.key \in Key /\ c.sendNonce + 1 \in Nat
      BY <3>1 DEF Session
    <3>3. e \in Encryption
      BY <1>0, <2>1, <3>2 DEF SendTask, Message, Encryption
    <3>4. /\ t \in SendTask /\ t.pc = "transmit" /\ t.dest \in Nodes
          /\ t.copy \in Session
      <4>. HIDE DEF c1
      <4>. QED  BY <1>0, <2>1, <3>2 DEF SendTask, SendPc
    <3>5. Locals'
      <4>1. guard' \in [Nodes -> Senders \cup {"receive", None}]
        BY <2>4 DEF LocalInv, TypeOK
      <4>. HIDE DEF t
      <4>. QED  BY <4>1, <3>4, <2>2, <2>4, LocalBecome
    <3>6. used' \in SUBSET Encryption
      BY <3>3, <2>4 DEF LocalInv, TypeOK
    <3>. QED  BY <3>5, <3>6, <1>6 DEF LocalInv, TypeOK, SendEncrypt, history, bounds
  <2>. QED  BY <2>3, <2>4, <1>6 DEF SendEncrypt
<1>7. CASE SendTransmit(n, s)
  <2>. DEFINE t == snd[n][s]
              e == EncOf(n, s)
              f == [type |-> "frame", src |-> n, body |-> e]
  <2>1. t.pc \in Active /\ t.dest \in Nodes /\ t.pc \in Encrypted
    BY <1>0, <1>7 DEF SendTransmit, Active, SendPc, Encrypted
  <2>2. Locals'
    <3>1. "save" \in Active
      BY DEF Active, SendPc
    <3>. QED  BY <3>1, <2>1, <1>7, LocalGoto DEF SendTransmit
  <2>3. f \in Frame
    <3>1. t.copy \in Session
      BY <2>1 DEF LocalInv, TaskInv
    <3>2. e \in Encryption
      BY <2>1, EncOfType
    <3>. HIDE DEF e
    <3>. QED  BY <3>2 DEF Frame
  <2>4. inbox' \in [Nodes -> Seq(Frame)]
    <3>1. inbox' = Post(inbox, t.dest, f)
      BY <1>7 DEF SendTransmit
    <3>. HIDE DEF f
    <3>. QED  BY <3>1, <2>1, <2>3, PostType DEF LocalInv, TypeOK
  <2>. QED  BY <2>2, <2>4, <1>7 DEF LocalInv, TypeOK, SendTransmit, history, bounds
<1>8. CASE SendTransmitFails(n, s)
  <2>1. snd[n][s].pc \in Active /\ snd[n][s].pc \in Encrypted
    BY <1>8 DEF SendTransmitFails, Active, SendPc, Encrypted
  <2>2. Locals'
    <3>1. PICK pc \in {"save", "drop"} : Goto(n, s, pc)
      BY <1>8 DEF SendTransmitFails
    <3>2. pc \in Active /\ pc # "wait"
      BY DEF Active, SendPc
    <3>. QED  BY <3>1, <3>2, <2>1, <1>8, LocalGoto DEF SendTransmitFails
  <2>. QED  BY <2>2, <1>8 DEF LocalInv, TypeOK, SendTransmitFails, history, bounds
<1>9. CASE SendDrop(n, s) \/ SendSave(n, s)
  <2>1. /\ snd[n][s].pc \in Active /\ snd[n][s].pc \in Encrypted
        /\ snd[n][s].dest \in Nodes
    BY <1>0, <1>9 DEF SendDrop, SendSave, Active, SendPc, Encrypted
  <2>2. Locals'
    BY <2>1, <1>9, LocalReturn DEF SendDrop, SendSave
  <2>3. sessions' \in [Nodes -> [Nodes -> Session \cup {None}]]
    <3>1. snd[n][s].copy \in Session
      BY <2>1 DEF LocalInv, TaskInv
    <3>. QED  BY <3>1, <2>1, <1>9, SaveUpdates DEF SendDrop, SendSave, Remove, LocalInv
  <2>. QED  BY <2>2, <2>3, <1>9 DEF LocalInv, TypeOK, SendDrop, SendSave, history, bounds
<1>. QED  BY <1>1, <1>2, <1>3, <1>4, <1>5, <1>6, <1>7, <1>8, <1>9 DEF SendStep

-----------------------------------------------------------------------------
(* The receive loop keeps LocalInv *)

(* snd' agrees with snd on everything but replies. *)
SameSends ==
    /\ snd' \in [Nodes -> [Senders -> SendTask]]
    /\ \A m \in Nodes, u \in Senders :
         /\ snd'[m][u].pc = snd[m][u].pc
         /\ snd'[m][u].dest = snd[m][u].dest
         /\ snd'[m][u].init = snd[m][u].init
         /\ snd'[m][u].copy = snd[m][u].copy
         /\ snd'[m][u].no = snd[m][u].no

LEMMA AnswerUpdates ==
    ASSUME TypeOK, NEW m \in Nodes, NEW n \in Nodes, NEW i \in Eph, NEW r \in Eph,
           Answer(m, n, i, r)
    PROVE  SameSends
<1>. DEFINE q == [init |-> i, resp |-> r]
            New(s) == IF /\ snd[m][s].pc = "wait" /\ snd[m][s].dest = n
                         /\ snd[m][s].reply = None
                      THEN [snd[m][s] EXCEPT !.reply = q] ELSE snd[m][s]
<1>1. \A k \in Nodes, s \in Senders : snd[k][s] \in SendTask
  BY DEF TypeOK
<1>2. q \in Reply
  BY DEF Reply
<1>3. \A s \in Senders :
        /\ New(s) \in SendTask
        /\ New(s).pc = snd[m][s].pc /\ New(s).dest = snd[m][s].dest
        /\ New(s).init = snd[m][s].init /\ New(s).copy = snd[m][s].copy
        /\ New(s).no = snd[m][s].no
  <2>. HIDE DEF q
  <2>. QED  BY <1>1, <1>2 DEF SendTask
<1>4. snd' = [snd EXCEPT ![m] = [s \in Senders |-> New(s)]]
  BY DEF Answer, TypeOK
<1>. HIDE DEF New
<1>. QED  BY <1>1, <1>3, <1>4 DEF SameSends, TypeOK

(* A repeated frame may at most hand a waiting handshake its answer. *)
LEMMA RedeliverSends ==
    ASSUME TypeOK, NEW n \in Nodes, Redeliver(n)
    PROVE  SameSends
<1>. DEFINE f == Head(inbox[n])
<1>1. f \in Frame
  BY PopType DEF Redeliver
<1>2. CASE f.type = "finish" /\ Answer(n, f.src, f.init, f.resp)
  <2>1. f.src \in Nodes /\ f.init \in Eph /\ f.resp \in Eph
    BY <1>1, <1>2 DEF Frame
  <2>. HIDE DEF f
  <2>. QED  BY <2>1, <1>2, AnswerUpdates
<1>3. CASE UNCHANGED snd
  BY <1>3 DEF SameSends, TypeOK
<1>. QED  BY <1>2, <1>3 DEF Redeliver

LEMMA LocalLoopStep ==
    ASSUME LocalInv, NEW n \in Nodes, LoopStep(n)
    PROVE  LocalInv'
<1>. DEFINE Locals == /\ snd \in [Nodes -> [Senders -> SendTask]]
                      /\ guard \in [Nodes -> Senders \cup {"receive", None}]
                      /\ rcv \in [Nodes -> RecvTask]
                      /\ GuardInv
                      /\ TaskInv
<1>0. ASSUME SameSends, NEW t \in RecvTask, rcv' = [rcv EXCEPT ![n] = t],
             guard' \in [Nodes -> Senders \cup {"receive", None}],
             \A m \in Nodes : m # n => guard'[m] = guard[m],
             guard'[n] = guard[n] \/ guard[n] \in {None, "receive"},
             t.pc \in {"decrypted", "invalidate"} => guard'[n] = "receive",
             t.pc # "idle" => t.src \in Nodes,
             t.pc \in {"respond", "decrypted"} => t.copy \in Session,
             t.pc = "decrypted" => t.got \in Encryption
      PROVE  Locals'
  <2>1. /\ rcv' \in [Nodes -> RecvTask] /\ rcv'[n] = t
        /\ \A m \in Nodes : m # n => rcv'[m] = rcv[m]
    BY <1>0 DEF LocalInv, TypeOK
  <2>2. \A u \in Senders : snd[n][u].pc \in Active => guard'[n] = u
    BY <1>0, NoneAssumption, SendersAssumption DEF LocalInv, GuardInv
  <2>3. GuardInv'
    <3>1. \A m \in Nodes, u \in Senders :
             snd'[m][u].pc \in Active => guard'[m] = u
      BY <1>0, <2>2 DEF LocalInv, GuardInv, SameSends
    <3>2. \A m \in Nodes :
             rcv'[m].pc \in {"decrypted", "invalidate"} => guard'[m] = "receive"
      BY <1>0, <2>1 DEF LocalInv, GuardInv
    <3>. QED  BY <3>1, <3>2 DEF GuardInv, Active
  <2>4. TaskInv'
    <3>1. ASSUME NEW m \in Nodes, NEW u \in Senders
          PROVE  /\ snd'[m][u].pc \in Active => snd'[m][u].dest \in Nodes
                 /\ snd'[m][u].pc = "wait" => snd'[m][u].init \in Eph
                 /\ snd'[m][u].pc \in Encrypted => snd'[m][u].copy \in Session
      <4>1. /\ snd'[m][u].pc = snd[m][u].pc /\ snd'[m][u].dest = snd[m][u].dest
            /\ snd'[m][u].init = snd[m][u].init /\ snd'[m][u].copy = snd[m][u].copy
        BY <1>0 DEF SameSends
      <4>2. /\ snd[m][u].pc \in Active => snd[m][u].dest \in Nodes
            /\ snd[m][u].pc = "wait" => snd[m][u].init \in Eph
            /\ snd[m][u].pc \in Encrypted => snd[m][u].copy \in Session
        BY DEF LocalInv, TaskInv
      <4>. QED  BY <4>1, <4>2
    <3>2. \A m \in Nodes :
             /\ rcv'[m].pc # "idle" => rcv'[m].src \in Nodes
             /\ rcv'[m].pc \in {"respond", "decrypted"} => rcv'[m].copy \in Session
             /\ rcv'[m].pc = "decrypted" => rcv'[m].got \in Encryption
      BY <1>0, <2>1 DEF LocalInv, TaskInv
    <3>. QED  BY <3>1, <3>2 DEF TaskInv
  <2>. QED  BY <1>0, <2>1, <2>3, <2>4 DEF SameSends
<1>1. RecvIdle \in RecvTask /\ RecvIdle.pc = "idle"
  BY DEF RecvIdle, RecvTask, RecvPc
<1>2. ASSUME UNCHANGED snd PROVE SameSends
  BY <1>2 DEF SameSends, LocalInv, TypeOK
<1>3. /\ guard \in [Nodes -> Senders \cup {"receive", None}]
      /\ Unlock(n) => /\ guard' \in [Nodes -> Senders \cup {"receive", None}]
                      /\ \A m \in Nodes : m # n => guard'[m] = guard[m]
      /\ Lock(n, "receive") => /\ guard' \in [Nodes -> Senders \cup {"receive", None}]
                               /\ guard'[n] = "receive" /\ guard[n] = None
                               /\ \A m \in Nodes : m # n => guard'[m] = guard[m]
  BY DEF LocalInv, TypeOK, Lock, Unlock
<1>4. ASSUME inbox[n] # <<>>
      PROVE  /\ Rest(n) \in [Nodes -> Seq(Frame)]
             /\ Head(inbox[n]) \in Frame /\ Head(inbox[n]).src \in Nodes
  BY <1>4, PopType DEF LocalInv, Frame
<1>5. CASE RecvStart(n)
  <2>. DEFINE f == Head(inbox[n])
              r == NewEph(n, f.src)
              g == [type |-> "finish", src |-> n, init |-> f.init, resp |-> r]
              c == NewSession(f.init, r, "responder")
              t == [RecvIdle EXCEPT !.pc = "respond", !.src = f.src, !.copy = c]
  <2>1. /\ inbox[n] # <<>> /\ f \in Frame /\ f.type = "start" /\ f.src \in Nodes
        /\ Rest(n) \in [Nodes -> Seq(Frame)]
    BY <1>4, <1>5 DEF RecvStart, Take
  <2>2. CASE Pop(n) /\ UNCHANGED <<eph, snd, rcv>>
    BY <2>1, <2>2, <1>5
       DEF RecvStart, Pop, LocalInv, TypeOK, GuardInv, TaskInv, history, bounds
  <2>3. CASE /\ eph' = [eph EXCEPT ![n] = @ + 1]
             /\ inbox' = Post(Rest(n), f.src, g)
             /\ Answer(f.src, n, f.init, r)
             /\ rcv' = [rcv EXCEPT ![n] = t]
    <3>1. f.init \in Eph
      BY <2>1 DEF Frame
    <3>2. r \in Eph
      BY <2>1 DEF NewEph, Eph, LocalInv, TypeOK
    <3>3. SameSends
      <4>. HIDE DEF r
      <4>. QED  BY <2>1, <2>3, <3>1, <3>2, AnswerUpdates DEF LocalInv
    <3>4. c \in Session
      <4>. HIDE DEF r
      <4>. QED  BY <3>1, <3>2 DEF NewSession, Session, Key, Roles
    <3>5. /\ t \in RecvTask /\ t.pc = "respond" /\ t.src \in Nodes
          /\ t.copy \in Session
      <4>. HIDE DEF c
      <4>. QED  BY <2>1, <3>4 DEF RecvIdle, RecvTask, RecvPc
    <3>6. Locals'
      <4>. HIDE DEF t
      <4>. QED  BY <2>3, <3>3, <3>5, <1>0, <1>3, <1>5 DEF RecvStart
    <3>7. g \in Frame
      <4>. HIDE DEF r
      <4>. QED  BY <3>1, <3>2 DEF Frame
    <3>8. inbox' \in [Nodes -> Seq(Frame)]
      <4>. HIDE DEF g
      <4>. QED  BY <2>1, <2>3, <3>7, PostType
    <3>9. eph' \in [Nodes -> Nat]
      BY <2>3 DEF LocalInv, TypeOK
    <3>. QED  BY <3>6, <3>8, <3>9, <1>5
              DEF LocalInv, TypeOK, RecvStart, history, bounds
  <2>. QED  BY <2>2, <2>3, <1>5 DEF RecvStart
<1>6. CASE RecvRespondSave(n)
  <2>1. Locals'
    BY <1>0, <1>1, <1>2, <1>3, <1>6 DEF RecvRespondSave
  <2>2. sessions' \in [Nodes -> [Nodes -> Session \cup {None}]]
    <3>1. rcv[n].src \in Nodes /\ rcv[n].copy \in Session
      BY <1>6 DEF RecvRespondSave, LocalInv, TaskInv
    <3>. QED  BY <3>1, <1>6, SaveUpdates DEF RecvRespondSave, LocalInv
  <2>. QED  BY <2>1, <2>2, <1>6 DEF LocalInv, TypeOK, RecvRespondSave, history, bounds
<1>7. CASE RecvFrame(n)
  <2>. DEFINE f == Head(inbox[n])
              c == sessions[n][f.src]
              c1 == [c EXCEPT !.recvNonce = f.body.nonce]
              t1 == [RecvIdle EXCEPT !.pc = "invalidate", !.src = f.src]
              t2 == [pc |-> "decrypted", src |-> f.src, got |-> f.body, copy |-> c1]
  <2>1. /\ inbox[n] # <<>> /\ f \in Frame /\ f.type = "frame" /\ f.src \in Nodes
        /\ Rest(n) \in [Nodes -> Seq(Frame)]
    BY <1>4, <1>7 DEF RecvFrame, Take
  <2>2. f.body \in Encryption
    BY <2>1 DEF Frame
  <2>3. c \in Session \cup {None}
    BY <2>1 DEF LocalInv, TypeOK
  <2>4. SameSends
    BY <1>2, <1>7 DEF RecvFrame
  <2>5. Locals'
    <3>1. CASE Lock(n, "receive") /\ rcv' = [rcv EXCEPT ![n] = t1]
      <4>1. t1 \in RecvTask /\ t1.pc = "invalidate" /\ t1.src \in Nodes
        BY <2>1 DEF RecvIdle, RecvTask, RecvPc
      <4>. HIDE DEF t1
      <4>. QED  BY <3>1, <4>1, <2>4, <1>0, <1>3
    <3>2. CASE c # None /\ Lock(n, "receive") /\ rcv' = [rcv EXCEPT ![n] = t2]
      <4>1. c1 \in Session
        BY <2>2, <2>3, <3>2 DEF Session, Encryption
      <4>2. /\ t2 \in RecvTask /\ t2.pc = "decrypted" /\ t2.src \in Nodes
            /\ t2.copy \in Session /\ t2.got \in Encryption
        <5>. HIDE DEF c1
        <5>. QED  BY <4>1, <2>1, <2>2 DEF RecvTask, RecvPc
      <4>. HIDE DEF t2
      <4>. QED  BY <3>2, <4>2, <2>4, <1>0, <1>3
    <3>3. CASE UNCHANGED <<guard, rcv>>
      BY <3>3, <1>7 DEF RecvFrame, LocalInv, TypeOK, GuardInv, TaskInv
    <3>. QED  BY <3>1, <3>2, <3>3, <1>7 DEF RecvFrame
  <2>. QED  BY <2>1, <2>5, <1>7 DEF LocalInv, TypeOK, RecvFrame, Pop, history, bounds
<1>8. CASE RecvSave(n)
  <2>0. guard[n] = "receive"
    BY <1>8 DEF RecvSave, LocalInv, GuardInv
  <2>1. Locals'
    BY <2>0, <1>0, <1>1, <1>2, <1>3, <1>8 DEF RecvSave
  <2>2. rcv[n].src \in Nodes /\ rcv[n].copy \in Session /\ rcv[n].got \in Encryption
    BY <1>8 DEF RecvSave, LocalInv, TaskInv
  <2>3. sessions' \in [Nodes -> [Nodes -> Session \cup {None}]]
    BY <2>2, <1>8, SaveUpdates DEF RecvSave, LocalInv
  <2>4. log' \in [Nodes -> Seq(Encryption)]
    BY <2>2, <1>8 DEF RecvSave, LocalInv, TypeOK
  <2>. QED  BY <2>1, <2>3, <2>4, <1>8 DEF LocalInv, TypeOK, RecvSave, bounds
<1>9. CASE RecvInvalidate(n)
  <2>0. guard[n] = "receive" /\ rcv[n].src \in Nodes
    BY <1>9 DEF RecvInvalidate, LocalInv, GuardInv, TaskInv
  <2>1. Locals'
    BY <2>0, <1>0, <1>1, <1>2, <1>3, <1>9 DEF RecvInvalidate
  <2>2. inbox' \in [Nodes -> Seq(Frame)]
    <3>1. [type |-> "invalidated", src |-> n] \in Frame
      BY DEF Frame
    <3>2. inbox \in [Nodes -> Seq(Frame)]
      BY DEF LocalInv, TypeOK
    <3>. QED  BY <3>1, <3>2, <2>0, <1>9, PostType DEF RecvInvalidate
  <2>. QED  BY <2>1, <2>2, <1>9 DEF LocalInv, TypeOK, RecvInvalidate, history, bounds
<1>10. CASE RecvInvalidated(n)
  <2>. DEFINE m == Head(inbox[n]).src
  <2>1. /\ m \in Nodes
        /\ Rest(n) \in [Nodes -> Seq(Frame)]
    BY <1>4, <1>10 DEF RecvInvalidated, Take
  <2>2. sessions' \in [Nodes -> [Nodes -> Session \cup {None}]]
    BY <2>1, <1>10, SaveUpdates DEF RecvInvalidated, Remove, LocalInv
  <2>. QED  BY <2>1, <2>2, <1>10
            DEF RecvInvalidated, Pop, LocalInv, TypeOK, GuardInv, TaskInv, history, bounds
<1>11. CASE RecvIgnore(n)
  BY <1>4, <1>11
     DEF RecvIgnore, Take, Pop, LocalInv, TypeOK, GuardInv, TaskInv, bounds, history
<1>. QED  BY <1>5, <1>6, <1>7, <1>8, <1>9, <1>10, <1>11 DEF LoopStep

-----------------------------------------------------------------------------
LEMMA LocalSendLock ==
    ASSUME LocalInv, NEW n \in Nodes, NEW s \in Senders, NEW d \in Nodes,
           SendLock(n, s, d)
    PROVE  LocalInv'
<1>. DEFINE t == [Idle EXCEPT !.pc = "get", !.dest = d, !.no = sent[n] + 1]
<1>1. sent[n] + 1 \in Nat /\ sent' \in [Nodes -> Nat]
  BY DEF SendLock, LocalInv, TypeOK
<1>2. t \in SendTask /\ t.pc = "get" /\ t.dest = d
  BY <1>1 DEF Idle, SendTask, SendPc
<1>3. /\ guard' \in [Nodes -> Senders \cup {"receive", None}]
      /\ guard[n] = None /\ guard'[n] = s
      /\ \A m \in Nodes : m # n => guard'[m] = guard[m]
  BY DEF SendLock, Lock, LocalInv, TypeOK
<1>4. /\ snd' \in [Nodes -> [Senders -> SendTask]]
      /\ GuardInv'
      /\ TaskInv'
  <2>1. Become(n, s, t) /\ rcv' = rcv
    BY DEF SendLock
  <2>. HIDE DEF t
  <2>. QED  BY <1>2, <1>3, <2>1, LocalBecome DEF Encrypted
<1>. QED  BY <1>1, <1>3, <1>4 DEF SendLock, LocalInv, TypeOK, history

LEMMA LocalReload ==
    ASSUME LocalInv, NEW n \in Nodes, Reload(n)
    PROVE  LocalInv'
<1>1. /\ snd' \in [Nodes -> [Senders -> SendTask]]
      /\ \A s \in Senders : snd'[n][s] = Idle
      /\ \A m \in Nodes : m # n => snd'[m] = snd[m]
  BY IdleType DEF Reload, LocalInv, TypeOK
<1>2. /\ rcv' \in [Nodes -> RecvTask] /\ rcv'[n] = RecvIdle
      /\ \A m \in Nodes : m # n => rcv'[m] = rcv[m]
  BY IdleType DEF Reload, LocalInv, TypeOK
<1>3. /\ guard' \in [Nodes -> Senders \cup {"receive", None}]
      /\ \A m \in Nodes : m # n => guard'[m] = guard[m]
  BY DEF Reload, LocalInv, TypeOK
<1>4. /\ sessions' \in [Nodes -> [Nodes -> Session \cup {None}]]
      /\ inbox' \in [Nodes -> Seq(Frame)]
      /\ reloads' \in Nat
  <2>0. /\ \/ sessions' = sessions
           \/ sessions' = [sessions EXCEPT ![n] = [d \in Nodes |-> None]]
        /\ inbox' = inbox \/ inbox' = [inbox EXCEPT ![n] = <<>>]
        /\ reloads' = reloads + 1
    BY DEF Reload
  <2>1. sessions' \in [Nodes -> [Nodes -> Session \cup {None}]]
    <3>1. sessions \in [Nodes -> [Nodes -> Session \cup {None}]]
      BY DEF LocalInv, TypeOK
    <3>2. [d \in Nodes |-> None] \in [Nodes -> Session \cup {None}]
      OBVIOUS
    <3>. QED  BY <3>1, <3>2, <2>0
  <2>2. inbox' \in [Nodes -> Seq(Frame)]
    <3>1. <<>> \in Seq(Frame)
      OBVIOUS
    <3>. QED  BY <3>1, <2>0 DEF LocalInv, TypeOK
  <2>. QED  BY <2>0, <2>1, <2>2 DEF LocalInv, TypeOK
<1>4a. cut' \in SUBSET Encryption
  BY EncOfType DEF Reload, LocalInv, TypeOK
<1>5. /\ Idle.pc \notin Active /\ Idle.pc # "wait" /\ Idle.pc \notin Encrypted
      /\ RecvIdle.pc = "idle"
  BY DEF Idle, Active, Encrypted, RecvIdle
<1>6. GuardInv'
  <2>1. \A m \in Nodes, u \in Senders : snd'[m][u].pc \in Active => guard'[m] = u
    BY <1>1, <1>3, <1>5 DEF LocalInv, GuardInv
  <2>2. \A m \in Nodes :
           rcv'[m].pc \in {"decrypted", "invalidate"} => guard'[m] = "receive"
    BY <1>2, <1>3, <1>5 DEF LocalInv, GuardInv
  <2>. QED  BY <2>1, <2>2 DEF GuardInv, Active
<1>7. TaskInv'
  BY <1>1, <1>2, <1>5 DEF LocalInv, TaskInv
<1>. QED  BY <1>1, <1>2, <1>3, <1>4, <1>4a, <1>6, <1>7 DEF Reload, LocalInv, TypeOK

LEMMA LocalDropSend ==
    ASSUME LocalInv, NEW n \in Nodes, NEW s \in Senders, DropSend(n, s)
    PROVE  LocalInv'
<1>1. /\ snd' \in [Nodes -> [Senders -> SendTask]]
      /\ guard' \in [Nodes -> Senders \cup {"receive", None}]
      /\ GuardInv' /\ TaskInv'
  BY LocalReturn DEF DropSend
<1>2. cut' \in SUBSET Encryption
  BY EncOfType DEF DropSend, LocalInv, TypeOK
<1>3. reloads' \in Nat
  BY DEF DropSend, LocalInv, TypeOK
<1>. QED  BY <1>1, <1>2, <1>3 DEF DropSend, LocalInv, TypeOK

LEMMA LocalRestart ==
    ASSUME LocalInv, NEW n \in Nodes, RestartLoop(n)
    PROVE  LocalInv'
<1>1. /\ rcv' \in [Nodes -> RecvTask] /\ rcv'[n] = RecvIdle
      /\ \A m \in Nodes : m # n => rcv'[m] = rcv[m]
  BY IdleType DEF RestartLoop, LocalInv, TypeOK
<1>2. /\ guard' \in [Nodes -> Senders \cup {"receive", None}]
      /\ \A m \in Nodes : m # n => guard'[m] = guard[m]
      /\ guard[n] # "receive" => guard'[n] = guard[n]
  BY DEF RestartLoop, LocalInv, TypeOK
<1>3. inbox' \in [Nodes -> Seq(Frame)] /\ reloads' \in Nat
  <2>1. reloads' \in Nat
    BY DEF RestartLoop, LocalInv, TypeOK
  <2>2. inbox' \in [Nodes -> Seq(Frame)]
    <3>1. <<>> \in Seq(Frame)
      OBVIOUS
    <3>. QED  BY <3>1 DEF RestartLoop, LocalInv, TypeOK
  <2>. QED  BY <2>1, <2>2
<1>4. RecvIdle.pc = "idle" /\ snd' = snd
  BY DEF RecvIdle, RestartLoop
<1>5. GuardInv'
  <2>1. \A m \in Nodes, u \in Senders : snd'[m][u].pc \in Active => guard'[m] = u
    BY <1>2, <1>4, SendersAssumption DEF LocalInv, GuardInv
  <2>2. \A m \in Nodes :
           rcv'[m].pc \in {"decrypted", "invalidate"} => guard'[m] = "receive"
    BY <1>1, <1>2, <1>4 DEF LocalInv, GuardInv
  <2>. QED  BY <2>1, <2>2 DEF GuardInv, Active
<1>6. TaskInv'
  BY <1>1, <1>4 DEF LocalInv, TaskInv
<1>. QED  BY <1>1, <1>2, <1>3, <1>4, <1>5, <1>6 DEF RestartLoop, LocalInv, TypeOK, history

LEMMA LocalNext == LocalInv /\ [Next]_vars => LocalInv'
<1>. SUFFICES ASSUME LocalInv, [Next]_vars PROVE LocalInv'
  OBVIOUS
<1>1. CASE UNCHANGED vars
  BY <1>1 DEF vars, LocalInv, TypeOK, GuardInv, TaskInv
<1>2. ASSUME NEW n \in Nodes, NEW d \in Nodes, Age(n, d) PROVE LocalInv'
  <2>1. sessions[n][d].key \in Key
    BY <1>2 DEF Age, LocalInv, TypeOK, Session
  <2>. QED  BY <2>1, <1>2 DEF Age, LocalInv, TypeOK, GuardInv, TaskInv, history, bounds
<1>3. ASSUME NEW n \in Nodes, Redeliver(n) PROVE LocalInv'
  <2>1. inbox' \in [Nodes -> Seq(Frame)] /\ replays' \in Nat
    <3>1. TypeOK /\ inbox[n] # <<>>
      BY <1>3 DEF Redeliver, LocalInv
    <3>2. Head(inbox[n]) \in Frame
      BY <3>1, PopType
    <3>3. inbox \in [Nodes -> Seq(Frame)] /\ inbox' = Post(inbox, n, Head(inbox[n]))
      BY <3>1, <1>3 DEF Redeliver, TypeOK
    <3>4. replays' \in Nat
      BY <3>1, <1>3 DEF Redeliver, TypeOK
    <3>. QED  BY <3>2, <3>3, <3>4, PostType
  <2>2. SameSends
    BY <1>3, RedeliverSends DEF LocalInv
  <2>3. UNCHANGED <<sessions, guard, rcv, eph, aged, sent, reloads, used, cut, log>>
    BY <1>3 DEF Redeliver, history
  <2>4. GuardInv'
    BY <2>2, <2>3 DEF SameSends, LocalInv, GuardInv
  <2>5. TaskInv'
    <3>1. ASSUME NEW m \in Nodes, NEW u \in Senders
          PROVE  /\ snd'[m][u].pc \in Active => snd'[m][u].dest \in Nodes
                 /\ snd'[m][u].pc = "wait" => snd'[m][u].init \in Eph
                 /\ snd'[m][u].pc \in Encrypted => snd'[m][u].copy \in Session
      BY <2>2 DEF SameSends, LocalInv, TaskInv
    <3>2. ASSUME NEW m \in Nodes
          PROVE  /\ rcv'[m].pc # "idle" => rcv'[m].src \in Nodes
                 /\ rcv'[m].pc \in {"respond", "decrypted"} => rcv'[m].copy \in Session
                 /\ rcv'[m].pc = "decrypted" => rcv'[m].got \in Encryption
      BY <2>3 DEF LocalInv, TaskInv
    <3>. QED  BY <3>1, <3>2 DEF TaskInv
  <2>. QED  BY <2>1, <2>2, <2>3, <2>4, <2>5 DEF SameSends, LocalInv, TypeOK
<1>. QED  BY <1>1, <1>2, <1>3, LocalSendLock, LocalSendStep, LocalLoopStep, LocalReload,
          LocalRestart, LocalDropSend
          DEF Next

(* Every reachable state is well typed, at most one task of a client is past
   the lock of its guard, and each task has the locals its next await uses. *)
THEOREM TypeCorrect == Spec => []TypeOK
<1>1. LocalInv => TypeOK
  BY DEF LocalInv
<1>. QED  BY <1>1, LocalInit, LocalNext, PTL DEF Spec

-----------------------------------------------------------------------------
(* Keys and nonces *)

KeyInv == OwnedInv /\ FreshInv /\ NonceInv

LEMMA KeyInit == Init => KeyInv /\ NonceUniqueUnlessCut /\ NoReplay
<1>. SUFFICES ASSUME Init PROVE KeyInv /\ NonceUniqueUnlessCut /\ NoReplay
  OBVIOUS
<1>1. \A n \in Nodes : /\ \A d \in Nodes : sessions[n][d] = None
                       /\ \A s \in Senders : snd[n][s] = Idle
                       /\ rcv[n] = RecvIdle
                       /\ DOMAIN log[n] = {}
  BY DEF Init
<1>2. /\ used = {} /\ Idle.pc # "wait" /\ Idle.pc \notin Encrypted
      /\ RecvIdle.pc \notin {"respond", "decrypted"}
  BY DEF Init, Idle, RecvIdle, Encrypted
<1>3. OwnedInv /\ FreshInv
  BY <1>1, <1>2 DEF OwnedInv, FreshInv
<1>4. NonceInv
  BY <1>1, <1>2 DEF NonceInv
<1>. QED  BY <1>1, <1>2, <1>3, <1>4 DEF KeyInv, NonceUniqueUnlessCut, NoReplay

(* A step that encrypts and delivers nothing, and that at most removes
   sessions and ends tasks. *)
Shrinks ==
    /\ used' = used /\ log' = log /\ cut \subseteq cut'
    /\ \A m \in Nodes : eph[m] <= eph'[m]
    /\ \A m, d \in Nodes : sessions'[m][d] = sessions[m][d] \/ sessions'[m][d] = None
    /\ \A m \in Nodes, u \in Senders :
         /\ snd'[m][u].pc = "wait" =>
              /\ snd[m][u].pc = "wait"
              /\ snd'[m][u].dest = snd[m][u].dest
              /\ snd'[m][u].init = snd[m][u].init
         /\ snd'[m][u].pc \in Encrypted =>
              /\ snd[m][u].pc \in Encrypted
              /\ snd'[m][u].dest = snd[m][u].dest
              /\ snd'[m][u].copy = snd[m][u].copy
              /\ snd'[m][u].no = snd[m][u].no
         /\ snd[m][u].pc \in Encrypted =>
              \/ snd'[m][u].pc \in Encrypted
              \/ sessions'[m][snd[m][u].dest] = None
              \/ EncOf(m, u) \in cut'
    /\ \A m \in Nodes : \/ rcv'[m] = rcv[m]
                        \/ rcv'[m].pc \notin {"respond", "decrypted"}

(* Ephemeral keys have numbers, so drawing more of them keeps Drew. *)
LEMMA EphNumbers ==
    ASSUME LocalInv
    PROVE  /\ \A m \in Nodes : eph[m] \in Nat
           /\ \A k \in Key : MyEph(k) \in Eph /\ MyEph(k).no \in Nat /\ Flip(k) \in Key
           /\ \A m, d \in Nodes : sessions[m][d] # None =>
                /\ sessions[m][d] \in Session /\ sessions[m][d].key \in Key
                /\ sessions[m][d].sendNonce \in Nat /\ sessions[m][d].recvNonce \in Nat
           /\ \A a \in used : a.key \in Key /\ a.nonce \in Nat /\ a.msg.from \in Nodes
           /\ \A m \in Nodes : \A i \in DOMAIN log[m] :
                log[m][i].key \in Key /\ log[m][i].nonce \in Nat
           /\ \A m \in Nodes, u \in Senders :
                /\ snd[m][u].pc = "wait" => snd[m][u].init.no \in Nat
                /\ snd[m][u].pc \in Encrypted =>
                     /\ snd[m][u].copy \in Session /\ snd[m][u].copy.key \in Key
                     /\ snd[m][u].copy.sendNonce \in Nat
                     /\ snd[m][u].copy.recvNonce \in Nat
           /\ \A m \in Nodes : rcv[m].pc \in {"respond", "decrypted"} =>
                /\ rcv[m].copy \in Session /\ rcv[m].copy.key \in Key
                /\ rcv[m].copy.sendNonce \in Nat /\ rcv[m].copy.recvNonce \in Nat
           /\ \A m \in Nodes : rcv[m].pc = "decrypted" =>
                rcv[m].got.key \in Key /\ rcv[m].got.nonce \in Nat
<1>1. \A k \in Key : MyEph(k) \in Eph /\ MyEph(k).no \in Nat /\ Flip(k) \in Key
  BY DEF Key, MyEph, Eph, Flip, OtherRole, Roles
<1>2. \A c \in Session : c.key \in Key /\ c.sendNonce \in Nat /\ c.recvNonce \in Nat
  BY DEF Session
<1>3. \A m, d \in Nodes : sessions[m][d] # None => sessions[m][d] \in Session
  BY DEF LocalInv, TypeOK
<1>4. \A a \in Encryption : a.key \in Key /\ a.nonce \in Nat /\ a.msg.from \in Nodes
  BY DEF Encryption, Message
<1>5. \A a \in used : a \in Encryption
  BY DEF LocalInv, TypeOK
<1>6. \A m \in Nodes : \A i \in DOMAIN log[m] : log[m][i] \in Encryption
  BY DEF LocalInv, TypeOK
<1>7. \A e \in Eph : e.no \in Nat
  BY DEF Eph
<1>8. \A m \in Nodes, u \in Senders :
        /\ snd[m][u].pc = "wait" => snd[m][u].init \in Eph
        /\ snd[m][u].pc \in Encrypted => snd[m][u].copy \in Session
  BY DEF LocalInv, TaskInv
<1>9. \A m \in Nodes :
        /\ rcv[m].pc \in {"respond", "decrypted"} => rcv[m].copy \in Session
        /\ rcv[m].pc = "decrypted" => rcv[m].got \in Encryption
  BY DEF LocalInv, TaskInv
<1>10. \A m \in Nodes : eph[m] \in Nat
  BY DEF LocalInv, TypeOK
<1>. QED  BY <1>1, <1>2, <1>3, <1>4, <1>5, <1>6, <1>7, <1>8, <1>9, <1>10

(* What a client has not saved stays so, unless its send saves or drops the
   session. *)
LEMMA UnsavedStays ==
    ASSUME NEW m \in Nodes, NEW d \in Nodes, cut \subseteq cut',
           \A u \in Senders : snd[m][u].pc \in Encrypted /\ snd[m][u].dest = d =>
              \/ EncOf(m, u) \in cut'
              \/ /\ snd'[m][u].pc \in Encrypted
                 /\ snd'[m][u].dest = snd[m][u].dest
                 /\ snd'[m][u].copy = snd[m][u].copy
                 /\ snd'[m][u].no = snd[m][u].no
    PROVE  \A a \in Unsaved(m, d) : a \in Unsaved(m, d)'
<1>. SUFFICES ASSUME NEW a \in Unsaved(m, d), a \notin cut
              PROVE  a \in Unsaved(m, d)'
  BY DEF Unsaved
<1>1. PICK u \in Senders : /\ snd[m][u].pc \in Encrypted /\ snd[m][u].dest = d
                           /\ a = EncOf(m, u)
  BY DEF Unsaved
<1>2. CASE EncOf(m, u) \in cut'
  BY <1>1, <1>2 DEF Unsaved
<1>3. CASE /\ snd'[m][u].pc \in Encrypted
           /\ snd'[m][u].dest = snd[m][u].dest
           /\ snd'[m][u].copy = snd[m][u].copy
           /\ snd'[m][u].no = snd[m][u].no
  <2>1. EncOf(m, u)' = a
    BY <1>1, <1>3 DEF EncOf
  <2>. QED  BY <2>1, <1>1, <1>3 DEF Unsaved
<1>. QED  BY <1>1, <1>2, <1>3

LEMMA KeyShrinks ==
    ASSUME LocalInv, LocalInv', KeyInv, Shrinks
    PROVE  KeyInv'
<1>0. \A n \in Nodes : \A e \in Eph : Drew(n, e) => Drew(n, e)'
  BY DEF Shrinks, Drew, Eph, LocalInv, TypeOK
<1>1. OwnedInv'
  <2>1. \A a \in used' : Drew(a.msg.from, MyEph(a.key))'
    BY <1>0, EphNumbers DEF KeyInv, OwnedInv, Shrinks
  <2>2. \A n, d \in Nodes :
           sessions'[n][d] # None => DrewFor(n, d, MyEph(sessions[n][d].key))'
    BY <1>0, EphNumbers DEF KeyInv, OwnedInv, Shrinks, DrewFor
  <2>3. \A n \in Nodes, s \in Senders :
          /\ snd'[n][s].pc = "wait" => DrewFor(n, snd[n][s].dest, snd[n][s].init)'
          /\ snd'[n][s].pc \in Encrypted =>
               DrewFor(n, snd[n][s].dest, MyEph(snd[n][s].copy.key))'
    BY <1>0, EphNumbers DEF KeyInv, OwnedInv, Shrinks, DrewFor, LocalInv, TaskInv
  <2>4. \A n \in Nodes :
          /\ rcv'[n].pc \in {"respond", "decrypted"} =>
               DrewFor(n, rcv[n].src, MyEph(rcv[n].copy.key))'
          /\ \A i \in DOMAIN log'[n] : Drew(n, MyEph(Flip(log[n][i].key)))'
    BY <1>0, EphNumbers DEF KeyInv, OwnedInv, Shrinks, DrewFor
  <2>. QED  BY <2>1, <2>2, <2>3, <2>4 DEF OwnedInv
<1>2. FreshInv'
  BY DEF KeyInv, FreshInv, Shrinks, Unspent
<1>3. NonceInv'
  <2>1. ASSUME NEW n \in Nodes, NEW d \in Nodes, sessions'[n][d] # None
        PROVE  /\ RecvCovers(n, sessions[n][d])'
               /\ SendCoversBut(sessions[n][d], Unsaved(n, d))'
    <3>1. sessions'[n][d] = sessions[n][d] /\ used' = used /\ log' = log
      BY <2>1 DEF Shrinks
    <3>2. \A a \in Unsaved(n, d) : a \in Unsaved(n, d)'
      BY <2>1, UnsavedStays DEF Shrinks
    <3>3. RecvCovers(n, sessions[n][d]) /\ SendCoversBut(sessions[n][d], Unsaved(n, d))
      BY <2>1, <3>1 DEF KeyInv, NonceInv
    <3>. QED  BY <3>1, <3>2, <3>3 DEF RecvCovers, SendCoversBut
  <2>2. \A n \in Nodes, s \in Senders : snd'[n][s].pc \in Encrypted =>
           SendCovers(snd[n][s].copy)' /\ RecvCovers(n, snd[n][s].copy)'
    BY DEF KeyInv, NonceInv, Shrinks, SendCovers, RecvCovers
  <2>3. ASSUME NEW n \in Nodes, rcv'[n].pc = "decrypted"
        PROVE  /\ rcv'[n] = rcv[n] /\ log' = log
               /\ SendCoversBut(rcv[n].copy, cut)'
    <3>1. rcv'[n] = rcv[n] /\ used' = used /\ cut \subseteq cut' /\ log' = log
      BY <2>3 DEF Shrinks
    <3>2. SendCoversBut(rcv[n].copy, cut)
      BY <2>3, <3>1 DEF KeyInv, NonceInv
    <3>. QED  BY <3>1, <3>2 DEF SendCoversBut
  <2>. QED  BY <2>1, <2>2, <2>3 DEF KeyInv, NonceInv
<1>. QED  BY <1>1, <1>2, <1>3 DEF KeyInv

(* send() stores its copy: nothing else of the client holds its key. *)
LEMMA KeySendSave ==
    ASSUME LocalInv, LocalInv', KeyInv, NEW n \in Nodes, NEW s \in Senders,
           SendSave(n, s)
    PROVE  KeyInv'
<1>. DEFINE d == snd[n][s].dest
            c == snd[n][s].copy
<1>1. /\ snd[n][s].pc \in Active /\ snd[n][s].pc \in Encrypted
      /\ d \in Nodes /\ c \in Session /\ TypeOK
  BY DEF SendSave, Active, SendPc, Encrypted, LocalInv, TaskInv
<1>2. /\ \A u \in Senders : u # s => snd[n][u].pc \notin Active
      /\ rcv[n].pc \in {"idle", "respond"}
  BY <1>1, HolderAlone
<1>3. /\ sessions'[n][d] = c
      /\ \A m, e \in Nodes : m # n \/ e # d => sessions'[m][e] = sessions[m][e]
  BY <1>1, SaveUpdates DEF SendSave
<1>4. /\ snd'[n][s].pc = "idle"
      /\ \A m \in Nodes, u \in Senders : m # n \/ u # s => snd'[m][u] = snd[m][u]
  BY <1>1, IdleType, BecomeUpdates DEF SendSave, Return, Idle
<1>5. used' = used /\ cut' = cut /\ log' = log /\ eph' = eph /\ rcv' = rcv
  BY DEF SendSave, history
<1>6. \A pc : pc \in Encrypted \/ pc = "wait" => pc \in Active /\ pc # "idle"
  BY DEF Active, SendPc, Encrypted
<1>. HIDE DEF d, c
<1>7. OwnedInv'
  <2>1. DrewFor(n, d, MyEph(c.key))
    BY <1>1 DEF KeyInv, OwnedInv, d, c
  <2>. QED  BY <2>1, <1>3, <1>4, <1>5, <1>6 DEF KeyInv, OwnedInv, DrewFor, Drew
<1>8. FreshInv'
  <2>1. rcv[n].pc = "respond" => MyEph(c.key) # MyEph(rcv[n].copy.key)
    BY <1>1 DEF KeyInv, FreshInv, c
  <2>. QED  BY <2>1, <1>2, <1>3, <1>4, <1>5, <1>6 DEF KeyInv, FreshInv, Unspent
<1>9. NonceInv'
  <2>1. SendCovers(c) /\ RecvCovers(n, c)
    BY <1>1 DEF KeyInv, NonceInv, c
  <2>2. ASSUME NEW m \in Nodes, NEW e \in Nodes, m # n \/ e # d
        PROVE  \A a \in Unsaved(m, e) : a \in Unsaved(m, e)'
    <3>1. \A u \in Senders : snd[m][u].pc \in Encrypted /\ snd[m][u].dest = e =>
             snd'[m][u] = snd[m][u]
      BY <2>2, <1>2, <1>4, <1>6 DEF d
    <3>. QED  BY <3>1, <1>5, UnsavedStays
  <2>3. ASSUME NEW m \in Nodes, NEW e \in Nodes, sessions'[m][e] # None
        PROVE  /\ RecvCovers(m, sessions[m][e])'
               /\ SendCoversBut(sessions[m][e], Unsaved(m, e))'
    BY <2>1, <2>2, <2>3, <1>3, <1>5
       DEF KeyInv, NonceInv, SendCovers, RecvCovers, SendCoversBut
  <2>. QED  BY <2>3, <1>3, <1>4, <1>5, <1>6
            DEF KeyInv, NonceInv, SendCovers, RecvCovers, SendCoversBut
<1>. QED  BY <1>7, <1>8, <1>9 DEF KeyInv

(* send() encrypts with a nonce above all used under the key. *)
LEMMA KeySendEncrypt ==
    ASSUME LocalInv, LocalInv', KeyInv, NonceUniqueUnlessCut,
           NEW n \in Nodes, NEW s \in Senders, SendEncrypt(n, s),
           sessions[n][snd[n][s].dest] # None
    PROVE  KeyInv' /\ NonceUniqueUnlessCut'
<1>. DEFINE d == snd[n][s].dest
            c == sessions[n][d]
            m0 == [from |-> n, no |-> snd[n][s].no, to |-> d]
            e0 == [key |-> c.key, nonce |-> c.sendNonce + 1, msg |-> m0]
            c1 == [c EXCEPT !.sendNonce = @ + 1]
            t == [snd[n][s] EXCEPT !.pc = "transmit", !.copy = c1]
<1>1. /\ snd[n][s].pc = "load" /\ snd[n][s].pc \in Active
      /\ d \in Nodes /\ c \in Session /\ TypeOK /\ snd[n][s] \in SendTask
  <2>1. snd[n][s].pc = "load" /\ snd[n][s].pc \in Active
    BY DEF SendEncrypt, Active, SendPc
  <2>2. d \in Nodes /\ TypeOK /\ snd[n][s] \in SendTask
    BY <2>1 DEF LocalInv, TaskInv, TypeOK
  <2>3. c \in Session
    BY <2>2 DEF TypeOK
  <2>. QED  BY <2>1, <2>2, <2>3
<1>2. /\ \A u \in Senders : u # s => snd[n][u].pc \notin Active
      /\ rcv[n].pc \in {"idle", "respond"}
  BY <1>1, HolderAlone
<1>3. /\ c1 \in Session /\ c1.key = c.key /\ c1.sendNonce = c.sendNonce + 1
      /\ c1.recvNonce = c.recvNonce /\ c.sendNonce \in Nat
  BY <1>1 DEF Session
<1>4. Become(n, s, t) /\ used' = used \cup {e0}
  BY DEF SendEncrypt
<1>5. t \in SendTask /\ t.pc = "transmit" /\ t.dest = d /\ t.copy = c1
  <2>. HIDE DEF c1
  <2>. QED  BY <1>1, <1>3 DEF SendTask, SendPc
<1>6. /\ snd'[n][s] = t
      /\ \A m \in Nodes, u \in Senders : m # n \/ u # s => snd'[m][u] = snd[m][u]
  <2>. HIDE DEF t
  <2>. QED  BY <1>1, <1>4, <1>5, BecomeUpdates
<1>7. sessions' = sessions /\ cut' = cut /\ log' = log /\ eph' = eph /\ rcv' = rcv
  BY DEF SendEncrypt
<1>8. e0.key = c.key /\ e0.nonce = c.sendNonce + 1 /\ e0.msg.from = n
  OBVIOUS
<1>8a. EncOf(n, s)' = e0
  <2>1. t.no = snd[n][s].no
    BY <1>1 DEF SendTask
  <2>. HIDE DEF t, c1, c
  <2>. QED  BY <2>1, <1>3, <1>5, <1>6 DEF EncOf
<1>9. \A pc : pc \in Encrypted \/ pc = "wait" => pc \in Active /\ pc # "load"
  BY DEF Active, SendPc, Encrypted
<1>10. "transmit" \in Encrypted /\ "transmit" # "wait"
  BY DEF Encrypted
<1>11. DrewFor(n, d, MyEph(c.key))
  BY <1>1 DEF KeyInv, OwnedInv
<1>12. SendCoversBut(c, cut) /\ RecvCovers(n, c)
  <2>1. SendCoversBut(c, Unsaved(n, d)) /\ RecvCovers(n, c)
    BY <1>1 DEF KeyInv, NonceInv
  <2>2. \A u \in Senders : snd[n][u].pc \notin Encrypted
    BY <1>1, <1>2, <1>9
  <2>3. \A a \in Unsaved(n, d) : a \in cut
    BY <2>2 DEF Unsaved
  <2>. QED  BY <2>1, <2>3 DEF SendCoversBut
<1>13. \A m, e \in Nodes : (m # n \/ e # d) /\ sessions[m][e] # None =>
          sessions[m][e].key # c.key
  BY <1>11 DEF KeyInv, OwnedInv, DrewFor, Drew
<1>. HIDE DEF d, c, c1, t, e0, m0
<1>14. OwnedInv'
  BY <1>5, <1>3, <1>4, <1>6, <1>7, <1>8, <1>10, <1>11
     DEF KeyInv, OwnedInv, DrewFor, Drew
<1>15. FreshInv'
  <2>1. rcv[n].pc = "respond" => MyEph(c.key) # MyEph(rcv[n].copy.key)
    <3>1. c = sessions[n][d] /\ c # None
      BY DEF c, d
    <3>. QED  BY <3>1, <1>1 DEF KeyInv, FreshInv, Unspent
  <2>2. \A m \in Nodes, u \in Senders : snd'[m][u].pc = "wait" =>
           m # n /\ snd'[m][u] = snd[m][u]
    BY <1>2, <1>5, <1>6, <1>9, <1>10
  <2>3. \A m \in Nodes, u \in Senders :
           m # n /\ snd[m][u].pc = "wait" => snd[m][u].init # MyEph(c.key)
    BY <1>11 DEF KeyInv, OwnedInv, DrewFor, Drew
  <2>4. \A m \in Nodes :
           m # n /\ rcv[m].pc = "respond" => MyEph(rcv[m].copy.key) # MyEph(c.key)
    BY <1>11 DEF KeyInv, OwnedInv, DrewFor, Drew
  <2>5. \A m \in Nodes, u \in Senders :
          snd'[m][u].pc = "wait" =>
             /\ Unspent(m, snd[m][u].init)'
             /\ rcv'[m].pc = "respond" => MyEph(rcv'[m].copy.key) # snd'[m][u].init
    BY <2>2, <2>3, <1>4, <1>7, <1>8 DEF KeyInv, FreshInv, Unspent
  <2>6. \A m \in Nodes : rcv'[m].pc = "respond" => Unspent(m, MyEph(rcv[m].copy.key))'
    BY <2>1, <2>4, <1>4, <1>7, <1>8 DEF KeyInv, FreshInv, Unspent
  <2>7. \A m \in Nodes, u \in Senders :
           rcv'[m].pc = "respond" /\ snd'[m][u].pc \in Encrypted =>
             MyEph(snd'[m][u].copy.key) # MyEph(rcv'[m].copy.key)
    BY <2>1, <1>3, <1>5, <1>6, <1>7 DEF KeyInv, FreshInv
  <2>. QED  BY <2>5, <2>6, <2>7 DEF FreshInv
<1>16. /\ \A a \in used' : a.key = c1.key => a.nonce <= c1.sendNonce
       /\ \A i \in DOMAIN log'[n] :
            log'[n][i].key = Flip(c1.key) => log'[n][i].nonce <= c1.recvNonce
  <2>1. \A a \in used : a.nonce \in Nat
    BY EphNumbers
  <2>2. \A a \in used' : a.key = c1.key => a.nonce <= c1.sendNonce
    BY <2>1, <1>3, <1>4, <1>8, <1>12 DEF SendCoversBut
  <2>3. \A i \in DOMAIN log'[n] :
           log'[n][i].key = Flip(c1.key) => log'[n][i].nonce <= c1.recvNonce
    BY <1>3, <1>7, <1>12 DEF RecvCovers
  <2>. QED  BY <2>2, <2>3
<1>17. NonceInv'
  <2>1. ASSUME NEW m \in Nodes, NEW e \in Nodes, sessions'[m][e] # None
        PROVE  SendCoversBut(sessions[m][e], Unsaved(m, e))'
    <3>1. CASE m # n \/ e # d
      <4>1. \A a \in Unsaved(m, e) : a \in Unsaved(m, e)'
        <5>1. \A u \in Senders : snd[m][u].pc \in Encrypted /\ snd[m][u].dest = e =>
                 snd'[m][u] = snd[m][u]
          BY <1>1, <1>6, <1>9
        <5>. QED  BY <5>1, <1>7, UnsavedStays
      <4>2. SendCoversBut(sessions[m][e], Unsaved(m, e)) /\ sessions[m][e].key # c.key
        BY <2>1, <3>1, <1>7, <1>13 DEF KeyInv, NonceInv
      <4>. QED  BY <4>1, <4>2, <1>4, <1>7, <1>8 DEF SendCoversBut
    <3>2. CASE m = n /\ e = d
      <4>0. s \in {u \in Senders : snd'[m][u].pc \in Encrypted /\ snd'[m][u].dest = e}
        BY <3>2, <1>5, <1>6, <1>10
      <4>1. cut \subseteq Unsaved(m, e)' /\ e0 \in Unsaved(m, e)'
        BY <3>2, <4>0, <1>7, <1>8a DEF Unsaved
      <4>2. sessions'[m][e] = c
        BY <3>2, <1>7 DEF c
      <4>. QED  BY <3>2, <4>1, <4>2, <1>4, <1>8, <1>12 DEF SendCoversBut
    <3>. QED  BY <3>1, <3>2
  <2>2. \A m, e \in Nodes : sessions'[m][e] # None => RecvCovers(m, sessions[m][e])'
    BY <1>7 DEF KeyInv, NonceInv, RecvCovers
  <2>3. \A m \in Nodes, u \in Senders : snd'[m][u].pc \in Encrypted =>
           SendCovers(snd[m][u].copy)' /\ RecvCovers(m, snd[m][u].copy)'
    <3>1. SendCovers(snd[n][s].copy)' /\ RecvCovers(n, snd[n][s].copy)'
      BY <1>16, <1>5, <1>6 DEF SendCovers, RecvCovers
    <3>2. ASSUME NEW m \in Nodes, NEW u \in Senders, m # n \/ u # s,
                 snd'[m][u].pc \in Encrypted
          PROVE  SendCovers(snd[m][u].copy)' /\ RecvCovers(m, snd[m][u].copy)'
      <4>1. m # n /\ snd'[m][u] = snd[m][u]
        BY <3>2, <1>2, <1>6, <1>9
      <4>2. snd[m][u].copy.key # c.key
        BY <3>2, <4>1, <1>11 DEF KeyInv, OwnedInv, DrewFor, Drew
      <4>. QED  BY <3>2, <4>1, <4>2, <1>4, <1>7, <1>8
                DEF KeyInv, NonceInv, SendCovers, RecvCovers
    <3>. QED  BY <3>1, <3>2
  <2>4. \A m \in Nodes : rcv'[m].pc = "decrypted" =>
          /\ SendCoversBut(rcv[m].copy, cut)'
          /\ rcv'[m].got.key = Flip(rcv'[m].copy.key)
          /\ rcv'[m].got.nonce = rcv'[m].copy.recvNonce
          /\ \A i \in DOMAIN log'[m] : log'[m][i].key = rcv'[m].got.key
                => log'[m][i].nonce < rcv'[m].got.nonce
    <3>1. \A m \in Nodes : rcv[m].pc = "decrypted" => rcv[m].copy.key # c.key
      BY <1>2, <1>11 DEF KeyInv, OwnedInv, DrewFor, Drew
    <3>. QED  BY <3>1, <1>4, <1>7, <1>8 DEF KeyInv, NonceInv, SendCoversBut
  <2>. QED  BY <2>1, <2>2, <2>3, <2>4 DEF NonceInv
<1>18. NonceUniqueUnlessCut'
  <2>1. \A a \in used : a.key = e0.key /\ a.nonce = e0.nonce => a \in cut
    BY <1>3, <1>8, <1>12, EphNumbers DEF SendCoversBut
  <2>. QED  BY <2>1, <1>4, <1>7 DEF NonceUniqueUnlessCut
<1>. QED  BY <1>14, <1>15, <1>17, <1>18 DEF KeyInv

LEMMA FlipTwice ==
    ASSUME NEW k \in Key
    PROVE  Flip(Flip(k)) = k
<1>1. k.role \in Roles
  BY DEF Key
<1>2. OtherRole(OtherRole(k.role)) = k.role
  BY <1>1 DEF OtherRole, Roles
<1>3. k = [init |-> k.init, resp |-> k.resp, role |-> k.role]
  BY DEF Key
<1>. QED  BY <1>2, <1>3 DEF Flip

(* Every ephemeral key in use was drawn before, so the next one of n is new. *)
LEMMA NextEphNew ==
    ASSUME LocalInv, KeyInv, NEW n \in Nodes, NEW d \in Nodes
    PROVE  /\ Unspent(n, NewEph(n, d))
           /\ \A s \in Senders :
                /\ snd[n][s].pc = "wait" => snd[n][s].init # NewEph(n, d)
                /\ snd[n][s].pc \in Encrypted =>
                     MyEph(snd[n][s].copy.key) # NewEph(n, d)
           /\ rcv[n].pc \in {"respond", "decrypted"} =>
                MyEph(rcv[n].copy.key) # NewEph(n, d)
<1>1. \A m \in Nodes : \A e : Drew(m, e) => e # NewEph(n, d)
  BY EphNumbers DEF Drew, NewEph
<1>. QED  BY <1>1, EphNumbers DEF KeyInv, OwnedInv, DrewFor, Unspent

LEMMA KeyHandshakeStart ==
    ASSUME LocalInv, LocalInv', KeyInv, NEW n \in Nodes, NEW s \in Senders,
           HandshakeStart(n, s)
    PROVE  KeyInv'
<1>. DEFINE d == snd[n][s].dest
            i == NewEph(n, d)
            t == [snd[n][s] EXCEPT !.pc = "wait", !.init = i]
<1>1. /\ snd[n][s].pc = "start" /\ snd[n][s].pc \in Active /\ d \in Nodes
      /\ TypeOK /\ snd[n][s] \in SendTask
  <2>1. snd[n][s].pc = "start" /\ snd[n][s].pc \in Active
    BY DEF HandshakeStart, Active, SendPc
  <2>2. d \in Nodes
    BY <2>1 DEF LocalInv, TaskInv
  <2>3. TypeOK /\ snd[n][s] \in SendTask
    BY DEF LocalInv, TypeOK
  <2>. QED  BY <2>1, <2>2, <2>3
<1>2. \A u \in Senders : u # s => snd[n][u].pc \notin Active
  BY <1>1, HolderAlone
<1>3. i \in Eph /\ i.by = n /\ i.for = d /\ i.no = eph[n] + 1
  BY <1>1 DEF NewEph, Eph, TypeOK
<1>4. t \in SendTask /\ t.pc = "wait" /\ t.dest = d /\ t.init = i
  <2>. HIDE DEF i
  <2>. QED  BY <1>1, <1>3 DEF SendTask, SendPc
<1>5. /\ snd'[n][s] = t
      /\ \A m \in Nodes, u \in Senders : m # n \/ u # s => snd'[m][u] = snd[m][u]
  <2>1. Become(n, s, t)
    BY DEF HandshakeStart
  <2>. HIDE DEF t
  <2>. QED  BY <2>1, <1>1, <1>4, BecomeUpdates
<1>6. /\ sessions' = sessions /\ used' = used /\ log' = log /\ rcv' = rcv
      /\ cut' = cut
      /\ eph' = [eph EXCEPT ![n] = @ + 1]
  BY DEF HandshakeStart, history
<1>7. \A m \in Nodes : eph[m] \in Nat /\ eph'[m] \in Nat /\ eph[m] <= eph'[m]
  BY <1>1, <1>6 DEF TypeOK
<1>8. \A m \in Nodes : \A e \in Eph : Drew(m, e) => Drew(m, e)'
  BY <1>7 DEF Drew, Eph
<1>9. "wait" \notin Encrypted /\ (\A pc : pc \in Encrypted => pc \in Active /\ pc # "start")
  BY DEF Encrypted, Active, SendPc
<1>10. i.no <= eph'[n]
  <2>1. eph'[n] = eph[n] + 1
    BY <1>1, <1>6 DEF TypeOK
  <2>. HIDE DEF i
  <2>. QED  BY <2>1, <1>3, <1>7
<1>11. /\ Unspent(n, i)
       /\ rcv[n].pc \in {"respond", "decrypted"} => MyEph(rcv[n].copy.key) # i
  BY <1>1, NextEphNew
<1>. HIDE DEF d, i, t
<1>12. OwnedInv'
  <2>1. \A a \in used' : Drew(a.msg.from, MyEph(a.key))'
    BY <1>6, <1>8, EphNumbers DEF KeyInv, OwnedInv
  <2>2. \A m, e \in Nodes :
           sessions'[m][e] # None => DrewFor(m, e, MyEph(sessions[m][e].key))'
    BY <1>6, <1>8, EphNumbers DEF KeyInv, OwnedInv, DrewFor
  <2>3. \A m \in Nodes, u \in Senders : snd'[m][u].pc = "wait" =>
           DrewFor(m, snd[m][u].dest, snd[m][u].init)'
    <3>1. DrewFor(n, snd[n][s].dest, snd[n][s].init)'
      BY <1>3, <1>4, <1>5, <1>10 DEF DrewFor, Drew
    <3>2. ASSUME NEW m \in Nodes, NEW u \in Senders, m # n \/ u # s,
                 snd'[m][u].pc = "wait"
          PROVE  DrewFor(m, snd[m][u].dest, snd[m][u].init)'
      <4>1. snd'[m][u] = snd[m][u]
        BY <3>2, <1>5
      <4>2. DrewFor(m, snd[m][u].dest, snd[m][u].init) /\ snd[m][u].init \in Eph
        BY <3>2, <4>1 DEF KeyInv, OwnedInv, LocalInv, TaskInv
      <4>. QED  BY <4>1, <4>2, <1>8 DEF DrewFor
    <3>. QED  BY <3>1, <3>2
  <2>4. \A m \in Nodes, u \in Senders : snd'[m][u].pc \in Encrypted =>
           DrewFor(m, snd[m][u].dest, MyEph(snd[m][u].copy.key))'
    BY <1>4, <1>5, <1>8, <1>9, EphNumbers DEF KeyInv, OwnedInv, DrewFor
  <2>5. \A m \in Nodes :
          /\ rcv'[m].pc \in {"respond", "decrypted"} =>
               DrewFor(m, rcv[m].src, MyEph(rcv[m].copy.key))'
          /\ \A j \in DOMAIN log'[m] : Drew(m, MyEph(Flip(log[m][j].key)))'
    BY <1>6, <1>8, EphNumbers DEF KeyInv, OwnedInv, DrewFor
  <2>. QED  BY <2>1, <2>2, <2>3, <2>4, <2>5 DEF OwnedInv
<1>13. FreshInv'
  BY <1>4, <1>5, <1>6, <1>9, <1>11 DEF KeyInv, FreshInv, Unspent
<1>14. NonceInv'
  <2>1. ASSUME NEW m \in Nodes, NEW e \in Nodes
        PROVE  \A a \in Unsaved(m, e) : a \in Unsaved(m, e)'
    <3>1. \A u \in Senders : snd[m][u].pc \in Encrypted => snd'[m][u] = snd[m][u]
      BY <1>1, <1>5, <1>9
    <3>. QED  BY <3>1, <1>6, UnsavedStays
  <2>2. \A m, e \in Nodes : sessions'[m][e] # None =>
           SendCoversBut(sessions[m][e], Unsaved(m, e))'
    BY <2>1, <1>6 DEF KeyInv, NonceInv, SendCoversBut
  <2>. QED  BY <2>2, <1>4, <1>5, <1>6, <1>9
            DEF KeyInv, NonceInv, SendCovers, RecvCovers, SendCoversBut
<1>. QED  BY <1>12, <1>13, <1>14 DEF KeyInv

(* The initiator stores a session built from its own, unspent ephemeral. *)
LEMMA KeyHandshakeFinish ==
    ASSUME LocalInv, LocalInv', KeyInv, NEW n \in Nodes, NEW s \in Senders,
           HandshakeFinish(n, s), snd[n][s].reply.init = snd[n][s].init
    PROVE  KeyInv'
<1>. DEFINE d == snd[n][s].dest
            i == snd[n][s].init
            c == NewSession(i, snd[n][s].reply.resp, "initiator")
<1>1. /\ snd[n][s].pc = "wait" /\ snd[n][s].pc \in Active /\ d \in Nodes
      /\ i \in Eph /\ TypeOK /\ snd[n][s] \in SendTask
  <2>1. snd[n][s].pc = "wait" /\ snd[n][s].pc \in Active
    BY DEF HandshakeFinish, Active, SendPc
  <2>2. d \in Nodes /\ i \in Eph
    BY <2>1 DEF LocalInv, TaskInv
  <2>3. TypeOK /\ snd[n][s] \in SendTask
    BY DEF LocalInv, TypeOK
  <2>. QED  BY <2>1, <2>2, <2>3
<1>2. /\ \A u \in Senders : u # s => snd[n][u].pc \notin Active
      /\ rcv[n].pc \in {"idle", "respond"}
  BY <1>1, HolderAlone
<1>3. /\ Save(n, d, c) /\ Goto(n, s, "load")
      /\ used' = used /\ cut' = cut /\ log' = log /\ eph' = eph /\ rcv' = rcv
  BY DEF HandshakeFinish, history
<1>4. c \in Session /\ c.key \in Key /\ MyEph(c.key) = i
  <2>1. snd[n][s].reply \in Reply
    BY <1>1 DEF HandshakeFinish, SendTask
  <2>. QED  BY <2>1, <1>1 DEF NewSession, Session, Key, Roles, Reply, MyEph
<1>5. /\ sessions'[n][d] = c
      /\ \A m, e \in Nodes : m # n \/ e # d => sessions'[m][e] = sessions[m][e]
  <2>. HIDE DEF c
  <2>. QED  BY <1>1, <1>3, <1>4, SaveUpdates
<1>6. /\ snd'[n][s].pc = "load"
      /\ \A m \in Nodes, u \in Senders : m # n \/ u # s => snd'[m][u] = snd[m][u]
  <2>. DEFINE t == [snd[n][s] EXCEPT !.pc = "load"]
  <2>1. t \in SendTask /\ t.pc = "load"
    BY <1>1 DEF SendTask, SendPc
  <2>2. Become(n, s, t)
    BY <1>3 DEF Goto
  <2>. HIDE DEF t
  <2>. QED  BY <2>1, <2>2, <1>1, BecomeUpdates
<1>7. "wait" \notin Encrypted /\ "load" \notin Encrypted /\
      \A pc : pc \in Encrypted \/ pc = "wait" => pc \in Active
  BY DEF Encrypted, Active, SendPc
<1>8. /\ DrewFor(n, d, i) /\ Unspent(n, i)
      /\ rcv[n].pc = "respond" => MyEph(rcv[n].copy.key) # i
  BY <1>1 DEF KeyInv, OwnedInv, FreshInv
<1>9. /\ \A a \in used : a.key # c.key
      /\ \A j \in DOMAIN log[n] : log[n][j].key # Flip(c.key)
  BY <1>4, <1>8, FlipTwice DEF Unspent
<1>. HIDE DEF d, i, c
<1>10. OwnedInv'
  BY <1>3, <1>4, <1>5, <1>6, <1>7, <1>8 DEF KeyInv, OwnedInv, DrewFor, Drew
<1>11. FreshInv'
  BY <1>2, <1>3, <1>4, <1>5, <1>6, <1>7, <1>8 DEF KeyInv, FreshInv, Unspent
<1>12. NonceInv'
  <2>1. \A m \in Nodes, u \in Senders :
           snd[m][u].pc \in Encrypted => snd'[m][u] = snd[m][u]
    BY <1>1, <1>6, <1>7
  <2>2. \A m \in Nodes, u \in Senders :
           snd'[m][u].pc \in Encrypted => snd'[m][u] = snd[m][u]
    BY <1>6, <1>7
  <2>3. /\ \A a \in used' : a.key # sessions'[n][d].key
        /\ \A j \in DOMAIN log'[n] : log'[n][j].key # Flip(sessions'[n][d].key)
    BY <1>3, <1>5, <1>9
  <2>4. \A m, e \in Nodes : sessions'[m][e] # None =>
          /\ RecvCovers(m, sessions[m][e])'
          /\ SendCoversBut(sessions[m][e], Unsaved(m, e))'
    <3>1. \A m, e \in Nodes : \A a \in Unsaved(m, e) : a \in Unsaved(m, e)'
      BY <1>3, <2>1, UnsavedStays
    <3>. QED  BY <3>1, <1>3, <1>5, <2>3 DEF KeyInv, NonceInv, SendCoversBut, RecvCovers
  <2>5. \A m \in Nodes, u \in Senders : snd'[m][u].pc \in Encrypted =>
           SendCovers(snd[m][u].copy)' /\ RecvCovers(m, snd[m][u].copy)'
    BY <1>3, <2>2 DEF KeyInv, NonceInv, SendCovers, RecvCovers
  <2>. QED  BY <2>4, <2>5, <1>3 DEF KeyInv, NonceInv, SendCoversBut
<1>. QED  BY <1>10, <1>11, <1>12 DEF KeyInv

(* The responder does the same, without the guard. *)
LEMMA KeyRespondSave ==
    ASSUME LocalInv, LocalInv', KeyInv, NEW n \in Nodes, RecvRespondSave(n)
    PROVE  KeyInv'
<1>. DEFINE d == rcv[n].src
            c == rcv[n].copy
<1>1. rcv[n].pc = "respond" /\ d \in Nodes /\ c \in Session /\ TypeOK
  BY DEF RecvRespondSave, LocalInv, TaskInv
<1>2. /\ sessions'[n][d] = c
      /\ \A m, e \in Nodes : m # n \/ e # d => sessions'[m][e] = sessions[m][e]
  BY <1>1, SaveUpdates DEF RecvRespondSave
<1>3. /\ used' = used /\ cut' = cut /\ log' = log /\ eph' = eph /\ snd' = snd
      /\ rcv'[n].pc = "idle" /\ \A m \in Nodes : m # n => rcv'[m] = rcv[m]
  BY <1>1 DEF RecvRespondSave, history, TypeOK, RecvIdle
<1>4. /\ DrewFor(n, d, MyEph(c.key)) /\ Unspent(n, MyEph(c.key))
      /\ \A s \in Senders :
           /\ snd[n][s].pc = "wait" => MyEph(c.key) # snd[n][s].init
           /\ snd[n][s].pc \in Encrypted => MyEph(c.key) # MyEph(snd[n][s].copy.key)
  BY <1>1 DEF KeyInv, OwnedInv, FreshInv
<1>5. /\ \A a \in used : a.key # c.key
      /\ \A j \in DOMAIN log[n] : log[n][j].key # Flip(c.key)
  <2>1. c.key \in Key
    BY <1>1 DEF Session
  <2>. QED  BY <2>1, <1>4, FlipTwice DEF Unspent
<1>. HIDE DEF d, c
<1>6. OwnedInv'
  BY <1>2, <1>3, <1>4 DEF KeyInv, OwnedInv, DrewFor, Drew
<1>7. FreshInv'
  BY <1>2, <1>3, <1>4 DEF KeyInv, FreshInv, Unspent
<1>8. NonceInv'
  <2>1. \A m, e \in Nodes : \A a \in Unsaved(m, e) : a \in Unsaved(m, e)'
    BY <1>3, UnsavedStays
  <2>2. \A m, e \in Nodes : sessions'[m][e] # None =>
          /\ RecvCovers(m, sessions[m][e])'
          /\ SendCoversBut(sessions[m][e], Unsaved(m, e))'
    BY <2>1, <1>2, <1>3, <1>5 DEF KeyInv, NonceInv, SendCoversBut, RecvCovers
  <2>. QED  BY <2>2, <1>3 DEF KeyInv, NonceInv, SendCovers, SendCoversBut, RecvCovers
<1>. QED  BY <1>6, <1>7, <1>8 DEF KeyInv

LEMMA KeyRecvStart ==
    ASSUME LocalInv, LocalInv', KeyInv, NEW n \in Nodes, NEW f \in Frame, NEW r,
           f.src \in Nodes, f.init \in Eph, r = NewEph(n, f.src), SameSends,
           eph' = [eph EXCEPT ![n] = @ + 1],
           rcv' = [rcv EXCEPT ![n] = [RecvIdle EXCEPT !.pc = "respond", !.src = f.src,
                     !.copy = NewSession(f.init, r, "responder")]],
           UNCHANGED <<sessions, used, cut, log>>
    PROVE  KeyInv'
<1>. DEFINE c == NewSession(f.init, r, "responder")
            t == [RecvIdle EXCEPT !.pc = "respond", !.src = f.src, !.copy = c]
<1>0. eph \in [Nodes -> Nat] /\ rcv \in [Nodes -> RecvTask]
  BY DEF LocalInv, TypeOK
<1>1. \A m \in Nodes : eph[m] \in Nat /\ eph'[m] \in Nat /\ eph[m] <= eph'[m]
  BY <1>0
<1>2. r \in Eph /\ r.by = n /\ r.for = f.src /\ r.no <= eph'[n]
  BY <1>0 DEF NewEph, Eph
<1>3. MyEph(c.key) = r
  BY DEF NewSession, MyEph
<1>4. /\ rcv'[n].pc = "respond" /\ rcv'[n].src = f.src /\ rcv'[n].copy = c
      /\ \A m \in Nodes : m # n => rcv'[m] = rcv[m]
  <2>. HIDE DEF c
  <2>1. t.pc = "respond" /\ t.src = f.src /\ t.copy = c
    BY DEF RecvIdle
  <2>2. rcv' = [rcv EXCEPT ![n] = t]
    BY DEF c
  <2>. HIDE DEF t
  <2>. QED  BY <1>0, <2>1, <2>2
<1>5. \A m \in Nodes : \A e \in Eph : Drew(m, e) => Drew(m, e)'
  BY <1>1 DEF Drew, Eph
<1>6. /\ Unspent(n, r)
      /\ \A s \in Senders :
           /\ snd[n][s].pc = "wait" => snd[n][s].init # r
           /\ snd[n][s].pc \in Encrypted => MyEph(snd[n][s].copy.key) # r
  BY NextEphNew
<1>6a. \A m \in Nodes, u \in Senders :
         /\ snd'[m][u].pc = snd[m][u].pc /\ snd'[m][u].dest = snd[m][u].dest
         /\ snd'[m][u].init = snd[m][u].init /\ snd'[m][u].copy = snd[m][u].copy
  BY DEF SameSends
<1>. HIDE DEF c, t
<1>7. OwnedInv'
  <2>1. \A a \in used' : Drew(a.msg.from, MyEph(a.key))'
    BY <1>5, EphNumbers DEF KeyInv, OwnedInv
  <2>2. \A m, e \in Nodes :
           sessions'[m][e] # None => DrewFor(m, e, MyEph(sessions[m][e].key))'
    BY <1>5, EphNumbers DEF KeyInv, OwnedInv, DrewFor
  <2>3. \A m \in Nodes, u \in Senders :
          /\ snd'[m][u].pc = "wait" => DrewFor(m, snd[m][u].dest, snd[m][u].init)'
          /\ snd'[m][u].pc \in Encrypted =>
               DrewFor(m, snd[m][u].dest, MyEph(snd[m][u].copy.key))'
    <3>1. ASSUME NEW m \in Nodes, NEW u \in Senders, snd'[m][u].pc = "wait"
          PROVE  DrewFor(m, snd[m][u].dest, snd[m][u].init)'
      <4>1. snd[m][u].init \in Eph /\ DrewFor(m, snd[m][u].dest, snd[m][u].init)
        BY <3>1, <1>6a DEF KeyInv, OwnedInv, LocalInv, TaskInv
      <4>. QED  BY <4>1, <1>5, <1>6a DEF DrewFor
    <3>2. ASSUME NEW m \in Nodes, NEW u \in Senders, snd'[m][u].pc \in Encrypted
          PROVE  DrewFor(m, snd[m][u].dest, MyEph(snd[m][u].copy.key))'
      <4>1. DrewFor(m, snd[m][u].dest, MyEph(snd[m][u].copy.key))
        BY <3>2, <1>6a DEF KeyInv, OwnedInv
      <4>2. MyEph(snd[m][u].copy.key) \in Eph
        BY <3>2, <1>6a, EphNumbers
      <4>. QED  BY <4>1, <4>2, <1>5, <1>6a DEF DrewFor
    <3>. QED  BY <3>1, <3>2
  <2>4. \A m \in Nodes : rcv'[m].pc \in {"respond", "decrypted"} =>
          DrewFor(m, rcv[m].src, MyEph(rcv[m].copy.key))'
    <3>1. DrewFor(n, rcv[n].src, MyEph(rcv[n].copy.key))'
      BY <1>2, <1>3, <1>4 DEF DrewFor, Drew
    <3>. QED  BY <3>1, <1>4, <1>5, EphNumbers DEF KeyInv, OwnedInv, DrewFor
  <2>5. \A m \in Nodes : \A j \in DOMAIN log'[m] : Drew(m, MyEph(Flip(log[m][j].key)))'
    BY <1>5, EphNumbers DEF KeyInv, OwnedInv
  <2>. QED  BY <2>1, <2>2, <2>3, <2>4, <2>5 DEF OwnedInv
<1>8. FreshInv'
  <2>0. \A m \in Nodes : \A e : Unspent(m, e) =>
          /\ \A d \in Nodes : sessions'[m][d] # None => MyEph(sessions'[m][d].key) # e
          /\ \A a \in used' : MyEph(a.key) # e
          /\ \A i \in DOMAIN log'[m] : MyEph(Flip(log'[m][i].key)) # e
    BY DEF Unspent
  <2>1. \A m \in Nodes, u \in Senders : snd'[m][u].pc = "wait" =>
          /\ Unspent(m, snd[m][u].init)'
          /\ rcv'[m].pc = "respond" => MyEph(rcv'[m].copy.key) # snd'[m][u].init
    BY <2>0, <1>3, <1>4, <1>6, <1>6a DEF KeyInv, FreshInv, Unspent
  <2>2. \A m \in Nodes : rcv'[m].pc = "respond" => Unspent(m, MyEph(rcv[m].copy.key))'
    BY <2>0, <1>3, <1>4, <1>6 DEF KeyInv, FreshInv, Unspent
  <2>3. \A m \in Nodes, u \in Senders :
          rcv'[m].pc = "respond" /\ snd'[m][u].pc \in Encrypted =>
             MyEph(snd'[m][u].copy.key) # MyEph(rcv'[m].copy.key)
    BY <1>3, <1>4, <1>6, <1>6a DEF KeyInv, FreshInv
  <2>. QED  BY <2>1, <2>2, <2>3 DEF FreshInv
<1>9. NonceInv'
  <2>0. \A m, e \in Nodes : \A a \in Unsaved(m, e) : a \in Unsaved(m, e)'
    BY UnsavedStays DEF SameSends
  <2>1. \A m, e \in Nodes : sessions'[m][e] # None =>
          /\ RecvCovers(m, sessions[m][e])'
          /\ SendCoversBut(sessions[m][e], Unsaved(m, e))'
    BY <2>0 DEF KeyInv, NonceInv, RecvCovers, SendCoversBut
  <2>2. \A m \in Nodes, u \in Senders : snd'[m][u].pc \in Encrypted =>
           SendCovers(snd[m][u].copy)' /\ RecvCovers(m, snd[m][u].copy)'
    BY <1>6a DEF KeyInv, NonceInv, SendCovers, RecvCovers
  <2>3. \A m \in Nodes : rcv'[m].pc = "decrypted" => rcv'[m] = rcv[m]
    BY <1>4
  <2>. QED  BY <2>1, <2>2, <2>3 DEF KeyInv, NonceInv, SendCoversBut
<1>. QED  BY <1>7, <1>8, <1>9 DEF KeyInv

(* Nobody else of the client is past the lock when the receive loop is. *)
LEMMA LoopAlone ==
    ASSUME LocalInv, NEW n \in Nodes, guard[n] \in {None, "receive"}
    PROVE  \A u \in Senders :
             snd[n][u].pc # "wait" /\ snd[n][u].pc \notin Encrypted
<1>1. \A u \in Senders : snd[n][u].pc \notin Active
  BY NoneAssumption, SendersAssumption DEF LocalInv, GuardInv
<1>. QED  BY <1>1 DEF Active, SendPc, Encrypted

LEMMA KeyDecrypt ==
    ASSUME LocalInv, LocalInv', KeyInv, NEW n \in Nodes, RecvFrame(n),
           sessions[n][Head(inbox[n]).src] # None,
           Decryptable(sessions[n][Head(inbox[n]).src], Head(inbox[n]).body)
    PROVE  KeyInv'
<1>. DEFINE f == Head(inbox[n])
            d == f.src
            g == f.body
            c == sessions[n][d]
            c1 == [c EXCEPT !.recvNonce = g.nonce]
            t == [pc |-> "decrypted", src |-> d, got |-> g, copy |-> c1]
<1>1. /\ f \in Frame /\ d \in Nodes /\ g \in Encryption
      /\ TypeOK /\ guard[n] = None
  <2>1. TypeOK /\ inbox[n] # <<>> /\ guard[n] = None /\ f.type = "frame"
    BY DEF RecvFrame, Take, LocalInv
  <2>2. f \in Frame
    BY <2>1, PopType
  <2>. QED  BY <2>1, <2>2 DEF Frame
<1>2. c \in Session
  BY <1>1 DEF TypeOK
<1>3. /\ c1.key = c.key /\ c1.sendNonce = c.sendNonce /\ c1.recvNonce = g.nonce
      /\ c.key \in Key /\ c.recvNonce \in Nat /\ g.nonce \in Nat
  BY <1>1, <1>2 DEF Session, Encryption
<1>4. g.key = Flip(c.key) /\ g.nonce > c.recvNonce
  BY DEF Decryptable, RecvKey
<1>5. rcv' = [rcv EXCEPT ![n] = t]
  BY DEF RecvFrame
<1>6. /\ rcv'[n].pc = "decrypted" /\ rcv'[n].src = d /\ rcv'[n].got = g
      /\ rcv'[n].copy = c1
      /\ \A m \in Nodes : m # n => rcv'[m] = rcv[m]
  <2>1. t.pc = "decrypted" /\ t.src = d /\ t.got = g /\ t.copy = c1
    OBVIOUS
  <2>. HIDE DEF t
  <2>. QED  BY <2>1, <1>1, <1>5 DEF TypeOK
<1>7. /\ sessions' = sessions /\ snd' = snd /\ used' = used /\ log' = log
      /\ eph' = eph /\ cut' = cut
  BY DEF RecvFrame, history
<1>8. \A u \in Senders : snd[n][u].pc # "wait" /\ snd[n][u].pc \notin Encrypted
  BY <1>1, LoopAlone
<1>9. DrewFor(n, d, MyEph(c.key)) /\ SendCoversBut(c, cut) /\ RecvCovers(n, c)
  <2>1. /\ DrewFor(n, d, MyEph(c.key)) /\ RecvCovers(n, c)
        /\ SendCoversBut(c, Unsaved(n, d))
    BY <1>1 DEF KeyInv, OwnedInv, NonceInv
  <2>2. \A a \in Unsaved(n, d) : a \in cut
    BY <1>8 DEF Unsaved
  <2>. QED  BY <2>1, <2>2 DEF SendCoversBut
<1>. HIDE DEF f, d, g, c, c1, t
<1>10. OwnedInv'
  BY <1>3, <1>6, <1>7, <1>9 DEF KeyInv, OwnedInv, DrewFor, Drew
<1>11. FreshInv'
  BY <1>6, <1>7 DEF KeyInv, FreshInv, Unspent
<1>12. NonceInv'
  <2>0. \A m, e \in Nodes : \A a \in Unsaved(m, e) : a \in Unsaved(m, e)'
    BY <1>7, UnsavedStays
  <2>1. SendCoversBut(rcv[n].copy, cut)'
    BY <1>3, <1>6, <1>7, <1>9 DEF SendCoversBut
  <2>2. \A i \in DOMAIN log[n] : log[n][i].key = g.key => log[n][i].nonce < g.nonce
    BY <1>3, <1>4, <1>9, EphNumbers DEF RecvCovers
  <2>3. \A m, e \in Nodes : sessions'[m][e] # None =>
          /\ RecvCovers(m, sessions[m][e])'
          /\ SendCoversBut(sessions[m][e], Unsaved(m, e))'
    BY <2>0, <1>7 DEF KeyInv, NonceInv, RecvCovers, SendCoversBut
  <2>. QED  BY <2>1, <2>2, <2>3, <1>3, <1>4, <1>6, <1>7
            DEF KeyInv, NonceInv, SendCovers, RecvCovers, SendCoversBut
<1>. QED  BY <1>10, <1>11, <1>12 DEF KeyInv

(* A delivered frame's nonce is above all delivered before under its key. *)
LEMMA KeyRecvSave ==
    ASSUME LocalInv, LocalInv', KeyInv, NoReplay, NEW n \in Nodes, RecvSave(n)
    PROVE  KeyInv' /\ NoReplay'
<1>. DEFINE d == rcv[n].src
            c == rcv[n].copy
            g == rcv[n].got
            L == Len(log[n])
<1>1. /\ rcv[n].pc = "decrypted" /\ d \in Nodes /\ c \in Session /\ g \in Encryption
      /\ TypeOK /\ guard[n] = "receive"
  BY DEF RecvSave, LocalInv, TaskInv, GuardInv
<1>2. /\ sessions'[n][d] = c
      /\ \A m, e \in Nodes : m # n \/ e # d => sessions'[m][e] = sessions[m][e]
  BY <1>1, SaveUpdates DEF RecvSave
<1>3. /\ used' = used /\ cut' = cut /\ eph' = eph /\ snd' = snd
      /\ rcv'[n].pc = "idle" /\ \A m \in Nodes : m # n => rcv'[m] = rcv[m]
  BY <1>1 DEF RecvSave, TypeOK, RecvIdle
<1>4. /\ log[n] \in Seq(Encryption) /\ L \in Nat /\ DOMAIN log[n] = 1 .. L
      /\ log'[n] = Append(log[n], g)
      /\ \A m \in Nodes : m # n => log'[m] = log[m]
  BY <1>1 DEF RecvSave, TypeOK
<1>5. /\ DOMAIN log'[n] = 1 .. (L + 1)
      /\ log'[n][L + 1] = g
      /\ \A j \in 1 .. L : log'[n][j] = log[n][j]
  BY <1>1, <1>4
<1>6. \A u \in Senders : snd[n][u].pc # "wait" /\ snd[n][u].pc \notin Encrypted
  BY <1>1, LoopAlone
<1>7. /\ DrewFor(n, d, MyEph(c.key)) /\ SendCoversBut(c, cut)
      /\ g.key = Flip(c.key) /\ g.nonce = c.recvNonce
      /\ \A i \in DOMAIN log[n] : log[n][i].key = g.key => log[n][i].nonce < g.nonce
  BY <1>1 DEF KeyInv, OwnedInv, NonceInv
<1>8. /\ Flip(g.key) = c.key /\ g.nonce \in Nat /\ c.key \in Key
      /\ \A j \in 1 .. L : log[n][j].nonce \in Nat
  <2>1. c.key \in Key /\ g.nonce \in Nat
    BY <1>1 DEF Session, Encryption
  <2>. QED  BY <2>1, <1>4, <1>7, FlipTwice, EphNumbers
<1>9. \A j \in DOMAIN log'[n] : j \in DOMAIN log[n] \/ j = L + 1
  BY <1>4, <1>5
<1>. HIDE DEF d, c, g, L
<1>10. OwnedInv'
  <2>1. \A m \in Nodes : \A j \in DOMAIN log'[m] : Drew(m, MyEph(Flip(log[m][j].key)))'
    <3>1. \A j \in DOMAIN log'[n] : Drew(n, MyEph(Flip(log'[n][j].key)))
      BY <1>4, <1>5, <1>7, <1>8, <1>9 DEF KeyInv, OwnedInv, DrewFor
    <3>. QED  BY <3>1, <1>3, <1>4 DEF KeyInv, OwnedInv, Drew
  <2>2. \A m, e \in Nodes :
           sessions'[m][e] # None => DrewFor(m, e, MyEph(sessions[m][e].key))'
    BY <1>2, <1>3, <1>7 DEF KeyInv, OwnedInv, DrewFor, Drew
  <2>. QED  BY <2>1, <2>2, <1>3 DEF KeyInv, OwnedInv, DrewFor, Drew
<1>11. FreshInv'
  BY <1>2, <1>3, <1>4, <1>6 DEF KeyInv, FreshInv, Unspent
<1>12. NonceInv'
  <2>1. \A e \in Nodes : e # d /\ sessions[n][e] # None =>
           sessions[n][e].key \in Key /\ sessions[n][e].key # c.key
    BY <1>7, EphNumbers DEF KeyInv, OwnedInv, DrewFor, d
  <2>2. \A e \in Nodes : sessions'[n][e] # None => RecvCovers(n, sessions[n][e])'
    <3>1. \A j \in DOMAIN log'[n] :
             log'[n][j].key = Flip(c.key) => log'[n][j].nonce <= c.recvNonce
      BY <1>4, <1>5, <1>7, <1>8, <1>9
    <3>2. ASSUME NEW e \in Nodes, e # d, sessions[n][e] # None
          PROVE  g.key # Flip(sessions[n][e].key)
      BY <3>2, <2>1, <1>8, FlipTwice
    <3>3. ASSUME NEW e \in Nodes, e # d, sessions[n][e] # None
          PROVE  \A j \in DOMAIN log'[n] : log'[n][j].key = Flip(sessions[n][e].key)
                    => log'[n][j].nonce <= sessions[n][e].recvNonce
      BY <3>2, <3>3, <1>4, <1>5, <1>9 DEF KeyInv, NonceInv, RecvCovers
    <3>. QED  BY <3>1, <3>3, <1>2 DEF RecvCovers, d
  <2>3. \A m, e \in Nodes : sessions'[m][e] # None => RecvCovers(m, sessions[m][e])'
    <3>1. ASSUME NEW m \in Nodes, NEW e \in Nodes, m # n, sessions'[m][e] # None
          PROVE  RecvCovers(m, sessions[m][e])'
      <4>1. sessions'[m][e] = sessions[m][e] /\ log'[m] = log[m]
        BY <3>1, <1>2, <1>4
      <4>2. RecvCovers(m, sessions[m][e])
        BY <3>1, <4>1 DEF KeyInv, NonceInv
      <4>. QED  BY <4>1, <4>2 DEF RecvCovers
    <3>. QED  BY <3>1, <2>2
  <2>4. \A m, e \in Nodes : sessions'[m][e] # None =>
           SendCoversBut(sessions[m][e], Unsaved(m, e))'
    <3>1. \A m, e \in Nodes : \A a \in Unsaved(m, e) : a \in Unsaved(m, e)'
      BY <1>3, UnsavedStays
    <3>2. \A m, e \in Nodes : cut \subseteq Unsaved(m, e)'
      BY <1>3 DEF Unsaved
    <3>. QED  BY <3>1, <3>2, <1>2, <1>3, <1>7 DEF KeyInv, NonceInv, SendCoversBut
  <2>5. \A m \in Nodes, u \in Senders : snd'[m][u].pc \in Encrypted =>
           SendCovers(snd[m][u].copy)' /\ RecvCovers(m, snd[m][u].copy)'
    BY <1>3, <1>4, <1>6 DEF KeyInv, NonceInv, SendCovers, RecvCovers
  <2>6. \A m \in Nodes : rcv'[m].pc = "decrypted" => m # n
    BY <1>3
  <2>. QED  BY <2>3, <2>4, <2>5, <2>6, <1>3, <1>4 DEF KeyInv, NonceInv, SendCoversBut
<1>13. NoReplay'
  <2>1. \A i, j \in DOMAIN log'[n] : i < j /\ log'[n][i].key = log'[n][j].key
           => log'[n][i].nonce < log'[n][j].nonce
    <3>1. ASSUME NEW i \in DOMAIN log'[n], NEW j \in DOMAIN log'[n], i < j,
                 log'[n][i].key = log'[n][j].key
          PROVE  log'[n][i].nonce < log'[n][j].nonce
      <4>1. i \in 1 .. L /\ (j \in 1 .. L \/ j = L + 1)
        BY <3>1, <1>4, <1>5
      <4>. QED  BY <3>1, <4>1, <1>4, <1>5, <1>7 DEF NoReplay
    <3>. QED  BY <3>1
  <2>. QED  BY <2>1, <1>4 DEF NoReplay
<1>. QED  BY <1>10, <1>11, <1>12, <1>13 DEF KeyInv

-----------------------------------------------------------------------------
(* The other steps only shrink *)

LEMMA BecomeShrinks ==
    ASSUME LocalInv, NEW n \in Nodes, NEW s \in Senders, NEW t \in SendTask,
           Become(n, s, t), UNCHANGED <<used, cut, log, eph, rcv>>,
           \A m, d \in Nodes :
              sessions'[m][d] = sessions[m][d] \/ sessions'[m][d] = None,
           t.pc # "wait",
           t.pc \in Encrypted =>
              /\ snd[n][s].pc \in Encrypted
              /\ t.dest = snd[n][s].dest /\ t.copy = snd[n][s].copy
              /\ t.no = snd[n][s].no,
           snd[n][s].pc \in Encrypted =>
              t.pc \in Encrypted \/ sessions'[n][snd[n][s].dest] = None
    PROVE  Shrinks
<1>1. TypeOK /\ \A m \in Nodes : eph[m] \in Nat
  BY DEF LocalInv, TypeOK
<1>2. /\ snd'[n][s] = t
      /\ \A m \in Nodes, u \in Senders : m # n \/ u # s => snd'[m][u] = snd[m][u]
  BY <1>1, BecomeUpdates
<1>. QED  BY <1>1, <1>2 DEF Shrinks

LEMMA GotoShrinks ==
    ASSUME LocalInv, NEW n \in Nodes, NEW s \in Senders, NEW pc \in Active,
           Goto(n, s, pc), UNCHANGED <<used, cut, log, eph, rcv>>,
           \A m, d \in Nodes :
              sessions'[m][d] = sessions[m][d] \/ sessions'[m][d] = None,
           pc # "wait", pc \in Encrypted <=> snd[n][s].pc \in Encrypted
    PROVE  Shrinks
<1>. DEFINE t == [snd[n][s] EXCEPT !.pc = pc]
<1>1. snd[n][s] \in SendTask
  BY DEF LocalInv, TypeOK
<1>2. /\ t \in SendTask /\ t.pc = pc /\ t.dest = snd[n][s].dest
      /\ t.copy = snd[n][s].copy /\ t.no = snd[n][s].no
  BY <1>1 DEF SendTask, Active
<1>3. Become(n, s, t)
  BY DEF Goto
<1>. HIDE DEF t
<1>. QED  BY <1>2, <1>3, BecomeShrinks

LEMMA ReturnShrinks ==
    ASSUME LocalInv, NEW n \in Nodes, NEW s \in Senders,
           Return(n, s), UNCHANGED <<used, cut, log, eph, rcv>>,
           \A m, d \in Nodes :
              sessions'[m][d] = sessions[m][d] \/ sessions'[m][d] = None,
           snd[n][s].pc \in Encrypted => sessions'[n][snd[n][s].dest] = None
    PROVE  Shrinks
<1>1. Idle.pc # "wait" /\ Idle.pc \notin Encrypted
  BY DEF Idle, Encrypted
<1>. QED  BY <1>1, IdleType, BecomeShrinks DEF Return

LEMMA RemoveShrinks ==
    ASSUME LocalInv, NEW n \in Nodes, NEW d \in Nodes, Remove(n, d)
    PROVE  /\ sessions'[n][d] = None
           /\ \A m, e \in Nodes :
                sessions'[m][e] = sessions[m][e] \/ sessions'[m][e] = None
<1>1. TypeOK
  BY DEF LocalInv
<1>. QED  BY <1>1, SaveUpdates DEF Remove

LEMMA KeySendStep ==
    ASSUME LocalInv, LocalInv', KeyInv, NonceUniqueUnlessCut, NoReplay,
           NEW n \in Nodes, NEW s \in Senders, SendStep(n, s)
    PROVE  KeyInv' /\ NonceUniqueUnlessCut' /\ NoReplay'
<1>1. ASSUME Shrinks PROVE KeyInv' /\ NonceUniqueUnlessCut' /\ NoReplay'
  BY <1>1, KeyShrinks DEF Shrinks, NonceUniqueUnlessCut, NoReplay
<1>2. \A pc \in {"start", "expire", "load"} : pc \in Active /\ pc \notin Encrypted
  BY DEF Active, SendPc, Encrypted
<1>3. {"get", "wait", "panicked"} \cap Encrypted = {}
  BY DEF Encrypted
<1>4. CASE SendGet(n, s)
  <2>1. PICK pc \in {"start", "expire", "load"} : Goto(n, s, pc)
    BY <1>4 DEF SendGet
  <2>2. snd[n][s].pc \notin Encrypted /\ UNCHANGED <<sessions, used, cut, log, eph, rcv>>
    BY <1>3, <1>4 DEF SendGet, history
  <2>. QED  BY <2>1, <2>2, <1>1, <1>2, GotoShrinks
<1>5. CASE SendExpire(n, s)
  <2>1. /\ snd[n][s].pc = "expire" /\ Goto(n, s, "start")
        /\ UNCHANGED <<used, cut, log, eph, rcv>>
    BY <1>5 DEF SendExpire, history
  <2>2. snd[n][s].dest \in Nodes
    BY <2>1, <1>2 DEF LocalInv, TaskInv
  <2>3. \A m, e \in Nodes : sessions'[m][e] = sessions[m][e] \/ sessions'[m][e] = None
    BY <2>2, <1>5, RemoveShrinks DEF SendExpire
  <2>. QED  BY <2>1, <2>3, <1>1, <1>2, GotoShrinks
<1>6. CASE HandshakeStart(n, s)
  BY <1>6, KeyHandshakeStart DEF HandshakeStart, history, NonceUniqueUnlessCut, NoReplay
<1>7. CASE HandshakeStartFails(n, s) \/ HandshakeTimeout(n, s)
  <2>1. /\ snd[n][s].pc \notin Encrypted /\ Return(n, s)
        /\ UNCHANGED <<sessions, used, cut, log, eph, rcv>>
    BY <1>2, <1>3, <1>7 DEF HandshakeStartFails, HandshakeTimeout, history
  <2>. QED  BY <2>1, <1>1, ReturnShrinks
<1>8. CASE HandshakeFinish(n, s)
  <2>1. CASE snd[n][s].reply.init = snd[n][s].init
    BY <2>1, <1>8, KeyHandshakeFinish DEF HandshakeFinish, history, NonceUniqueUnlessCut, NoReplay
  <2>2. CASE snd[n][s].reply.init # snd[n][s].init
    <3>1. /\ snd[n][s].pc \notin Encrypted /\ Return(n, s)
          /\ UNCHANGED <<sessions, used, cut, log, eph, rcv>>
      BY <1>3, <1>8, <2>2 DEF HandshakeFinish, history
    <3>. QED  BY <3>1, <1>1, ReturnShrinks
  <2>. QED  BY <2>1, <2>2
<1>9. CASE SendEncrypt(n, s)
  <2>1. CASE sessions[n][snd[n][s].dest] # None
    BY <2>1, <1>9, KeySendEncrypt DEF SendEncrypt, NoReplay
  <2>2. CASE sessions[n][snd[n][s].dest] = None
    <3>. DEFINE t == [Idle EXCEPT !.pc = "panicked"]
    <3>1. /\ snd[n][s].pc \notin Encrypted /\ Become(n, s, t)
          /\ UNCHANGED <<sessions, used, cut, log, eph, rcv>>
      BY <1>2, <1>9, <2>2 DEF SendEncrypt
    <3>2. t \in SendTask /\ t.pc = "panicked"
      BY DEF Idle, SendTask, SendPc
    <3>. HIDE DEF t
    <3>3. Shrinks
      BY <3>1, <3>2, <1>3, BecomeShrinks
    <3>. QED  BY <3>3, <1>1
  <2>. QED  BY <2>1, <2>2
<1>10. CASE SendTransmit(n, s) \/ SendTransmitFails(n, s)
  <2>1. /\ snd[n][s].pc = "transmit" /\ UNCHANGED <<sessions, used, cut, log, eph, rcv>>
        /\ \E pc \in {"save", "drop"} : Goto(n, s, pc)
    BY <1>10 DEF SendTransmit, SendTransmitFails, history
  <2>2. \A pc \in {"save", "drop", "transmit"} : pc \in Active /\ pc \in Encrypted
    BY DEF Active, SendPc, Encrypted
  <2>. QED  BY <2>1, <2>2, <1>1, GotoShrinks
<1>11. CASE SendDrop(n, s)
  <2>1. snd[n][s].dest \in Nodes /\ Return(n, s) /\ UNCHANGED <<used, cut, log, eph, rcv>>
    BY <1>11 DEF SendDrop, history, LocalInv, TaskInv, Active, SendPc
  <2>2. /\ sessions'[n][snd[n][s].dest] = None
        /\ \A m, e \in Nodes :
             sessions'[m][e] = sessions[m][e] \/ sessions'[m][e] = None
    BY <2>1, <1>11, RemoveShrinks DEF SendDrop
  <2>. QED  BY <2>1, <2>2, <1>1, ReturnShrinks
<1>12. CASE SendSave(n, s)
  BY <1>12, KeySendSave DEF SendSave, history, NonceUniqueUnlessCut, NoReplay
<1>. QED  BY <1>4, <1>5, <1>6, <1>7, <1>8, <1>9, <1>10, <1>11, <1>12 DEF SendStep

LEMMA KeyLoopStep ==
    ASSUME LocalInv, LocalInv', KeyInv, NonceUniqueUnlessCut, NoReplay,
           NEW n \in Nodes, LoopStep(n)
    PROVE  KeyInv' /\ NonceUniqueUnlessCut' /\ NoReplay'
<1>1. ASSUME Shrinks PROVE KeyInv' /\ NonceUniqueUnlessCut' /\ NoReplay'
  BY <1>1, KeyShrinks DEF Shrinks, NonceUniqueUnlessCut, NoReplay
<1>2. ASSUME UNCHANGED <<snd, used, cut, log, eph>>,
             \A m, d \in Nodes :
                sessions'[m][d] = sessions[m][d] \/ sessions'[m][d] = None,
             \A m \in Nodes : \/ rcv'[m] = rcv[m]
                             \/ rcv'[m].pc \notin {"respond", "decrypted"}
      PROVE  Shrinks
  <2>1. \A m \in Nodes : eph[m] \in Nat
    BY DEF LocalInv, TypeOK
  <2>. QED  BY <2>1, <1>2 DEF Shrinks
<1>3. ASSUME NEW t, t.pc \notin {"respond", "decrypted"}, rcv' = [rcv EXCEPT ![n] = t]
      PROVE  \A m \in Nodes : \/ rcv'[m] = rcv[m]
                             \/ rcv'[m].pc \notin {"respond", "decrypted"}
  BY <1>3 DEF LocalInv, TypeOK
<1>4. CASE RecvStart(n)
  <2>. DEFINE f == Head(inbox[n])
              r == NewEph(n, f.src)
  <2>1. UNCHANGED <<sessions, used, cut, log>>
    BY <1>4 DEF RecvStart, history
  <2>2. TypeOK /\ f \in Frame /\ f.type = "start"
    BY <1>4, PopType DEF RecvStart, Take, LocalInv
  <2>3. f.src \in Nodes /\ f.init \in Eph
    BY <2>2 DEF Frame
  <2>4. CASE UNCHANGED <<eph, snd, rcv>>
    BY <2>1, <2>4, <1>1, <1>2
  <2>5. CASE /\ eph' = [eph EXCEPT ![n] = @ + 1]
             /\ Answer(f.src, n, f.init, r)
             /\ rcv' = [rcv EXCEPT ![n] = [RecvIdle EXCEPT !.pc = "respond",
                    !.src = f.src, !.copy = NewSession(f.init, r, "responder")]]
    <3>1. r \in Eph
      BY <2>2, <2>3 DEF NewEph, Eph, TypeOK
    <3>2. SameSends
      <4>. HIDE DEF r
      <4>. QED  BY <2>2, <2>3, <2>5, <3>1, AnswerUpdates
    <3>3. KeyInv'
      <4>. HIDE DEF f
      <4>. QED  BY <2>1, <2>2, <2>3, <2>5, <3>2, KeyRecvStart
    <3>. QED  BY <3>3, <2>1 DEF NonceUniqueUnlessCut, NoReplay
  <2>. QED  BY <2>4, <2>5, <1>4 DEF RecvStart
<1>5. CASE RecvRespondSave(n)
  BY <1>5, KeyRespondSave DEF RecvRespondSave, history, NonceUniqueUnlessCut, NoReplay
<1>6. CASE RecvFrame(n)
  <2>. DEFINE f == Head(inbox[n])
              c == sessions[n][f.src]
              t == [RecvIdle EXCEPT !.pc = "invalidate", !.src = f.src]
  <2>1. UNCHANGED <<sessions, snd, used, cut, log, eph>>
    BY <1>6 DEF RecvFrame, history
  <2>2. CASE c # None /\ Decryptable(c, f.body)
    BY <2>1, <2>2, <1>6, KeyDecrypt DEF NonceUniqueUnlessCut, NoReplay
  <2>3. CASE rcv' = [rcv EXCEPT ![n] = t]
    <3>1. t.pc = "invalidate"
      BY DEF RecvIdle
    <3>. HIDE DEF t
    <3>. QED  BY <2>1, <2>3, <3>1, <1>1, <1>2, <1>3
  <2>4. CASE rcv' = rcv
    BY <2>1, <2>4, <1>1, <1>2
  <2>. QED  BY <2>2, <2>3, <2>4, <1>6 DEF RecvFrame
<1>7. CASE RecvSave(n)
  BY <1>7, KeyRecvSave DEF RecvSave, NonceUniqueUnlessCut
<1>8. CASE RecvInvalidate(n)
  <2>1. /\ UNCHANGED <<sessions, snd, used, cut, log, eph>>
        /\ rcv' = [rcv EXCEPT ![n] = RecvIdle] /\ RecvIdle.pc = "idle"
    BY <1>8 DEF RecvInvalidate, history, RecvIdle
  <2>. QED  BY <2>1, <1>1, <1>2, <1>3
<1>9. CASE RecvInvalidated(n)
  <2>1. Head(inbox[n]).src \in Nodes
    <3>1. TypeOK /\ inbox[n] # <<>>
      BY <1>9 DEF RecvInvalidated, Take, LocalInv
    <3>. QED  BY <3>1, PopType DEF Frame
  <2>2. UNCHANGED <<snd, used, cut, log, eph, rcv>>
    BY <1>9 DEF RecvInvalidated, history
  <2>3. \A m, e \in Nodes : sessions'[m][e] = sessions[m][e] \/ sessions'[m][e] = None
    BY <2>1, <1>9, RemoveShrinks DEF RecvInvalidated
  <2>. QED  BY <2>2, <2>3, <1>1, <1>2
<1>10. CASE RecvIgnore(n)
  BY <1>1, <1>2, <1>10 DEF RecvIgnore, history
<1>. QED  BY <1>4, <1>5, <1>6, <1>7, <1>8, <1>9, <1>10 DEF LoopStep

(* A reload ends the tasks of a client; its sessions are gone or as stored. *)
LEMMA KeyReload ==
    ASSUME LocalInv, NEW n \in Nodes, Reload(n)
    PROVE  Shrinks
<1>1. /\ \A s \in Senders : snd'[n][s] = Idle
      /\ \A m \in Nodes : m # n => snd'[m] = snd[m]
      /\ rcv'[n] = RecvIdle
      /\ \A m \in Nodes : m # n => rcv'[m] = rcv[m]
  BY DEF Reload, LocalInv, TypeOK
<1>2. /\ \A m, d \in Nodes : sessions'[m][d] = sessions[m][d] \/ sessions'[m][d] = None
      /\ cut \subseteq cut'
      /\ \A s \in Senders : snd[n][s].pc \in Encrypted =>
           EncOf(n, s) \in cut' \/ \A d \in Nodes : sessions'[n][d] = None
  <2>1. sessions \in [Nodes -> [Nodes -> Session \cup {None}]]
    BY DEF LocalInv, TypeOK
  <2>2. CASE cut' = cut /\ sessions' = [sessions EXCEPT ![n] = [d \in Nodes |-> None]]
    BY <2>1, <2>2
  <2>3. CASE /\ sessions' = sessions
             /\ cut' = cut \cup
                  {EncOf(n, s) : s \in {u \in Senders : snd[n][u].pc \in Encrypted}}
    BY <2>3
  <2>. QED  BY <2>2, <2>3 DEF Reload
<1>3. /\ used' = used /\ log' = log
      /\ \A m \in Nodes : eph[m] \in Nat /\ eph'[m] = eph[m]
  BY DEF Reload, LocalInv, TypeOK
<1>4. /\ Idle.pc # "wait" /\ Idle.pc \notin Encrypted
      /\ RecvIdle.pc \notin {"respond", "decrypted"}
  BY DEF Idle, RecvIdle, Encrypted
<1>5. \A m \in Nodes, u \in Senders :
        snd[m][u].pc \in Encrypted => snd[m][u].dest \in Nodes
  BY DEF LocalInv, TaskInv, Active, SendPc, Encrypted
<1>. QED  BY <1>1, <1>2, <1>3, <1>4, <1>5 DEF Shrinks

(* A dropped send leaves its session as stored and its encryption cut off. *)
LEMMA KeyDropSend ==
    ASSUME LocalInv, NEW n \in Nodes, NEW s \in Senders, DropSend(n, s)
    PROVE  Shrinks
<1>1. TypeOK /\ \A m \in Nodes : eph[m] \in Nat
  BY DEF LocalInv, TypeOK
<1>2. /\ snd'[n][s] = Idle
      /\ \A m \in Nodes, u \in Senders : m # n \/ u # s => snd'[m][u] = snd[m][u]
  BY <1>1, IdleType, BecomeUpdates DEF DropSend, Return
<1>3. Idle.pc # "wait" /\ Idle.pc \notin Encrypted
  BY DEF Idle, Encrypted
<1>4. /\ UNCHANGED <<sessions, rcv, eph, used, log>> /\ cut \subseteq cut'
      /\ snd[n][s].pc \in Encrypted => EncOf(n, s) \in cut'
  BY DEF DropSend
<1>. QED  BY <1>1, <1>2, <1>3, <1>4 DEF Shrinks

(* A loop that is restarted forgets what it has not saved. *)
LEMMA KeyRestart ==
    ASSUME LocalInv, NEW n \in Nodes, RestartLoop(n)
    PROVE  Shrinks
<1>1. \A m \in Nodes : rcv'[m] = rcv[m] \/ rcv'[m] = RecvIdle
  BY DEF RestartLoop, LocalInv, TypeOK
<1>2. /\ UNCHANGED <<sessions, snd, used, cut, log, eph>>
      /\ \A m \in Nodes : eph[m] \in Nat
  BY DEF RestartLoop, history, LocalInv, TypeOK
<1>3. RecvIdle.pc \notin {"respond", "decrypted"}
  BY DEF RecvIdle
<1>. QED  BY <1>1, <1>2, <1>3 DEF Shrinks

(* The inductive invariant. *)
Inv == LocalInv /\ KeyInv /\ NonceUniqueUnlessCut /\ NoReplay

LEMMA InvNext == Inv /\ [Next]_vars => Inv'
<1>. SUFFICES ASSUME Inv, [Next]_vars PROVE Inv'
  OBVIOUS
<1>1. LocalInv'
  BY LocalNext DEF Inv
<1>2. ASSUME Shrinks PROVE Inv'
  BY <1>1, <1>2, KeyShrinks DEF Shrinks, NonceUniqueUnlessCut, NoReplay, Inv
<1>3. ASSUME UNCHANGED <<sessions, snd, rcv, eph, used, cut, log>> PROVE Shrinks
  <2>1. \A m \in Nodes : eph[m] \in Nat
    BY DEF Inv, LocalInv, TypeOK
  <2>. QED  BY <2>1, <1>3 DEF Shrinks
<1>4. CASE UNCHANGED vars
  BY <1>2, <1>3, <1>4 DEF vars
<1>5. ASSUME NEW n \in Nodes, NEW s \in Senders, NEW d \in Nodes, SendLock(n, s, d)
      PROVE  Inv'
  <2>. DEFINE t == [Idle EXCEPT !.pc = "get", !.dest = d, !.no = sent[n] + 1]
  <2>1. t \in SendTask /\ t.pc = "get"
    <3>1. sent[n] + 1 \in Nat
      BY DEF Inv, LocalInv, TypeOK
    <3>. QED  BY <3>1 DEF Idle, SendTask, SendPc
  <2>2. /\ Become(n, s, t) /\ UNCHANGED <<sessions, used, cut, log, eph, rcv>>
        /\ snd[n][s].pc \notin Encrypted
    BY <1>5 DEF SendLock, history, Encrypted
  <2>3. Shrinks
    <3>. HIDE DEF t
    <3>. QED  BY <2>1, <2>2, BecomeShrinks DEF Inv, Encrypted
  <2>. QED  BY <2>3, <1>2
<1>6. ASSUME NEW n \in Nodes, NEW d \in Nodes, Age(n, d) PROVE Inv'
  BY <1>2, <1>3, <1>6 DEF Age, history
<1>7. ASSUME NEW n \in Nodes, Redeliver(n) PROVE Inv'
  <2>1. SameSends
    BY <1>7, RedeliverSends DEF Inv, LocalInv
  <2>2. UNCHANGED <<sessions, rcv, eph, used, cut, log>>
    BY <1>7 DEF Redeliver, history
  <2>3. \A m \in Nodes : eph[m] \in Nat
    BY DEF Inv, LocalInv, TypeOK
  <2>4. Shrinks
    BY <2>1, <2>2, <2>3 DEF Shrinks, SameSends
  <2>. QED  BY <2>4, <1>2
<1>8. ASSUME NEW n \in Nodes, Reload(n) PROVE Inv'
  BY <1>2, <1>8, KeyReload DEF Inv
<1>9. ASSUME NEW n \in Nodes, NEW s \in Senders, SendStep(n, s) PROVE Inv'
  BY <1>1, <1>9, KeySendStep DEF Inv
<1>11. ASSUME NEW n \in Nodes, RestartLoop(n) PROVE Inv'
  BY <1>2, <1>11, KeyRestart DEF Inv
<1>12. ASSUME NEW n \in Nodes, NEW s \in Senders, DropSend(n, s) PROVE Inv'
  BY <1>2, <1>12, KeyDropSend DEF Inv
<1>10. ASSUME NEW n \in Nodes, LoopStep(n) PROVE Inv'
  BY <1>1, <1>10, KeyLoopStep DEF Inv
<1>. QED  BY <1>4, <1>5, <1>6, <1>7, <1>8, <1>9, <1>10, <1>11, <1>12 DEF Next

LEMMA Invariance == Spec => []Inv
<1>1. Init => Inv
  BY LocalInit, KeyInit DEF Inv
<1>. QED  BY <1>1, InvNext, PTL DEF Spec

(* However the sends, handshakes, resets and reloads of any number of clients
   interleave, send() encrypts twice under one key and nonce only if one of the
   two calls was cut off, by a dropped future or a reload that keeps the
   sessions, between its encryption and its save. *)
THEOREM NoncesReusedOnlyWhenCut == Spec => []NonceUniqueUnlessCut
<1>1. Inv => NonceUniqueUnlessCut
  BY DEF Inv
<1>. QED  BY <1>1, Invariance, PTL

LEMMA CutInit == Init => CutInv
BY DEF Init, CutInv

LEMMA CutNext == CutInv /\ [Next]_vars => CutInv'
<1>. SUFFICES ASSUME CutInv, [Next]_vars, cut' # cut PROVE Durable \/ DropsSends
  BY DEF CutInv
<1>1. ASSUME NEW n \in Nodes, NEW s \in Senders, SendStep(n, s) PROVE cut' = cut
  BY <1>1 DEF SendStep, SendGet, SendExpire, HandshakeStart, HandshakeStartFails,
     HandshakeFinish, HandshakeTimeout, SendEncrypt, SendTransmit, SendTransmitFails,
     SendDrop, SendSave, history
<1>2. ASSUME NEW n \in Nodes, LoopStep(n) PROVE cut' = cut
  BY <1>2 DEF LoopStep, RecvStart, RecvRespondSave, RecvFrame, RecvSave,
     RecvInvalidate, RecvInvalidated, RecvIgnore, history
<1>. QED  BY <1>1, <1>2 DEF Next, SendLock, DropSend, Reload, RestartLoop, Redeliver,
          Age, history, vars

(* Where repositories live in memory and every send() is awaited to its end, no
   key and nonce ever encrypt two messages. *)
THEOREM NoncesNeverReused == Spec => []((~Durable /\ ~DropsSends) => NonceUnique)
<1>1. Inv /\ CutInv => ((~Durable /\ ~DropsSends) => NonceUnique)
  BY DEF Inv, CutInv, NonceUniqueUnlessCut, NonceUnique
<1>2. Spec => []CutInv
  BY CutInit, CutNext, PTL DEF Spec
<1>. QED  BY <1>1, <1>2, Invariance, PTL

(* ... and receive() never delivers two frames of one key with the same or a
   smaller nonce, although it and send() save copies of the same session. *)
THEOREM FramesNeverReplayed == Spec => []NoReplay
<1>1. Inv => NoReplay
  BY DEF Inv
<1>. QED  BY <1>1, Invariance, PTL
=============================================================================
