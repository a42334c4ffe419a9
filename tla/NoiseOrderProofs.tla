-------------------------- MODULE NoiseOrderProofs --------------------------
(* Proof that the Noise crypto provider delivers the messages of a peer in the
   order of the peer's calls of send(), for any number of endpoints and sending
   tasks. *)
EXTENDS NoiseSessionProofs

OrderInv == PeerInv /\ UsedInv /\ OrderedInv

-----------------------------------------------------------------------------
(* What a step may do that encrypts and delivers nothing *)

LEMMA HeldIs ==
    ASSUME NEW n, NEW d, NEW c
    PROVE  c \in Held(n, d) <=>
             /\ c # None
             /\ \/ c = sessions[n][d]
                \/ \E s \in Senders : /\ snd[n][s].pc \in Encrypted
                                      /\ snd[n][s].dest = d /\ snd[n][s].copy = c
                \/ /\ rcv[n].pc \in {"respond", "decrypted"}
                   /\ rcv[n].src = d /\ rcv[n].copy = c
BY DEF Held

LEMMA HeldIsNext ==
    ASSUME NEW n, NEW d, NEW c
    PROVE  c \in Held(n, d)' <=>
             /\ c # None
             /\ \/ c = sessions'[n][d]
                \/ \E s \in Senders : /\ snd'[n][s].pc \in Encrypted
                                      /\ snd'[n][s].dest = d /\ snd'[n][s].copy = c
                \/ /\ rcv'[n].pc \in {"respond", "decrypted"}
                   /\ rcv'[n].src = d /\ rcv'[n].copy = c
BY DEF Held

LEMMA SessionParts ==
    ASSUME NEW c \in Session
    PROVE  /\ c.key \in Key /\ c.recvNonce \in Nat /\ c.sendNonce \in Nat
           /\ PeerEph(c.key) \in Eph /\ MyEph(c.key) \in Eph
BY DEF Session, Key, PeerEph, MyEph, Flip, OtherRole, Roles

LEMMA HeldType ==
    ASSUME LocalInv, NEW n \in Nodes, NEW d \in Nodes, NEW c \in Held(n, d)
    PROVE  c \in Session
<1>1. \A s \in Senders : snd[n][s].pc \in Encrypted => snd[n][s].copy \in Session
  BY DEF LocalInv, TaskInv
<1>2. rcv[n].pc \in {"respond", "decrypted"} => rcv[n].copy \in Session
  BY DEF LocalInv, TaskInv
<1>3. sessions[n][d] \in Session \cup {None}
  BY DEF LocalInv, TypeOK
<1>. QED  BY <1>1, <1>2, <1>3, HeldIs

LEMMA HeldTypeNext ==
    ASSUME LocalInv', NEW n \in Nodes, NEW d \in Nodes, NEW c \in Held(n, d)'
    PROVE  c \in Session
<1>1. \A s \in Senders : snd'[n][s].pc \in Encrypted => snd'[n][s].copy \in Session
  BY DEF LocalInv, TaskInv
<1>2. rcv'[n].pc \in {"respond", "decrypted"} => rcv'[n].copy \in Session
  BY DEF LocalInv, TaskInv
<1>3. sessions'[n][d] \in Session \cup {None}
  BY DEF LocalInv, TypeOK
<1>. QED  BY <1>1, <1>2, <1>3, HeldIsNext

LEMMA HeldShrinks ==
    ASSUME Shrinks, NEW n \in Nodes, NEW d \in Nodes
    PROVE  Held(n, d)' \subseteq Held(n, d)
<1>. SUFFICES ASSUME NEW c \in Held(n, d)' PROVE c \in Held(n, d)
  OBVIOUS
<1>1. c # None
  BY HeldIsNext
<1>2. CASE c = sessions'[n][d]
  <2>1. c = sessions[n][d]
    BY <1>1, <1>2 DEF Shrinks
  <2>. QED  BY <1>1, <2>1, HeldIs
<1>3. ASSUME NEW s \in Senders, snd'[n][s].pc \in Encrypted,
             snd'[n][s].dest = d, snd'[n][s].copy = c
      PROVE  c \in Held(n, d)
  <2>1. snd[n][s].pc \in Encrypted /\ snd[n][s].dest = d /\ snd[n][s].copy = c
    BY <1>3 DEF Shrinks
  <2>. QED  BY <1>1, <2>1, HeldIs
<1>4. CASE rcv'[n].pc \in {"respond", "decrypted"} /\ rcv'[n].src = d /\ rcv'[n].copy = c
  <2>1. rcv'[n] = rcv[n]
    BY <1>4 DEF Shrinks
  <2>. QED  BY <1>1, <1>4, <2>1, HeldIs
<1>. QED  BY <1>2, <1>3, <1>4, HeldIsNext

(* The frames that wait for the receive loop. *)
FramesOf(box, n) == {box[n][i] : i \in DOMAIN box[n]}

(* What PeerInv and UsedInv say of a frame that n was handed. *)
GoodFrame(n, f) ==
    /\ f.type = "start" => DrewFor(f.src, n, f.init)
    /\ f.type = "finish" => DrewFor(f.src, n, f.resp)
    /\ f.type = "frame" => f.body \in used

LEMMA FrameType ==
    ASSUME TypeOK, NEW n \in Nodes, NEW f \in FramesOf(inbox, n)
    PROVE  f \in Frame
BY DEF TypeOK, FramesOf

LEMMA FramesGood ==
    ASSUME OrderInv, NEW n \in Nodes, NEW f \in FramesOf(inbox, n)
    PROVE  GoodFrame(n, f)
BY DEF OrderInv, PeerInv, UsedInv, FramesOf, GoodFrame

(* New sessions and handshakes decrypt nothing that was delivered before. *)
Inherits ==
    /\ used' = used /\ log' = log
    /\ \A m \in Nodes : eph[m] <= eph'[m]
    /\ \A n, d \in Nodes : \A c \in Held(n, d)' :
         \/ \E o \in Held(n, d) : o.key = c.key /\ o.recvNonce <= c.recvNonce
         \/ /\ DrewFor(d, n, PeerEph(c.key))'
            /\ \A a \in used : Decryptable(c, a) => Follows(n, a)
    /\ \A n \in Nodes, s \in Senders :
         /\ \/ snd'[n][s].reply = None
            \/ snd'[n][s].reply = snd[n][s].reply /\ snd'[n][s].dest = snd[n][s].dest
            \/ DrewFor(snd[n][s].dest, n, snd[n][s].reply.resp)'
         /\ snd'[n][s].pc = "wait" =>
              \/ snd[n][s].pc = "wait" /\ snd'[n][s].init = snd[n][s].init
              \/ \A a \in used : a.key.init # snd'[n][s].init
         /\ snd'[n][s].pc = "transmit" =>
              /\ snd[n][s].pc = "transmit" /\ snd'[n][s].no = snd[n][s].no
              /\ snd'[n][s].dest = snd[n][s].dest /\ snd'[n][s].copy = snd[n][s].copy
    /\ \A n \in Nodes : \A f \in FramesOf(inbox', n) :
         f \in FramesOf(inbox, n) \/ GoodFrame(n, f)'
    /\ \A n \in Nodes : rcv'[n].pc = "decrypted" =>
         \/ rcv[n].pc = "decrypted" /\ rcv'[n].got = rcv[n].got
         \/ rcv'[n].got \in used /\ Follows(n, rcv'[n].got)

LEMMA DrewKept ==
    ASSUME LocalInv, LocalInv', \A m \in Nodes : eph[m] <= eph'[m],
           NEW n \in Nodes, NEW d \in Nodes, NEW e \in Eph, DrewFor(n, d, e)
    PROVE  DrewFor(n, d, e)'
<1>1. eph[n] \in Nat /\ eph'[n] \in Nat /\ e.no \in Nat /\ eph[n] <= eph'[n]
  BY DEF LocalInv, TypeOK, Eph
<1>. QED  BY <1>1 DEF DrewFor, Drew

LEMMA UsedType ==
    ASSUME LocalInv, NEW a \in used
    PROVE  /\ a.key \in Key /\ a.nonce \in Nat
           /\ a.msg.from \in Nodes /\ a.msg.to \in Nodes /\ a.msg.no \in Nat
           /\ MyEph(a.key) \in Eph /\ PeerEph(a.key) \in Eph
<1>1. a \in Encryption
  BY DEF LocalInv, TypeOK
<1>2. a.key \in Key /\ a.nonce \in Nat /\ a.msg \in Message
  BY <1>1 DEF Encryption
<1>. QED  BY <1>2 DEF Message, Key, PeerEph, MyEph, Flip, OtherRole, Roles

LEMMA InheritsPeer ==
    ASSUME LocalInv, LocalInv', OrderInv, Inherits
    PROVE  PeerInv'
<1>0. \A m \in Nodes : eph[m] <= eph'[m]
  BY DEF Inherits
<1>1. ASSUME NEW a \in used'
      PROVE  /\ DrewFor(a.msg.from, a.msg.to, MyEph(a.key))'
             /\ DrewFor(a.msg.to, a.msg.from, PeerEph(a.key))'
  <2>1. a \in used
    BY DEF Inherits
  <2>2. /\ DrewFor(a.msg.from, a.msg.to, MyEph(a.key))
        /\ DrewFor(a.msg.to, a.msg.from, PeerEph(a.key))
    BY <2>1 DEF OrderInv, PeerInv
  <2>. QED  BY <1>0, <2>1, <2>2, UsedType, DrewKept
<1>2. ASSUME NEW n \in Nodes, NEW d \in Nodes, NEW c \in Held(n, d)'
      PROVE  DrewFor(d, n, PeerEph(c.key))'
  <2>1. CASE \E o \in Held(n, d) : o.key = c.key /\ o.recvNonce <= c.recvNonce
    <3>1. PICK o \in Held(n, d) : o.key = c.key
      BY <2>1
    <3>2. DrewFor(d, n, PeerEph(o.key))
      BY DEF OrderInv, PeerInv
    <3>3. PeerEph(o.key) \in Eph
      BY HeldType, SessionParts
    <3>4. DrewFor(d, n, PeerEph(o.key))'
      BY <1>0, <3>2, <3>3, DrewKept DEF PeerEph, MyEph, Flip
    <3>. QED  BY <3>1, <3>4
  <2>2. CASE DrewFor(d, n, PeerEph(c.key))'
    BY <2>2
  <2>. QED  BY <2>1, <2>2 DEF Inherits
<1>3. ASSUME NEW n \in Nodes, NEW s \in Senders, snd'[n][s].reply # None
      PROVE  DrewFor(snd[n][s].dest, n, snd[n][s].reply.resp)'
  <2>1. CASE snd'[n][s].reply = snd[n][s].reply /\ snd'[n][s].dest = snd[n][s].dest
    <3>1. DrewFor(snd[n][s].dest, n, snd[n][s].reply.resp)
      BY <1>3, <2>1 DEF OrderInv, PeerInv
    <3>2. snd[n][s] \in SendTask
      BY DEF LocalInv, TypeOK
    <3>3. snd[n][s].reply.resp \in Eph
      BY <1>3, <2>1, <3>2 DEF SendTask, Reply
    <3>4. snd[n][s].dest \in Nodes
      BY <3>1, <3>2, <3>3, NoneAssumption DEF DrewFor, Drew, SendTask, Eph
    <3>. DEFINE e == snd[n][s].reply.resp
                d == snd[n][s].dest
    <3>5. DrewFor(d, n, e) /\ e \in Eph /\ d \in Nodes
      BY <3>1, <3>3, <3>4
    <3>6. e.by = d /\ e.for = n /\ e.no <= eph[d] /\ e.no \in Nat
      BY <3>5 DEF DrewFor, Drew, Eph
    <3>7. eph[d] \in Nat /\ eph'[d] \in Nat /\ eph[d] <= eph'[d]
      BY <1>0, <3>5 DEF LocalInv, TypeOK
    <3>8. e = snd'[n][s].reply.resp /\ d = snd'[n][s].dest
      BY <2>1
    <3>. HIDE DEF e, d
    <3>. QED  BY <3>6, <3>7, <3>8 DEF DrewFor, Drew
  <2>. QED  BY <1>3, <2>1 DEF Inherits
<1>4. ASSUME NEW n \in Nodes, NEW f \in FramesOf(inbox', n)
      PROVE  /\ f.type = "start" => DrewFor(f.src, n, f.init)'
             /\ f.type = "finish" => DrewFor(f.src, n, f.resp)'
  <2>1. CASE f \in FramesOf(inbox, n)
    <3>1. GoodFrame(n, f)
      BY <2>1, FramesGood
    <3>2. f \in Frame
      BY <2>1, FrameType DEF LocalInv
    <3>3. /\ f.type = "start" => f.src \in Nodes /\ f.init \in Eph
          /\ f.type = "finish" => f.src \in Nodes /\ f.resp \in Eph
      BY <3>2 DEF Frame
    <3>. QED  BY <1>0, <3>1, <3>3, DrewKept DEF GoodFrame
  <2>2. CASE GoodFrame(n, f)'
    BY <2>2 DEF GoodFrame
  <2>. QED  BY <2>1, <2>2 DEF Inherits
<1>. QED  BY <1>1, <1>2, <1>3, <1>4 DEF PeerInv, FramesOf

LEMMA InheritsUsed ==
    ASSUME LocalInv, LocalInv', OrderInv, Inherits
    PROVE  UsedInv'
<1>1. used' = used /\ log' = log
  BY DEF Inherits
<1>2. ASSUME NEW n \in Nodes, NEW f \in FramesOf(inbox', n), f.type = "frame"
      PROVE  f.body \in used'
  <2>1. CASE f \in FramesOf(inbox, n)
    BY <1>1, <1>2, <2>1, FramesGood DEF GoodFrame
  <2>2. CASE GoodFrame(n, f)'
    BY <1>2, <2>2 DEF GoodFrame
  <2>. QED  BY <2>1, <2>2 DEF Inherits
<1>3. ASSUME NEW n \in Nodes, rcv'[n].pc = "decrypted" PROVE rcv'[n].got \in used'
  BY <1>1, <1>3 DEF Inherits, OrderInv, UsedInv
<1>4. ASSUME NEW n \in Nodes, NEW s \in Senders, snd'[n][s].pc = "transmit"
      PROVE  EncOf(n, s)' \in used'
  <2>1. /\ snd[n][s].pc = "transmit" /\ snd'[n][s].no = snd[n][s].no
        /\ snd'[n][s].dest = snd[n][s].dest /\ snd'[n][s].copy = snd[n][s].copy
    BY <1>4 DEF Inherits
  <2>2. EncOf(n, s) \in used
    BY <2>1 DEF OrderInv, UsedInv
  <2>3. EncOf(n, s)' = EncOf(n, s)
    BY <2>1 DEF EncOf
  <2>. QED  BY <1>1, <2>2, <2>3
<1>5. /\ \A a, b \in used' : a.key = b.key /\ a.nonce < b.nonce => a.msg.no < b.msg.no
      /\ \A n \in Nodes : \A i \in DOMAIN log'[n] : log'[n][i] \in used'
  BY <1>1 DEF OrderInv, UsedInv
<1>. QED  BY <1>2, <1>3, <1>4, <1>5 DEF UsedInv, FramesOf

LEMMA InheritsOrdered ==
    ASSUME LocalInv, LocalInv', OrderInv, Inherits
    PROVE  OrderedInv'
<1>1. used' = used /\ log' = log
  BY DEF Inherits
<1>2. \A n, a : Follows(n, a) => Follows(n, a)'
  BY <1>1 DEF Follows
<1>3. ASSUME NEW n \in Nodes, NEW d \in Nodes, NEW c \in Held(n, d)',
             NEW a \in used', Decryptable(c, a)
      PROVE  Follows(n, a)'
  <2>1. CASE \E o \in Held(n, d) : o.key = c.key /\ o.recvNonce <= c.recvNonce
    <3>1. PICK o \in Held(n, d) : o.key = c.key /\ o.recvNonce <= c.recvNonce
      BY <2>1
    <3>2. o.recvNonce \in Nat
      BY HeldType, SessionParts
    <3>3. c.recvNonce \in Nat /\ a.nonce \in Nat
      BY <1>1, HeldTypeNext, SessionParts, UsedType
    <3>4. Decryptable(o, a)
      BY <1>3, <3>1, <3>2, <3>3 DEF Decryptable, RecvKey
    <3>5. Follows(n, a)
      BY <1>1, <3>4 DEF OrderInv, OrderedInv
    <3>. QED  BY <1>2, <3>5
  <2>2. CASE \A b \in used : Decryptable(c, b) => Follows(n, b)
    BY <1>1, <1>2, <1>3, <2>2
  <2>. QED  BY <2>1, <2>2 DEF Inherits
<1>4. ASSUME NEW n \in Nodes, NEW s \in Senders, snd'[n][s].pc = "wait",
             NEW a \in used', a.key.init = snd'[n][s].init
      PROVE  Follows(n, a)'
  <2>1. snd[n][s].pc = "wait" /\ snd'[n][s].init = snd[n][s].init
    BY <1>1, <1>4 DEF Inherits
  <2>2. Follows(n, a)
    BY <1>1, <1>4, <2>1 DEF OrderInv, OrderedInv
  <2>. QED  BY <1>2, <2>2
<1>5. ASSUME NEW n \in Nodes, rcv'[n].pc = "decrypted" PROVE Follows(n, rcv[n].got)'
  <2>1. Follows(n, rcv'[n].got)
    BY <1>5 DEF Inherits, OrderInv, OrderedInv
  <2>. QED  BY <1>1, <2>1 DEF Follows
<1>. QED  BY <1>3, <1>4, <1>5 DEF OrderedInv, Decryptable, RecvKey, Flip

LEMMA InheritsOrder ==
    ASSUME LocalInv, LocalInv', OrderInv, Inherits
    PROVE  OrderInv'
BY InheritsPeer, InheritsUsed, InheritsOrdered DEF OrderInv

-----------------------------------------------------------------------------
(* Frames *)

LEMMA PostFrames ==
    ASSUME NEW box \in [Nodes -> Seq(Frame)], NEW d \in Nodes, NEW f \in Frame,
           NEW m \in Nodes, NEW g \in FramesOf(Post(box, d, f), m)
    PROVE  g \in FramesOf(box, m) \/ (m = d /\ g = f)
<1>. DEFINE new == Post(box, d, f)[m]
<1>1. PICK i \in DOMAIN new : g = new[i]
  BY DEF FramesOf
<1>2. CASE m # d
  <2>1. new = box[m]
    BY <1>2 DEF Post
  <2>. QED  BY <1>1, <2>1 DEF FramesOf
<1>3. CASE m = d
  <2>. DEFINE old == box[d]
  <2>1. old \in Seq(Frame) /\ new = Append(old, f)
    BY <1>3 DEF Post
  <2>2. i \in 1 .. Len(old) + 1
    BY <1>1, <2>1
  <2>3. CASE i = Len(old) + 1
    BY <1>1, <1>3, <2>1, <2>3
  <2>4. CASE i \in 1 .. Len(old)
    <3>1. g = old[i] /\ i \in DOMAIN old
      BY <1>1, <2>1, <2>4
    <3>. QED  BY <1>3, <3>1 DEF FramesOf
  <2>. QED  BY <2>2, <2>3, <2>4, <2>1
<1>. QED  BY <1>2, <1>3

LEMMA RestFrames ==
    ASSUME TypeOK, NEW n \in Nodes, inbox[n] # <<>>
    PROVE  /\ Head(inbox[n]) \in FramesOf(inbox, n)
           /\ \A m \in Nodes : FramesOf(Rest(n), m) \subseteq FramesOf(inbox, m)
<1>. DEFINE box == inbox[n]
<1>1. box \in Seq(Frame) /\ box # <<>>
  BY DEF TypeOK
<1>2. Head(box) = box[1] /\ 1 \in DOMAIN box
  BY <1>1
<1>3. \A i \in DOMAIN Tail(box) : i + 1 \in DOMAIN box /\ Tail(box)[i] = box[i + 1]
  BY <1>1
<1>4. /\ Rest(n)[n] = Tail(box)
      /\ \A m \in Nodes : m # n => Rest(n)[m] = inbox[m]
  BY DEF Rest, TypeOK
<1>5. FramesOf(Rest(n), n) \subseteq FramesOf(inbox, n)
  <2>. SUFFICES ASSUME NEW i \in DOMAIN Tail(box) PROVE Tail(box)[i] \in FramesOf(inbox, n)
    BY <1>4 DEF FramesOf
  <2>. QED  BY <1>3 DEF FramesOf
<1>6. \A m \in Nodes : m # n => FramesOf(Rest(n), m) = FramesOf(inbox, m)
  BY <1>4 DEF FramesOf
<1>. QED  BY <1>2, <1>5, <1>6 DEF FramesOf

(* Every frame is old, or as PeerInv and UsedInv want it. *)
FramesKept ==
    \A n \in Nodes : \A f \in FramesOf(inbox', n) :
        f \in FramesOf(inbox, n) \/ GoodFrame(n, f)'

LEMMA PostKeeps ==
    ASSUME TypeOK, NEW d \in Nodes, NEW f \in Frame, inbox' = Post(inbox, d, f),
           f \in FramesOf(inbox, d) \/ GoodFrame(d, f)'
    PROVE  FramesKept
<1>1. inbox \in [Nodes -> Seq(Frame)]
  BY DEF TypeOK
<1>2. ASSUME NEW m \in Nodes, NEW g \in FramesOf(inbox', m)
      PROVE  g \in FramesOf(inbox, m) \/ (m = d /\ g = f)
  BY <1>1, PostFrames
<1>. QED  BY <1>2 DEF FramesKept

LEMMA PopKeeps ==
    ASSUME TypeOK, NEW n \in Nodes, inbox[n] # <<>>, Pop(n)
    PROVE  FramesKept
BY RestFrames DEF FramesKept, Pop

LEMMA DropKeeps ==
    ASSUME TypeOK, NEW n \in Nodes, inbox' = [inbox EXCEPT ![n] = <<>>] \/ UNCHANGED inbox
    PROVE  FramesKept
<1>1. \A m \in Nodes : inbox'[m] = inbox[m] \/ inbox'[m] = <<>>
  BY DEF TypeOK
<1>. QED  BY <1>1 DEF FramesKept, FramesOf

-----------------------------------------------------------------------------
(* Tasks *)

(* No task starts or encrypts, and a new reply comes from the peer. *)
TasksKept ==
    \A n \in Nodes, s \in Senders :
        /\ \/ snd'[n][s].reply = None
           \/ snd'[n][s].reply = snd[n][s].reply /\ snd'[n][s].dest = snd[n][s].dest
           \/ DrewFor(snd[n][s].dest, n, snd[n][s].reply.resp)'
        /\ snd'[n][s].pc = "transmit" =>
             /\ snd[n][s].pc = "transmit" /\ snd'[n][s].no = snd[n][s].no
             /\ snd'[n][s].dest = snd[n][s].dest /\ snd'[n][s].copy = snd[n][s].copy
        /\ snd'[n][s].pc \in Active =>
             /\ snd[n][s].pc \in Active /\ snd'[n][s].no = snd[n][s].no
             /\ snd[n][s].pc \in Encrypted => snd'[n][s].pc \in Encrypted

LEMMA BecomeKeeps ==
    ASSUME TypeOK, NEW n \in Nodes, NEW s \in Senders, NEW t \in SendTask,
           Become(n, s, t), t.pc # "transmit",
           \/ t.reply = None
           \/ t.reply = snd[n][s].reply /\ t.dest = snd[n][s].dest,
           t.pc \in Active => /\ snd[n][s].pc \in Active /\ t.no = snd[n][s].no
                              /\ snd[n][s].pc \in Encrypted => t.pc \in Encrypted
    PROVE  TasksKept
<1>1. /\ snd'[n][s] = t
      /\ \A m \in Nodes, u \in Senders : m # n \/ u # s => snd'[m][u] = snd[m][u]
  BY BecomeUpdates
<1>2. ASSUME NEW m \in Nodes, NEW u \in Senders, m # n \/ u # s
      PROVE  snd'[m][u] = snd[m][u]
  BY <1>1, <1>2
<1>. QED  BY <1>1, <1>2 DEF TasksKept

LEMMA GotoKeeps ==
    ASSUME TypeOK, NEW n \in Nodes, NEW s \in Senders, NEW pc \in SendPc,
           Goto(n, s, pc), pc # "transmit", snd[n][s].pc \in Active,
           snd[n][s].pc \in Encrypted => pc \in Encrypted
    PROVE  TasksKept
<1>. DEFINE t == [snd[n][s] EXCEPT !.pc = pc]
<1>1. snd[n][s] \in SendTask
  BY DEF TypeOK
<1>2. /\ t \in SendTask /\ t.pc = pc /\ t.dest = snd[n][s].dest
      /\ t.reply = snd[n][s].reply /\ t.no = snd[n][s].no
  BY <1>1 DEF SendTask
<1>3. Become(n, s, t)
  BY DEF Goto
<1>. HIDE DEF t
<1>. QED  BY <1>2, <1>3, BecomeKeeps

LEMMA ReturnKeeps ==
    ASSUME TypeOK, NEW n \in Nodes, NEW s \in Senders, Become(n, s, Idle)
    PROVE  TasksKept
<1>1. Idle.pc = "idle" /\ Idle.reply = None
  BY DEF Idle
<1>2. "idle" \notin Active
  BY DEF Active
<1>. QED  BY <1>1, <1>2, IdleType, BecomeKeeps

LEMMA SameKeeps ==
    ASSUME UNCHANGED snd
    PROVE  TasksKept
BY DEF TasksKept

(* Answer only adds replies. *)
LEMMA AnswerKeeps ==
    ASSUME TypeOK, NEW m \in Nodes, NEW n \in Nodes, NEW i \in Eph, NEW r \in Eph,
           Answer(m, n, i, r), DrewFor(n, m, r)'
    PROVE  TasksKept
<1>. DEFINE q == [init |-> i, resp |-> r]
            New(s) == IF /\ snd[m][s].pc = "wait" /\ snd[m][s].dest = n
                         /\ snd[m][s].reply = None
                      THEN [snd[m][s] EXCEPT !.reply = q] ELSE snd[m][s]
<1>1. \A k \in Nodes, s \in Senders : snd[k][s] \in SendTask
  BY DEF TypeOK
<1>2. q.resp = r
  OBVIOUS
<1>3. \A s \in Senders :
        /\ New(s).pc = snd[m][s].pc /\ New(s).dest = snd[m][s].dest
        /\ New(s).no = snd[m][s].no /\ New(s).copy = snd[m][s].copy
        /\ New(s).reply = snd[m][s].reply \/ (New(s).reply = q /\ New(s).dest = n)
  <2>. HIDE DEF q
  <2>. QED  BY <1>1 DEF SendTask
<1>4. snd' = [snd EXCEPT ![m] = [s \in Senders |-> New(s)]]
  BY DEF Answer, TypeOK
<1>5. /\ \A s \in Senders : snd'[m][s] = New(s)
      /\ \A k \in Nodes : k # m => snd'[k] = snd[k]
  <2>. HIDE DEF New
  <2>. QED  BY <1>4 DEF TypeOK
<1>. HIDE DEF New, q
<1>6. ASSUME NEW s \in Senders
      PROVE  /\ snd'[m][s].pc = snd[m][s].pc /\ snd'[m][s].dest = snd[m][s].dest
             /\ snd'[m][s].no = snd[m][s].no /\ snd'[m][s].copy = snd[m][s].copy
             /\ \/ snd'[m][s].reply = snd[m][s].reply
                \/ DrewFor(snd[m][s].dest, m, snd[m][s].reply.resp)'
  <2>1. snd'[m][s] = New(s)
    BY <1>5
  <2>2. CASE New(s).reply = q /\ New(s).dest = n
    <3>1. snd'[m][s].dest = n /\ snd'[m][s].reply.resp = r
      BY <2>1, <2>2, <1>2
    <3>2. DrewFor(snd[m][s].dest, m, snd[m][s].reply.resp)'
      BY <3>1 DEF DrewFor, Drew
    <3>. QED  BY <1>3, <2>1, <3>2
  <2>. QED  BY <1>3, <2>1, <2>2
<1>7. ASSUME NEW k \in Nodes, NEW s \in Senders, k # m PROVE snd'[k][s] = snd[k][s]
  BY <1>5, <1>7
<1>. QED  BY <1>6, <1>7 DEF TasksKept

LEMMA CallKept ==
    ASSUME CallInv, TasksKept, UNCHANGED <<used, sent>>
    PROVE  CallInv'
BY DEF CallInv, TasksKept

(* A step that only removes sessions and ends tasks. *)
LEMMA ShrinksInherits ==
    ASSUME LocalInv, Shrinks, TasksKept, FramesKept
    PROVE  Inherits
<1>1. ASSUME NEW n \in Nodes, NEW d \in Nodes, NEW c \in Held(n, d)'
      PROVE  \E o \in Held(n, d) : o.key = c.key /\ o.recvNonce <= c.recvNonce
  <2>1. c \in Held(n, d)
    BY HeldShrinks
  <2>2. c.recvNonce <= c.recvNonce
    BY <2>1, HeldType, SessionParts
  <2>. QED  BY <2>1, <2>2
<1>2. \A n \in Nodes, s \in Senders : snd'[n][s].pc = "wait" =>
        snd[n][s].pc = "wait" /\ snd'[n][s].init = snd[n][s].init
  BY DEF Shrinks
<1>3. \A n \in Nodes : rcv'[n].pc = "decrypted" =>
        rcv[n].pc = "decrypted" /\ rcv'[n].got = rcv[n].got
  BY DEF Shrinks
<1>4. used' = used /\ log' = log /\ \A m \in Nodes : eph[m] <= eph'[m]
  BY DEF Shrinks
<1>. QED  BY <1>1, <1>2, <1>3, <1>4 DEF Inherits, TasksKept, FramesKept

-----------------------------------------------------------------------------
(* Steps that start or end a handshake, or save a copy *)

LEMMA HeldGrows ==
    ASSUME LocalInv, NEW m \in Nodes, NEW e \in Nodes, NEW x,
           \/ sessions'[m][e] = sessions[m][e]
           \/ sessions'[m][e] \in Held(m, e) \cup {None, x},
           \A u \in Senders : snd'[m][u].pc \in Encrypted /\ snd'[m][u].dest = e =>
              \/ /\ snd[m][u].pc \in Encrypted
                 /\ snd'[m][u].dest = snd[m][u].dest /\ snd'[m][u].copy = snd[m][u].copy
              \/ snd'[m][u].copy = x,
           \/ rcv'[m] = rcv[m]
           \/ rcv'[m].pc \notin {"respond", "decrypted"}
           \/ rcv'[m].src = e => rcv'[m].copy = x,
           NEW c \in Held(m, e)'
    PROVE  c \in Held(m, e) \/ c = x
<1>1. c # None
  BY HeldIsNext
<1>2. CASE c = sessions'[m][e]
  BY <1>1, <1>2, HeldIs
<1>3. ASSUME NEW s \in Senders, snd'[m][s].pc \in Encrypted,
             snd'[m][s].dest = e, snd'[m][s].copy = c
      PROVE  c \in Held(m, e) \/ c = x
  <2>1. \/ snd[m][s].pc \in Encrypted /\ snd[m][s].dest = e /\ snd[m][s].copy = c
        \/ c = x
    BY <1>3
  <2>. QED  BY <1>1, <2>1, HeldIs
<1>4. CASE rcv'[m].pc \in {"respond", "decrypted"} /\ rcv'[m].src = e /\ rcv'[m].copy = c
  <2>1. rcv'[m] = rcv[m] \/ c = x
    BY <1>4
  <2>. QED  BY <1>1, <1>4, <2>1, HeldIs
<1>. QED  BY <1>2, <1>3, <1>4, HeldIsNext

(* The parts of Inherits, for a step that may add one session x of n with d. *)
LEMMA GrowsInherits ==
    ASSUME LocalInv, LocalInv', TasksKept, FramesKept,
           used' = used, log' = log, \A m \in Nodes : eph[m] <= eph'[m],
           NEW n \in Nodes, NEW d \in Nodes, NEW x \in Session,
           \A m, e \in Nodes :
              \/ sessions'[m][e] = sessions[m][e]
              \/ /\ m = n /\ e = d
                 /\ sessions'[m][e] \in Held(m, e) \cup {None, x},
           \A m \in Nodes, u \in Senders :
              /\ snd'[m][u].pc \in Encrypted =>
                   /\ snd[m][u].pc \in Encrypted
                   /\ snd'[m][u].dest = snd[m][u].dest
                   /\ snd'[m][u].copy = snd[m][u].copy
              /\ snd'[m][u].pc = "wait" =>
                   \/ snd[m][u].pc = "wait" /\ snd'[m][u].init = snd[m][u].init
                   \/ \A a \in used : a.key.init # snd'[m][u].init,
           \A m \in Nodes :
              \/ rcv'[m] = rcv[m]
              \/ rcv'[m].pc \notin {"respond", "decrypted"}
              \/ /\ m = n /\ rcv'[m].src = d /\ rcv'[m].copy = x
                 /\ rcv'[m].pc = "decrypted" =>
                      rcv'[m].got \in used /\ Follows(n, rcv'[m].got),
           \/ \E o \in Held(n, d) : o.key = x.key /\ o.recvNonce <= x.recvNonce
           \/ /\ DrewFor(d, n, PeerEph(x.key))'
              /\ \A a \in used : Decryptable(x, a) => Follows(n, a)
    PROVE  Inherits
<1>1. ASSUME NEW m \in Nodes, NEW e \in Nodes, NEW c \in Held(m, e)'
      PROVE  c \in Held(m, e) \/ (m = n /\ e = d /\ c = x)
  <2>. DEFINE y == IF m = n /\ e = d THEN x ELSE None
  <2>1. \/ sessions'[m][e] = sessions[m][e]
        \/ sessions'[m][e] \in Held(m, e) \cup {None, y}
    OBVIOUS
  <2>2. \A u \in Senders : snd'[m][u].pc \in Encrypted /\ snd'[m][u].dest = e =>
              /\ snd[m][u].pc \in Encrypted
              /\ snd'[m][u].dest = snd[m][u].dest /\ snd'[m][u].copy = snd[m][u].copy
    OBVIOUS
  <2>3. \/ rcv'[m] = rcv[m]
        \/ rcv'[m].pc \notin {"respond", "decrypted"}
        \/ rcv'[m].src = e => rcv'[m].copy = y
    OBVIOUS
  <2>4. c # None
    BY HeldIsNext
  <2>5. y = None \/ (m = n /\ e = d /\ y = x)
    OBVIOUS
  <2>. HIDE DEF y
  <2>6. c \in Held(m, e) \/ c = y
    BY <2>1, <2>2, <2>3, HeldGrows
  <2>. QED  BY <2>4, <2>5, <2>6
<1>2. ASSUME NEW m \in Nodes, NEW e \in Nodes, NEW c \in Held(m, e)'
      PROVE  \/ \E o \in Held(m, e) : o.key = c.key /\ o.recvNonce <= c.recvNonce
             \/ /\ DrewFor(e, m, PeerEph(c.key))'
                /\ \A a \in used : Decryptable(c, a) => Follows(m, a)
  <2>1. CASE c \in Held(m, e)
    <3>1. c.recvNonce <= c.recvNonce
      BY <2>1, HeldType, SessionParts
    <3>. QED  BY <2>1, <3>1
  <2>2. CASE m = n /\ e = d /\ c = x
    <3>1. CASE \E o \in Held(n, d) : o.key = x.key /\ o.recvNonce <= x.recvNonce
      BY <2>2, <3>1
    <3>2. CASE /\ DrewFor(d, n, PeerEph(x.key))'
               /\ \A a \in used : Decryptable(x, a) => Follows(n, a)
      BY <2>2, <3>2
    <3>. QED  BY <3>1, <3>2
  <2>. QED  BY <1>1, <2>1, <2>2
<1>3. \A m \in Nodes : rcv'[m].pc = "decrypted" =>
         \/ rcv[m].pc = "decrypted" /\ rcv'[m].got = rcv[m].got
         \/ rcv'[m].got \in used /\ Follows(m, rcv'[m].got)
  OBVIOUS
<1>. QED  BY <1>2, <1>3 DEF Inherits, TasksKept, FramesKept

(* Both ephemeral keys of a key in use were drawn before. *)
LEMMA UsedOld ==
    ASSUME LocalInv, PeerInv, NEW n \in Nodes, NEW d \in Nodes, NEW a \in used
    PROVE  a.key.init # NewEph(n, d) /\ a.key.resp # NewEph(n, d)
<1>1. \A m \in Nodes : \A e : Drew(m, e) => e # NewEph(n, d)
  BY EphNumbers DEF Drew, NewEph
<1>2. a.msg.from \in Nodes /\ a.msg.to \in Nodes /\ a.key \in Key
  BY UsedType
<1>3. Drew(a.msg.from, MyEph(a.key)) /\ Drew(a.msg.to, PeerEph(a.key))
  BY DEF PeerInv, DrewFor
<1>4. {a.key.init, a.key.resp} = {MyEph(a.key), PeerEph(a.key)}
  BY <1>2 DEF Key, Roles, PeerEph, MyEph, Flip, OtherRole
<1>. QED  BY <1>1, <1>2, <1>3, <1>4

LEMMA OrderHandshakeStart ==
    ASSUME LocalInv, LocalInv', OrderInv, NEW n \in Nodes, NEW s \in Senders,
           HandshakeStart(n, s)
    PROVE  Inherits /\ TasksKept
<1>0. PICK d, i : d = snd[n][s].dest /\ i = NewEph(n, d)
  OBVIOUS
<1>. DEFINE t == [snd[n][s] EXCEPT !.pc = "wait", !.init = i]
            f == [type |-> "start", src |-> n, init |-> i]
<1>1. /\ snd[n][s].pc = "start" /\ snd[n][s].pc \in Active /\ d \in Nodes
      /\ TypeOK /\ snd[n][s] \in SendTask /\ snd[n][s].pc \notin Encrypted
  <2>1. snd[n][s].pc = "start" /\ snd[n][s].pc \in Active /\ snd[n][s].pc \notin Encrypted
    BY DEF HandshakeStart, Active, SendPc, Encrypted
  <2>2. d \in Nodes
    BY <1>0, <2>1 DEF LocalInv, TaskInv
  <2>3. TypeOK /\ snd[n][s] \in SendTask
    BY DEF LocalInv, TypeOK
  <2>. QED  BY <2>1, <2>2, <2>3
<1>2. i \in Eph /\ i.by = n /\ i.for = d /\ i.no = eph[n] + 1
  BY <1>0, <1>1 DEF NewEph, Eph, TypeOK
<1>3. /\ used' = used /\ log' = log /\ sessions' = sessions /\ rcv' = rcv
      /\ Become(n, s, t) /\ inbox' = Post(inbox, d, f)
      /\ eph' = [eph EXCEPT ![n] = @ + 1]
  BY <1>0 DEF HandshakeStart, history
<1>4. \A m \in Nodes : eph[m] \in Nat /\ eph'[m] \in Nat /\ eph[m] <= eph'[m]
  BY <1>1, <1>3 DEF TypeOK
<1>5. eph'[n] = eph[n] + 1
  BY <1>1, <1>3 DEF TypeOK
<1>6. DrewFor(n, d, i)'
  BY <1>2, <1>4, <1>5 DEF DrewFor, Drew
<1>7. \A a \in used : a.key.init # i
  BY <1>0, <1>1, UsedOld DEF OrderInv
<1>8. /\ t \in SendTask /\ t.pc = "wait" /\ t.dest = d /\ t.init = i
      /\ t.reply = snd[n][s].reply /\ t.no = snd[n][s].no
  BY <1>0, <1>1, <1>2 DEF SendTask, SendPc
<1>9. f \in Frame /\ f.type = "start" /\ f.src = n /\ f.init = i
  BY <1>2 DEF Frame
<1>. HIDE DEF t, f
<1>10. TasksKept
  BY <1>0, <1>1, <1>3, <1>8, BecomeKeeps
<1>11. FramesKept
  <2>1. GoodFrame(d, f)'
    BY <1>6, <1>9 DEF GoodFrame, DrewFor, Drew, f
  <2>. QED  BY <1>1, <1>3, <1>9, <2>1, PostKeeps
<1>12. /\ snd'[n][s] = t
       /\ \A m \in Nodes, u \in Senders : m # n \/ u # s => snd'[m][u] = snd[m][u]
  BY <1>1, <1>3, <1>8, BecomeUpdates
<1>13. ASSUME NEW m \in Nodes, NEW e \in Nodes, NEW c \in Held(m, e)'
       PROVE  \E o \in Held(m, e) : o.key = c.key /\ o.recvNonce <= c.recvNonce
  <2>1. \A u \in Senders : snd'[m][u].pc \in Encrypted =>
              /\ snd[m][u].pc \in Encrypted
              /\ snd'[m][u].dest = snd[m][u].dest /\ snd'[m][u].copy = snd[m][u].copy
    BY <1>8, <1>12 DEF Encrypted
  <2>2. c \in Held(m, e) \/ c = None
    BY <2>1, <1>3, HeldGrows
  <2>3. c # None
    BY HeldIsNext
  <2>4. c.recvNonce <= c.recvNonce
    BY <2>2, <2>3, HeldType, SessionParts
  <2>. QED  BY <2>2, <2>3, <2>4
<1>14. \A m \in Nodes, u \in Senders : snd'[m][u].pc = "wait" =>
              \/ snd[m][u].pc = "wait" /\ snd'[m][u].init = snd[m][u].init
              \/ \A a \in used : a.key.init # snd'[m][u].init
  BY <1>7, <1>8, <1>12
<1>15. \A m \in Nodes : rcv'[m].pc = "decrypted" =>
         rcv[m].pc = "decrypted" /\ rcv'[m].got = rcv[m].got
  BY <1>3
<1>. QED  BY <1>3, <1>4, <1>10, <1>11, <1>13, <1>14, <1>15 DEF Inherits, TasksKept, FramesKept

LEMMA OrderHandshakeFinish ==
    ASSUME LocalInv, LocalInv', OrderInv, NEW n \in Nodes, NEW s \in Senders,
           HandshakeFinish(n, s), snd[n][s].reply.init = snd[n][s].init
    PROVE  Inherits /\ TasksKept
<1>0. PICK d, i, r : d = snd[n][s].dest /\ i = snd[n][s].init /\ r = snd[n][s].reply.resp
  OBVIOUS
<1>. DEFINE c == NewSession(i, r, "initiator")
<1>1. /\ snd[n][s].pc = "wait" /\ snd[n][s].pc \in Active /\ d \in Nodes
      /\ i \in Eph /\ TypeOK /\ snd[n][s] \in SendTask /\ snd[n][s].pc \notin Encrypted
  <2>1. snd[n][s].pc = "wait" /\ snd[n][s].pc \in Active /\ snd[n][s].pc \notin Encrypted
    BY DEF HandshakeFinish, Active, SendPc, Encrypted
  <2>2. d \in Nodes /\ i \in Eph
    BY <1>0, <2>1 DEF LocalInv, TaskInv
  <2>3. TypeOK /\ snd[n][s] \in SendTask
    BY DEF LocalInv, TypeOK
  <2>. QED  BY <2>1, <2>2, <2>3
<1>2. snd[n][s].reply # None /\ r \in Eph
  BY <1>0, <1>1 DEF HandshakeFinish, SendTask, Reply
<1>3. /\ used' = used /\ log' = log /\ eph' = eph /\ rcv' = rcv /\ inbox' = inbox
      /\ Save(n, d, c) /\ Goto(n, s, "load")
  BY <1>0 DEF HandshakeFinish, history
<1>4. /\ c \in Session /\ c.key.init = i /\ PeerEph(c.key) = r
      /\ RecvKey(c).init = i
  BY <1>1, <1>2 DEF NewSession, Session, Key, Roles, PeerEph, MyEph, Flip, OtherRole, RecvKey
<1>5. DrewFor(d, n, PeerEph(c.key))'
  <2>1. DrewFor(d, n, r)
    BY <1>0, <1>2 DEF OrderInv, PeerInv
  <2>2. DrewFor(d, n, r)'
    BY <2>1, <1>3 DEF DrewFor, Drew
  <2>. QED  BY <1>4, <2>2
<1>6. \A a \in used : Decryptable(c, a) => Follows(n, a)
  <2>1. \A a \in used : a.key.init = i => Follows(n, a)
    BY <1>0, <1>1 DEF OrderInv, OrderedInv
  <2>. HIDE DEF c
  <2>. QED  BY <2>1, <1>4 DEF Decryptable
<1>. HIDE DEF c
<1>7. TasksKept
  <2>1. "load" \in SendPc
    BY DEF SendPc
  <2>. QED  BY <1>1, <1>3, <2>1, GotoKeeps
<1>8. FramesKept
  BY <1>3 DEF FramesKept
<1>9. \A m, e \in Nodes :
        \/ sessions'[m][e] = sessions[m][e]
        \/ m = n /\ e = d /\ sessions'[m][e] = c
  BY <1>1, <1>3, <1>4, SaveUpdates
<1>10. \A m \in Nodes, u \in Senders : snd'[m][u] = snd[m][u] \/ snd'[m][u].pc = "load"
  BY <1>3 DEF Goto, Become, LocalInv, TypeOK, SendTask
<1>11. \A m \in Nodes, u \in Senders :
         /\ snd'[m][u].pc \in Encrypted => snd'[m][u] = snd[m][u]
         /\ snd'[m][u].pc = "wait" => snd'[m][u] = snd[m][u]
  BY <1>10 DEF Encrypted
<1>12. \A m \in Nodes : eph[m] <= eph'[m]
  BY <1>1, <1>3 DEF TypeOK
<1>13. \A m, e \in Nodes :
              \/ sessions'[m][e] = sessions[m][e]
              \/ /\ m = n /\ e = d
                 /\ sessions'[m][e] \in Held(m, e) \cup {None, c}
  BY <1>9
<1>. QED  BY <1>1, <1>3, <1>4, <1>5, <1>6, <1>7, <1>8, <1>11, <1>12, <1>13, GrowsInherits

(* A copy that is saved was held before. *)
LEMMA OrderSendSave ==
    ASSUME LocalInv, LocalInv', OrderInv, NEW n \in Nodes, NEW s \in Senders,
           SendSave(n, s)
    PROVE  Inherits /\ TasksKept
<1>. DEFINE d == snd[n][s].dest
            c == snd[n][s].copy
<1>1. /\ snd[n][s].pc \in Active /\ d \in Nodes /\ TypeOK
      /\ snd[n][s].pc \in Encrypted /\ c \in Session
  <2>1. snd[n][s].pc \in Active /\ snd[n][s].pc \in Encrypted
    BY DEF SendSave, Active, SendPc, Encrypted
  <2>. QED  BY <2>1 DEF LocalInv, TaskInv
<1>2. /\ used' = used /\ log' = log /\ eph' = eph /\ rcv' = rcv /\ inbox' = inbox
      /\ Save(n, d, c) /\ Become(n, s, Idle)
  BY DEF SendSave, Return, history
<1>3. c \in Held(n, d)
  BY <1>1, NoneAssumption, HeldIs
<1>4. TasksKept
  BY <1>1, <1>2, ReturnKeeps
<1>5. FramesKept
  BY <1>2 DEF FramesKept
<1>6. \A m, e \in Nodes :
              \/ sessions'[m][e] = sessions[m][e]
              \/ /\ m = n /\ e = d
                 /\ sessions'[m][e] \in Held(m, e) \cup {None, c}
  BY <1>1, <1>2, <1>3, SaveUpdates
<1>7. \A m \in Nodes, u \in Senders : snd'[m][u] = snd[m][u] \/ snd'[m][u] = Idle
  BY <1>2 DEF Become, LocalInv, TypeOK
<1>8. \A m \in Nodes, u \in Senders :
         /\ snd'[m][u].pc \in Encrypted => snd'[m][u] = snd[m][u]
         /\ snd'[m][u].pc = "wait" => snd'[m][u] = snd[m][u]
  BY <1>7 DEF Encrypted, Idle
<1>9. \A m \in Nodes : eph[m] <= eph'[m]
  BY <1>1, <1>2 DEF TypeOK
<1>10. \E o \in Held(n, d) : o.key = c.key /\ o.recvNonce <= c.recvNonce
  <2>1. c.recvNonce <= c.recvNonce
    BY <1>1, SessionParts
  <2>. QED  BY <1>3, <2>1
<1>. HIDE DEF c, d
<1>. QED  BY <1>1, <1>2, <1>4, <1>5, <1>6, <1>8, <1>9, <1>10, GrowsInherits

LEMMA OrderRespondSave ==
    ASSUME LocalInv, LocalInv', OrderInv, NEW n \in Nodes, RecvRespondSave(n)
    PROVE  Inherits /\ TasksKept
<1>. DEFINE d == rcv[n].src
            c == rcv[n].copy
<1>1. rcv[n].pc = "respond" /\ d \in Nodes /\ TypeOK /\ c \in Session
  BY DEF RecvRespondSave, LocalInv, TaskInv
<1>2. /\ used' = used /\ log' = log /\ eph' = eph /\ snd' = snd /\ inbox' = inbox
      /\ Save(n, d, c) /\ rcv' = [rcv EXCEPT ![n] = RecvIdle]
  BY DEF RecvRespondSave, history
<1>3. c \in Held(n, d)
  BY <1>1, NoneAssumption, HeldIs
<1>4. TasksKept
  BY <1>2, SameKeeps
<1>5. FramesKept
  BY <1>2 DEF FramesKept
<1>6. \A m, e \in Nodes :
              \/ sessions'[m][e] = sessions[m][e]
              \/ /\ m = n /\ e = d
                 /\ sessions'[m][e] \in Held(m, e) \cup {None, c}
  BY <1>1, <1>2, <1>3, SaveUpdates
<1>7. \A m \in Nodes : rcv'[m] = rcv[m] \/ rcv'[m].pc \notin {"respond", "decrypted"}
  <2>1. \A m \in Nodes : rcv'[m] = rcv[m] \/ rcv'[m] = RecvIdle
    BY <1>1, <1>2 DEF TypeOK
  <2>. QED  BY <2>1 DEF RecvIdle
<1>9. \A m \in Nodes : eph[m] <= eph'[m]
  BY <1>1, <1>2 DEF TypeOK
<1>10. \E o \in Held(n, d) : o.key = c.key /\ o.recvNonce <= c.recvNonce
  <2>1. c.recvNonce <= c.recvNonce
    BY <1>1, SessionParts
  <2>. QED  BY <1>3, <2>1
<1>. HIDE DEF c, d
<1>. QED  BY <1>1, <1>2, <1>4, <1>5, <1>6, <1>7, <1>9, <1>10, GrowsInherits

LEMMA OrderRecvStart ==
    ASSUME LocalInv, LocalInv', OrderInv, NEW n \in Nodes, NEW f, NEW r,
           inbox[n] # <<>>, f = Head(inbox[n]), f.type = "start",
           r = NewEph(n, f.src), eph' = [eph EXCEPT ![n] = @ + 1],
           inbox' = Post(Rest(n), f.src,
              [type |-> "finish", src |-> n, init |-> f.init, resp |-> r]),
           Answer(f.src, n, f.init, r),
           rcv' = [rcv EXCEPT ![n] = [RecvIdle EXCEPT !.pc = "respond", !.src = f.src,
                     !.copy = NewSession(f.init, r, "responder")]],
           UNCHANGED <<sessions, used, log>>
    PROVE  Inherits /\ TasksKept
<1>. DEFINE d == f.src
            c == NewSession(f.init, r, "responder")
            t == [RecvIdle EXCEPT !.pc = "respond", !.src = d, !.copy = c]
            g == [type |-> "finish", src |-> n, init |-> f.init, resp |-> r]
<1>1. TypeOK /\ f \in Frame /\ f \in FramesOf(inbox, n)
  BY PopType, RestFrames DEF LocalInv
<1>2. d \in Nodes /\ f.init \in Eph
  BY <1>1 DEF Frame
<1>3. \A m \in Nodes : eph[m] \in Nat /\ eph'[m] \in Nat /\ eph[m] <= eph'[m]
  BY <1>1 DEF TypeOK
<1>4. r \in Eph /\ DrewFor(n, d, r)'
  <2>1. eph'[n] = eph[n] + 1
    BY <1>1 DEF TypeOK
  <2>. QED  BY <1>2, <1>3, <2>1 DEF NewEph, Eph, DrewFor, Drew
<1>5. DrewFor(d, n, f.init)'
  <2>1. DrewFor(d, n, f.init)
    BY <1>1, FramesGood DEF GoodFrame
  <2>. QED  BY <1>2, <1>3, <2>1, DrewKept
<1>6. \A a \in used : a.key.resp # r
  BY <1>2, UsedOld DEF OrderInv
<1>7. c \in Session /\ PeerEph(c.key) = f.init /\ RecvKey(c).resp = r
  BY <1>2, <1>4 DEF NewSession, Session, Key, Roles, PeerEph, MyEph, Flip, OtherRole, RecvKey
<1>8. \A a \in used : ~Decryptable(c, a)
  <2>. HIDE DEF c
  <2>. QED  BY <1>6, <1>7 DEF Decryptable
<1>9. DrewFor(d, n, PeerEph(c.key))'
  BY <1>5, <1>7
<1>10. t.pc = "respond" /\ t.src = d /\ t.copy = c
  <2>. HIDE DEF c
  <2>. QED  BY DEF RecvIdle
<1>11. \A m \in Nodes : IF m = n THEN rcv'[m] = t ELSE rcv'[m] = rcv[m]
  <2>1. rcv' = [rcv EXCEPT ![n] = t]
    OBVIOUS
  <2>. HIDE DEF t
  <2>. QED  BY <1>1, <2>1 DEF TypeOK
<1>12. g \in Frame /\ g.type = "finish" /\ g.src = n /\ g.resp = r
  BY <1>2, <1>4 DEF Frame
<1>13. inbox' = Post(Rest(n), d, g)
  OBVIOUS
<1>14. Answer(d, n, f.init, r)
  OBVIOUS
<1>15. TasksKept
  <2>. HIDE DEF d
  <2>. QED  BY <1>1, <1>2, <1>4, <1>14, AnswerKeeps
<1>16. FramesKept
  <2>1. GoodFrame(d, g)'
    BY <1>4, <1>12 DEF GoodFrame, DrewFor, Drew
  <2>. HIDE DEF g, d
  <2>2. Rest(n) \in [Nodes -> Seq(Frame)]
    BY <1>1, PopType
  <2>3. ASSUME NEW m \in Nodes, NEW h \in FramesOf(inbox', m)
        PROVE  h \in FramesOf(Rest(n), m) \/ (m = d /\ h = g)
    BY <1>2, <1>12, <1>13, <2>2, PostFrames
  <2>4. \A m \in Nodes : FramesOf(Rest(n), m) \subseteq FramesOf(inbox, m)
    BY <1>1, RestFrames
  <2>5. ASSUME NEW m \in Nodes, NEW h \in FramesOf(inbox', m)
        PROVE  h \in FramesOf(inbox, m) \/ GoodFrame(m, h)'
    <3>1. CASE m = d /\ h = g
      BY <2>1, <3>1
    <3>. QED  BY <2>3, <2>4, <3>1
  <2>. QED  BY <2>5 DEF FramesKept
<1>17. SameSends
  BY <1>1, <1>2, <1>4, <1>14, AnswerUpdates
<1>18. \A m \in Nodes, u \in Senders :
              /\ snd'[m][u].pc \in Encrypted =>
                   /\ snd[m][u].pc \in Encrypted
                   /\ snd'[m][u].dest = snd[m][u].dest
                   /\ snd'[m][u].copy = snd[m][u].copy
              /\ snd'[m][u].pc = "wait" =>
                   snd[m][u].pc = "wait" /\ snd'[m][u].init = snd[m][u].init
  BY <1>17 DEF SameSends
<1>. HIDE DEF c, t, g, d
<1>19. \A m \in Nodes :
         \/ rcv'[m] = rcv[m]
         \/ m = n /\ rcv'[m].src = d /\ rcv'[m].copy = c /\ rcv'[m].pc # "decrypted"
  BY <1>10, <1>11
<1>. QED  BY <1>2, <1>3, <1>7, <1>8, <1>9, <1>15, <1>16, <1>18, <1>19, GrowsInherits

(* A frame that a session decrypts is one send() encrypted, and comes after all
   that was delivered. *)
LEMMA OrderDecrypt ==
    ASSUME LocalInv, LocalInv', OrderInv, NEW n \in Nodes, RecvFrame(n),
           sessions[n][Head(inbox[n]).src] # None,
           Decryptable(sessions[n][Head(inbox[n]).src], Head(inbox[n]).body)
    PROVE  Inherits /\ TasksKept
<1>. DEFINE f == Head(inbox[n])
            d == f.src
            g == f.body
            c == sessions[n][d]
            c1 == [c EXCEPT !.recvNonce = g.nonce]
            t == [pc |-> "decrypted", src |-> d, got |-> g, copy |-> c1]
<1>1. /\ f \in Frame /\ d \in Nodes /\ g \in Encryption
      /\ TypeOK /\ g \in used /\ inbox[n] # <<>>
  <2>1. TypeOK /\ inbox[n] # <<>> /\ f.type = "frame"
    BY DEF RecvFrame, Take, LocalInv
  <2>2. f \in Frame /\ f \in FramesOf(inbox, n)
    BY <2>1, PopType, RestFrames
  <2>3. f.body \in used
    BY <2>1, <2>2, FramesGood DEF GoodFrame
  <2>. QED  BY <2>1, <2>2, <2>3 DEF Frame
<1>2. c \in Session
  BY <1>1 DEF TypeOK
<1>3. /\ c1 \in Session /\ c1.key = c.key /\ c1.recvNonce = g.nonce
      /\ c.recvNonce \in Nat /\ g.nonce \in Nat
  BY <1>1, <1>2 DEF Session, Encryption
<1>4. c \in Held(n, d)
  BY HeldIs
<1>5. c.recvNonce <= c1.recvNonce
  BY <1>3 DEF Decryptable
<1>6. Follows(n, g)
  BY <1>1, <1>4 DEF OrderInv, OrderedInv
<1>7. /\ UNCHANGED <<sessions, snd, eph, used, log>> /\ Pop(n)
      /\ rcv' = [rcv EXCEPT ![n] = t]
  BY DEF RecvFrame, history
<1>. HIDE DEF c1
<1>8. t.pc = "decrypted" /\ t.src = d /\ t.got = g /\ t.copy = c1
  OBVIOUS
<1>. HIDE DEF t
<1>9. \A m \in Nodes : IF m = n THEN rcv'[m] = t ELSE rcv'[m] = rcv[m]
  BY <1>1, <1>7 DEF TypeOK
<1>. HIDE DEF g, c, d
<1>10. \A m \in Nodes :
              \/ rcv'[m] = rcv[m]
              \/ /\ m = n /\ rcv'[m].src = d /\ rcv'[m].copy = c1
                 /\ rcv'[m].got \in used /\ Follows(n, rcv'[m].got)
  BY <1>1, <1>6, <1>8, <1>9
<1>11. TasksKept
  BY <1>7, SameKeeps
<1>12. FramesKept
  BY <1>1, <1>7, PopKeeps
<1>13. \A m \in Nodes : eph[m] <= eph'[m]
  BY <1>1, <1>7 DEF TypeOK
<1>14. \E o \in Held(n, d) : o.key = c1.key /\ o.recvNonce <= c1.recvNonce
  BY <1>3, <1>4, <1>5
<1>. QED  BY <1>1, <1>3, <1>7, <1>10, <1>11, <1>12, <1>13, <1>14, GrowsInherits

-----------------------------------------------------------------------------
(* A step that encrypts *)

OrdInv == CallInv /\ OrderInv /\ InOrderDelivery

LEMMA OrderEncrypt ==
    ASSUME LocalInv, LocalInv', KeyInv, OrdInv, NEW n \in Nodes, NEW s \in Senders,
           SendEncrypt(n, s), sessions[n][snd[n][s].dest] # None
    PROVE  OrdInv'
<1>0. PICK d, c, k : /\ d = snd[n][s].dest /\ c = sessions[n][d] /\ k = snd[n][s].no
  OBVIOUS
<1>. DEFINE msg == [from |-> n, no |-> k, to |-> d]
            e == [key |-> c.key, nonce |-> c.sendNonce + 1, msg |-> msg]
            c1 == [c EXCEPT !.sendNonce = @ + 1]
            t == [snd[n][s] EXCEPT !.pc = "transmit", !.copy = c1]
<1>1. /\ snd[n][s].pc = "load" /\ snd[n][s].pc \in Active /\ d \in Nodes
      /\ TypeOK /\ snd[n][s] \in SendTask /\ snd[n][s].pc \notin Encrypted
  <2>1. snd[n][s].pc = "load" /\ snd[n][s].pc \in Active /\ snd[n][s].pc \notin Encrypted
    BY DEF SendEncrypt, Active, SendPc, Encrypted
  <2>2. d \in Nodes
    BY <1>0, <2>1 DEF LocalInv, TaskInv
  <2>3. TypeOK /\ snd[n][s] \in SendTask
    BY DEF LocalInv, TypeOK
  <2>. QED  BY <2>1, <2>2, <2>3
<1>2. /\ UNCHANGED <<sessions, rcv, inbox, eph, sent, log>>
      /\ Become(n, s, t) /\ used' = used \cup {e}
  BY <1>0 DEF SendEncrypt, bounds
<1>3. c \in Session /\ c # None
  BY <1>0, <1>1 DEF TypeOK
<1>4. /\ c.key \in Key /\ c.sendNonce \in Nat /\ c.recvNonce \in Nat
      /\ PeerEph(c.key) \in Eph /\ MyEph(c.key) \in Eph
  BY <1>3, SessionParts
<1>5. c1 \in Session /\ c1.key = c.key /\ c1.recvNonce = c.recvNonce
      /\ c1.sendNonce = c.sendNonce + 1
  BY <1>3 DEF Session
<1>6. /\ e.key = c.key /\ e.nonce = c.sendNonce + 1 /\ e.msg.from = n
      /\ e.msg.no = k /\ e.msg.to = d
  OBVIOUS
<1>6a. /\ e = [key |-> c1.key, nonce |-> c1.sendNonce, msg |-> [from |-> n, no |-> k, to |-> d]]
  BY <1>5
<1>. HIDE DEF c1
<1>7. /\ t \in SendTask /\ t.pc = "transmit" /\ t.dest = d /\ t.copy = c1
      /\ t.reply = snd[n][s].reply /\ t.no = k
  BY <1>0, <1>1, <1>5 DEF SendTask, SendPc
<1>. HIDE DEF t, e
<1>8. /\ snd'[n][s] = t
      /\ \A m \in Nodes, u \in Senders : m # n \/ u # s => snd'[m][u] = snd[m][u]
  BY <1>1, <1>2, <1>7, BecomeUpdates
<1>9. /\ \A u \in Senders : u # s => snd[n][u].pc \notin Active
      /\ rcv[n].pc \in {"idle", "respond"}
  BY <1>1, HolderAlone
<1>10. \A u \in Senders : snd[n][u].pc \notin Encrypted
  <2>1. Encrypted \subseteq Active
    BY DEF Encrypted, Active, SendPc
  <2>. QED  BY <1>1, <1>9, <2>1
<1>11. \A a \in used : a.key = c.key =>
          a.nonce <= c.sendNonce \/ a.nonce = c.sendNonce + 1
  BY <1>0, <1>1, <1>3 DEF KeyInv, NonceInv, SendCoversBut
(* The call is later than any that encrypted for this client. *)
<1>12. /\ k = sent[n] /\ k \in Nat
       /\ \A a \in used : a.msg.from = n => a.msg.no < k
  BY <1>0, <1>1 DEF OrdInv, CallInv, SendTask
<1>13. CallInv'
  <2>1. \A a \in used' : a.msg.no <= sent'[a.msg.from]
    BY <1>2, <1>6, <1>12 DEF OrdInv, CallInv
  <2>2. ASSUME NEW m \in Nodes, NEW u \in Senders, snd'[m][u].pc \in Active
        PROVE  /\ snd'[m][u].no = sent'[m]
               /\ snd'[m][u].pc \notin Encrypted =>
                    \A a \in used' : a.msg.from = m => a.msg.no < sent'[m]
    <3>1. CASE m = n /\ u = s
      <4>1. snd'[m][u].pc \in Encrypted
        BY <1>7, <1>8, <3>1 DEF Encrypted
      <4>. QED  BY <4>1, <1>2, <1>7, <1>8, <1>12, <3>1
    <3>2. CASE m # n
      BY <1>2, <1>6, <1>8, <2>2, <3>2 DEF OrdInv, CallInv
    <3>3. CASE m = n /\ u # s
      BY <1>8, <1>9, <2>2, <3>3
    <3>. QED  BY <3>1, <3>2, <3>3
  <2>. QED  BY <2>1, <2>2 DEF CallInv
<1>14. c \in Held(n, d)
  BY <1>0, <1>3, HeldIs
<1>15. DrewFor(n, d, MyEph(c.key)) /\ DrewFor(d, n, PeerEph(c.key))
  <2>1. DrewFor(n, d, MyEph(c.key))
    BY <1>0, <1>1, <1>3 DEF KeyInv, OwnedInv
  <2>. QED  BY <2>1, <1>1, <1>14 DEF OrdInv, OrderInv, PeerInv
<1>16. \A m, q, x : DrewFor(m, q, x) => DrewFor(m, q, x)'
  BY <1>2 DEF DrewFor, Drew
<1>17. ASSUME NEW m \in Nodes, NEW q \in Nodes, NEW o \in Held(m, q)'
       PROVE  \E b \in Held(m, q) : b.key = o.key /\ b.recvNonce = o.recvNonce
  <2>. DEFINE y == IF m = n /\ q = d THEN c1 ELSE None
  <2>1. \A u \in Senders : snd'[m][u].pc \in Encrypted /\ snd'[m][u].dest = q =>
              \/ /\ snd[m][u].pc \in Encrypted
                 /\ snd'[m][u].dest = snd[m][u].dest /\ snd'[m][u].copy = snd[m][u].copy
              \/ snd'[m][u].copy = y
    BY <1>7, <1>8
  <2>2. y = None \/ (m = n /\ q = d /\ y = c1)
    OBVIOUS
  <2>. HIDE DEF y
  <2>3. o \in Held(m, q) \/ o = y
    BY <1>2, <2>1, HeldGrows
  <2>4. o # None
    BY HeldIsNext
  <2>. QED  BY <1>5, <1>14, <2>2, <2>3, <2>4
(* What was delivered was encrypted earlier. *)
<1>18. \A m \in Nodes : Follows(m, e) /\ \A a : Follows(m, a) => Follows(m, a)'
  <2>1. \A m \in Nodes : \A i \in DOMAIN log[m] : log[m][i] \in used
    BY DEF OrdInv, OrderInv, UsedInv
  <2>. QED  BY <1>2, <1>6, <1>12, <2>1 DEF Follows
<1>19. PeerInv'
  <2>1. ASSUME NEW a \in used'
        PROVE  /\ DrewFor(a.msg.from, a.msg.to, MyEph(a.key))'
               /\ DrewFor(a.msg.to, a.msg.from, PeerEph(a.key))'
    <3>1. CASE a = e
      BY <1>6, <1>15, <1>16, <3>1
    <3>2. CASE a \in used
      BY <1>16, <3>2 DEF OrdInv, OrderInv, PeerInv
    <3>. QED  BY <1>2, <3>1, <3>2
  <2>2. ASSUME NEW m \in Nodes, NEW q \in Nodes, NEW o \in Held(m, q)'
        PROVE  DrewFor(q, m, PeerEph(o.key))'
    <3>1. PICK b \in Held(m, q) : b.key = o.key
      BY <1>17
    <3>2. DrewFor(q, m, PeerEph(b.key))
      BY DEF OrdInv, OrderInv, PeerInv
    <3>. QED  BY <1>16, <3>1, <3>2
  <2>3. ASSUME NEW m \in Nodes, NEW u \in Senders, snd'[m][u].reply # None
        PROVE  DrewFor(snd[m][u].dest, m, snd[m][u].reply.resp)'
    <3>1. snd'[m][u].reply = snd[m][u].reply /\ snd'[m][u].dest = snd[m][u].dest
      BY <1>0, <1>7, <1>8
    <3>2. DrewFor(snd[m][u].dest, m, snd[m][u].reply.resp)
      BY <2>3, <3>1 DEF OrdInv, OrderInv, PeerInv
    <3>. QED  BY <3>1, <3>2, <1>2 DEF DrewFor, Drew
  <2>4. ASSUME NEW m \in Nodes, NEW i \in DOMAIN inbox'[m]
        PROVE  /\ inbox'[m][i].type = "start" =>
                    DrewFor(inbox[m][i].src, m, inbox[m][i].init)'
               /\ inbox'[m][i].type = "finish" =>
                    DrewFor(inbox[m][i].src, m, inbox[m][i].resp)'
    BY <1>2 DEF OrdInv, OrderInv, PeerInv, DrewFor, Drew
  <2>. QED  BY <2>1, <2>2, <2>3, <2>4 DEF PeerInv
(* Nobody else holds the key, and no nonce before is larger. *)
<1>20. ASSUME NEW a \in used, a.key = e.key
       PROVE  a.nonce <= e.nonce /\ a.msg.no < e.msg.no
  <2>1. a.nonce \in Nat /\ a.nonce <= c.sendNonce + 1
    BY <1>4, <1>6, <1>11, <1>20, UsedType
  <2>2. a.msg.from = n
    <3>1. DrewFor(a.msg.from, a.msg.to, MyEph(c.key))
      BY <1>6, <1>20 DEF OrdInv, OrderInv, PeerInv
    <3>. QED  BY <1>15, <3>1 DEF DrewFor, Drew
  <2>. QED  BY <1>4, <1>6, <1>12, <2>1, <2>2
<1>21. UsedInv'
  <2>1. ASSUME NEW a \in used', NEW b \in used', a.key = b.key, a.nonce < b.nonce
        PROVE  a.msg.no < b.msg.no
    <3>1. CASE a \in used /\ b \in used
      BY <2>1, <3>1 DEF OrdInv, OrderInv, UsedInv
    <3>2. CASE a \in used /\ b = e
      BY <1>20, <2>1, <3>2
    <3>3. CASE a = e /\ b \in used
      <4>1. b.nonce <= e.nonce /\ e.nonce < b.nonce
        BY <1>20, <2>1, <3>3
      <4>2. b.nonce \in Nat /\ e.nonce \in Nat
        BY <1>4, <1>6, <3>3, UsedType
      <4>. QED  BY <4>1, <4>2
    <3>4. CASE a = e /\ b = e
      BY <1>4, <1>6, <2>1, <3>4
    <3>. QED  BY <1>2, <3>1, <3>2, <3>3, <3>4
  <2>2. ASSUME NEW m \in Nodes, NEW u \in Senders, snd'[m][u].pc = "transmit"
        PROVE  EncOf(m, u)' \in used'
    <3>1. CASE m = n /\ u = s
      BY <1>2, <1>6a, <1>7, <1>8, <3>1 DEF EncOf
    <3>2. CASE m # n \/ u # s
      <4>1. snd'[m][u] = snd[m][u]
        BY <1>8, <3>2
      <4>2. EncOf(m, u) \in used
        BY <2>2, <4>1 DEF OrdInv, OrderInv, UsedInv
      <4>3. EncOf(m, u)' = EncOf(m, u)
        BY <4>1 DEF EncOf
      <4>. QED  BY <1>2, <4>2, <4>3
    <3>. QED  BY <3>1, <3>2
  <2>3. ASSUME NEW m \in Nodes
        PROVE  /\ \A i \in DOMAIN inbox'[m] :
                    inbox'[m][i].type = "frame" => inbox'[m][i].body \in used'
               /\ rcv'[m].pc = "decrypted" => rcv'[m].got \in used'
               /\ \A i \in DOMAIN log'[m] : log'[m][i] \in used'
    BY <1>2 DEF OrdInv, OrderInv, UsedInv
  <2>. QED  BY <2>1, <2>2, <2>3 DEF UsedInv
<1>22. OrderedInv'
  <2>1. ASSUME NEW m \in Nodes, NEW q \in Nodes, NEW o \in Held(m, q)',
               NEW a \in used', Decryptable(o, a)
        PROVE  Follows(m, a)'
    <3>1. PICK b \in Held(m, q) : b.key = o.key /\ b.recvNonce = o.recvNonce
      BY <1>17
    <3>2. Decryptable(b, a)
      BY <2>1, <3>1 DEF Decryptable, RecvKey
    <3>3. a \in used => Follows(m, a)
      BY <3>2 DEF OrdInv, OrderInv, OrderedInv
    <3>. QED  BY <1>2, <1>18, <3>3
  <2>2. ASSUME NEW m \in Nodes, NEW u \in Senders, snd'[m][u].pc = "wait",
               NEW a \in used', a.key.init = snd'[m][u].init
        PROVE  Follows(m, a)'
    <3>1. snd'[m][u] = snd[m][u]
      BY <1>7, <1>8, <2>2
    <3>2. a \in used => Follows(m, a)
      BY <2>2, <3>1 DEF OrdInv, OrderInv, OrderedInv
    <3>. QED  BY <1>2, <1>18, <3>2
  <2>3. ASSUME NEW m \in Nodes, rcv'[m].pc = "decrypted" PROVE Follows(m, rcv[m].got)'
    BY <1>2, <2>3 DEF OrdInv, OrderInv, OrderedInv, Follows
  <2>. QED  BY <2>1, <2>2, <2>3 DEF OrderedInv, Decryptable, RecvKey, Flip
<1>23. InOrderDelivery'
  BY <1>2 DEF OrdInv, InOrderDelivery
<1>. QED  BY <1>13, <1>19, <1>21, <1>22, <1>23 DEF OrdInv, OrderInv

-----------------------------------------------------------------------------
(* The step that delivers *)

(* What a session decrypts comes from its peer, for this node. *)
LEMMA SenderOf ==
    ASSUME PeerInv, NEW n \in Nodes, NEW q \in Nodes, NEW o \in Held(n, q),
           NEW a \in used, a.key = Flip(o.key)
    PROVE  a.msg.from = q /\ a.msg.to = n
<1>1. DrewFor(a.msg.from, a.msg.to, MyEph(a.key))
  BY DEF PeerInv
<1>2. DrewFor(q, n, PeerEph(o.key))
  BY DEF PeerInv
<1>3. PeerEph(o.key) = MyEph(a.key)
  BY DEF PeerEph
<1>. QED  BY <1>1, <1>2, <1>3 DEF DrewFor, Drew

LEMMA OrderRecvSave ==
    ASSUME LocalInv, LocalInv', KeyInv, OrdInv, NEW n \in Nodes, RecvSave(n)
    PROVE  OrdInv'
<1>0. PICK d, c, g : d = rcv[n].src /\ c = rcv[n].copy /\ g = rcv[n].got
  OBVIOUS
<1>1. /\ rcv[n].pc = "decrypted" /\ TypeOK
      /\ UNCHANGED <<snd, inbox, eph, used, sent>>
      /\ Save(n, d, c) /\ rcv' = [rcv EXCEPT ![n] = RecvIdle]
      /\ log' = [log EXCEPT ![n] = Append(@, g)]
  BY <1>0 DEF RecvSave, bounds, LocalInv
<1>2. d \in Nodes /\ c \in Session /\ g \in Encryption /\ guard[n] = "receive"
  BY <1>0, <1>1 DEF LocalInv, TaskInv, GuardInv
<1>3. \A u \in Senders : snd[n][u].pc # "wait" /\ snd[n][u].pc \notin Encrypted
  BY <1>2, LoopAlone
<1>4. c \in Held(n, d)
  BY <1>0, <1>1, <1>2, NoneAssumption, HeldIs
<1>5. g \in used /\ Follows(n, g)
  BY <1>0, <1>1 DEF OrdInv, OrderInv, UsedInv, OrderedInv
<1>6. g.key = Flip(c.key) /\ g.nonce = c.recvNonce
  BY <1>0, <1>1 DEF KeyInv, NonceInv
<1>7. g.msg.from = d /\ g.msg.to = n
  BY <1>2, <1>4, <1>5, <1>6, SenderOf DEF OrdInv, OrderInv
<1>8. /\ rcv'[n] = RecvIdle /\ RecvIdle.pc = "idle"
      /\ \A m \in Nodes : m # n => rcv'[m] = rcv[m]
  BY <1>1 DEF TypeOK, RecvIdle
<1>9. /\ sessions'[n][d] = c
      /\ \A m, q \in Nodes : m # n \/ q # d => sessions'[m][q] = sessions[m][q]
  BY <1>1, <1>2, SaveUpdates
<1>10. /\ log[n] \in Seq(Encryption) /\ log'[n] = Append(log[n], g)
       /\ \A m \in Nodes : m # n => log'[m] = log[m]
  BY <1>1 DEF TypeOK
<1>11. ASSUME NEW m \in Nodes, NEW i \in DOMAIN log'[m]
       PROVE  \/ i \in DOMAIN log[m] /\ log'[m][i] = log[m][i]
              \/ m = n /\ i = Len(log[n]) + 1 /\ log'[m][i] = g
  <2>1. CASE m # n
    BY <1>10, <1>11, <2>1
  <2>2. CASE m = n
    <3>1. i \in 1 .. Len(log[n]) + 1
      BY <1>10, <1>11, <2>2
    <3>2. CASE i = Len(log[n]) + 1
      BY <1>10, <2>2, <3>2
    <3>3. CASE i \in 1 .. Len(log[n])
      BY <1>10, <2>2, <3>3
    <3>. QED  BY <3>1, <3>2, <3>3, <1>10
  <2>. QED  BY <2>1, <2>2
<1>12. ASSUME NEW m \in Nodes, NEW q \in Nodes, NEW o \in Held(m, q)'
       PROVE  o \in Held(m, q) /\ (m = n /\ q = d => o = c)
  <2>1. o # None
    BY HeldIsNext
  <2>2. CASE o = sessions'[m][q]
    <3>1. CASE m = n /\ q = d
      BY <1>4, <1>9, <2>2, <3>1
    <3>2. CASE m # n \/ q # d
      BY <1>9, <2>1, <2>2, <3>2, HeldIs
    <3>. QED  BY <3>1, <3>2
  <2>3. ASSUME NEW s \in Senders, snd'[m][s].pc \in Encrypted,
               snd'[m][s].dest = q, snd'[m][s].copy = o
        PROVE  o \in Held(m, q) /\ m # n
    BY <1>1, <1>3, <2>1, <2>3, HeldIs
  <2>4. CASE rcv'[m].pc \in {"respond", "decrypted"} /\ rcv'[m].src = q /\ rcv'[m].copy = o
    <3>1. m # n /\ rcv'[m] = rcv[m]
      BY <1>8, <2>4
    <3>. QED  BY <2>1, <2>4, <3>1, HeldIs
  <2>. QED  BY <2>2, <2>3, <2>4, HeldIsNext
<1>13. CallInv'
  BY <1>1, SameKeeps, CallKept DEF OrdInv
<1>14. PeerInv'
  <2>1. \A m, q, x : DrewFor(m, q, x) => DrewFor(m, q, x)'
    BY <1>1 DEF DrewFor, Drew
  <2>2. ASSUME NEW m \in Nodes, NEW q \in Nodes, NEW o \in Held(m, q)'
        PROVE  DrewFor(q, m, PeerEph(o.key))'
    BY <1>12, <2>1 DEF OrdInv, OrderInv, PeerInv
  <2>3. ASSUME NEW a \in used'
        PROVE  /\ DrewFor(a.msg.from, a.msg.to, MyEph(a.key))'
               /\ DrewFor(a.msg.to, a.msg.from, PeerEph(a.key))'
    BY <1>1, <2>1 DEF OrdInv, OrderInv, PeerInv
  <2>4. ASSUME NEW m \in Nodes
        PROVE  /\ \A s \in Senders : snd'[m][s].reply # None =>
                    DrewFor(snd[m][s].dest, m, snd[m][s].reply.resp)'
               /\ \A i \in DOMAIN inbox'[m] :
                    /\ inbox'[m][i].type = "start" =>
                         DrewFor(inbox[m][i].src, m, inbox[m][i].init)'
                    /\ inbox'[m][i].type = "finish" =>
                         DrewFor(inbox[m][i].src, m, inbox[m][i].resp)'
    BY <1>1 DEF OrdInv, OrderInv, PeerInv, DrewFor, Drew
  <2>. QED  BY <2>2, <2>3, <2>4 DEF PeerInv
<1>15. UsedInv'
  <2>1. ASSUME NEW m \in Nodes, NEW i \in DOMAIN log'[m] PROVE log'[m][i] \in used'
    BY <1>1, <1>5, <1>11 DEF OrdInv, OrderInv, UsedInv
  <2>2. ASSUME NEW m \in Nodes, rcv'[m].pc = "decrypted" PROVE rcv'[m].got \in used'
    BY <1>1, <1>8, <2>2 DEF OrdInv, OrderInv, UsedInv
  <2>3. \A m \in Nodes, u \in Senders : snd'[m][u].pc = "transmit" => EncOf(m, u)' \in used'
    BY <1>1 DEF OrdInv, OrderInv, UsedInv, EncOf
  <2>. QED  BY <1>1, <2>1, <2>2, <2>3 DEF OrdInv, OrderInv, UsedInv
(* What follows all that was delivered, and g too, still does. *)
<1>16. ASSUME NEW m \in Nodes, NEW a, Follows(m, a),
              m = n /\ a.msg.from = d => g.msg.no < a.msg.no
       PROVE  Follows(m, a)'
  <2>. SUFFICES ASSUME NEW i \in DOMAIN log'[m], log'[m][i].msg.from = a.msg.from
                PROVE  log'[m][i].msg.no < a.msg.no
    BY DEF Follows
  <2>1. CASE i \in DOMAIN log[m] /\ log'[m][i] = log[m][i]
    BY <1>16, <2>1 DEF Follows
  <2>2. CASE m = n /\ log'[m][i] = g
    BY <1>7, <1>16, <2>2
  <2>. QED  BY <1>11, <2>1, <2>2
<1>17. OrderedInv'
  <2>1. ASSUME NEW m \in Nodes, NEW q \in Nodes, NEW o \in Held(m, q)',
               NEW a \in used', Decryptable(o, a)
        PROVE  Follows(m, a)'
    <3>1. o \in Held(m, q) /\ (m = n /\ q = d => o = c)
      BY <1>12
    <3>2. a \in used
      BY <1>1
    <3>3. Follows(m, a)
      BY <2>1, <3>1, <3>2 DEF OrdInv, OrderInv, OrderedInv
    <3>4. a.key = Flip(o.key) /\ a.nonce > o.recvNonce
      BY <2>1 DEF Decryptable, RecvKey
    <3>5. a.msg.from = q
      BY <3>1, <3>2, <3>4, SenderOf DEF OrdInv, OrderInv
    <3>6. ASSUME m = n, a.msg.from = d PROVE g.msg.no < a.msg.no
      <4>1. o = c
        BY <3>1, <3>5, <3>6
      <4>2. g.key = a.key
        BY <1>6, <3>4, <4>1
      <4>3. g.nonce < a.nonce
        <5>1. c.recvNonce \in Nat /\ a.nonce \in Nat
          BY <1>2, <3>2, SessionParts, UsedType
        <5>. QED  BY <1>6, <3>4, <4>1, <5>1
      <4>. QED  BY <1>5, <3>2, <4>2, <4>3 DEF OrdInv, OrderInv, UsedInv
    <3>. QED  BY <1>16, <3>3, <3>6
  <2>2. ASSUME NEW m \in Nodes, NEW u \in Senders, snd'[m][u].pc = "wait",
               NEW a \in used', a.key.init = snd'[m][u].init
        PROVE  Follows(m, a)'
    <3>1. m # n
      BY <1>1, <1>3, <2>2
    <3>2. Follows(m, a)
      BY <1>1, <2>2 DEF OrdInv, OrderInv, OrderedInv
    <3>. QED  BY <1>16, <3>1, <3>2
  <2>3. ASSUME NEW m \in Nodes, rcv'[m].pc = "decrypted" PROVE Follows(m, rcv[m].got)'
    <3>1. m # n /\ rcv'[m] = rcv[m]
      BY <1>8, <2>3
    <3>2. Follows(m, rcv[m].got)
      BY <2>3, <3>1 DEF OrdInv, OrderInv, OrderedInv
    <3>. QED  BY <1>10, <3>1, <3>2 DEF Follows
  <2>. QED  BY <2>1, <2>2, <2>3 DEF OrderedInv, Decryptable, RecvKey, Flip
<1>18. InOrderDelivery'
  <2>. SUFFICES ASSUME NEW m \in Nodes, NEW j \in DOMAIN log'[m]
                PROVE  /\ log'[m][j].msg.to = m
                       /\ \A i \in 1 .. j - 1 :
                            log'[m][i].msg.from = log'[m][j].msg.from
                                => log'[m][i].msg.no < log'[m][j].msg.no
    BY DEF InOrderDelivery
  <2>1. log[m] \in Seq(Encryption)
    BY <1>1 DEF TypeOK
  <2>2. CASE j \in DOMAIN log[m] /\ log'[m][j] = log[m][j]
    <3>1. ASSUME NEW i \in 1 .. j - 1 PROVE log'[m][i] = log[m][i]
      <4>1. j \in 1 .. Len(log[m])
        BY <2>1, <2>2
      <4>2. i \in DOMAIN log[m]
        BY <2>1, <4>1
      <4>3. log'[m] = log[m] \/ log'[m] = Append(log[m], g)
        BY <1>10
      <4>. QED  BY <2>1, <4>1, <4>2, <4>3
    <3>. QED  BY <2>2, <3>1 DEF OrdInv, InOrderDelivery
  <2>3. CASE m = n /\ j = Len(log[n]) + 1 /\ log'[m][j] = g
    <3>1. ASSUME NEW i \in 1 .. j - 1 PROVE i \in DOMAIN log[n] /\ log'[n][i] = log[n][i]
      <4>1. i \in 1 .. Len(log[n])
        BY <1>10, <2>3
      <4>. QED  BY <1>10, <4>1
    <3>. QED  BY <1>5, <1>7, <2>3, <3>1 DEF Follows
  <2>. QED  BY <1>11, <2>2, <2>3
<1>. QED  BY <1>13, <1>14, <1>15, <1>17, <1>18 DEF OrdInv, OrderInv

-----------------------------------------------------------------------------
(* Every step *)

LEMMA OrderKept ==
    ASSUME LocalInv, LocalInv', OrdInv, Inherits, TasksKept, UNCHANGED sent
    PROVE  OrdInv'
<1>1. used' = used /\ log' = log
  BY DEF Inherits
<1>2. CallInv'
  BY <1>1, CallKept DEF OrdInv
<1>3. OrderInv'
  BY InheritsOrder DEF OrdInv
<1>4. InOrderDelivery'
  BY <1>1 DEF OrdInv, InOrderDelivery
<1>. QED  BY <1>2, <1>3, <1>4 DEF OrdInv

LEMMA OrderShrinks ==
    ASSUME LocalInv, LocalInv', OrdInv, Shrinks, TasksKept, FramesKept, UNCHANGED sent
    PROVE  OrdInv'
BY ShrinksInherits, OrderKept

LEMMA OrderSendStep ==
    ASSUME LocalInv, LocalInv', KeyInv, OrdInv, NEW n \in Nodes, NEW s \in Senders,
           SendStep(n, s)
    PROVE  OrdInv'
<1>0. TypeOK /\ OrderInv
  BY DEF LocalInv, OrdInv
<1>1. UNCHANGED sent
  BY DEF SendStep, SendGet, SendExpire, HandshakeStart, HandshakeStartFails,
         HandshakeFinish, HandshakeTimeout, SendEncrypt, SendTransmit,
         SendTransmitFails, SendDrop, SendSave, bounds
<1>2. \A pc \in {"get", "expire", "start", "wait", "load"} :
        pc \in SendPc /\ pc \in Active /\ pc \notin Encrypted
  BY DEF Active, SendPc, Encrypted
<1>3. \A pc \in {"transmit", "save", "drop"} :
        pc \in SendPc /\ pc \in Active /\ pc \in Encrypted
  BY DEF Active, SendPc, Encrypted
<1>4. ASSUME UNCHANGED inbox PROVE FramesKept
  BY <1>4 DEF FramesKept
<1>5. CASE SendGet(n, s)
  <2>1. PICK pc \in {"start", "expire", "load"} : Goto(n, s, pc)
    BY <1>5 DEF SendGet
  <2>2. snd[n][s].pc = "get" /\ UNCHANGED <<sessions, used, cut, log, eph, rcv, inbox>>
    BY <1>5 DEF SendGet, history
  <2>3. Shrinks
    BY <2>1, <2>2, <1>2, GotoShrinks
  <2>4. TasksKept
    BY <2>1, <2>2, <1>0, <1>2, GotoKeeps
  <2>. QED  BY <2>2, <2>3, <2>4, <1>1, <1>4, OrderShrinks
<1>6. CASE SendExpire(n, s)
  <2>1. /\ snd[n][s].pc = "expire" /\ Goto(n, s, "start")
        /\ UNCHANGED <<used, cut, log, eph, rcv, inbox>>
    BY <1>6 DEF SendExpire, history
  <2>2. snd[n][s].dest \in Nodes
    BY <2>1, <1>2 DEF LocalInv, TaskInv
  <2>3. \A m, e \in Nodes : sessions'[m][e] = sessions[m][e] \/ sessions'[m][e] = None
    BY <2>2, <1>6, RemoveShrinks DEF SendExpire
  <2>4. Shrinks
    BY <2>1, <2>3, <1>2, GotoShrinks
  <2>5. TasksKept
    BY <2>1, <1>0, <1>2, GotoKeeps
  <2>. QED  BY <2>1, <2>4, <2>5, <1>1, <1>4, OrderShrinks
<1>7. CASE HandshakeStart(n, s)
  BY <1>0, <1>1, <1>7, OrderHandshakeStart, OrderKept
<1>8. ASSUME Return(n, s), snd[n][s].pc \notin Encrypted,
             UNCHANGED <<sessions, used, cut, log, eph, rcv, inbox>>
      PROVE  OrdInv'
  <2>1. Shrinks
    BY <1>8, ReturnShrinks
  <2>2. TasksKept
    BY <1>0, <1>8, ReturnKeeps DEF Return
  <2>. QED  BY <2>1, <2>2, <1>1, <1>4, <1>8, OrderShrinks
<1>9. CASE HandshakeStartFails(n, s) \/ HandshakeTimeout(n, s)
  BY <1>2, <1>8, <1>9 DEF HandshakeStartFails, HandshakeTimeout, history
<1>10. CASE HandshakeFinish(n, s)
  <2>1. CASE snd[n][s].reply.init = snd[n][s].init
    BY <1>0, <1>1, <2>1, <1>10, OrderHandshakeFinish, OrderKept
  <2>2. CASE snd[n][s].reply.init # snd[n][s].init
    BY <1>2, <1>8, <1>10, <2>2 DEF HandshakeFinish, history
  <2>. QED  BY <2>1, <2>2
<1>11. CASE SendEncrypt(n, s)
  <2>1. CASE sessions[n][snd[n][s].dest] # None
    BY <2>1, <1>11, OrderEncrypt
  <2>2. CASE sessions[n][snd[n][s].dest] = None
    <3>. DEFINE t == [Idle EXCEPT !.pc = "panicked"]
    <3>1. /\ snd[n][s].pc = "load" /\ Become(n, s, t)
          /\ UNCHANGED <<sessions, used, cut, log, eph, rcv, inbox>>
      BY <1>11, <2>2 DEF SendEncrypt
    <3>2. t \in SendTask /\ t.pc = "panicked" /\ t.reply = None
      BY DEF Idle, SendTask, SendPc
    <3>3. "panicked" \notin Active /\ "panicked" \notin Encrypted
      BY DEF Active, Encrypted
    <3>. HIDE DEF t
    <3>4. Shrinks
      BY <3>1, <3>2, <3>3, <1>2, BecomeShrinks
    <3>5. TasksKept
      BY <3>1, <3>2, <3>3, <1>0, BecomeKeeps
    <3>. QED  BY <3>1, <3>4, <3>5, <1>1, <1>4, OrderShrinks
  <2>. QED  BY <2>1, <2>2
<1>12. CASE SendTransmit(n, s) \/ SendTransmitFails(n, s)
  <2>1. /\ snd[n][s].pc = "transmit" /\ UNCHANGED <<sessions, used, cut, log, eph, rcv>>
        /\ \E pc \in {"save", "drop"} : Goto(n, s, pc)
    BY <1>12 DEF SendTransmit, SendTransmitFails, history
  <2>2. PICK pc \in {"save", "drop"} : Goto(n, s, pc)
    BY <2>1
  <2>3. Shrinks
    BY <2>1, <2>2, <1>3, GotoShrinks
  <2>4. TasksKept
    BY <2>1, <2>2, <1>0, <1>3, GotoKeeps
  <2>5. FramesKept
    <3>1. CASE UNCHANGED inbox
      BY <3>1, <1>4
    <3>2. CASE SendTransmit(n, s)
      <4>1. PICK d, e, f :
              /\ d = snd[n][s].dest /\ e = EncOf(n, s)
              /\ f = [type |-> "frame", src |-> n, body |-> e]
        OBVIOUS
      <4>2. e \in used
        BY <2>1, <4>1, <1>0 DEF OrderInv, UsedInv
      <4>3. d \in Nodes /\ e \in Encryption
        BY <2>1, <4>1, <4>2, <1>0, <1>3 DEF LocalInv, TaskInv, TypeOK
      <4>4. f \in Frame /\ f.type = "frame" /\ f.body = e
        <5>1. f = [type |-> "frame", src |-> n, body |-> e]
          BY <4>1
        <5>. QED  BY <4>3, <5>1 DEF Frame
      <4>5. inbox' = Post(inbox, d, f)
        BY <3>2, <4>1 DEF SendTransmit
      <4>6. GoodFrame(d, f)'
        BY <2>1, <4>2, <4>4 DEF GoodFrame
      <4>. QED  BY <1>0, <4>3, <4>4, <4>5, <4>6, PostKeeps
    <3>. QED  BY <1>12, <3>1, <3>2 DEF SendTransmitFails
  <2>. QED  BY <2>3, <2>4, <2>5, <1>1, OrderShrinks
<1>13. CASE SendDrop(n, s)
  <2>1. /\ snd[n][s].dest \in Nodes /\ Return(n, s)
        /\ UNCHANGED <<used, cut, log, eph, rcv, inbox>>
    BY <1>13, <1>3 DEF SendDrop, history, LocalInv, TaskInv
  <2>2. /\ sessions'[n][snd[n][s].dest] = None
        /\ \A m, e \in Nodes :
             sessions'[m][e] = sessions[m][e] \/ sessions'[m][e] = None
    BY <2>1, <1>13, RemoveShrinks DEF SendDrop
  <2>3. Shrinks
    BY <2>1, <2>2, ReturnShrinks
  <2>4. TasksKept
    BY <2>1, <1>0, ReturnKeeps DEF Return
  <2>. QED  BY <2>1, <2>3, <2>4, <1>1, <1>4, OrderShrinks
<1>14. CASE SendSave(n, s)
  BY <1>0, <1>1, <1>14, OrderSendSave, OrderKept
<1>. QED  BY <1>5, <1>6, <1>7, <1>9, <1>10, <1>11, <1>12, <1>13, <1>14 DEF SendStep

LEMMA OrderLoopStep ==
    ASSUME LocalInv, LocalInv', KeyInv, OrdInv, NEW n \in Nodes, LoopStep(n)
    PROVE  OrdInv'
<1>0. TypeOK /\ OrderInv
  BY DEF LocalInv, OrdInv
<1>1. UNCHANGED sent
  BY DEF LoopStep, RecvStart, RecvRespondSave, RecvFrame, RecvSave, RecvInvalidate,
         RecvInvalidated, RecvIgnore, bounds
<1>2. ASSUME UNCHANGED <<snd, used, cut, log, eph>>, FramesKept,
             \A m, d \in Nodes :
                sessions'[m][d] = sessions[m][d] \/ sessions'[m][d] = None,
             \A m \in Nodes : \/ rcv'[m] = rcv[m]
                             \/ rcv'[m].pc \notin {"respond", "decrypted"}
      PROVE  OrdInv'
  <2>1. \A m \in Nodes : eph[m] \in Nat
    BY DEF LocalInv, TypeOK
  <2>2. Shrinks
    BY <2>1, <1>2 DEF Shrinks
  <2>. QED  BY <2>2, <1>1, <1>2, SameKeeps, OrderShrinks
<1>3. ASSUME NEW t, t.pc \notin {"respond", "decrypted"}, rcv' = [rcv EXCEPT ![n] = t]
      PROVE  \A m \in Nodes : \/ rcv'[m] = rcv[m]
                             \/ rcv'[m].pc \notin {"respond", "decrypted"}
  BY <1>3 DEF LocalInv, TypeOK
<1>4. ASSUME NEW type, Take(n, type), Pop(n) PROVE FramesKept
  BY <1>0, <1>4, PopKeeps DEF Take
<1>5. CASE RecvStart(n)
  <2>. DEFINE f == Head(inbox[n])
              r == NewEph(n, f.src)
  <2>1. UNCHANGED <<sessions, used, cut, log>> /\ Take(n, "start")
    BY <1>5 DEF RecvStart, history
  <2>2. inbox[n] # <<>> /\ f.type = "start"
    BY <2>1 DEF Take
  <2>3. CASE Pop(n) /\ UNCHANGED <<eph, snd, rcv>>
    BY <2>1, <2>3, <1>2, <1>4
  <2>4. CASE /\ eph' = [eph EXCEPT ![n] = @ + 1]
             /\ inbox' = Post(Rest(n), f.src,
                   [type |-> "finish", src |-> n, init |-> f.init, resp |-> r])
             /\ Answer(f.src, n, f.init, r)
             /\ rcv' = [rcv EXCEPT ![n] = [RecvIdle EXCEPT !.pc = "respond",
                    !.src = f.src, !.copy = NewSession(f.init, r, "responder")]]
    <3>1. Inherits /\ TasksKept
      BY <2>1, <2>2, <2>4, <1>0, OrderRecvStart
    <3>. QED  BY <3>1, <1>1, OrderKept
  <2>. QED  BY <2>3, <2>4, <1>5 DEF RecvStart
<1>6. CASE RecvRespondSave(n)
  BY <1>0, <1>1, <1>6, OrderRespondSave, OrderKept
<1>7. CASE RecvFrame(n)
  <2>. DEFINE f == Head(inbox[n])
              c == sessions[n][f.src]
              t == [RecvIdle EXCEPT !.pc = "invalidate", !.src = f.src]
  <2>1. UNCHANGED <<sessions, snd, used, cut, log, eph>> /\ FramesKept
    BY <1>4, <1>7 DEF RecvFrame, history
  <2>2. CASE c # None /\ Decryptable(c, f.body)
    BY <2>2, <1>0, <1>1, <1>7, OrderDecrypt, OrderKept
  <2>3. CASE rcv' = [rcv EXCEPT ![n] = t]
    <3>1. t.pc = "invalidate"
      BY DEF RecvIdle
    <3>. HIDE DEF t
    <3>. QED  BY <2>1, <2>3, <3>1, <1>2, <1>3
  <2>4. CASE rcv' = rcv
    BY <2>1, <2>4, <1>2
  <2>. QED  BY <2>2, <2>3, <2>4, <1>7 DEF RecvFrame
<1>8. CASE RecvSave(n)
  BY <1>8, OrderRecvSave
<1>9. CASE RecvInvalidate(n)
  <2>0. PICK d : d = rcv[n].src
    OBVIOUS
  <2>. DEFINE f == [type |-> "invalidated", src |-> n]
  <2>1. /\ UNCHANGED <<sessions, snd, used, cut, log, eph>>
        /\ rcv' = [rcv EXCEPT ![n] = RecvIdle] /\ RecvIdle.pc = "idle"
    BY <1>9 DEF RecvInvalidate, history, RecvIdle
  <2>2. FramesKept
    <3>1. CASE UNCHANGED inbox
      BY <3>1 DEF FramesKept
    <3>2. CASE inbox' = Post(inbox, d, f)
      <4>1. d \in Nodes
        BY <1>9, <2>0 DEF RecvInvalidate, LocalInv, TaskInv
      <4>2. f \in Frame
        BY DEF Frame
      <4>3. GoodFrame(d, f)'
        BY DEF GoodFrame
      <4>. HIDE DEF f
      <4>. QED  BY <1>0, <3>2, <4>1, <4>2, <4>3, PostKeeps
    <3>. QED  BY <1>9, <2>0, <3>1, <3>2 DEF RecvInvalidate
  <2>. QED  BY <2>1, <2>2, <1>2, <1>3
<1>10. CASE RecvInvalidated(n)
  <2>1. Head(inbox[n]).src \in Nodes
    <3>1. inbox[n] # <<>>
      BY <1>10 DEF RecvInvalidated, Take
    <3>. QED  BY <3>1, <1>0, PopType DEF Frame
  <2>2. UNCHANGED <<snd, used, cut, log, eph, rcv>> /\ FramesKept
    BY <1>4, <1>10 DEF RecvInvalidated, history
  <2>3. \A m, e \in Nodes : sessions'[m][e] = sessions[m][e] \/ sessions'[m][e] = None
    BY <2>1, <1>10, RemoveShrinks DEF RecvInvalidated
  <2>. QED  BY <2>2, <2>3, <1>2
<1>11. CASE RecvIgnore(n)
  BY <1>2, <1>4, <1>11 DEF RecvIgnore, history
<1>. QED  BY <1>5, <1>6, <1>7, <1>8, <1>9, <1>10, <1>11 DEF LoopStep

(* A new call gets the next number. *)
LEMMA OrderSendLock ==
    ASSUME LocalInv, LocalInv', OrdInv, NEW n \in Nodes, NEW s \in Senders,
           NEW d \in Nodes, SendLock(n, s, d)
    PROVE  OrdInv'
<1>. DEFINE t == [Idle EXCEPT !.pc = "get", !.dest = d, !.no = sent[n] + 1]
<1>0. TypeOK /\ sent \in [Nodes -> Nat]
  BY DEF LocalInv, TypeOK
<1>1. /\ t \in SendTask /\ t.pc = "get" /\ t.reply = None /\ t.no = sent[n] + 1
  <2>1. sent[n] + 1 \in Nat
    BY <1>0
  <2>. QED  BY <2>1 DEF Idle, SendTask, SendPc
<1>2. /\ Become(n, s, t) /\ UNCHANGED <<sessions, used, cut, log, eph, rcv, inbox>>
      /\ snd[n][s].pc \notin Encrypted /\ guard[n] = None
      /\ sent' = [sent EXCEPT ![n] = @ + 1]
  BY DEF SendLock, Lock, history, Encrypted
<1>. HIDE DEF t
<1>3. Shrinks
  BY <1>1, <1>2, BecomeShrinks DEF Encrypted
<1>4. /\ snd'[n][s] = t
      /\ \A m \in Nodes, u \in Senders : m # n \/ u # s => snd'[m][u] = snd[m][u]
  BY <1>0, <1>1, <1>2, BecomeUpdates
<1>5. /\ sent'[n] = sent[n] + 1
      /\ \A m \in Nodes : m # n => sent'[m] = sent[m]
      /\ \A m \in Nodes : sent[m] \in Nat
  BY <1>0, <1>2
<1>6. \A u \in Senders : snd[n][u].pc \notin Active
  BY <1>2, NoneAssumption DEF LocalInv, GuardInv
<1>7. CallInv'
  <2>1. ASSUME NEW a \in used
        PROVE  /\ a.msg.no <= sent'[a.msg.from]
               /\ a.msg.from = n => a.msg.no < sent'[n]
    <3>1. a.msg.no \in Nat /\ a.msg.from \in Nodes /\ a.msg.no <= sent[a.msg.from]
      BY UsedType DEF OrdInv, CallInv
    <3>. QED  BY <3>1, <1>5
  <2>2. ASSUME NEW m \in Nodes, NEW u \in Senders, snd'[m][u].pc \in Active
        PROVE  /\ snd'[m][u].no = sent'[m]
               /\ snd'[m][u].pc \notin Encrypted =>
                    \A a \in used' : a.msg.from = m => a.msg.no < sent'[m]
    <3>1. CASE m = n /\ u = s
      BY <3>1, <1>1, <1>2, <1>4, <1>5, <2>1
    <3>2. CASE m = n /\ u # s
      BY <3>2, <1>4, <1>6, <2>2
    <3>3. CASE m # n
      BY <3>3, <1>2, <1>4, <1>5, <2>2 DEF OrdInv, CallInv
    <3>. QED  BY <3>1, <3>2, <3>3
  <2>. QED  BY <1>2, <2>1, <2>2 DEF CallInv
(* TasksKept does not hold of a task that starts; what Inherits needs does. *)
<1>8. Inherits
  <2>1. \A m \in Nodes, u \in Senders :
         /\ \/ snd'[m][u].reply = None
            \/ snd'[m][u].reply = snd[m][u].reply /\ snd'[m][u].dest = snd[m][u].dest
         /\ snd'[m][u].pc = "transmit" =>
              /\ snd[m][u].pc = "transmit" /\ snd'[m][u].no = snd[m][u].no
              /\ snd'[m][u].dest = snd[m][u].dest /\ snd'[m][u].copy = snd[m][u].copy
    BY <1>1, <1>4
  <2>2. ASSUME NEW m \in Nodes, NEW e \in Nodes, NEW c \in Held(m, e)'
        PROVE  \E o \in Held(m, e) : o.key = c.key /\ o.recvNonce <= c.recvNonce
    <3>1. c \in Held(m, e)
      BY <1>3, HeldShrinks
    <3>2. c.recvNonce <= c.recvNonce
      BY <3>1, HeldType, SessionParts
    <3>. QED  BY <3>1, <3>2
  <2>3. \A m \in Nodes, u \in Senders : snd'[m][u].pc = "wait" =>
          snd[m][u].pc = "wait" /\ snd'[m][u].init = snd[m][u].init
    BY <1>3 DEF Shrinks
  <2>4. used' = used /\ log' = log /\ \A m \in Nodes : eph[m] <= eph'[m]
    BY <1>3 DEF Shrinks
  <2>. QED  BY <1>2, <2>1, <2>2, <2>3, <2>4 DEF Inherits
<1>9. OrderInv'
  BY <1>8, InheritsOrder DEF OrdInv
<1>10. InOrderDelivery'
  BY <1>2 DEF OrdInv, InOrderDelivery
<1>. QED  BY <1>7, <1>9, <1>10 DEF OrdInv

LEMMA OrderRedeliver ==
    ASSUME LocalInv, LocalInv', OrdInv, NEW n \in Nodes, Redeliver(n)
    PROVE  OrdInv'
<1>0. TypeOK /\ OrderInv /\ inbox[n] # <<>>
  BY DEF LocalInv, OrdInv, Redeliver
<1>1. PICK f : f = Head(inbox[n])
  OBVIOUS
<1>2. f \in Frame /\ f \in FramesOf(inbox, n)
  BY <1>0, <1>1, PopType, RestFrames
<1>3. /\ UNCHANGED <<sessions, rcv, eph, used, cut, log, sent>>
      /\ inbox' = Post(inbox, n, f)
      /\ \/ f.type = "finish" /\ Answer(n, f.src, f.init, f.resp)
         \/ UNCHANGED snd
  BY <1>1 DEF Redeliver, history
<1>4. FramesKept
  BY <1>0, <1>2, <1>3, PostKeeps
<1>5. TasksKept
  <2>1. CASE f.type = "finish" /\ Answer(n, f.src, f.init, f.resp)
    <3>1. f.src \in Nodes /\ f.init \in Eph /\ f.resp \in Eph
      BY <1>2, <2>1 DEF Frame
    <3>2. DrewFor(f.src, n, f.resp)
      BY <1>0, <1>2, <2>1, FramesGood DEF GoodFrame
    <3>3. DrewFor(f.src, n, f.resp)'
      BY <3>2, <1>3 DEF DrewFor, Drew
    <3>. QED  BY <1>0, <2>1, <3>1, <3>3, AnswerKeeps
  <2>. QED  BY <1>3, <2>1, SameKeeps
<1>6. Shrinks
  <2>1. SameSends
    BY <1>0, RedeliverSends
  <2>2. \A m \in Nodes : eph[m] \in Nat
    BY DEF LocalInv, TypeOK
  <2>. QED  BY <1>3, <2>1, <2>2 DEF Shrinks, SameSends
<1>. QED  BY <1>3, <1>4, <1>5, <1>6, OrderShrinks

LEMMA OrderInit == Init => OrdInv
<1>. SUFFICES ASSUME Init PROVE OrdInv
  OBVIOUS
<1>1. \A n \in Nodes, s \in Senders : snd[n][s] = Idle
  BY DEF Init
<1>2. \A n \in Nodes : /\ rcv[n] = RecvIdle /\ inbox[n] = <<>> /\ log[n] = <<>>
                       /\ \A d \in Nodes : sessions[n][d] = None
  BY DEF Init
<1>3. used = {}
  BY DEF Init
<1>4. /\ Idle.pc = "idle" /\ Idle.reply = None /\ RecvIdle.pc = "idle"
      /\ "idle" \notin Active /\ "idle" \notin Encrypted
  BY DEF Idle, RecvIdle, Active, Encrypted
<1>5. \A n, d \in Nodes : Held(n, d) = {}
  BY <1>1, <1>2, <1>4, HeldIs
<1>6. CallInv
  BY <1>1, <1>3, <1>4 DEF CallInv
<1>7. PeerInv
  BY <1>1, <1>2, <1>3, <1>4, <1>5 DEF PeerInv
<1>8. UsedInv
  BY <1>1, <1>2, <1>3, <1>4 DEF UsedInv
<1>9. OrderedInv
  BY <1>1, <1>2, <1>3, <1>4, <1>5 DEF OrderedInv
<1>10. InOrderDelivery
  BY <1>2 DEF InOrderDelivery
<1>. QED  BY <1>6, <1>7, <1>8, <1>9, <1>10 DEF OrdInv, OrderInv

LEMMA OrderNext == Inv /\ Inv' /\ OrdInv /\ [Next]_vars => OrdInv'
<1>. SUFFICES ASSUME Inv, Inv', OrdInv, [Next]_vars PROVE OrdInv'
  OBVIOUS
<1>0. LocalInv /\ LocalInv' /\ KeyInv /\ TypeOK
  BY DEF Inv, LocalInv
<1>1. ASSUME UNCHANGED <<sessions, snd, rcv, inbox, eph, sent, used, cut, log>>
      PROVE  OrdInv'
  <2>1. \A m \in Nodes : eph[m] \in Nat
    BY <1>0 DEF TypeOK
  <2>2. Shrinks
    BY <2>1, <1>1 DEF Shrinks
  <2>3. FramesKept
    BY <1>1 DEF FramesKept
  <2>. QED  BY <2>2, <2>3, <1>0, <1>1, SameKeeps, OrderShrinks
<1>2. CASE UNCHANGED vars
  BY <1>1, <1>2 DEF vars
<1>3. ASSUME NEW n \in Nodes, NEW s \in Senders, NEW d \in Nodes, SendLock(n, s, d)
      PROVE  OrdInv'
  BY <1>0, <1>3, OrderSendLock
<1>4. ASSUME NEW n \in Nodes, NEW s \in Senders, SendStep(n, s) PROVE OrdInv'
  BY <1>0, <1>4, OrderSendStep
<1>5. ASSUME NEW n \in Nodes, LoopStep(n) PROVE OrdInv'
  BY <1>0, <1>5, OrderLoopStep
<1>6. ASSUME NEW n \in Nodes, NEW d \in Nodes, Age(n, d) PROVE OrdInv'
  BY <1>1, <1>6 DEF Age, bounds, history
<1>7. ASSUME NEW n \in Nodes, Reload(n) PROVE OrdInv'
  <2>1. FramesKept /\ UNCHANGED sent
    BY <1>0, <1>7, DropKeeps DEF Reload
  <2>2. TasksKept
    <3>1. \A m \in Nodes, u \in Senders : snd'[m][u] = snd[m][u] \/ snd'[m][u] = Idle
      BY <1>0, <1>7 DEF Reload, TypeOK
    <3>2. Idle.pc = "idle" /\ Idle.reply = None /\ "idle" \notin Active
      BY DEF Idle, Active
    <3>. QED  BY <3>1, <3>2 DEF TasksKept
  <2>. QED  BY <2>1, <2>2, <1>0, <1>7, KeyReload, OrderShrinks
<1>8. ASSUME NEW n \in Nodes, RestartLoop(n) PROVE OrdInv'
  <2>1. FramesKept /\ UNCHANGED <<sent, snd>>
    BY <1>0, <1>8, DropKeeps DEF RestartLoop
  <2>. QED  BY <2>1, <1>0, <1>8, SameKeeps, KeyRestart, OrderShrinks
<1>9. ASSUME NEW n \in Nodes, Redeliver(n) PROVE OrdInv'
  BY <1>0, <1>9, OrderRedeliver
<1>10. ASSUME NEW n \in Nodes, NEW s \in Senders, DropSend(n, s) PROVE OrdInv'
  <2>1. FramesKept /\ UNCHANGED sent
    BY <1>10 DEF DropSend, FramesKept
  <2>2. TasksKept
    <3>1. \A m \in Nodes, u \in Senders : snd'[m][u] = snd[m][u] \/ snd'[m][u] = Idle
      BY <1>0, <1>10, IdleType, BecomeUpdates DEF DropSend, Return
    <3>2. Idle.pc = "idle" /\ Idle.reply = None /\ "idle" \notin Active
      BY DEF Idle, Active
    <3>. QED  BY <3>1, <3>2 DEF TasksKept
  <2>. QED  BY <2>1, <2>2, <1>0, <1>10, KeyDropSend, OrderShrinks
<1>. QED  BY <1>2, <1>3, <1>4, <1>5, <1>6, <1>7, <1>8, <1>9, <1>10 DEF Next

LEMMA OrderInvariance == Spec => [](Inv /\ OrdInv)
<1>1. Init => Inv /\ OrdInv
  BY LocalInit, KeyInit, OrderInit DEF Inv
<1>2. Inv /\ OrdInv /\ [Next]_vars => Inv' /\ OrdInv'
  BY InvNext, OrderNext
<1>. QED  BY <1>1, <1>2, PTL DEF Spec

(* The guard protocol of crypto_state_guard, the fresh and owned keys of the
   handshakes, the nonces of every saved or held copy of a session (behind what
   was encrypted by at most the one encryption a send() has not saved or was cut
   off before saving), and the calls, peers and order behind what can still be
   decrypted, for any number of endpoints and of concurrent send() calls, with
   repositories in memory or durable. *)
THEOREM SessionInvariance == Spec => []SessionInv
<1>1. Inv /\ CutInv /\ OrdInv => SessionInv
  BY DEF Inv, LocalInv, KeyInv, OrdInv, OrderInv, SessionInv
<1>2. Spec => []CutInv
  BY CutInit, CutNext, PTL DEF Spec
<1>. QED  BY <1>1, <1>2, OrderInvariance, PTL

(* receive() hands over the messages of a peer in the order of the peer's calls
   of send(), each at most once and only to the node it was sent to: whatever
   handshakes cross, time out or are repeated, and although send() and receive()
   save copies of one session that the other may have replaced. *)
THEOREM DeliveryInOrder == Spec => []InOrderDelivery
<1>1. OrdInv => InOrderDelivery
  BY DEF OrdInv
<1>. QED  BY <1>1, OrderInvariance, PTL
=============================================================================
