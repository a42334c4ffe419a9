--------------------------- MODULE Fragmentation ---------------------------
(***************************************************************************)
(* Fragmentation in bitwarden-ipc: clients split payloads above the limit  *)
(* of their crypto provider into fragments (split.rs) and one client puts  *)
(* them together again (reassembler.rs), with limits per source and per    *)
(* pool of sources and with two timeouts.                                  *)
(*                                                                         *)
(* Correct sources run Fragments over a transport that keeps order but may *)
(* drop a fragment; the other sources hand over any fragment at all.  The  *)
(* transport adds no queue: a fragment is received when it is sent, and    *)
(* time passes between fragments.                                          *)
(***************************************************************************)
EXTENDS Naturals, Sequences, FiniteSets, FiniteSetsExt

CONSTANTS
    Correct,          \* sources that send with Fragments
    Faulty,           \* sources that hand over any fragment
    Web,              \* those of them that are web pages
    Topics,           \* topics of messages, the absent one included
    Lengths,          \* payload lengths that correct sources send
    FaultyFragments,  \* what a faulty source may hand over
    MaxPayloadLen,    \* max_payload_len of the crypto provider
    MaxHeaderLen,     \* MAX_HEADER_LEN
    MaxPayloadSize,   \* MAX_PAYLOAD_SIZE
    SourceLimit, OtherPoolLimit, WebPoolLimit,  \* [messages, bytes]
    ReassemblyTimeout, IdleTimeout,
    MaxSends,         \* bound: send() calls of a correct source
    MaxTime           \* bound: the clock

VARIABLES
    sends,      \* sends[s]: the Fragments that s is still sending
    partials,   \* the incomplete messages of the receiver, by source and id
    now,        \* the clock of the receiver
    sent,       \* sent[s]: history of the messages s started to send
    delivered,  \* delivered[s]: history of what was delivered from the correct s
    timely,     \* history: messages whose fragments all arrived, in time
    swept       \* history: when remove_expired last ran

vars == <<sends, partials, now, sent, delivered, timely, swept>>

Sources == Correct \cup Faulty

(* A byte is told apart by its source, its message and its place there. *)
Byte == Sources \X Nat \X Nat

(* What a fragment carries: its FragmentHeader, its topic and its data. *)
Fragment == [id : Nat, index : Nat, total : Nat, topic : Topics, data : Seq(Byte)]

(* Incomplete messages and the bytes reserved for them: Usage, as a limit. *)
Limit == [messages : Nat, bytes : Nat]

ASSUME SourcesAssumption ==
    /\ Correct \cap Faulty = {}
    /\ FaultyFragments \subseteq Fragment
ASSUME SizesAssumption ==
    /\ Lengths \subseteq Nat
    /\ MaxPayloadLen \in Nat /\ MaxHeaderLen \in Nat /\ MaxPayloadSize \in Nat
    /\ SourceLimit \in Limit /\ OtherPoolLimit \in Limit /\ WebPoolLimit \in Limit
ASSUME TimesAssumption ==
    /\ ReassemblyTimeout \in Nat \ {0} /\ IdleTimeout \in Nat
    /\ MaxSends \in Nat /\ MaxTime \in Nat

-----------------------------------------------------------------------------
(* Splitting *)

FragmentLen == IF MaxPayloadLen > MaxHeaderLen THEN MaxPayloadLen - MaxHeaderLen ELSE 0

(* The payload of the n-th message of s, of the given length: its bytes are
   told apart. *)
Payload(s, n, len) == [i \in 1 .. len |-> <<s, n, i>>]

(* The fragments of a message, in order: FragmentLen bytes each, the last one
   what is left. *)
FragmentCount(len) == (len + FragmentLen - 1) \div FragmentLen
FragmentOf(s, m, index) ==
    LET start == index * FragmentLen
        end == Min({m.len, start + FragmentLen})
    IN  [id |-> m.id, index |-> index, total |-> m.len, topic |-> m.topic,
         data |-> SubSeq(Payload(s, m.no, m.len), start + 1, end)]

-----------------------------------------------------------------------------
(* Reassembling *)

(* Mutant of PoolOf: web pages share the pool of the other sources. *)
PoolOfAll(s) == "other"
PoolOf(s) == IF s \in Web THEN "web" ELSE "other"
PoolLimit(pool) == IF pool = "web" THEN WebPoolLimit ELSE OtherPoolLimit

(* Mutant of MessageKey: messages are told apart by id only. *)
MessageKeyIdOnly(s, id) == <<CHOOSE r \in Sources : TRUE, id>>
MessageKey(s, id) == <<s, id>>

(* Incomplete messages of the sources in ss, and the bytes they reserve. *)
Usage(ps, ss) ==
    LET keys == {k \in DOMAIN ps : k[1] \in ss}
        Total(k) == ps[k].total
    IN  [messages |-> Cardinality(keys), bytes |-> MapThenSumSet(Total, keys)]

(* Mutant of HasRoom: the message to admit is not counted. *)
HasRoomForLess(usage, limit, total) ==
    usage.messages < limit.messages /\ usage.bytes <= limit.bytes
HasRoom(usage, limit, total) ==
    usage.messages < limit.messages /\ usage.bytes + total <= limit.bytes

PoolMates(s) == {r \in Sources : PoolOf(r) = PoolOf(s)}
Admit(ps, s, total) ==
    /\ HasRoom(Usage(ps, {s}), SourceLimit, total)
    /\ HasRoom(Usage(ps, PoolMates(s)), PoolLimit(PoolOf(s)), total)

Only(ps, keys) == [k \in keys |-> ps[k]]
Put(ps, k, p) == [j \in DOMAIN ps \cup {k} |-> IF j = k THEN p ELSE ps[j]]
RemoveExpired(ps) == Only(ps, {k \in DOMAIN ps : ps[k].expires > now})

NewPartial(f) ==
    [deadline |-> now + ReassemblyTimeout, expires |-> now + ReassemblyTimeout,
     total |-> f.total, topic |-> f.topic, next |-> 0, payload |-> <<>>]

(* Whether f is the next fragment of p. *)
Check(p, f) ==
    /\ f.index = p.next
    /\ f.total = p.total /\ f.topic = p.topic
    /\ Len(p.payload) + Len(f.data) <= p.total

(* Mutant of Expiry: every fragment prolongs the message. *)
ExpiryIdle(p) == now + IdleTimeout
Expiry(p) == Min({p.deadline, now + IdleTimeout})

(* Mutant of AppendTo: the index of the next fragment is not advanced. *)
AppendToOnly(p, f) ==
    [p EXCEPT !.payload = @ \o f.data, !.expires = Expiry(p)]
AppendTo(p, f) ==
    [p EXCEPT !.payload = @ \o f.data, !.next = @ + 1, !.expires = Expiry(p)]

(* The partial message f would continue, or a new one. *)
PartialFor(ps, s, f) ==
    IF MessageKey(s, f.id) \in DOMAIN ps THEN ps[MessageKey(s, f.id)] ELSE NewPartial(f)

IsValid(f) == f.total <= MaxPayloadSize /\ f.data # <<>>

(* The message goes on to the client; what faulty sources said is not kept. *)
Deliver(s, m) ==
    delivered' = [r \in Correct |->
                    IF r = s THEN Append(delivered[r], m) ELSE delivered[r]]

(* accept: one fragment f of s is received. *)
Accept(s, f) ==
    LET live == RemoveExpired(partials)
        key == MessageKey(s, f.id)
        known == key \in DOMAIN live
        p == PartialFor(live, s, f)
        q == AppendTo(p, f)
    IN  \/ /\ ~IsValid(f)
           /\ UNCHANGED <<partials, delivered, swept>>
        \/ /\ IsValid(f) /\ swept' = now
           /\ \/ /\ ~known /\ (f.index # 0 \/ ~Admit(live, s, f.total))
                 /\ partials' = live
                 /\ UNCHANGED delivered
              \/ /\ known \/ (f.index = 0 /\ Admit(live, s, f.total))
                 /\ \/ /\ ~Check(p, f)
                       /\ partials' = Only(live, DOMAIN live \ {key})
                       /\ UNCHANGED delivered
                    \/ /\ Check(p, f) /\ Len(q.payload) < q.total
                       /\ partials' = Put(live, key, q)
                       /\ UNCHANGED delivered
                    \/ /\ Check(p, f) /\ Len(q.payload) = q.total
                       /\ partials' = Only(live, DOMAIN live \ {key})
                       /\ Deliver(s, [topic |-> q.topic, payload |-> q.payload])

-----------------------------------------------------------------------------
(* Sending *)

(* send() of a payload: a short one passes as it is, a longer one is split.
   The id is random, so unused so far by this source.  Payloads above
   MaxPayloadSize and reserved topics are refused before anything is sent. *)
Send(s, len, topic) ==
    LET n == Len(sent[s]) + 1
        m == [topic |-> topic, payload |-> Payload(s, n, len)]
    IN  /\ n <= MaxSends /\ len <= MaxPayloadSize
        /\ sent' = [sent EXCEPT ![s] = Append(@, m)]
        /\ \/ /\ len <= MaxPayloadLen
              /\ Deliver(s, m)
              /\ UNCHANGED sends
           \/ /\ len > MaxPayloadLen /\ FragmentLen > 0
              /\ sends' = [sends EXCEPT ![s] = @ \cup
                   {[no |-> n, id |-> n, len |-> len, topic |-> topic, next |-> 0,
                     first |-> now, last |-> now, intact |-> TRUE]}]
              /\ UNCHANGED delivered
        /\ UNCHANGED <<partials, now, timely, swept>>

(* Whether the message arrives whole and in time as far as it was sent.  Its
   first fragment has to find room within the limits of its own source, which
   what the source has in the buffer, lost messages included, may take up. *)
Intact(s, m) ==
    /\ m.intact
    /\ m.next = 0 => HasRoom(Usage(RemoveExpired(partials), {s}), SourceLimit, m.len)
    /\ m.next > 0 => now < m.first + ReassemblyTimeout /\ now < m.last + IdleTimeout

(* m with its next fragment sent, which arrived or not. *)
Advanced(s, m, arrived) ==
    [m EXCEPT !.next = @ + 1, !.last = now,
              !.first = IF m.next = 0 THEN now ELSE @,
              !.intact = arrived /\ Intact(s, m)]
AdvanceTo(s, m, n) ==
    LET rest == sends[s] \ {m}
    IN  \/ /\ n.next < FragmentCount(n.len)
           /\ sends' = [sends EXCEPT ![s] = rest \cup {n}]
           /\ UNCHANGED timely
        \/ /\ n.next = FragmentCount(n.len)
           /\ sends' = [sends EXCEPT ![s] = rest]
           /\ timely' = IF n.intact THEN timely \cup {<<s, n.no>>} ELSE timely

SendFragment(s, m) ==
    /\ m \in sends[s]
    /\ Accept(s, FragmentOf(s, m, m.next))
    /\ AdvanceTo(s, m, Advanced(s, m, TRUE))
    /\ UNCHANGED <<now, sent>>

(* The provider reports success, but the fragment does not arrive. *)
LoseFragment(s, m) ==
    /\ m \in sends[s]
    /\ AdvanceTo(s, m, Advanced(s, m, FALSE))
    /\ UNCHANGED <<partials, now, sent, delivered, swept>>

(* Sending stops at the first fragment that fails. *)
SendFails(s, m) ==
    /\ m \in sends[s]
    /\ sends' = [sends EXCEPT ![s] = @ \ {m}]
    /\ UNCHANGED <<partials, now, sent, delivered, timely, swept>>

FaultyFragment(s, f) ==
    /\ Accept(s, f)
    /\ UNCHANGED <<sends, now, sent, timely>>

Tick ==
    /\ now < MaxTime
    /\ now' = now + 1
    /\ UNCHANGED <<sends, partials, sent, delivered, timely, swept>>

-----------------------------------------------------------------------------
Init ==
    /\ sends = [s \in Correct |-> {}]
    /\ partials = <<>>
    /\ now = 0 /\ swept = 0
    /\ sent = [s \in Correct |-> <<>>]
    /\ delivered = [s \in Correct |-> <<>>]
    /\ timely = {}

Next ==
    \/ \E s \in Correct :
         \/ \E len \in Lengths, topic \in Topics : Send(s, len, topic)
         \/ \E m \in sends[s] : SendFragment(s, m) \/ LoseFragment(s, m) \/ SendFails(s, m)
    \/ \E s \in Faulty, f \in FaultyFragments : FaultyFragment(s, f)
    \/ Tick

Spec == Init /\ [][Next]_vars

-----------------------------------------------------------------------------
(* Properties *)

Message == [topic : Topics, payload : Seq(Byte)]
Task == [no : Nat, id : Nat, len : Nat, topic : Topics, next : Nat,
         first : Nat, last : Nat, intact : BOOLEAN]
Partial == [deadline : Nat, expires : Nat, total : 0 .. MaxPayloadSize,
            topic : Topics, next : Nat \ {0}, payload : Seq(Byte)]

TypeOK ==
    /\ sends \in [Correct -> SUBSET Task]
    /\ DOMAIN partials \subseteq Sources \X Nat
    /\ IsFiniteSet(DOMAIN partials)
    /\ partials \in [DOMAIN partials -> Partial]
    /\ now \in 0 .. MaxTime /\ swept \in 0 .. now
    /\ sent \in [Correct -> Seq(Message)]
    /\ delivered \in [Correct -> Seq(Message)]
    /\ timely \subseteq Correct \X Nat

(* Only whole messages are delivered: what arrives from a correct source is a
   message it sent, byte for byte and with its topic, a different one each time,
   whatever was lost, interleaved or timed out on the way. *)
Accounts(s, f) ==
    /\ \A i \in DOMAIN delivered[s] : delivered[s][i] = sent[s][f[i]]
    /\ \A i, j \in DOMAIN delivered[s] : f[i] = f[j] => i = j
WholeMessages ==
    \A s \in Correct :
        \E f \in [DOMAIN delivered[s] -> DOMAIN sent[s]] : Accounts(s, f)

(* What is reserved stays within the limit of each source and of each pool,
   and no message buffers more than it reserved ("bounds the reassembled size,
   and the number of incomplete messages and the bytes reserved for them"). *)
Fits(usage, limit) ==
    usage.messages <= limit.messages /\ usage.bytes <= limit.bytes
WithinLimits ==
    /\ \A s \in Sources :
         /\ Fits(Usage(partials, {s}), SourceLimit)
         /\ Fits(Usage(partials, PoolMates(s)), PoolLimit(PoolOf(s)))
    /\ \A k \in DOMAIN partials : Len(partials[k].payload) < partials[k].total

(* A message of a correct source whose fragments all arrive in time, and whose
   first one found room within the limits of its own source, is delivered: no
   other source can take the room away, before or after.  What the same source
   has buffered can: a message it began while its limit was reached is rejected
   and is not timely (Intact).  The other pool has room for several sources at
   their limit (four in the code), and no more of them take part (PoolRoom). *)
PoolRoom ==
    /\ Correct \cap Web = {} /\ IsFiniteSet(Sources \ Web)
    /\ Cardinality(Sources \ Web) * SourceLimit.messages <= OtherPoolLimit.messages
    /\ Cardinality(Sources \ Web) * SourceLimit.bytes <= OtherPoolLimit.bytes
TimelyIsDelivered ==
    \A p \in timely :
        \E i \in DOMAIN delivered[p[1]] : delivered[p[1]][i] = sent[p[1]][p[2]]

(* No message outlives the reassembly timeout, however regularly fragments of
   it arrive: it is gone with the next fragment of any source. *)
BoundedLifetime == \A k \in DOMAIN partials : swept < partials[k].deadline

-----------------------------------------------------------------------------
(* The inductive invariant behind them. *)

(* What is being sent is a message of its own, and unfinished. *)
TasksInv ==
    \A s \in Correct : \A m \in sends[s] :
        /\ m.id = m.no /\ m.no \in DOMAIN sent[s]
        /\ sent[s][m.no] = [topic |-> m.topic, payload |-> Payload(s, m.no, m.len)]
        /\ FragmentLen > 0 /\ m.len <= MaxPayloadSize
        /\ m.next < FragmentCount(m.len)
        /\ \A o \in sends[s] : o.no = m.no => o = m

(* What is buffered of a correct source is the beginning of a message it sent,
   up to a fragment that was already sent. *)
PartialsInv ==
    \A k \in DOMAIN partials : k[1] \in Correct =>
        LET s == k[1]
            n == k[2]
            p == partials[k]
        IN
        /\ n \in DOMAIN sent[s]
        /\ p.topic = sent[s][n].topic
        /\ p.total = Len(sent[s][n].payload)
        /\ p.next * FragmentLen < p.total
        /\ p.payload = SubSeq(sent[s][n].payload, 1, p.next * FragmentLen)
        /\ \A m \in sends[s] : m.no = n => p.next <= m.next

(* A message that is still being sent has not been delivered. *)
DeliveredInv ==
    \A s \in Correct :
        \E f \in [DOMAIN delivered[s] -> DOMAIN sent[s]] :
            /\ Accounts(s, f)
            /\ \A m \in sends[s] : \A i \in DOMAIN delivered[s] : f[i] # m.no

(* Every fragment only shortens the life of a message. *)
LifetimeInv ==
    \A k \in DOMAIN partials :
        partials[k].expires <= partials[k].deadline /\ swept < partials[k].deadline

(* Of a message in time, all that was sent is buffered, until it is late. *)
Late(m) == now >= m.first + ReassemblyTimeout \/ now >= m.last + IdleTimeout
Buffered(s, m) ==
    /\ <<s, m.no>> \in DOMAIN partials
    /\ LET p == partials[<<s, m.no>>] IN
         /\ p.next = m.next /\ p.deadline = m.first + ReassemblyTimeout
         /\ p.expires = Min({p.deadline, m.last + IdleTimeout})
TimelyInv ==
    /\ \A p \in timely : p[2] \in DOMAIN sent[p[1]]
    /\ \A s \in Correct : \A m \in sends[s] :
         m.intact /\ m.next > 0 => Late(m) \/ Buffered(s, m)

ReassemblyInv ==
    /\ TypeOK /\ TasksInv /\ PartialsInv /\ DeliveredInv /\ LifetimeInv
    /\ PoolRoom => TimelyInv
=============================================================================
