----------------------------- MODULE IpcClient -----------------------------
(***************************************************************************)
(* The life of an IPC client of bitwarden-ipc and the sends that depend on *)
(* it: calls of start(), the processing loops they spawn, the one          *)
(* cancellation token slot, fatal errors, request(), which subscribes,     *)
(* sends and waits for the answer, and broadcast().  IpcService adds the   *)
(* requests that the client serves.                                        *)
(*                                                                         *)
(* Each call of start() is named by the token it is given and by the       *)
(* broadcast channel it creates.  Messages are answers to a request or     *)
(* anything else.  The peer that answers and the platform that resolves a  *)
(* broadcast group are external.                                           *)
(***************************************************************************)
EXTENDS Naturals, Sequences, FiniteSets

CONSTANTS
    Calls,       \* calls of start()
    Requests,    \* calls of request()
    None,        \* no token, no channel, no request
    Capacity,    \* CHANNEL_BUFFER_CAPACITY
    Serial,      \* whether callers await start() before they call it again
    Endpoints,   \* endpoints a broadcast may be resolved to
    Members,     \* those that its group contains
    MaxMembers,  \* bound: endpoints in a resolution
    MaxOthers    \* bound: other messages received

ASSUME ClientAssumption ==
    /\ None \notin Calls \cup Requests
    /\ Capacity \in Nat \ {0} /\ Serial \in BOOLEAN
    /\ MaxMembers \in Nat /\ MaxOthers \in Nat

VARIABLES
    token,      \* the token in the cancellation_token slot, or None
    cancelled,  \* tokens that are cancelled
    incoming,   \* the channel the WeakSender in the incoming slot is for
    starts,     \* starts[c]: where the call c of start() is
    loops,      \* loops[c]: the processing loop c spawned
    reqs,       \* reqs[r]: where the request r is, and its subscription
    asked,      \* requests the peer has received and not answered
    others,     \* other messages received so far
    bcast,      \* the call of broadcast(), its resolution and its results
    answered,   \* history: requests whose answer the loop of their channel received
    faulted,    \* history: calls that met a fatal error or were cancelled
                \* by their caller
    doomed      \* history: loops that ran when a fatal error stopped the client

clientVars == <<token, cancelled, incoming, starts, loops, reqs, asked, others,
                bcast, answered, faulted, doomed>>
client == <<token, cancelled, incoming, starts, loops>>
history == <<answered, faulted, doomed>>

-----------------------------------------------------------------------------
StartPc == {"new", "checked", "replaced", "ok", "refused"}
LoopPc == {"none", "running", "stopping", "stopped", "gone"}
RequestPc == {"idle", "subscribed", "sent", "wait", "done", "failed"}
Subscription == [pc : RequestPc, chan : Calls \cup {None},
                 buf : Seq({"answer", "other"}), lagged : BOOLEAN]

Resolutions == UNION {[1 .. k -> Endpoints] : k \in 0 .. MaxMembers}
SendResult == [endpoint : Endpoints, fatal : BOOLEAN]
BroadcastCall == [pc : {"idle", "send", "done", "rejected"},
                  endpoints : Resolutions, results : Seq(SendResult)]

(* A subscription holds a channel from its creation on. *)
ClientTypeOK ==
    /\ token \in Calls \cup {None} /\ incoming \in Calls \cup {None}
    /\ cancelled \subseteq Calls
    /\ starts \in [Calls -> StartPc] /\ loops \in [Calls -> LoopPc]
    /\ reqs \in [Requests -> Subscription]
    /\ \A r \in Requests : reqs[r].pc \in {"subscribed", "sent", "wait", "done"}
         => reqs[r].chan \in Calls
    /\ asked \subseteq Requests /\ answered \subseteq Requests
    /\ others \in 0 .. MaxOthers /\ bcast \in BroadcastCall
    /\ faulted \subseteq Calls /\ doomed \subseteq Calls

ClientInit ==
    /\ token = None /\ cancelled = {} /\ incoming = None
    /\ starts = [c \in Calls |-> "new"] /\ loops = [c \in Calls |-> "none"]
    /\ reqs = [r \in Requests |->
                 [pc |-> "idle", chan |-> None, buf |-> <<>>, lagged |-> FALSE]]
    /\ asked = {} /\ others = 0
    /\ bcast = [pc |-> "idle", endpoints |-> <<>>, results |-> <<>>]
    /\ answered = {} /\ faulted = {} /\ doomed = {}

(* The loop of c owns the only Sender of its channel until its future ends. *)
HasSender(c) == loops[c] \in {"running", "stopping", "stopped"}
HasIncoming == incoming # None /\ HasSender(incoming)
IsRunning == HasIncoming /\ token # None

(* Mutant of StopInner: the token is taken, but not cancelled. *)
StopInnerForgets == token' = None /\ UNCHANGED cancelled
(* Takes whatever token is in the slot and cancels it. *)
StopInner ==
    /\ token' = None
    /\ cancelled' = cancelled \cup ({token} \ {None})

(* Mutant of FatalError: the client is not stopped. *)
FatalErrorGoesOn ==
    /\ UNCHANGED <<token, cancelled>>
    /\ faulted' = faulted \cup ({token} \ {None})
    /\ doomed' = doomed \cup {c \in Calls : loops[c] = "running"}
(* send_fragment meets a fatal error, and stops the client. *)
FatalError ==
    /\ StopInner
    /\ faulted' = faulted \cup ({token} \ {None})
    /\ doomed' = doomed \cup {c \in Calls : loops[c] = "running"}

-----------------------------------------------------------------------------
(* start() *)

StartCheck(c) ==
    /\ starts[c] = "new"
    /\ Serial => \A d \in Calls : starts[d] \in {"new", "ok", "refused"}
    /\ starts' = [starts EXCEPT ![c] = IF IsRunning THEN "refused" ELSE "checked"]
    /\ UNCHANGED <<token, cancelled, incoming, loops, reqs, asked, others, bcast, history>>

StartReplace(c) ==
    /\ starts[c] = "checked"
    /\ token' = c
    /\ starts' = [starts EXCEPT ![c] = "replaced"]
    /\ UNCHANGED <<cancelled, incoming, loops, reqs, asked, others, bcast, history>>

(* After the await of subscribe(): the channel is published, the loop spawned. *)
StartSpawn(c) ==
    /\ starts[c] = "replaced"
    /\ incoming' = c
    /\ loops' = [loops EXCEPT ![c] = "running"]
    /\ starts' = [starts EXCEPT ![c] = "ok"]
    /\ UNCHANGED <<token, cancelled, reqs, asked, others, bcast, history>>

(* The caller cancels the token it passed. *)
CancelToken(c) ==
    /\ starts[c] \in {"replaced", "ok"} /\ c \notin cancelled
    /\ cancelled' = cancelled \cup {c}
    /\ faulted' = faulted \cup {c}
    /\ UNCHANGED <<token, incoming, starts, loops, reqs, asked, others, bcast, answered, doomed>>

-----------------------------------------------------------------------------
(* The processing loop *)

LoopGoto(c, from, to) == loops[c] = from /\ loops' = [loops EXCEPT ![c] = to]

LoopCancelled(c) ==
    /\ c \in cancelled
    /\ LoopGoto(c, "running", "stopping")
    /\ UNCHANGED <<token, cancelled, incoming, starts, reqs, asked, others, bcast, history>>

LoopFatal(c) ==
    /\ LoopGoto(c, "running", "stopping")
    /\ faulted' = faulted \cup {c}
    /\ UNCHANGED <<token, cancelled, incoming, starts, reqs, asked, others,
                   bcast, answered, doomed>>

(* The loop has ended and calls stop_inner. *)
LoopStop(c) ==
    /\ LoopGoto(c, "stopping", "stopped")
    /\ StopInner
    /\ UNCHANGED <<incoming, starts, reqs, asked, others, bcast, history>>

(* The future is dropped, and with it the Sender. *)
LoopDrop(c) ==
    /\ LoopGoto(c, "stopped", "gone")
    /\ UNCHANGED <<token, cancelled, incoming, starts, reqs, asked, others, bcast, history>>

(* Mutant of Buffers: a subscription buffers only while receive() waits. *)
BuffersWhileReceiving(r) == reqs[r].pc = "wait"
(* A subscription buffers from its creation on. *)
Buffers(r) == reqs[r].pc \in {"subscribed", "sent", "wait"}

(* Every subscription of the channel c gets the message, which is the answer
   to q or to nobody; a full one loses its oldest and is told that it lagged. *)
Broadcast(c, q) ==
    LET Message(r) == IF r = q THEN "answer" ELSE "other"
        Buffered(r) ==
          IF Len(reqs[r].buf) < Capacity
          THEN [reqs[r] EXCEPT !.buf = Append(@, Message(r))]
          ELSE [reqs[r] EXCEPT !.buf = Append(Tail(@), Message(r)), !.lagged = TRUE]
    IN  reqs' = [r \in Requests |->
          IF Buffers(r) /\ reqs[r].chan = c THEN Buffered(r) ELSE reqs[r]]

LoopReceiveAnswer(c, q) ==
    /\ loops[c] = "running" /\ q \in asked
    /\ asked' = asked \ {q}
    /\ Broadcast(c, q)
    /\ answered' = IF reqs[q].chan = c THEN answered \cup {q} ELSE answered
    /\ UNCHANGED <<client, others, bcast, faulted, doomed>>

LoopReceiveOther(c) ==
    /\ loops[c] = "running" /\ others < MaxOthers
    /\ others' = others + 1
    /\ Broadcast(c, None)
    /\ UNCHANGED <<client, asked, bcast, history>>

-----------------------------------------------------------------------------
(* request() *)

RequestGoto(r, from, to) ==
    reqs[r].pc = from /\ reqs' = [reqs EXCEPT ![r].pc = to]

(* Mutant of Subscribe: the sender is not checked. *)
SubscribeAnyway(r) ==
    /\ reqs[r].pc = "idle"
    /\ reqs' = [reqs EXCEPT ![r].pc = "subscribed", ![r].chan = incoming]
    /\ UNCHANGED <<client, asked, others, bcast, history>>
Subscribe(r) ==
    /\ \/ /\ reqs[r].pc = "idle" /\ HasIncoming
          /\ reqs' = [reqs EXCEPT ![r].pc = "subscribed", ![r].chan = incoming]
       \/ ~HasIncoming /\ RequestGoto(r, "idle", "failed")
    /\ UNCHANGED <<client, asked, others, bcast, history>>

(* The provider hands the request to the transport; send() has not returned. *)
Transmit(r) ==
    /\ RequestGoto(r, "subscribed", "sent")
    /\ asked' = asked \cup {r}
    /\ UNCHANGED <<client, others, bcast, history>>

(* A fatal error stops the client, whether the request left or not. *)
FatalSend(r, pc) ==
    /\ RequestGoto(r, pc, "failed")
    /\ FatalError
    /\ UNCHANGED <<incoming, starts, loops, asked, others, bcast, answered>>

(* Any other error of send() fails the request only. *)
SendFails(r, pc) ==
    /\ RequestGoto(r, pc, "failed")
    /\ UNCHANGED <<client, asked, others, bcast, history>>

SendReturns(r) ==
    /\ RequestGoto(r, "sent", "wait")
    /\ UNCHANGED <<client, asked, others, bcast, history>>

(* Mutant of Closed: the client keeps a Sender, not a WeakSender. *)
ClosedNever(c) == FALSE
(* The channel has no Sender any more. *)
Closed(c) == ~HasSender(c)

(* receive(): a lagged subscription reports that first, a closed one is read
   to its end; what is not the answer is skipped. *)
Receive(r) ==
    LET q == reqs[r] IN
    /\ q.pc = "wait"
    /\ \/ q.lagged /\ RequestGoto(r, "wait", "failed")
       \/ /\ ~q.lagged /\ q.buf # <<>> /\ Head(q.buf) = "answer"
          /\ RequestGoto(r, "wait", "done")
       \/ /\ ~q.lagged /\ q.buf # <<>> /\ Head(q.buf) = "other"
          /\ reqs' = [reqs EXCEPT ![r].buf = Tail(@)]
       \/ ~q.lagged /\ q.buf = <<>> /\ Closed(q.chan) /\ RequestGoto(r, "wait", "failed")
    /\ UNCHANGED <<client, asked, others, bcast, history>>

(* The caller's cancellation_token ends the wait. *)
CancelRequest(r) ==
    /\ RequestGoto(r, "wait", "failed")
    /\ UNCHANGED <<client, asked, others, bcast, history>>

(* The answer, or the request, is lost. *)
LoseAnswer(r) ==
    /\ r \in asked
    /\ asked' = asked \ {r}
    /\ UNCHANGED <<client, reqs, others, bcast, history>>

-----------------------------------------------------------------------------
(* broadcast() *)

(* The platform resolves the group.  A resolution it cannot give, or that
   names an endpoint outside the group, is rejected before anything is sent. *)
Resolve ==
    /\ bcast.pc = "idle"
    /\ \/ \E endpoints \in Resolutions :
            /\ \A i \in DOMAIN endpoints : endpoints[i] \in Members
            /\ bcast' = [bcast EXCEPT !.endpoints = endpoints,
                            !.pc = IF endpoints = <<>> THEN "done" ELSE "send"]
       \/ bcast' = [bcast EXCEPT !.pc = "rejected"]
    /\ UNCHANGED <<client, reqs, asked, others, history>>

(* Mutant of SendsOn: a fatal error does not end the loop. *)
SendsOnAlways(fatal) == Len(bcast.results) + 1 < Len(bcast.endpoints)
(* Whether broadcast() goes on to the next endpoint. *)
SendsOn(fatal) == ~fatal /\ Len(bcast.results) + 1 < Len(bcast.endpoints)

(* The send to the next endpoint ends: well, with an error that concerns this
   endpoint only, or with a fatal one. *)
BroadcastSend(fatal) ==
    /\ bcast.pc = "send"
    /\ bcast' = [bcast EXCEPT
          !.results = Append(@, [endpoint |-> bcast.endpoints[Len(@) + 1], fatal |-> fatal]),
          !.pc = IF SendsOn(fatal) THEN "send" ELSE "done"]
    /\ IF fatal THEN FatalError ELSE UNCHANGED <<token, cancelled, faulted, doomed>>
    /\ UNCHANGED <<incoming, starts, loops, reqs, asked, others, answered>>

-----------------------------------------------------------------------------
StartStep(c) == StartReplace(c) \/ StartSpawn(c)
LoopStep(c) == LoopCancelled(c) \/ LoopStop(c) \/ LoopDrop(c)
RequestStep(r) == SendReturns(r) \/ Receive(r)

ClientNext ==
    \/ \E c \in Calls :
         \/ StartCheck(c) \/ StartStep(c) \/ CancelToken(c)
         \/ LoopStep(c) \/ LoopFatal(c) \/ LoopReceiveOther(c)
         \/ \E r \in Requests : LoopReceiveAnswer(c, r)
    \/ \E r \in Requests :
         \/ Subscribe(r) \/ Transmit(r) \/ RequestStep(r)
         \/ \E pc \in {"subscribed", "sent"} : FatalSend(r, pc) \/ SendFails(r, pc)
         \/ CancelRequest(r) \/ LoseAnswer(r)
    \/ Resolve
    \/ \E fatal \in BOOLEAN : BroadcastSend(fatal)

-----------------------------------------------------------------------------
(* Properties *)

(* "The IPC client runs a single long-lived processing loop that is shared
   across every peer and every message" (error.rs), but for one that has been
   cancelled and has not noticed. *)
SingleLoop ==
    \A c, d \in Calls :
        loops[c] = "running" /\ loops[d] = "running" /\ {c, d} \cap cancelled = {}
            => c = d

(* The answer to a request is not missed between sending and waiting: once the
   loop of its subscription received it, the request holds it or was told that
   it lagged. *)
AnswerNotMissed ==
    \A r \in Requests :
        r \in answered /\ reqs[r].pc \in {"sent", "wait"}
            => \/ reqs[r].lagged
               \/ \E i \in DOMAIN reqs[r].buf : reqs[r].buf[i] = "answer"

(* A fatal send error stops the client: every loop that ran ends. *)
FatalStops == \A c \in Calls : c \in doomed ~> loops[c] = "gone"

(* No request outlives the client it waits on: when the loop of its
   subscription is stopped, the wait ends, cancellation token or not. *)
RequestEnds ==
    \A r \in Requests :
        reqs[r].pc = "wait" /\ reqs[r].chan \in cancelled
            ~> reqs[r].pc \in {"done", "failed"}

(* What broadcast() returns accounts for every endpoint of the resolution, in
   its order and once each, up to the first fatal error: the rest "are not
   attempted and are absent from the results". *)
BroadcastAccountsForAll ==
    bcast.pc = "done" =>
        LET n == Len(bcast.results)
            Fatal(i) == bcast.results[i].fatal
        IN  /\ n <= Len(bcast.endpoints)
            /\ \A i \in 1 .. n :
                 /\ bcast.results[i].endpoint = bcast.endpoints[i]
                 /\ bcast.endpoints[i] \in Members
                 /\ Fatal(i) => i = n
            /\ n = Len(bcast.endpoints) \/ Fatal(n)

(* "The client only stops processing messages when the underlying error is
   fatal" (ipc_client_trait.rs): what start() returned Ok for is stopped by an
   error of its own or by its caller.  It is not: a loop that ends late runs
   stop_inner on the token of its successor. *)
StartedStaysUp == cancelled \subseteq faulted
=============================================================================
