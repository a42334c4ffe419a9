-------------------------- MODULE IpcServiceProofs --------------------------
(***************************************************************************)
(* Proofs about IpcService, for any number of calls, requests, handlers    *)
(* and registrations and buffers of any size: its types, that one loop is  *)
(* in charge when start() is called serially, that no answer is missed,    *)
(* and that a broadcast accounts for its endpoints.                        *)
(***************************************************************************)
EXTENDS IpcService, TLAPS

-----------------------------------------------------------------------------
(* Types *)

ReqsOK ==
    /\ reqs \in [Requests -> Subscription]
    /\ \A r \in Requests : reqs[r].pc \in {"subscribed", "sent", "wait", "done"}
         => reqs[r].chan \in Calls

LEMMA ReqFields ==
    ASSUME ReqsOK, NEW r \in Requests
    PROVE  /\ reqs[r] \in Subscription /\ reqs[r].pc \in RequestPc
           /\ reqs[r].chan \in Calls \cup {None}
           /\ reqs[r].buf \in Seq({"answer", "other"}) /\ reqs[r].lagged \in BOOLEAN
BY DEF ReqsOK, Subscription

(* A request moves on, keeping its subscription. *)
LEMMA GotoReqs ==
    ASSUME ReqsOK, NEW r \in Requests, NEW from, NEW to \in RequestPc,
           RequestGoto(r, from, to),
           from \in {"subscribed", "sent", "wait"} \/ to = "failed"
    PROVE  ReqsOK'
<1>1. [reqs[r] EXCEPT !.pc = to] \in Subscription
  BY ReqFields DEF Subscription
<1>2. reqs' = [reqs EXCEPT ![r] = [reqs[r] EXCEPT !.pc = to]]
  BY DEF RequestGoto
<1>3. reqs' \in [Requests -> Subscription]
  BY <1>1, <1>2 DEF ReqsOK
<1>4. ASSUME NEW q \in Requests, reqs'[q].pc \in {"subscribed", "sent", "wait", "done"}
      PROVE  reqs'[q].chan \in Calls
  <2>1. CASE q = r
    <3>1. reqs'[r] = [reqs[r] EXCEPT !.pc = to]
      BY <1>2 DEF ReqsOK
    <3>2. reqs'[r].pc = to /\ reqs'[r].chan = reqs[r].chan
      BY <3>1, <1>1, ReqFields DEF Subscription
    <3>3. reqs[r].pc \in {"subscribed", "sent", "wait"}
      BY <1>4, <2>1, <3>2 DEF RequestGoto
    <3>. QED  BY <2>1, <3>2, <3>3 DEF ReqsOK
  <2>2. CASE q # r
    BY <1>2, <1>4, <2>2 DEF ReqsOK
  <2>. QED  BY <2>1, <2>2
<1>. QED  BY <1>3, <1>4 DEF ReqsOK

(* What a loop broadcasts is buffered, or pushes the oldest message out. *)
LEMMA BroadcastReqs ==
    ASSUME ReqsOK, NEW c, NEW q, Broadcast(c, q)
    PROVE  /\ ReqsOK'
           /\ \A r \in Requests :
                /\ reqs'[r].pc = reqs[r].pc /\ reqs'[r].chan = reqs[r].chan
                /\ reqs[r].lagged => reqs'[r].lagged
                /\ ~reqs'[r].lagged /\ Buffers(r) /\ reqs[r].chan = c =>
                     reqs'[r].buf = Append(reqs[r].buf,
                                           IF r = q THEN "answer" ELSE "other")
                /\ ~(Buffers(r) /\ reqs[r].chan = c) => reqs'[r] = reqs[r]
<1>. DEFINE Msg(r) == IF r = q THEN "answer" ELSE "other"
            Fits(r) == [reqs[r] EXCEPT !.buf = Append(@, Msg(r))]
            Full(r) == [reqs[r] EXCEPT !.buf = Append(Tail(@), Msg(r)), !.lagged = TRUE]
            New(r) == IF Len(reqs[r].buf) < Capacity THEN Fits(r) ELSE Full(r)
<1>1. reqs' = [r \in Requests |->
         IF Buffers(r) /\ reqs[r].chan = c THEN New(r) ELSE reqs[r]]
  BY DEF Broadcast
<1>2. ASSUME NEW r \in Requests
      PROVE  /\ Fits(r) \in Subscription
             /\ reqs[r].buf # <<>> => Full(r) \in Subscription
  <2>1. Append(reqs[r].buf, Msg(r)) \in Seq({"answer", "other"})
    BY ReqFields
  <2>2. Fits(r) \in Subscription
    BY <2>1, ReqFields DEF Subscription
  <2>3. CASE reqs[r].buf # <<>>
    <3>1. Append(Tail(reqs[r].buf), Msg(r)) \in Seq({"answer", "other"})
      BY <2>3, ReqFields
    <3>. QED  BY <2>2, <3>1, ReqFields DEF Subscription
  <2>. QED  BY <2>2, <2>3
<1>3. ASSUME NEW r \in Requests
      PROVE  /\ New(r) \in Subscription /\ New(r).pc = reqs[r].pc
             /\ New(r).chan = reqs[r].chan
             /\ reqs[r].lagged => New(r).lagged
             /\ ~New(r).lagged => New(r).buf = Append(reqs[r].buf, Msg(r))
  <2>1. CASE Len(reqs[r].buf) < Capacity
    BY <1>2, <2>1, ReqFields DEF Subscription
  <2>2. CASE ~(Len(reqs[r].buf) < Capacity)
    <3>1. reqs[r].buf # <<>>
      BY <2>2, ClientAssumption
    <3>2. New(r) = Full(r) /\ Full(r) \in Subscription
      BY <1>2, <2>2, <3>1
    <3>3. /\ Full(r).pc = reqs[r].pc /\ Full(r).chan = reqs[r].chan
          /\ Full(r).lagged = TRUE
      BY ReqFields DEF Subscription
    <3>. QED  BY <3>2, <3>3
  <2>. QED  BY <2>1, <2>2
<1>4. reqs' \in [Requests -> Subscription]
  BY <1>1, <1>3 DEF ReqsOK
<1>5. \A r \in Requests : reqs'[r].pc = reqs[r].pc /\ reqs'[r].chan = reqs[r].chan
  BY <1>1, <1>3
<1>6. ReqsOK'
  BY <1>4, <1>5 DEF ReqsOK
<1>. HIDE DEF New
<1>7. ASSUME NEW r \in Requests
      PROVE  /\ reqs[r].lagged => reqs'[r].lagged
             /\ ~reqs'[r].lagged /\ Buffers(r) /\ reqs[r].chan = c =>
                  reqs'[r].buf = Append(reqs[r].buf, Msg(r))
             /\ ~(Buffers(r) /\ reqs[r].chan = c) => reqs'[r] = reqs[r]
  BY <1>1, <1>3
<1>. QED  BY <1>5, <1>6, <1>7

LEMMA ReceiveReqs ==
    ASSUME ReqsOK, NEW r \in Requests, Receive(r)
    PROVE  ReqsOK'
<1>1. CASE RequestGoto(r, "wait", "failed") \/ RequestGoto(r, "wait", "done")
  <2>1. {"failed", "done"} \subseteq RequestPc
    BY DEF RequestPc
  <2>2. CASE RequestGoto(r, "wait", "failed")
    BY <2>1, <2>2, GotoReqs
  <2>3. CASE RequestGoto(r, "wait", "done")
    BY <2>1, <2>3, GotoReqs
  <2>. QED  BY <1>1, <2>2, <2>3
<1>2. CASE reqs[r].buf # <<>> /\ reqs' = [reqs EXCEPT ![r].buf = Tail(@)]
  <2>1. Tail(reqs[r].buf) \in Seq({"answer", "other"})
    BY <1>2, ReqFields
  <2>2. [reqs[r] EXCEPT !.buf = Tail(@)] \in Subscription
    BY <2>1, ReqFields DEF Subscription
  <2>3. reqs' \in [Requests -> Subscription]
    BY <1>2, <2>2 DEF ReqsOK
  <2>4. \A q \in Requests : reqs'[q].pc = reqs[q].pc /\ reqs'[q].chan = reqs[q].chan
    BY <1>2, ReqFields DEF ReqsOK, Subscription
  <2>. QED  BY <2>3, <2>4 DEF ReqsOK
<1>. QED  BY <1>1, <1>2 DEF Receive

LEMMA SubscribeReqs ==
    ASSUME ReqsOK, incoming \in Calls \cup {None}, NEW r \in Requests, Subscribe(r)
    PROVE  ReqsOK'
<1>1. CASE HasIncoming /\ reqs' = [reqs EXCEPT ![r].pc = "subscribed", ![r].chan = incoming]
  <2>1. incoming \in Calls
    BY <1>1 DEF HasIncoming
  <2>. DEFINE new == [[reqs[r] EXCEPT !.pc = "subscribed"] EXCEPT !.chan = incoming]
  <2>2. new \in Subscription /\ new.chan = incoming
    BY <2>1, ReqFields DEF Subscription, RequestPc
  <2>3. reqs' = [reqs EXCEPT ![r] = new]
    BY <1>1 DEF ReqsOK
  <2>. HIDE DEF new
  <2>4. reqs' \in [Requests -> Subscription]
    BY <2>2, <2>3 DEF ReqsOK
  <2>. QED  BY <2>1, <2>2, <2>3, <2>4 DEF ReqsOK
<1>2. CASE RequestGoto(r, "idle", "failed")
  <2>1. "failed" \in RequestPc
    BY DEF RequestPc
  <2>. QED  BY <1>2, <2>1, GotoReqs
<1>. QED  BY <1>1, <1>2 DEF Subscribe

(* Everything of the client that is not a request or a broadcast. *)
LifeOK ==
    /\ token \in Calls \cup {None} /\ incoming \in Calls \cup {None}
    /\ cancelled \subseteq Calls
    /\ starts \in [Calls -> StartPc] /\ loops \in [Calls -> LoopPc]
    /\ faulted \subseteq Calls /\ doomed \subseteq Calls

LEMMA FatalLife ==
    ASSUME LifeOK, FatalError, UNCHANGED <<incoming, starts, loops>>
    PROVE  LifeOK'
BY DEF LifeOK, FatalError, StopInner

LEMMA LifeSteps ==
    ASSUME LifeOK, NEW c \in Calls,
           \/ StartCheck(c) \/ StartStep(c) \/ CancelToken(c)
           \/ LoopStep(c) \/ LoopFatal(c)
    PROVE  LifeOK'
<1>. USE DEF LifeOK, StartPc, LoopPc, history
<1>1. CASE StartCheck(c)
  <2>1. starts' \in [Calls -> StartPc]
    BY <1>1 DEF StartCheck
  <2>. QED  BY <1>1, <2>1 DEF StartCheck
<1>2. CASE StartReplace(c)
  BY <1>2 DEF StartReplace
<1>3. CASE StartSpawn(c)
  BY <1>3 DEF StartSpawn
<1>4. CASE CancelToken(c)
  BY <1>4 DEF CancelToken
<1>5. CASE LoopCancelled(c)
  BY <1>5 DEF LoopCancelled, LoopGoto
<1>6. CASE LoopStop(c)
  BY <1>6 DEF LoopStop, LoopGoto, StopInner
<1>7. CASE LoopDrop(c)
  BY <1>7 DEF LoopDrop, LoopGoto
<1>8. CASE LoopFatal(c)
  BY <1>8 DEF LoopFatal, LoopGoto
<1>. QED  BY <1>1, <1>2, <1>3, <1>4, <1>5, <1>6, <1>7, <1>8 DEF StartStep, LoopStep

(* The call of broadcast().  While it sends, its results are those of the  *)
(* endpoints it has come to, none of them fatal.                           *)
BroadcastInv ==
    /\ bcast \in BroadcastCall
    /\ bcast.pc = "idle" => bcast.results = <<>>
    /\ bcast.pc = "send" =>
         /\ Len(bcast.results) < Len(bcast.endpoints)
         /\ \A i \in DOMAIN bcast.endpoints : bcast.endpoints[i] \in Members
         /\ \A i \in 1 .. Len(bcast.results) :
              bcast.results[i].endpoint = bcast.endpoints[i] /\ ~bcast.results[i].fatal
    /\ BroadcastAccountsForAll

LEMMA ResolutionLength ==
    ASSUME NEW e \in Resolutions
    PROVE  /\ e \in Seq(Endpoints) /\ Len(e) \in Nat /\ DOMAIN e = 1 .. Len(e)
           /\ \A i \in 1 .. Len(e) : e[i] \in Endpoints
<1>1. PICK k \in 0 .. MaxMembers : e \in [1 .. k -> Endpoints]
  BY DEF Resolutions
<1>2. k \in Nat
  BY ClientAssumption
<1>3. e \in Seq(Endpoints)
  BY <1>1, <1>2
<1>. QED  BY <1>3

LEMMA ResolveInv ==
    ASSUME BroadcastInv, Resolve
    PROVE  BroadcastInv'
<1>. USE DEF BroadcastInv, BroadcastCall
<1>1. CASE bcast' = [bcast EXCEPT !.pc = "rejected"]
  <2>1. bcast' \in BroadcastCall /\ bcast'.pc = "rejected"
    BY <1>1
  <2>. QED  BY <2>1 DEF BroadcastAccountsForAll
<1>2. CASE \E endpoints \in Resolutions :
            /\ \A i \in DOMAIN endpoints : endpoints[i] \in Members
            /\ bcast' = [bcast EXCEPT !.endpoints = endpoints,
                            !.pc = IF endpoints = <<>> THEN "done" ELSE "send"]
  <2>1. PICK endpoints \in Resolutions :
            /\ \A i \in DOMAIN endpoints : endpoints[i] \in Members
            /\ bcast' = [bcast EXCEPT !.endpoints = endpoints,
                            !.pc = IF endpoints = <<>> THEN "done" ELSE "send"]
    BY <1>2
  <2>2. bcast.results = <<>>
    BY DEF Resolve
  <2>3. /\ bcast' \in BroadcastCall /\ bcast'.endpoints = endpoints
        /\ bcast'.results = <<>>
        /\ bcast'.pc = IF endpoints = <<>> THEN "done" ELSE "send"
    BY <2>1, <2>2
  <2>4. endpoints \in Seq(Endpoints) /\ Len(endpoints) \in Nat
    BY ResolutionLength
  <2>5. CASE endpoints = <<>>
    BY <2>3, <2>5 DEF BroadcastAccountsForAll
  <2>6. CASE endpoints # <<>>
    <3>1. Len(endpoints) > 0
      BY <2>4, <2>6
    <3>. QED  BY <2>1, <2>3, <2>6, <3>1 DEF BroadcastAccountsForAll
  <2>. QED  BY <2>5, <2>6
<1>. QED  BY <1>1, <1>2 DEF Resolve

LEMMA SendInv ==
    ASSUME BroadcastInv, NEW fatal \in BOOLEAN, BroadcastSend(fatal)
    PROVE  BroadcastInv'
<1>. DEFINE n == Len(bcast.results)
            res == [endpoint |-> bcast.endpoints[n + 1], fatal |-> fatal]
            pc == IF SendsOn(fatal) THEN "send" ELSE "done"
<1>1. /\ bcast \in BroadcastCall /\ bcast.pc = "send"
      /\ bcast.results \in Seq(SendResult) /\ bcast.endpoints \in Resolutions
  BY DEF BroadcastInv, BroadcastSend, BroadcastCall
<1>2. /\ n \in Nat /\ n < Len(bcast.endpoints) /\ Len(bcast.endpoints) \in Nat
      /\ DOMAIN bcast.endpoints = 1 .. Len(bcast.endpoints)
      /\ \A i \in 1 .. Len(bcast.endpoints) :
           bcast.endpoints[i] \in Endpoints /\ bcast.endpoints[i] \in Members
  BY <1>1, ResolutionLength DEF BroadcastInv
<1>3. \A i \in 1 .. n :
        bcast.results[i].endpoint = bcast.endpoints[i] /\ ~bcast.results[i].fatal
  BY <1>1 DEF BroadcastInv
<1>4. res \in SendResult
  BY <1>2 DEF SendResult
<1>5. bcast' = [[bcast EXCEPT !.results = Append(bcast.results, res)] EXCEPT !.pc = pc]
  BY DEF BroadcastSend
<1>. HIDE DEF res
<1>6. /\ Append(bcast.results, res) \in Seq(SendResult)
      /\ Len(Append(bcast.results, res)) = n + 1
      /\ Append(bcast.results, res)[n + 1] = res
      /\ \A i \in 1 .. n : Append(bcast.results, res)[i] = bcast.results[i]
  BY <1>1, <1>4
<1>7. /\ bcast' \in BroadcastCall /\ bcast'.pc = pc
      /\ bcast'.endpoints = bcast.endpoints
      /\ bcast'.results = Append(bcast.results, res)
  BY <1>1, <1>5, <1>6 DEF BroadcastCall
<1>8. res.endpoint = bcast.endpoints[n + 1] /\ res.fatal = fatal
  BY DEF res
<1>9. \A i \in 1 .. n + 1 :
        /\ bcast'.results[i].endpoint = bcast.endpoints[i]
        /\ bcast'.results[i].fatal => i = n + 1 /\ fatal
  <2>1. ASSUME NEW i \in 1 .. n
        PROVE  /\ bcast'.results[i].endpoint = bcast.endpoints[i]
               /\ ~bcast'.results[i].fatal
    BY <1>3, <1>6, <1>7
  <2>2. /\ bcast'.results[n + 1].endpoint = bcast.endpoints[n + 1]
        /\ bcast'.results[n + 1].fatal = fatal
    BY <1>6, <1>7, <1>8
  <2>3. \A i \in 1 .. n + 1 : i \in 1 .. n \/ i = n + 1
    BY <1>2
  <2>. QED  BY <2>1, <2>2, <2>3
<1>10. Len(bcast'.results) = n + 1
  BY <1>6, <1>7
<1>. HIDE DEF n
<1>11. CASE SendsOn(fatal)
  <2>1. ~fatal /\ n + 1 < Len(bcast.endpoints)
    BY <1>11 DEF SendsOn, n
  <2>. QED  BY <1>2, <1>7, <1>9, <1>10, <1>11, <2>1
            DEF BroadcastInv, BroadcastAccountsForAll
<1>12. CASE ~SendsOn(fatal)
  <2>1. fatal \/ ~(n + 1 < Len(bcast.endpoints))
    BY <1>12 DEF SendsOn, n
  <2>2. n + 1 <= Len(bcast.endpoints)
    BY <1>2
  <2>3. bcast'.pc = "done"
    BY <1>7, <1>12
  <2>4. n + 1 = Len(bcast.endpoints) \/ bcast'.results[n + 1].fatal
    <3>1. bcast'.results[n + 1].fatal = fatal
      BY <1>6, <1>7, <1>8 DEF n
    <3>. QED  BY <1>2, <2>1, <2>2, <3>1
  <2>5. BroadcastAccountsForAll'
    BY <1>2, <1>7, <1>9, <1>10, <2>2, <2>4 DEF BroadcastAccountsForAll
  <2>. QED  BY <1>7, <2>3, <2>5 DEF BroadcastInv
<1>. QED  BY <1>11, <1>12

-----------------------------------------------------------------------------
(* Answers: who is asked, or was answered, has sent; and what was answered *)
(* is in the buffer until it is read or pushed out.                        *)

Holds(r) ==
    \/ reqs[r].lagged
    \/ \E i \in DOMAIN reqs[r].buf : reqs[r].buf[i] = "answer"
AnswerInv ==
    /\ asked \subseteq Requests /\ answered \subseteq Requests
    /\ \A r \in asked \cup answered : reqs[r].pc \notin {"idle", "subscribed"}
    /\ \A r \in answered : reqs[r].pc \in {"sent", "wait"} => Holds(r)

LEMMA AnswerInvIsEnough == AnswerInv => AnswerNotMissed
BY DEF AnswerInv, AnswerNotMissed, Holds

LEMMA AnswerGoto ==
    ASSUME ReqsOK, AnswerInv, NEW r \in Requests, NEW from, NEW to \in RequestPc,
           RequestGoto(r, from, to), to \notin {"idle", "subscribed"},
           to \in {"sent", "wait"} => from \in {"subscribed", "sent"},
           asked' \subseteq asked \cup {r}, answered' = answered
    PROVE  AnswerInv'
<1>1. /\ \A q \in Requests \ {r} : reqs'[q] = reqs[q]
      /\ reqs'[r].pc = to /\ reqs'[r].buf = reqs[r].buf
      /\ reqs'[r].lagged = reqs[r].lagged
  BY ReqFields DEF RequestGoto, ReqsOK, Subscription
<1>2. ASSUME NEW q \in answered, reqs'[q].pc \in {"sent", "wait"}
      PROVE  Holds(q)'
  <2>1. CASE q = r
    <3>1. from \in {"subscribed", "sent"} /\ reqs[r].pc = from
      BY <1>1, <1>2, <2>1 DEF RequestGoto
    <3>2. reqs[r].pc = "sent"
      BY <1>2, <2>1, <3>1 DEF AnswerInv
    <3>3. Holds(r)
      BY <1>2, <2>1, <3>2 DEF AnswerInv
    <3>. QED  BY <1>1, <2>1, <3>3 DEF Holds
  <2>2. CASE q # r
    <3>1. q \in Requests \ {r}
      BY <2>2 DEF AnswerInv
    <3>. QED  BY <1>1, <1>2, <3>1 DEF AnswerInv, Holds
  <2>. QED  BY <2>1, <2>2
<1>. QED  BY <1>1, <1>2 DEF AnswerInv

(* A buffered message leaves those before it where they are. *)
LEMMA AppendHolds ==
    ASSUME NEW s \in Seq({"answer", "other"}), NEW m \in {"answer", "other"}
    PROVE  /\ (\E i \in DOMAIN s : s[i] = "answer") =>
                \E i \in DOMAIN Append(s, m) : Append(s, m)[i] = "answer"
           /\ m = "answer" => \E i \in DOMAIN Append(s, m) : Append(s, m)[i] = "answer"
<1>1. /\ Len(s) \in Nat /\ DOMAIN s = 1 .. Len(s)
      /\ DOMAIN Append(s, m) = 1 .. Len(s) + 1
      /\ \A i \in 1 .. Len(s) : Append(s, m)[i] = s[i]
      /\ Append(s, m)[Len(s) + 1] = m
  OBVIOUS
<1>2. Len(s) + 1 \in 1 .. Len(s) + 1 /\ 1 .. Len(s) \subseteq 1 .. Len(s) + 1
  BY <1>1
<1>. QED  BY <1>1, <1>2

LEMMA AnswerBroadcast ==
    ASSUME ReqsOK, AnswerInv, NEW c, NEW q, Broadcast(c, q),
           asked' \subseteq asked,
           \/ answered' = answered
           \/ q \in asked /\ reqs[q].chan = c /\ answered' = answered \cup {q}
    PROVE  AnswerInv'
<1>1. \A r \in Requests :
        /\ reqs'[r].pc = reqs[r].pc /\ reqs'[r].chan = reqs[r].chan
        /\ reqs[r].lagged => reqs'[r].lagged
        /\ ~reqs'[r].lagged /\ Buffers(r) /\ reqs[r].chan = c =>
             reqs'[r].buf = Append(reqs[r].buf, IF r = q THEN "answer" ELSE "other")
        /\ ~(Buffers(r) /\ reqs[r].chan = c) => reqs'[r] = reqs[r]
  BY BroadcastReqs
<1>2. answered' \subseteq Requests /\ asked' \subseteq Requests
  BY DEF AnswerInv
<1>3. \A r \in asked' \cup answered' : r \in asked \cup answered
  OBVIOUS
<1>4. ASSUME NEW r \in answered', reqs'[r].pc \in {"sent", "wait"}
      PROVE  Holds(r)'
  <2>. DEFINE m == IF r = q THEN "answer" ELSE "other"
  <2>1. r \in Requests /\ reqs[r].pc \in {"sent", "wait"} /\ Buffers(r)
    BY <1>1, <1>2, <1>4 DEF Buffers
  <2>2. r \in answered => Holds(r)
    BY <2>1 DEF AnswerInv
  <2>3. CASE reqs'[r].lagged
    BY <2>3 DEF Holds
  <2>4. CASE ~reqs'[r].lagged /\ reqs[r].chan = c
    <3>1. reqs'[r].buf = Append(reqs[r].buf, m)
      BY <1>1, <2>1, <2>4
    <3>2. reqs[r].buf \in Seq({"answer", "other"}) /\ m \in {"answer", "other"}
      BY <2>1, ReqFields
    <3>3. CASE r \in answered
      <4>1. \E i \in DOMAIN reqs[r].buf : reqs[r].buf[i] = "answer"
        BY <1>1, <2>1, <2>2, <2>4, <3>3 DEF Holds
      <4>. QED  BY <3>1, <3>2, <4>1, AppendHolds DEF Holds
    <3>4. CASE r \notin answered
      <4>1. m = "answer"
        BY <1>4, <3>4
      <4>. QED  BY <3>1, <3>2, <4>1, AppendHolds DEF Holds
    <3>. QED  BY <3>3, <3>4
  <2>5. CASE reqs[r].chan # c
    <3>1. reqs'[r] = reqs[r] /\ r \in answered
      BY <1>1, <1>4, <2>1, <2>5
    <3>. QED  BY <2>2, <3>1 DEF Holds
  <2>. QED  BY <2>3, <2>4, <2>5
<1>. QED  BY <1>1, <1>2, <1>3, <1>4 DEF AnswerInv

LEMMA AnswerReceive ==
    ASSUME ReqsOK, AnswerInv, NEW r \in Requests, Receive(r)
    PROVE  AnswerInv'
<1>1. asked' = asked /\ answered' = answered
  BY DEF Receive, history
<1>2. CASE RequestGoto(r, "wait", "failed")
  <2>1. "failed" \in RequestPc
    BY DEF RequestPc
  <2>. QED  BY <1>1, <1>2, <2>1, AnswerGoto
<1>3. CASE RequestGoto(r, "wait", "done")
  <2>1. "done" \in RequestPc
    BY DEF RequestPc
  <2>. QED  BY <1>1, <1>3, <2>1, AnswerGoto
<1>4. CASE /\ reqs[r].buf # <<>> /\ Head(reqs[r].buf) = "other"
           /\ reqs' = [reqs EXCEPT ![r].buf = Tail(@)]
  <2>. DEFINE s == reqs[r].buf
  <2>1. /\ \A q \in Requests \ {r} : reqs'[q] = reqs[q]
        /\ reqs'[r].pc = reqs[r].pc /\ reqs'[r].buf = Tail(s)
        /\ reqs'[r].lagged = reqs[r].lagged
    BY <1>4, ReqFields DEF ReqsOK, Subscription
  <2>2. s \in Seq({"answer", "other"}) /\ s # <<>>
    BY <1>4, ReqFields
  <2>3. /\ Len(s) \in Nat /\ Len(s) > 0 /\ DOMAIN s = 1 .. Len(s) /\ s[1] = "other"
        /\ DOMAIN Tail(s) = 1 .. Len(s) - 1
        /\ \A i \in 1 .. Len(s) - 1 : Tail(s)[i] = s[i + 1]
    BY <1>4, <2>2
  <2>. HIDE DEF s
  <2>4. (\E i \in DOMAIN s : s[i] = "answer") => \E i \in DOMAIN Tail(s) : Tail(s)[i] = "answer"
    <3>1. SUFFICES ASSUME NEW i \in 1 .. Len(s), s[i] = "answer"
                   PROVE  \E j \in 1 .. Len(s) - 1 : Tail(s)[j] = "answer"
      BY <2>3
    <3>2. i - 1 \in 1 .. Len(s) - 1 /\ (i - 1) + 1 = i
      BY <2>3, <3>1
    <3>. QED  BY <2>3, <3>1, <3>2
  <2>5. Holds(r) => Holds(r)'
    BY <2>1, <2>4 DEF Holds, s
  <2>6. \A q \in Requests : reqs'[q].pc = reqs[q].pc /\ (Holds(q) => Holds(q)')
    <3>1. ASSUME NEW q \in Requests \ {r}
          PROVE  reqs'[q].pc = reqs[q].pc /\ (Holds(q) => Holds(q)')
      BY <2>1, <3>1 DEF Holds
    <3>. QED  BY <2>1, <2>5, <3>1
  <2>. QED  BY <1>1, <2>6 DEF AnswerInv
<1>. QED  BY <1>2, <1>3, <1>4 DEF Receive

LEMMA AnswerSubscribe ==
    ASSUME ReqsOK, AnswerInv, NEW r \in Requests, Subscribe(r)
    PROVE  AnswerInv'
<1>1. asked' = asked /\ answered' = answered /\ reqs[r].pc = "idle"
  BY DEF Subscribe, history, RequestGoto
<1>2. r \notin asked \cup answered
  BY <1>1 DEF AnswerInv
<1>3. \A q \in Requests \ {r} : reqs'[q] = reqs[q]
  BY DEF Subscribe, RequestGoto, ReqsOK
<1>4. \A q \in asked \cup answered : q \in Requests \ {r}
  BY <1>2 DEF AnswerInv
<1>. QED  BY <1>1, <1>3, <1>4 DEF AnswerInv, Holds

-----------------------------------------------------------------------------
(* Loops: where callers of start() wait for it, one call at most is inside *)
(* it, and then every loop that still runs is cancelled; a loop that runs  *)
(* and is not cancelled has its token and its channel in the slots.        *)

Inside(c) == starts[c] \in {"checked", "replaced"}
LoopInv ==
    /\ \A c, d \in Calls : Inside(c) /\ Inside(d) => c = d
    /\ \A c \in Calls : loops[c] # "none" => starts[c] = "ok"
    /\ \A c \in Calls : starts[c] = "replaced" => token = c \/ c \in cancelled
    /\ \A c, d \in Calls : Inside(c) /\ loops[d] = "running" => d \in cancelled
    /\ \A d \in Calls : loops[d] = "running" /\ d \notin cancelled
                          => token = d /\ incoming = d

LEMMA LoopInvIsEnough == LoopInv => SingleLoop
BY DEF LoopInv, SingleLoop

(* Taking the token and cancelling it leaves no loop without a token. *)
LEMMA StopKeepsLoops ==
    ASSUME LifeOK, LoopInv, StopInner, UNCHANGED <<incoming, starts, loops>>
    PROVE  LoopInv'
BY ClientAssumption DEF LoopInv, LifeOK, StopInner, Inside

(* Loops that end, and tokens that are cancelled. *)
LEMMA EndingKeepsLoops ==
    ASSUME LifeOK, LoopInv, UNCHANGED <<token, incoming, starts>>,
           cancelled \subseteq cancelled',
           \A c \in Calls : /\ loops'[c] = "running" => loops[c] = "running"
                            /\ loops'[c] # "none" => loops[c] # "none"
    PROVE  LoopInv'
BY DEF LoopInv, Inside

LEMMA LoopSteps ==
    ASSUME Serial, LifeOK, LoopInv, NEW c \in Calls,
           \/ StartCheck(c) \/ StartStep(c) \/ CancelToken(c)
           \/ LoopStep(c) \/ LoopFatal(c)
    PROVE  LoopInv'
<1>. USE DEF LifeOK
<1>1. CASE StartCheck(c)
  <2>1. /\ UNCHANGED <<token, cancelled, incoming, loops>>
        /\ starts[c] = "new" /\ \A d \in Calls : ~Inside(d)
        /\ starts' = [starts EXCEPT ![c] = IF IsRunning THEN "refused" ELSE "checked"]
    BY <1>1 DEF StartCheck, Inside
  <2>2. ~IsRunning => \A d \in Calls : loops[d] = "running" => d \in cancelled
    <3>1. ASSUME NEW d \in Calls, loops[d] = "running", d \notin cancelled
          PROVE  IsRunning
      <4>1. token = d /\ incoming = d
        BY <3>1 DEF LoopInv
      <4>. QED  BY <3>1, <4>1, ClientAssumption DEF IsRunning, HasIncoming, HasSender
    <3>. QED  BY <3>1
  <2>3. \A d \in Calls : Inside(d)' => d = c /\ ~IsRunning
    BY <2>1 DEF Inside
  <2>4. \A d \in Calls : starts'[d] # "replaced" /\ (starts[d] = "ok" => starts'[d] = "ok")
    BY <2>1 DEF Inside
  <2>. QED  BY <2>1, <2>2, <2>3, <2>4 DEF LoopInv
<1>2. CASE StartReplace(c)
  <2>1. /\ UNCHANGED <<cancelled, incoming, loops>> /\ token' = c /\ Inside(c)
        /\ starts' = [starts EXCEPT ![c] = "replaced"] /\ starts[c] = "checked"
    BY <1>2 DEF StartReplace, Inside
  <2>2. \A d \in Calls : loops[d] = "running" => d \in cancelled
    BY <2>1 DEF LoopInv
  <2>3. \A d \in Calls : Inside(d)' => d = c
    BY <2>1 DEF LoopInv, Inside
  <2>4. \A d \in Calls : starts[d] = "ok" => starts'[d] = "ok"
    BY <2>1
  <2>5. \A d \in Calls : starts'[d] = "replaced" => d = c
    BY <2>3 DEF Inside
  <2>. QED  BY <2>1, <2>2, <2>3, <2>4, <2>5 DEF LoopInv
<1>3. CASE StartSpawn(c)
  <2>1. /\ UNCHANGED <<token, cancelled>> /\ incoming' = c /\ Inside(c)
        /\ starts' = [starts EXCEPT ![c] = "ok"]
        /\ loops' = [loops EXCEPT ![c] = "running"] /\ starts[c] = "replaced"
    BY <1>3 DEF StartSpawn, Inside
  <2>2. \A d \in Calls : ~Inside(d)'
    BY <2>1 DEF LoopInv, Inside
  <2>3. \A d \in Calls : loops'[d] # "none" => starts'[d] = "ok"
    BY <2>1 DEF LoopInv
  <2>4. \A d \in Calls : loops'[d] = "running" /\ d \notin cancelled => d = c
    BY <2>1 DEF LoopInv
  <2>5. token = c \/ c \in cancelled
    BY <2>1 DEF LoopInv
  <2>. QED  BY <2>1, <2>2, <2>3, <2>4, <2>5 DEF LoopInv, Inside
<1>4. CASE CancelToken(c)
  BY <1>4, EndingKeepsLoops DEF CancelToken
<1>5. CASE LoopCancelled(c)
  BY <1>5, EndingKeepsLoops DEF LoopCancelled, LoopGoto
<1>6. CASE LoopStop(c)
  <2>1. /\ StopInner /\ UNCHANGED <<incoming, starts>>
        /\ loops[c] = "stopping" /\ loops' = [loops EXCEPT ![c] = "stopped"]
    BY <1>6 DEF LoopStop, LoopGoto
  <2>2. \A d \in Calls : /\ loops'[d] = "running" => loops[d] = "running"
                         /\ loops'[d] # "none" => loops[d] # "none"
    BY <2>1
  <2>. QED  BY <2>1, <2>2, ClientAssumption DEF LoopInv, Inside, StopInner
<1>7. CASE LoopDrop(c)
  BY <1>7, EndingKeepsLoops DEF LoopDrop, LoopGoto
<1>8. CASE LoopFatal(c)
  BY <1>8, EndingKeepsLoops DEF LoopFatal, LoopGoto
<1>. QED  BY <1>1, <1>2, <1>3, <1>4, <1>5, <1>6, <1>7, <1>8 DEF StartStep, LoopStep

-----------------------------------------------------------------------------
(* The registry *)

LEMMA HandlerTypes ==
    ASSUME HandlersTypeOK,
           \/ \E q \in Incoming : \/ SpawnHandler(q) \/ ServeStep(q)
                                  \/ HandlerReturns(q) \/ Reply(q)
           \/ \E g \in Registrations : Register(g) \/ RegisterInsert(g)
    PROVE  HandlersTypeOK'
<1>. USE DEF HandlersTypeOK, ServePc, ServeGoto, IsNext
<1>1. ASSUME NEW q \in Incoming, SpawnHandler(q) \/ HandlerReturns(q) \/ Reply(q)
      PROVE  HandlersTypeOK'
  BY <1>1 DEF SpawnHandler, HandlerReturns, Reply
<1>2. ASSUME NEW q \in Incoming, ReadRequest(q)
      PROVE  HandlersTypeOK'
  <2>1. queue' \in Seq(Incoming \cup Registrations)
    BY <1>2 DEF ReadRequest
  <2>. QED  BY <1>2, <2>1 DEF ReadRequest
<1>3. ASSUME NEW q \in Incoming, Lookup(q)
      PROVE  HandlersTypeOK'
  <2>1. queue' \in Seq(Incoming \cup Registrations)
    BY <1>3 DEF Lookup
  <2>. QED  BY <1>3, <2>1 DEF Lookup
<1>4. ASSUME NEW g \in Registrations, Register(g)
      PROVE  HandlersTypeOK'
  <2>1. queue' \in Seq(Incoming \cup Registrations)
    BY <1>4 DEF Register
  <2>. QED  BY <1>4, <2>1 DEF Register
<1>5. ASSUME NEW g \in Registrations, RegisterInsert(g)
      PROVE  HandlersTypeOK'
  <2>1. queue' \in Seq(Incoming \cup Registrations)
    BY <1>5 DEF RegisterInsert
  <2>. QED  BY <1>5, <2>1 DEF RegisterInsert
<1>. QED  BY <1>1, <1>2, <1>3, <1>4, <1>5 DEF ServeStep

-----------------------------------------------------------------------------
(* The inductive invariant *)

Inv ==
    /\ LifeOK /\ ReqsOK /\ BroadcastInv /\ AnswerInv
    /\ others \in 0 .. MaxOthers
    /\ Serial => LoopInv

LEMMA InvTypes == Inv /\ HandlersTypeOK => TypeOK
BY DEF Inv, LifeOK, ReqsOK, BroadcastInv, AnswerInv, TypeOK, ClientTypeOK

LEMMA InitInv == Init => Inv /\ HandlersTypeOK
<1> SUFFICES ASSUME Init PROVE Inv /\ HandlersTypeOK
  OBVIOUS
<1>. USE ClientAssumption DEF Init, ClientInit
<1>1. LifeOK
  BY DEF LifeOK, StartPc, LoopPc
<1>2. ReqsOK
  <2>1. [pc |-> "idle", chan |-> None, buf |-> <<>>, lagged |-> FALSE] \in Subscription
    BY DEF Subscription, RequestPc
  <2>. QED  BY <2>1 DEF ReqsOK
<1>3. BroadcastInv
  <2>1. <<>> \in Resolutions
    <3>1. 0 \in 0 .. MaxMembers /\ <<>> \in [1 .. 0 -> Endpoints]
      OBVIOUS
    <3>. QED  BY <3>1 DEF Resolutions
  <2>. QED  BY <2>1 DEF BroadcastInv, BroadcastCall, BroadcastAccountsForAll
<1>4. AnswerInv
  BY DEF AnswerInv
<1>5. LoopInv
  BY DEF LoopInv, Inside
<1>6. HandlersTypeOK
  BY DEF HandlersInit, HandlersTypeOK, ServePc
<1>. QED  BY <1>1, <1>2, <1>3, <1>4, <1>5, <1>6 DEF Inv

(* A fatal error of a send, which stops the client. *)
LEMMA FatalKeeps ==
    ASSUME Inv, FatalError, UNCHANGED <<incoming, starts, loops>>
    PROVE  LifeOK' /\ (Serial => LoopInv')
BY FatalLife, StopKeepsLoops DEF Inv, FatalError

(* A step that leaves the life of the client alone. *)
LEMMA LifeKept ==
    ASSUME Inv, UNCHANGED <<client, faulted, doomed>>
    PROVE  LifeOK' /\ (Serial => LoopInv')
BY DEF Inv, client, LifeOK, LoopInv, Inside

LEMMA ReqsKept ==
    ASSUME Inv, UNCHANGED reqs, UNCHANGED answered, asked' \subseteq asked
    PROVE  ReqsOK' /\ AnswerInv'
BY DEF Inv, ReqsOK, AnswerInv, Holds

LEMMA BroadcastKept ==
    ASSUME Inv, UNCHANGED bcast
    PROVE  BroadcastInv'
BY DEF Inv, BroadcastInv, BroadcastAccountsForAll

-----------------------------------------------------------------------------
(* Every step keeps it *)

LEMMA LifeNext ==
    ASSUME Inv, NEW c \in Calls,
           \/ StartCheck(c) \/ StartStep(c) \/ CancelToken(c)
           \/ LoopStep(c) \/ LoopFatal(c)
    PROVE  Inv'
<1>1. UNCHANGED <<reqs, asked, others, bcast, answered>>
  BY DEF StartCheck, StartStep, StartReplace, StartSpawn, CancelToken,
         LoopStep, LoopCancelled, LoopStop, LoopDrop, LoopFatal, history
<1>2. LifeOK' /\ (Serial => LoopInv')
  BY LifeSteps, LoopSteps DEF Inv
<1>3. ReqsOK' /\ AnswerInv' /\ BroadcastInv'
  BY <1>1, ReqsKept, BroadcastKept
<1>. QED  BY <1>1, <1>2, <1>3 DEF Inv

LEMMA ReceiveNext ==
    ASSUME Inv, NEW c \in Calls,
           LoopReceiveOther(c) \/ \E q \in Requests : LoopReceiveAnswer(c, q)
    PROVE  Inv'
<1>1. CASE LoopReceiveOther(c)
  <2>1. LifeOK' /\ (Serial => LoopInv')
    BY <1>1, LifeKept DEF LoopReceiveOther, history
  <2>2. ReqsOK' /\ AnswerInv'
    <3>1. /\ Broadcast(c, None) /\ asked' = asked /\ answered' = answered
      BY <1>1 DEF LoopReceiveOther, history
    <3>. QED  BY <3>1, BroadcastReqs, AnswerBroadcast DEF Inv
  <2>3. BroadcastInv'
    BY <1>1, BroadcastKept DEF LoopReceiveOther
  <2>4. others' \in 0 .. MaxOthers
    BY <1>1, ClientAssumption DEF LoopReceiveOther, Inv
  <2>. QED  BY <2>1, <2>2, <2>3, <2>4 DEF Inv
<1>2. ASSUME NEW q \in Requests, LoopReceiveAnswer(c, q)
      PROVE  Inv'
  <2>1. LifeOK' /\ (Serial => LoopInv')
    BY <1>2, LifeKept DEF LoopReceiveAnswer
  <2>2. ReqsOK' /\ AnswerInv'
    <3>1. /\ Broadcast(c, q) /\ q \in asked /\ asked' = asked \ {q}
          /\ answered' = IF reqs[q].chan = c THEN answered \cup {q} ELSE answered
      BY <1>2 DEF LoopReceiveAnswer
    <3>. QED  BY <3>1, BroadcastReqs, AnswerBroadcast DEF Inv
  <2>3. BroadcastInv' /\ others' \in 0 .. MaxOthers
    BY <1>2, BroadcastKept DEF LoopReceiveAnswer, Inv
  <2>. QED  BY <2>1, <2>2, <2>3 DEF Inv
<1>. QED  BY <1>1, <1>2

(* A request moves on without touching the client. *)
LEMMA GotoNext ==
    ASSUME Inv, NEW r \in Requests, NEW from, NEW to \in RequestPc,
           RequestGoto(r, from, to), to \notin {"idle", "subscribed"},
           from \in {"subscribed", "sent", "wait"},
           to \in {"sent", "wait"} => from \in {"subscribed", "sent"},
           asked' \subseteq asked \cup {r}, answered' = answered
    PROVE  ReqsOK' /\ AnswerInv'
BY GotoReqs, AnswerGoto DEF Inv

LEMMA RequestNext ==
    ASSUME Inv, NEW r \in Requests,
           \/ Subscribe(r) \/ Transmit(r) \/ RequestStep(r)
           \/ \E pc \in {"subscribed", "sent"} : FatalSend(r, pc) \/ SendFails(r, pc)
           \/ CancelRequest(r) \/ LoseAnswer(r)
    PROVE  Inv'
<1>1. BroadcastInv' /\ others' \in 0 .. MaxOthers
  BY BroadcastKept DEF Inv, Subscribe, Transmit, RequestStep, SendReturns, Receive,
     FatalSend, SendFails, CancelRequest, LoseAnswer
<1>2. LifeOK' /\ (Serial => LoopInv')
  <2>1. CASE \E pc \in {"subscribed", "sent"} : FatalSend(r, pc)
    BY <2>1, FatalKeeps DEF FatalSend
  <2>2. CASE ~\E pc \in {"subscribed", "sent"} : FatalSend(r, pc)
    BY <2>2, LifeKept DEF Subscribe, Transmit, RequestStep, SendReturns, Receive,
       SendFails, CancelRequest, LoseAnswer, history
  <2>. QED  BY <2>1, <2>2
<1>3. {"sent", "wait", "failed"} \subseteq RequestPc
  BY DEF RequestPc
<1>4. ReqsOK' /\ AnswerInv'
  <2>1. CASE Subscribe(r)
    BY <2>1, SubscribeReqs, AnswerSubscribe DEF Inv, LifeOK
  <2>2. CASE Transmit(r)
    <3>1. /\ RequestGoto(r, "subscribed", "sent") /\ asked' = asked \cup {r}
          /\ answered' = answered
      BY <2>2 DEF Transmit, history
    <3>. QED  BY <1>3, <3>1, GotoNext
  <2>3. CASE SendReturns(r)
    <3>1. /\ RequestGoto(r, "sent", "wait") /\ asked' = asked /\ answered' = answered
      BY <2>3 DEF SendReturns, history
    <3>. QED  BY <1>3, <3>1, GotoNext
  <2>4. CASE Receive(r)
    BY <2>4, ReceiveReqs, AnswerReceive DEF Inv
  <2>5. ASSUME NEW pc \in {"subscribed", "sent", "wait"}, RequestGoto(r, pc, "failed"),
               asked' = asked, answered' = answered
        PROVE  ReqsOK' /\ AnswerInv'
    BY <1>3, <2>5, GotoNext
  <2>6. CASE \E pc \in {"subscribed", "sent"} : FatalSend(r, pc) \/ SendFails(r, pc)
    BY <2>5, <2>6 DEF FatalSend, SendFails, history
  <2>7. CASE CancelRequest(r)
    BY <2>5, <2>7 DEF CancelRequest, history
  <2>8. CASE LoseAnswer(r)
    <3>1. UNCHANGED reqs /\ UNCHANGED answered /\ asked' \subseteq asked
      BY <2>8 DEF LoseAnswer, history
    <3>. QED  BY <3>1, ReqsKept
  <2>. QED  BY <2>1, <2>2, <2>3, <2>4, <2>6, <2>7, <2>8 DEF RequestStep
<1>. QED  BY <1>1, <1>2, <1>4 DEF Inv

LEMMA BroadcastNext ==
    ASSUME Inv, Resolve \/ \E fatal \in BOOLEAN : BroadcastSend(fatal)
    PROVE  Inv'
<1>1. BroadcastInv'
  BY ResolveInv, SendInv DEF Inv
<1>2. ReqsOK' /\ AnswerInv' /\ others' \in 0 .. MaxOthers
  BY ReqsKept DEF Inv, Resolve, BroadcastSend, history
<1>3. CASE Resolve
  <2>1. LifeOK' /\ (Serial => LoopInv')
    BY <1>3, LifeKept DEF Resolve, history
  <2>. QED  BY <1>1, <1>2, <2>1 DEF Inv
<1>4. ASSUME NEW fatal \in BOOLEAN, BroadcastSend(fatal)
      PROVE  Inv'
  <2>1. LifeOK' /\ (Serial => LoopInv')
    <3>1. CASE fatal
      BY <1>4, <3>1, FatalKeeps DEF BroadcastSend
    <3>2. CASE ~fatal
      BY <1>4, <3>2, LifeKept DEF BroadcastSend, client
    <3>. QED  BY <3>1, <3>2
  <2>. QED  BY <1>1, <1>2, <2>1 DEF Inv
<1>. QED  BY <1>3, <1>4

LEMMA ClientStep ==
    ASSUME Inv, ClientNext
    PROVE  Inv'
<1>1. CASE \E c \in Calls :
             \/ StartCheck(c) \/ StartStep(c) \/ CancelToken(c)
             \/ LoopStep(c) \/ LoopFatal(c)
  BY <1>1, LifeNext
<1>2. CASE \E c \in Calls :
             LoopReceiveOther(c) \/ \E q \in Requests : LoopReceiveAnswer(c, q)
  BY <1>2, ReceiveNext
<1>3. CASE \E r \in Requests :
             \/ Subscribe(r) \/ Transmit(r) \/ RequestStep(r)
             \/ \E pc \in {"subscribed", "sent"} : FatalSend(r, pc) \/ SendFails(r, pc)
             \/ CancelRequest(r) \/ LoseAnswer(r)
  BY <1>3, RequestNext
<1>4. CASE Resolve \/ \E fatal \in BOOLEAN : BroadcastSend(fatal)
  BY <1>4, BroadcastNext
<1>. QED  BY <1>1, <1>2, <1>3, <1>4 DEF ClientNext

LEMMA ClientKept ==
    ASSUME Inv, UNCHANGED clientVars
    PROVE  Inv'
<1>1. LifeOK' /\ (Serial => LoopInv')
  BY LifeKept DEF clientVars, client
<1>2. ReqsOK' /\ AnswerInv' /\ BroadcastInv' /\ others' \in 0 .. MaxOthers
  BY ReqsKept, BroadcastKept DEF clientVars, Inv
<1>. QED  BY <1>1, <1>2 DEF Inv

LEMMA StepInv ==
    ASSUME Inv, HandlersTypeOK, [Next]_vars
    PROVE  Inv' /\ HandlersTypeOK'
<1>1. CASE ClientNext /\ UNCHANGED handlerVars
  BY <1>1, ClientStep DEF handlerVars, HandlersTypeOK
<1>2. ASSUME NEW c \in Calls, NEW q \in Incoming, LoopReceiveRequest(c, q)
      PROVE  Inv' /\ HandlersTypeOK'
  BY <1>2, HandlerTypes, ClientKept DEF LoopReceiveRequest
<1>3. ASSUME NEW q \in Incoming, (ServeStep(q) \/ HandlerReturns(q)) /\ UNCHANGED clientVars
      PROVE  Inv' /\ HandlersTypeOK'
  BY <1>3, HandlerTypes, ClientKept
<1>4. ASSUME NEW q \in Incoming, SendAnswer(q)
      PROVE  Inv' /\ HandlersTypeOK'
  <2>1. HandlersTypeOK'
    BY <1>4, HandlerTypes DEF SendAnswer
  <2>2. CASE UNCHANGED clientVars
    BY <2>1, <2>2, ClientKept
  <2>3. CASE FatalError /\ UNCHANGED <<incoming, starts, loops, reqs, asked, others,
                                       bcast, answered>>
    <3>1. LifeOK' /\ (Serial => LoopInv')
      BY <2>3, FatalKeeps
    <3>2. ReqsOK' /\ AnswerInv' /\ BroadcastInv' /\ others' \in 0 .. MaxOthers
      BY <2>3, ReqsKept, BroadcastKept DEF Inv
    <3>. QED  BY <2>1, <3>1, <3>2 DEF Inv
  <2>. QED  BY <1>4, <2>2, <2>3 DEF SendAnswer
<1>5. ASSUME NEW g \in Registrations,
             (Register(g) \/ RegisterInsert(g)) /\ UNCHANGED clientVars
      PROVE  Inv' /\ HandlersTypeOK'
  BY <1>5, HandlerTypes, ClientKept
<1>6. CASE UNCHANGED vars
  <2>1. UNCHANGED clientVars /\ UNCHANGED handlerVars
    BY <1>6 DEF vars, clientVars, handlerVars
  <2>. QED  BY <2>1, ClientKept DEF handlerVars, HandlersTypeOK
<1>. QED  BY <1>1, <1>2, <1>3, <1>4, <1>5, <1>6 DEF Next

LEMMA Invariance == Spec => [](Inv /\ HandlersTypeOK)
<1>1. Inv /\ HandlersTypeOK /\ [Next]_vars => (Inv /\ HandlersTypeOK)'
  BY StepInv
<1>. QED  BY InitInv, <1>1, PTL DEF Spec

-----------------------------------------------------------------------------
(* Every reachable state of a client and of the requests it makes and      *)
(* serves is well typed.                                                   *)
THEOREM TypeCorrect == Spec => []TypeOK
<1>1. Inv /\ HandlersTypeOK => TypeOK
  BY InvTypes
<1>. QED  BY Invariance, <1>1, PTL

(* Where callers wait for start() before they call it again, one loop at   *)
(* most runs that is not cancelled, however sends fail and callers cancel. *)
THEOREM OneLoop == ASSUME Serial PROVE Spec => []SingleLoop
<1>1. Inv /\ HandlersTypeOK => SingleLoop
  BY LoopInvIsEnough DEF Inv
<1>. QED  BY Invariance, <1>1, PTL

(* No answer falls between the send of a request and its wait, for any     *)
(* number of requests and any buffer.                                      *)
THEOREM AnswersKept == Spec => []AnswerNotMissed
<1>1. Inv /\ HandlersTypeOK => AnswerNotMissed
  BY AnswerInvIsEnough DEF Inv
<1>. QED  BY Invariance, <1>1, PTL

(* What broadcast() returns accounts for every endpoint, for resolutions   *)
(* of any length.                                                          *)
THEOREM BroadcastsAccount == Spec => []BroadcastAccountsForAll
<1>1. Inv /\ HandlersTypeOK => BroadcastAccountsForAll
  BY DEF Inv, BroadcastInv
<1>. QED  BY Invariance, <1>1, PTL
=============================================================================
