----------------------- MODULE ConnectorSessionProofs -----------------------
(***************************************************************************)
(* Proofs about ConnectorSession, for any number of tasks, tries and       *)
(* bearers.                                                                *)
(***************************************************************************)
EXTENDS ConnectorSession, TLAPS

(* Bearers that are known were issued; a bearer that a call wants replaced *)
(* is suspect; and while a renewal is under way, or has failed, there is a *)
(* cause for it.  RenewedForCause and RetryUsesAnotherBearer rest on this. *)
CauseInv ==
    /\ bearer <= issued
    /\ \A t \in Tasks : call[t].stale <= issued
    /\ \A t \in Tasks : call[t].stale # 0 => call[t].stale \in suspect
    /\ phase \in {"Authenticating", "Expired"} =>
         bearer = 0 \/ ~fresh \/ bearer \in suspect
    /\ \A t \in Tasks : At(t, "send") => call[t].used # 0 /\ call[t].used <= issued

(* The inductive invariant. *)
IInv == TypeOK /\ SecretsFollowPhase /\ RetryUsesAnotherBearer /\ CauseInv

-----------------------------------------------------------------------------
LEMMA StartedType == \A k \in Kinds, s \in Bearers : Started(k, s) \in Call
BY SessionAssumption DEF Started, CallAt, Call, Kinds, Bearers

LEMMA ZeroBearer == 0 \in Bearers
BY SessionAssumption DEF Bearers

LEMMA IdleType == Idle \in Call /\ Idle.pc = "idle" /\ Idle.stale = 0
BY SessionAssumption DEF Idle, CallAt, Call, Kinds, Bearers

(* The initial state satisfies the invariant. *)
LEMMA InitIInv == Init => IInv
<1> SUFFICES ASSUME Init PROVE IInv
  OBVIOUS
<1>1. \A t \in Tasks : call[t] \in Call /\ call[t].pc \in {"idle", "lock"}
                                      /\ call[t].stale = 0
  <2>1. /\ Started("new", 0) \in Call /\ Started("new", 0).pc = "lock"
        /\ Started("new", 0).stale = 0
    BY StartedType, ZeroBearer DEF Started, CallAt, Kinds
  <2> QED BY <2>1, IdleType DEF Init
<1>2. TypeOK
  BY <1>1, ZeroBearer DEF Init, TypeOK, Phases
<1> QED
  BY <1>1, <1>2 DEF Init, IInv, SecretsFollowPhase, RetryUsesAnotherBearer,
                    CauseInv, Terminal, At, TypeOK, Bearers

(* Obtaining a bearer types, and leaves the task where it can retry. *)
LEMMA ObtainedType ==
    ASSUME TypeOK, NEW t \in Tasks, NEW b \in Bearers, Obtained(t, b)
    PROVE  /\ call' \in [Tasks -> Call]
           /\ run' \in {"starting", "up", "down"}
           /\ suspect' \subseteq Bearers
<1>1. CASE call[t].kind = "request"
  <2>1. [call[t] EXCEPT !.pc = "send", !.used = b] \in Call
    BY DEF TypeOK, Call
  <2> QED BY <1>1, <2>1 DEF Obtained, Becomes, TypeOK
<1>2. CASE call[t].kind = "probe" /\ call[t].stale = 0
  <2>1. Started("probe", b) \in Call
    BY StartedType DEF Call, Kinds
  <2>2. /\ Becomes(t, Started("probe", b))
        /\ suspect' = suspect \cup {b} /\ UNCHANGED run
    BY <1>2 DEF Obtained
  <2> QED BY <2>1, <2>2 DEF Becomes, TypeOK
<1>3. CASE ~(call[t].kind = "request")
           /\ ~(call[t].kind = "probe" /\ call[t].stale = 0)
  <2>1. /\ Returns(t) /\ UNCHANGED suspect
        /\ run' = IF call[t].kind = "new" THEN "up" ELSE run
    BY <1>3 DEF Obtained
  <2> QED BY <2>1, IdleType DEF Returns, Becomes, TypeOK
<1> QED BY <1>1, <1>2, <1>3

(* Every action preserves the types. *)
LEMMA TypeStep == TypeOK /\ [Next]_vars => TypeOK'
<1> SUFFICES ASSUME TypeOK, [Next]_vars PROVE TypeOK'
  OBVIOUS
<1> USE SessionAssumption
<1>1. ASSUME NEW t \in Tasks, NEW k \in Kinds \ {"new"}, Begin(t, k)
      PROVE TypeOK'
  BY <1>1, StartedType, ZeroBearer DEF Begin, Becomes, TypeOK, state
<1>2. ASSUME NEW t \in Tasks, LockLost(t) PROVE TypeOK'
  BY <1>2, IdleType DEF LockLost, Returns, Becomes, RunAfterFailureOf, TypeOK, state
<1>3. ASSUME NEW t \in Tasks, LockClose(t) PROVE TypeOK'
  <2>1. call' \in [Tasks -> Call]
    BY <1>3, IdleType DEF LockClose, Returns, Becomes, TypeOK
  <2> QED BY <1>3, <2>1, ZeroBearer DEF LockClose, EnterTerminal, TypeOK, Phases
<1>4. ASSUME NEW t \in Tasks, LockReuse(t) PROVE TypeOK'
  BY <1>4, ObtainedType DEF LockReuse, TypeOK, state
<1>5. ASSUME NEW t \in Tasks, LockRenew(t) PROVE TypeOK'
  <2>1. [call[t] EXCEPT !.pc = "auth"] \in Call
    BY DEF TypeOK, Call
  <2> QED BY <1>5, <2>1 DEF LockRenew, Becomes, TypeOK, Phases
<1>6. ASSUME NEW t \in Tasks, AuthOk(t) PROVE TypeOK'
  <2>1. issued' \in Bearers
    BY <1>6 DEF AuthOk, TypeOK, Bearers
  <2>2. Obtained(t, issued')
    BY <1>6 DEF AuthOk
  <2>3. /\ call' \in [Tasks -> Call]
        /\ run' \in {"starting", "up", "down"} /\ suspect' \subseteq Bearers
    BY <2>1, <2>2, ObtainedType
  <2> QED BY <1>6, <2>1, <2>3 DEF AuthOk, TypeOK, Phases
<1>7. ASSUME NEW t \in Tasks, AuthRejected(t) PROVE TypeOK'
  <2>1. call' \in [Tasks -> Call]
    BY <1>7, IdleType DEF AuthRejected, Returns, Becomes, TypeOK
  <2>2. run' \in {"starting", "up", "down"}
    BY <1>7 DEF AuthRejected, RunAfterFailureOf, TypeOK
  <2> QED
    BY <1>7, <2>1, <2>2, ZeroBearer DEF AuthRejected, EnterTerminal, TypeOK, Phases
<1>8. ASSUME NEW t \in Tasks, AuthFails(t) PROVE TypeOK'
  <2>1. CASE GivesUp(t)
    BY <1>8, <2>1, IdleType
    DEF AuthFails, Returns, Becomes, RunAfterFailureOf, TypeOK, Phases
  <2>2. CASE ~GivesUp(t)
    <3> DEFINE n == IF call[t].kind = "gate" THEN 0 ELSE call[t].tries + 1
    <3>1. n \in 0 .. MaxTries - 1
      BY <2>2 DEF GivesUp, TypeOK, Call
    <3>2. [call[t] EXCEPT !.pc = "sleep", !.tries = n] \in Call
      BY <3>1 DEF TypeOK, Call
    <3>3. call' = [call EXCEPT ![t] = [call[t] EXCEPT !.pc = "sleep", !.tries = n]]
      BY <1>8, <2>2 DEF AuthFails, Becomes
    <3>4. call' \in [Tasks -> Call]
      BY <3>2, <3>3 DEF TypeOK
    <3> QED BY <1>8, <2>2, <3>4 DEF AuthFails, TypeOK, Phases
  <2> QED BY <2>1, <2>2
<1>9. ASSUME NEW t \in Tasks, Wake(t) PROVE TypeOK'
  <2>1. [call[t] EXCEPT !.pc = "lock"] \in Call
    BY DEF TypeOK, Call
  <2> QED BY <1>9, <2>1 DEF Wake, Becomes, TypeOK, state
<1>10. ASSUME NEW t \in Tasks, Respond(t) PROVE TypeOK'
  <2>1. call[t].used \in Bearers
    BY DEF TypeOK, Call
  <2>2. Started("request", call[t].used) \in Call
    BY <2>1, StartedType DEF Call, Kinds
  <2> QED BY <1>10, <2>1, <2>2, IdleType DEF Respond, Returns, Becomes, TypeOK, state
<1>11. ASSUME NEW t \in Tasks, TimesOut(t) \/ CancelStartup(t) PROVE TypeOK'
  BY <1>11, IdleType
  DEF TimesOut, CancelStartup, Dropped, Returns, Becomes, TypeOK, state
<1>12. ASSUME NEW t \in Tasks, DeadlinePasses(t) PROVE TypeOK'
  <2>1. [call[t] EXCEPT !.due = TRUE] \in Call
    BY DEF TypeOK, Call
  <2> QED BY <1>12, <2>1 DEF DeadlinePasses, Becomes, TypeOK, state
<1>13. CASE BearerAges
  BY <1>13 DEF BearerAges, TypeOK
<1>14. CASE UNCHANGED vars
  BY <1>14 DEF vars, TypeOK
<1> QED
  BY <1>1, <1>2, <1>3, <1>4, <1>5, <1>6, <1>7, <1>8, <1>9, <1>10, <1>11, <1>12,
     <1>13, <1>14 DEF Next, Lock, Answer

-----------------------------------------------------------------------------
(* The part of the invariant beyond the types. *)
Safe == SecretsFollowPhase /\ RetryUsesAnotherBearer /\ CauseInv

(* What the session itself has to satisfy. *)
SessionSafe ==
    /\ phase = "Active" => bearer # 0 /\ keys
    /\ phase \in Terminal => bearer = 0 /\ ~keys
    /\ bearer <= issued
    /\ phase \in {"Authenticating", "Expired"} =>
         bearer = 0 \/ ~fresh \/ bearer \in suspect

(* What the call c of t has to satisfy, given the holder of the mutex, the *)
(* phase, the number of bearers issued and the suspect ones.               *)
CallOk(c, t, h, p, i, s) ==
    /\ c.pc = "auth" => h = t /\ p = "Authenticating"
    /\ c.stale # 0 => c.stale \in s
    /\ c.stale <= i
    /\ c.pc = "send" => /\ c.used # 0 /\ c.used <= i
                        /\ c.stale # 0 => c.used # c.stale

LEMMA SafeParts == Safe <=> SessionSafe /\ \A t \in Tasks : CallOk(call[t], t, holder, phase, issued, suspect)
BY DEF Safe, SessionSafe, CallOk, SecretsFollowPhase, RetryUsesAnotherBearer,
       CauseInv, At

(* A step of t keeps the other calls safe when it does not take the mutex  *)
(* or the phase from a task that is at the identity server.                *)
LEMMA CallStep ==
    ASSUME TypeOK, TypeOK', Safe, NEW t \in Tasks, NEW c \in Call,
           call' = [call EXCEPT ![t] = c], CallOk(c, t, holder', phase', issued', suspect'), SessionSafe',
           issued' \in {issued, issued + 1}, suspect \subseteq suspect',
           \A u \in Tasks \ {t} : At(u, "auth") =>
              holder' = u /\ phase' = "Authenticating"
    PROVE  Safe'
<1>1. ASSUME NEW u \in Tasks PROVE CallOk(call'[u], u, holder', phase', issued', suspect')
  <2>1. CASE u = t
    <3>1. call'[u] = c
      BY <2>1 DEF TypeOK
    <3> QED BY <3>1, <2>1 DEF CallOk
  <2>2. CASE u # t
    <3>1. call'[u] = call[u]
      BY <2>2 DEF TypeOK
    <3>2. issued \in Nat /\ issued' \in Nat /\ call[u].stale \in Nat
             /\ call[u].used \in Nat
      BY SessionAssumption DEF TypeOK, Bearers, Call
    <3>3. CallOk(call[u], u, holder, phase, issued, suspect)
      BY SafeParts
    <3> QED BY <2>2, <3>1, <3>2, <3>3 DEF CallOk, At
  <2> QED BY <2>1, <2>2
<1> QED
  <2>1. SessionSafe' /\ \A u \in Tasks : CallOk(call'[u], u, holder', phase', issued', suspect')
    BY <1>1
  <2> QED
    BY <2>1 DEF Safe, SessionSafe, CallOk, SecretsFollowPhase,
                RetryUsesAnotherBearer, CauseInv, At

(* Steps that leave the session as it is. *)
LEMMA QuietStep ==
    ASSUME TypeOK, TypeOK', Safe, NEW t \in Tasks, NEW c \in Call,
           call' = [call EXCEPT ![t] = c], CallOk(c, t, holder', phase', issued', suspect'), UNCHANGED state,
           issued' = issued, suspect \subseteq suspect',
           \A u \in Tasks \ {t} : At(u, "auth") => holder' = u
    PROVE  Safe'
<1>1. issued \in Nat
  BY SessionAssumption DEF TypeOK, Bearers
<1>2. SessionSafe'
  BY DEF Safe, SessionSafe, SecretsFollowPhase, CauseInv, state, Terminal
<1>3. \A u \in Tasks \ {t} : At(u, "auth") => holder' = u /\ phase' = "Authenticating"
  BY DEF Safe, SecretsFollowPhase, state
<1> QED BY <1>1, <1>2, <1>3, CallStep

-----------------------------------------------------------------------------
(* Every action preserves the rest of the invariant. *)
LEMMA SafeStep == TypeOK /\ TypeOK' /\ Safe /\ [Next]_vars => Safe'
<1> SUFFICES ASSUME TypeOK, TypeOK', Safe, [Next]_vars PROVE Safe'
  OBVIOUS
<1> USE SessionAssumption
<1>a. /\ issued \in Nat /\ bearer \in Nat /\ issued' \in Nat
      /\ \A t \in Tasks : /\ call[t] \in Call /\ call[t].stale \in Nat
                           /\ call[t].used \in Nat
  BY DEF TypeOK, Bearers, Call
<1>b. \A t \in Tasks : At(t, "auth") => holder = t /\ phase = "Authenticating"
  BY DEF Safe, SecretsFollowPhase
<1>c. SessionSafe /\ \A t \in Tasks : CallOk(call[t], t, holder, phase, issued, suspect)
  BY SafeParts
<1>d. ASSUME NEW t \in Tasks, CanLock(t)
      PROVE \A u \in Tasks : ~At(u, "auth")
  BY <1>b, <1>d DEF CanLock
<1>e. ASSUME NEW t \in Tasks, At(t, "auth")
      PROVE \A u \in Tasks \ {t} : ~At(u, "auth")
  BY <1>b, <1>e
<1>f. \A t \in Tasks : CallOk(Idle, t, holder', phase', issued', suspect')
  BY <1>a, IdleType DEF CallOk
<1>g. ASSUME NEW t \in Tasks, NEW k \in Kinds, NEW s \in Bearers,
             s <= issued', s # 0 => s \in suspect'
      PROVE Started(k, s) \in Call /\ CallOk(Started(k, s), t, holder', phase', issued', suspect')
  BY <1>g, StartedType DEF Started, CallAt, CallOk
<1>1. ASSUME NEW t \in Tasks, NEW k \in Kinds \ {"new"}, Begin(t, k)
      PROVE Safe'
  <2>1. Started(k, 0) \in Call /\ CallOk(Started(k, 0), t, holder', phase', issued', suspect')
    BY <1>1, <1>a, <1>g, ZeroBearer
  <2> QED BY <1>1, <1>b, <2>1, QuietStep DEF Begin, Becomes
<1>2. ASSUME NEW t \in Tasks, LockLost(t) PROVE Safe'
  BY <1>2, <1>b, <1>f, IdleType, QuietStep DEF LockLost, Returns, Becomes
<1>3. ASSUME NEW t \in Tasks, LockClose(t) PROVE Safe'
  <2>1. SessionSafe'
    BY <1>3, <1>a DEF LockClose, EnterTerminal, SessionSafe
  <2> QED
    BY <1>3, <1>a, <1>d, <1>f, <2>1, IdleType, CallStep
    DEF LockClose, Returns, Becomes
<1>4. ASSUME NEW t \in Tasks, LockReuse(t) PROVE Safe'
  <2>1. bearer # 0 /\ bearer <= issued /\ bearer # call[t].stale
    BY <1>4, <1>c DEF LockReuse, Reusable, SessionSafe
  <2>2. CASE call[t].kind = "request"
    <3> DEFINE c == [call[t] EXCEPT !.pc = "send", !.used = bearer]
    <3>1. c \in Call /\ c.pc = "send" /\ c.used = bearer /\ c.stale = call[t].stale
      BY <1>a DEF Call, TypeOK
    <3>2. call' = [call EXCEPT ![t] = c] /\ UNCHANGED <<suspect, issued, holder>>
             /\ UNCHANGED state
      BY <1>4, <2>2 DEF LockReuse, Obtained, Becomes
    <3>3. CallOk(c, t, holder', phase', issued', suspect')
      BY <3>1, <3>2, <2>1, <1>c DEF CallOk
    <3> HIDE DEF c
    <3> QED BY <3>1, <3>2, <3>3, <1>b, QuietStep
  <2>3. CASE call[t].kind = "probe" /\ call[t].stale = 0
    <3>1. /\ call' = [call EXCEPT ![t] = Started("probe", bearer)]
          /\ suspect' = suspect \cup {bearer} /\ UNCHANGED <<issued, holder>>
          /\ UNCHANGED state
      BY <1>4, <2>3 DEF LockReuse, Obtained, Becomes
    <3>2. Started("probe", bearer) \in Call /\ CallOk(Started("probe", bearer), t, holder', phase', issued', suspect')
      BY <1>g, <2>1, <3>1 DEF TypeOK, Kinds
    <3> QED BY <3>1, <3>2, <1>b, QuietStep
  <2>4. CASE ~(call[t].kind = "request") /\ ~(call[t].kind = "probe" /\ call[t].stale = 0)
    <3>1. call' = [call EXCEPT ![t] = Idle] /\ UNCHANGED <<suspect, issued, holder>>
             /\ UNCHANGED state
      BY <1>4, <2>4 DEF LockReuse, Obtained, Returns, Becomes
    <3> QED BY <3>1, <1>b, <1>f, IdleType, QuietStep
  <2> QED BY <2>2, <2>3, <2>4
<1>5. ASSUME NEW t \in Tasks, LockRenew(t) PROVE Safe'
  <2> DEFINE c == [call[t] EXCEPT !.pc = "auth"]
  <2>1. c \in Call /\ c.pc = "auth" /\ c.stale = call[t].stale
    BY <1>a DEF Call
  <2>2. CallOk(c, t, holder', phase', issued', suspect')
    BY <1>5, <1>c, <2>1 DEF LockRenew, CallOk
  <2>3. bearer = 0 \/ ~fresh \/ bearer \in suspect
    <3>1. CASE phase = "Active"
      BY <1>5, <1>c, <3>1 DEF LockRenew, Reusable, CallOk
    <3>2. CASE phase \in {"Authenticating", "Expired"}
      BY <1>c, <3>2 DEF SessionSafe
    <3> QED BY <1>5, <3>1, <3>2 DEF LockRenew, TypeOK, Phases, Terminal
  <2>4. SessionSafe'
    BY <1>5, <1>c, <2>3 DEF LockRenew, SessionSafe, Terminal
  <2>5. call' = [call EXCEPT ![t] = c] /\ UNCHANGED <<issued, suspect>> /\ CanLock(t)
    BY <1>5 DEF LockRenew, Becomes
  <2> HIDE DEF c
  <2> QED BY <1>a, <1>d, <2>1, <2>2, <2>4, <2>5, CallStep
<1>6. ASSUME NEW t \in Tasks, AuthOk(t) PROVE Safe'
  <2> DEFINE b == issued + 1
  <2>1. /\ issued' = b /\ bearer' = b /\ fresh' = TRUE /\ keys' = TRUE
        /\ phase' = "Active" /\ holder' = Nobody /\ Obtained(t, b) /\ At(t, "auth")
    BY <1>6 DEF AuthOk
  <2>2. b # 0 /\ b # call[t].stale /\ b \in {issued, issued + 1} /\ b \in Bearers
           /\ call[t].stale <= b /\ b <= b
    BY <1>6, <1>a, <1>c DEF CallOk, AuthOk, TypeOK, Bearers
  <2>3. SessionSafe'
    BY <2>1, <2>2, <1>a DEF SessionSafe, Terminal
  <2>4. CASE call[t].kind = "request"
    <3> DEFINE c == [call[t] EXCEPT !.pc = "send", !.used = b]
    <3>1. c \in Call /\ c.pc = "send" /\ c.used = b /\ c.stale = call[t].stale
      BY <1>a, <2>2 DEF Call
    <3>2. call' = [call EXCEPT ![t] = c] /\ suspect' = suspect
      BY <2>1, <2>4 DEF Obtained, Becomes
    <3>3. CallOk(c, t, holder', phase', issued', suspect')
      BY <2>1, <2>2, <3>1, <3>2, <1>c DEF CallOk
    <3> HIDE DEF c, b
    <3> QED BY <3>1, <3>2, <3>3, <2>1, <2>2, <2>3, <1>e, CallStep
  <2>5. CASE call[t].kind = "probe" /\ call[t].stale = 0
    <3>1. /\ call' = [call EXCEPT ![t] = Started("probe", b)]
          /\ suspect' = suspect \cup {b}
      BY <2>1, <2>5 DEF Obtained, Becomes
    <3>2. Started("probe", b) \in Call /\ CallOk(Started("probe", b), t, holder', phase', issued', suspect')
      BY <1>g, <2>1, <2>2, <3>1 DEF Kinds
    <3> HIDE DEF b
    <3> QED BY <3>1, <3>2, <2>1, <2>2, <2>3, <1>e, CallStep
  <2>6. CASE ~(call[t].kind = "request") /\ ~(call[t].kind = "probe" /\ call[t].stale = 0)
    <3>1. call' = [call EXCEPT ![t] = Idle] /\ suspect' = suspect
      BY <2>1, <2>6 DEF Obtained, Returns, Becomes
    <3> HIDE DEF b
    <3> QED BY <3>1, <2>1, <2>2, <2>3, <1>e, <1>f, IdleType, CallStep
  <2> QED BY <2>4, <2>5, <2>6
<1>7. ASSUME NEW t \in Tasks, AuthRejected(t) PROVE Safe'
  <2>1. SessionSafe'
    BY <1>7, <1>a DEF AuthRejected, EnterTerminal, SessionSafe
  <2> QED
    BY <1>7, <1>a, <1>e, <1>f, <2>1, IdleType, CallStep
    DEF AuthRejected, Returns, Becomes
<1>8. ASSUME NEW t \in Tasks, AuthFails(t) PROVE Safe'
  <2>1. SessionSafe'
    BY <1>8, <1>b, <1>c DEF AuthFails, SessionSafe, Terminal
  <2>2. CASE GivesUp(t)
    BY <1>8, <2>1, <2>2, <1>a, <1>e, <1>f, IdleType, CallStep
    DEF AuthFails, Returns, Becomes
  <2>3. CASE ~GivesUp(t)
    <3> DEFINE n == IF call[t].kind = "gate" THEN 0 ELSE call[t].tries + 1
               c == [call[t] EXCEPT !.pc = "sleep", !.tries = n]
    <3>1. n \in 0 .. MaxTries - 1
      BY <2>3, <1>a DEF GivesUp, Call
    <3>2. c \in Call /\ c.pc = "sleep" /\ c.stale = call[t].stale
      BY <1>a, <3>1 DEF Call
    <3>3. call' = [call EXCEPT ![t] = c] /\ UNCHANGED <<issued, suspect>>
      BY <1>8, <2>3 DEF AuthFails, Becomes
    <3>4. CallOk(c, t, holder', phase', issued', suspect')
      BY <1>c, <3>2, <3>3 DEF CallOk
    <3>5. At(t, "auth")
      BY <1>8 DEF AuthFails
    <3> HIDE DEF c
    <3> QED BY <1>a, <1>e, <2>1, <3>2, <3>3, <3>4, <3>5, CallStep
  <2> QED BY <2>2, <2>3
<1>9. ASSUME NEW t \in Tasks, Wake(t) PROVE Safe'
  <2> DEFINE c == [call[t] EXCEPT !.pc = "lock"]
  <2>1. c \in Call /\ c.pc = "lock" /\ c.stale = call[t].stale
    BY <1>a DEF Call
  <2>2. call' = [call EXCEPT ![t] = c] /\ UNCHANGED <<issued, suspect, holder>>
           /\ UNCHANGED state
    BY <1>9 DEF Wake, Becomes
  <2>3. CallOk(c, t, holder', phase', issued', suspect')
    BY <1>c, <2>1, <2>2 DEF CallOk
  <2> HIDE DEF c
  <2> QED BY <1>b, <2>1, <2>2, <2>3, QuietStep
<1>10. ASSUME NEW t \in Tasks, Respond(t) PROVE Safe'
  <2>1. CASE Returns(t) /\ UNCHANGED suspect
    BY <1>10, <2>1, <1>b, <1>f, IdleType, QuietStep DEF Respond, Returns, Becomes
  <2>2. CASE /\ Becomes(t, Started("request", call[t].used))
             /\ suspect' = suspect \cup {call[t].used}
    <3>1. call[t].used <= issued' /\ call[t].used \in Bearers
      BY <1>10, <1>c, <1>a DEF Respond, CallOk, At, Call
    <3>2. /\ Started("request", call[t].used) \in Call
          /\ CallOk(Started("request", call[t].used), t, holder', phase', issued', suspect')
      BY <2>2, <3>1, <1>g DEF Kinds
    <3> QED BY <1>10, <2>2, <3>2, <1>b, QuietStep DEF Respond, Becomes
  <2> QED BY <1>10, <2>1, <2>2 DEF Respond
<1>11. ASSUME NEW t \in Tasks, TimesOut(t) \/ CancelStartup(t) PROVE Safe'
  <2>1. Dropped(t)
    BY <1>11 DEF TimesOut, CancelStartup
  <2>2. \A u \in Tasks \ {t} : At(u, "auth") => holder' = u
    BY <2>1, <1>b DEF Dropped
  <2> QED BY <2>1, <2>2, <1>f, IdleType, QuietStep DEF Dropped, Returns, Becomes
<1>12. ASSUME NEW t \in Tasks, DeadlinePasses(t) PROVE Safe'
  <2> DEFINE c == [call[t] EXCEPT !.due = TRUE]
  <2>1. c \in Call /\ c.pc = call[t].pc /\ c.stale = call[t].stale /\ c.used = call[t].used
    BY <1>a DEF Call
  <2>2. call' = [call EXCEPT ![t] = c] /\ UNCHANGED <<issued, suspect, holder>>
           /\ UNCHANGED state
    BY <1>12 DEF DeadlinePasses, Becomes
  <2>3. CallOk(c, t, holder', phase', issued', suspect')
    BY <1>c, <2>1, <2>2 DEF CallOk, state
  <2> HIDE DEF c
  <2> QED BY <1>b, <2>1, <2>2, <2>3, QuietStep
<1>13. CASE BearerAges
  BY <1>13 DEF BearerAges, Safe, SecretsFollowPhase, RetryUsesAnotherBearer,
               CauseInv, At
<1>14. CASE UNCHANGED vars
  BY <1>14 DEF vars, Safe, SecretsFollowPhase, RetryUsesAnotherBearer, CauseInv, At
<1> QED
  BY <1>1, <1>2, <1>3, <1>4, <1>5, <1>6, <1>7, <1>8, <1>9, <1>10, <1>11, <1>12,
     <1>13, <1>14 DEF Next, Lock, Answer

-----------------------------------------------------------------------------
(* The invariant is inductive. *)
LEMMA Inductive == IInv /\ [Next]_vars => IInv'
BY TypeStep, SafeStep DEF IInv, Safe

(* The state of the session and of its calls has its type. *)
THEOREM TypeCorrect == Spec => []TypeOK
<1>1. IInv => TypeOK
  BY DEF IInv
<1> QED BY <1>1, InitIInv, Inductive, PTL DEF Spec

(* An Active session has its secrets, a lost one has none. *)
THEOREM SecretsCorrect == Spec => []SecretsFollowPhase
<1>1. IInv => SecretsFollowPhase
  BY DEF IInv
<1> QED BY <1>1, InitIInv, Inductive, PTL DEF Spec

(* The retry after a 401 carries another bearer than the refused one. *)
THEOREM RetryCorrect == Spec => []RetryUsesAnotherBearer
<1>1. IInv => RetryUsesAnotherBearer
  BY DEF IInv
<1> QED BY <1>1, InitIInv, Inductive, PTL DEF Spec

(* Concurrent callers coalesce: a bearer is replaced only for a cause of   *)
(* its own.                                                                *)
THEOREM RenewalCorrect == Spec => RenewedForCause
<1> DEFINE Cause == bearer' \notin {0, bearer} => bearer = 0 \/ ~fresh \/ bearer \in suspect
<1>1. IInv /\ [Next]_vars => [Cause]_vars
  <2> SUFFICES ASSUME IInv, Next, bearer' \notin {0, bearer}
               PROVE  bearer = 0 \/ ~fresh \/ bearer \in suspect
    BY DEF vars
  <2>1. PICK t \in Tasks : At(t, "auth")
    BY DEF Next, Begin, Lock, LockLost, LockClose, LockReuse, LockRenew, Answer, AuthOk,
           AuthRejected, AuthFails, EnterTerminal, Wake, Respond, TimesOut, CancelStartup, Dropped,
           DeadlinePasses, BearerAges, state
  <2>2. phase = "Authenticating"
    BY <2>1 DEF IInv, SecretsFollowPhase
  <2> QED BY <2>2 DEF IInv, CauseInv
<1> QED BY <1>1, InitIInv, Inductive, PTL DEF Spec, RenewedForCause

(* Every step of the session is a step of its phases, or leaves them alone. *)
THEOREM SessionImplements == Spec => ImplementsPhases
<1>1. Init => Abstract!Init
  BY DEF Init, Abstract!Init
<1>2. IInv /\ [Next]_vars => [Abstract!Next]_(Abstract!vars)
  <2> SUFFICES ASSUME IInv, [Next]_vars PROVE [Abstract!Next]_(Abstract!vars)
    OBVIOUS
  <2> USE DEF Abstract!Next, Abstract!vars, Abstract!Live
  <2>0. phase \in Phases /\ issued \in Nat
    BY SessionAssumption DEF IInv, TypeOK, Bearers
  <2>1. ASSUME NEW t \in Tasks, LockRenew(t) PROVE Abstract!Authenticate
    BY <2>0, <2>1 DEF LockRenew, Abstract!Authenticate, Phases, Terminal
  <2>2. ASSUME NEW t \in Tasks, LockClose(t) PROVE Abstract!Close
    BY <2>0, <2>2 DEF LockClose, EnterTerminal, Abstract!Close, Phases, Terminal
  <2>3. ASSUME NEW t \in Tasks, At(t, "auth") PROVE phase = "Authenticating"
    BY <2>3 DEF IInv, SecretsFollowPhase
  <2>4. ASSUME NEW t \in Tasks, AuthOk(t) PROVE Abstract!Succeed
    BY <2>0, <2>3, <2>4 DEF AuthOk, Abstract!Succeed
  <2>5. ASSUME NEW t \in Tasks, AuthRejected(t) PROVE Abstract!Reject
    BY <2>3, <2>5 DEF AuthRejected, EnterTerminal, Abstract!Reject
  <2>6. ASSUME NEW t \in Tasks, AuthFails(t) PROVE Abstract!Fail
    BY <2>3, <2>6 DEF AuthFails, Abstract!Fail
  <2>7. CASE BearerAges
    BY <2>7 DEF BearerAges
  <2>8. ASSUME NEW t \in Tasks,
               \/ \E k \in Kinds \ {"new"} : Begin(t, k)
               \/ LockLost(t) \/ LockReuse(t) \/ Wake(t) \/ Respond(t)
               \/ TimesOut(t) \/ CancelStartup(t) \/ DeadlinePasses(t)
        PROVE UNCHANGED state
    BY <2>8 DEF Begin, LockLost, LockReuse, Wake, Respond, TimesOut, CancelStartup,
                Dropped, DeadlinePasses
  <2>9. UNCHANGED state => UNCHANGED Abstract!vars
    BY DEF state
  <2>10. UNCHANGED vars => UNCHANGED Abstract!vars
    BY DEF vars
  <2> QED
    BY <2>1, <2>2, <2>4, <2>5, <2>6, <2>7, <2>8, <2>9, <2>10 DEF Next, Lock, Answer
<1> QED BY <1>1, <1>2, InitIInv, Inductive, PTL DEF Spec, ImplementsPhases, Abstract!Spec
=============================================================================
