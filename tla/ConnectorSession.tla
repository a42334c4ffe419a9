-------------------------- MODULE ConnectorSession --------------------------
(***************************************************************************)
(* The session of the PAM access connector: one SessionManager, its state  *)
(* behind one tokio mutex that is held across the identity call, and the   *)
(* tasks that use it: SessionManager::new, API requests going through the  *)
(* auth and timeout middleware, the gate of the target-side steps, the     *)
(* eligibility probe, and close().                                         *)
(*                                                                         *)
(* Bearers are numbered in the order in which the identity server issued   *)
(* them, 0 is no bearer.  What the two servers answer is external.         *)
(***************************************************************************)
EXTENDS Naturals

CONSTANTS
    Tasks,      \* tasks that use the session
    Starter,    \* the task that runs SessionManager::new
    Nobody,     \* the mutex is free
    MaxTries,   \* NO_DEADLINE_MAX_TRIES
    MaxBearers  \* bound: bearers the identity server issues

ASSUME SessionAssumption ==
    /\ Starter \in Tasks /\ Nobody \notin Tasks
    /\ MaxTries \in Nat \ {0} /\ MaxBearers \in Nat

VARIABLES
    phase,      \* SessionState::phase
    bearer,     \* SessionState::bearer
    fresh,      \* the bearer is not within or past the renewal margin
    keys,       \* the key store holds the organization key
    holder,     \* the task that holds the mutex, or Nobody
    call,       \* call[t]: the call that t is in
    run,        \* "starting", "up" or "down"
    issued,     \* bearers issued so far
    suspect     \* history: bearers that met a 401, or that the probe doubts

vars == <<phase, bearer, fresh, keys, holder, call, run, issued, suspect>>
state == <<phase, bearer, fresh, keys>>

-----------------------------------------------------------------------------
Phases == {"Authenticating", "Active", "Expired", "Revoked", "Closed"}
(* Mutant of Terminal: a closed session can be renewed. *)
TerminalRevoked == {"Revoked"}
Terminal == {"Revoked", "Closed"}
Bearers == 0 .. MaxBearers
Kinds == {"new", "request", "gate", "probe", "close"}

\* stale: the bearer to replace; used: the one the request carries;
\* due: the deadline has passed, for the gate
Call == [pc : {"idle", "lock", "auth", "sleep", "send"}, kind : Kinds,
         stale : Bearers, used : Bearers, tries : 0 .. MaxTries - 1, due : BOOLEAN]

TypeOK ==
    /\ phase \in Phases /\ bearer \in Bearers
    /\ fresh \in BOOLEAN /\ keys \in BOOLEAN
    /\ holder \in Tasks \cup {Nobody}
    /\ call \in [Tasks -> Call]
    /\ run \in {"starting", "up", "down"}
    /\ issued \in Bearers /\ suspect \subseteq Bearers

CallAt(pc, k, s) ==
    [pc |-> pc, kind |-> k, stale |-> s, used |-> 0, tries |-> 0, due |-> FALSE]
(* renew_with_backoff(_, s) is called, and waits for the mutex. *)
Started(k, s) == CallAt("lock", k, s)
Idle == CallAt("idle", "request", 0)

Init ==
    /\ phase = "Authenticating" /\ bearer = 0 /\ fresh = FALSE /\ keys = FALSE
    /\ holder = Nobody
    /\ call = [t \in Tasks |-> IF t = Starter THEN Started("new", 0) ELSE Idle]
    /\ run = "starting" /\ issued = 0 /\ suspect = {}

-----------------------------------------------------------------------------
At(t, pc) == call[t].pc = pc
Becomes(t, c) == call' = [call EXCEPT ![t] = c]
Returns(t) == Becomes(t, Idle)

(* Worker::start gives up when SessionManager::new fails. *)
RunAfterFailureOf(t) == run' = IF call[t].kind = "new" THEN "down" ELSE run

(* Mutant of EnterTerminal: the organization key stays in the store. *)
EnterTerminalKeepsKeys(p) ==
    phase' = p /\ bearer' = 0 /\ fresh' = FALSE /\ UNCHANGED keys
EnterTerminal(p) ==
    phase' = p /\ bearer' = 0 /\ fresh' = FALSE /\ keys' = FALSE

(* Mutants of Reusable: the 401 path trusts any bearer that is fresh, or it *)
(* renews also what another task has renewed meanwhile.                     *)
ReusableAnyFresh(t) == phase = "Active" /\ fresh
ReusableNeverOnRetry(t) == phase = "Active" /\ fresh /\ call[t].stale = 0
(* The stored bearer will do for the call of t. *)
Reusable(t) == phase = "Active" /\ fresh /\ bearer # call[t].stale

(* What the call of t does with the bearer b it obtains: a request is sent *)
(* with it, and the probe goes on to renew the very bearer it was given.   *)
Obtained(t, b) ==
    CASE call[t].kind = "request" ->
           /\ Becomes(t, [call[t] EXCEPT !.pc = "send", !.used = b])
           /\ UNCHANGED <<run, suspect>>
      [] call[t].kind = "probe" /\ call[t].stale = 0 ->
           /\ Becomes(t, Started("probe", b))
           /\ suspect' = suspect \cup {b} /\ UNCHANGED run
      [] OTHER ->
           /\ Returns(t) /\ UNCHANGED suspect
           /\ run' = IF call[t].kind = "new" THEN "up" ELSE run

-----------------------------------------------------------------------------
(* An API request, the probe and close() start without looking; the gate   *)
(* reads phase() first and asks for a bearer in these two phases only.     *)
Begin(t, k) ==
    /\ run = "up" /\ At(t, "idle")
    /\ k = "gate" => holder = Nobody /\ phase \in {"Expired", "Authenticating"}
    /\ Becomes(t, Started(k, 0))
    /\ UNCHANGED <<state, holder, run, issued, suspect>>

CanLock(t) == At(t, "lock") /\ holder = Nobody

(* Revoked and Closed end every call. *)
LockLost(t) ==
    /\ CanLock(t) /\ phase \in Terminal
    /\ Returns(t) /\ RunAfterFailureOf(t)
    /\ UNCHANGED <<state, holder, issued, suspect>>

LockClose(t) ==
    /\ CanLock(t) /\ phase \notin Terminal /\ call[t].kind = "close"
    /\ EnterTerminal("Closed") /\ Returns(t)
    /\ UNCHANGED <<holder, run, issued, suspect>>

LockReuse(t) ==
    /\ CanLock(t) /\ phase \notin Terminal /\ call[t].kind # "close" /\ Reusable(t)
    /\ Obtained(t, bearer)
    /\ UNCHANGED <<state, holder, issued>>

(* Mutant of LockRenew: a session that is Authenticating is left to the    *)
(* task that authenticates.                                                *)
LockRenewOnce(t) ==
    /\ CanLock(t) /\ phase \notin Terminal /\ call[t].kind # "close" /\ ~Reusable(t)
    /\ phase # "Authenticating" \/ run = "starting"
    /\ phase' = "Authenticating" /\ holder' = t
    /\ Becomes(t, [call[t] EXCEPT !.pc = "auth"])
    /\ UNCHANGED <<bearer, fresh, keys, run, issued, suspect>>
(* The identity call starts, and the mutex stays locked. *)
LockRenew(t) ==
    /\ CanLock(t) /\ phase \notin Terminal /\ call[t].kind # "close" /\ ~Reusable(t)
    /\ phase' = "Authenticating" /\ holder' = t
    /\ Becomes(t, [call[t] EXCEPT !.pc = "auth"])
    /\ UNCHANGED <<bearer, fresh, keys, run, issued, suspect>>

-----------------------------------------------------------------------------
AuthOk(t) ==
    /\ At(t, "auth") /\ issued < MaxBearers
    /\ issued' = issued + 1 /\ bearer' = issued'
    /\ fresh' = TRUE /\ keys' = TRUE /\ phase' = "Active"
    /\ holder' = Nobody /\ Obtained(t, issued')

AuthRejected(t) ==
    /\ At(t, "auth")
    /\ EnterTerminal("Revoked") /\ holder' = Nobody
    /\ Returns(t) /\ RunAfterFailureOf(t)
    /\ UNCHANGED <<issued, suspect>>

(* Mutant of GivesUp: one try too many. *)
GivesUpLate(t) == IF call[t].kind = "gate" THEN call[t].due
                                           ELSE call[t].tries >= MaxTries
(* Without a deadline the third failure is the last, with one the first    *)
(* after the deadline is.                                                  *)
GivesUp(t) == IF call[t].kind = "gate" THEN call[t].due
                                       ELSE call[t].tries + 1 >= MaxTries

(* A transient or protocol error, or a payload that does not open.  The    *)
(* bearer is kept.  Tries matter, and are counted here, only without a     *)
(* deadline.                                                               *)
AuthFails(t) ==
    /\ At(t, "auth")
    /\ phase' = "Expired" /\ holder' = Nobody
    /\ IF GivesUp(t)
         THEN Returns(t) /\ RunAfterFailureOf(t)
         ELSE /\ Becomes(t, [call[t] EXCEPT !.pc = "sleep",
                    !.tries = IF call[t].kind = "gate" THEN 0 ELSE @ + 1])
              /\ UNCHANGED run
    /\ UNCHANGED <<bearer, fresh, keys, issued, suspect>>

Wake(t) ==
    /\ At(t, "sleep") /\ Becomes(t, [call[t] EXCEPT !.pc = "lock"])
    /\ UNCHANGED <<state, holder, run, issued, suspect>>

(* The response to a request.  The first 401 forces a refresh of the       *)
(* bearer that was used, anything else is returned.                        *)
Respond(t) ==
    /\ At(t, "send")
    /\ \/ Returns(t) /\ UNCHANGED suspect
       \/ /\ call[t].stale = 0
          /\ Becomes(t, Started("request", call[t].used))
          /\ suspect' = suspect \cup {call[t].used}
    /\ UNCHANGED <<state, holder, run, issued>>

(* The future of t is dropped where it waits: a guard it holds is released *)
(* and the phase stays what it was.                                        *)
Dropped(t) ==
    /\ holder' = IF holder = t THEN Nobody ELSE holder
    /\ Returns(t)
    /\ UNCHANGED <<state, issued, suspect>>

(* TimeoutMiddleware: 30 seconds for a request with all its renewals. *)
TimesOut(t) ==
    /\ call[t].kind = "request" /\ ~At(t, "idle")
    /\ Dropped(t) /\ UNCHANGED run

(* Shutdown during startup: select! drops SessionManager::new. *)
CancelStartup(t) ==
    /\ call[t].kind = "new" /\ ~At(t, "idle")
    /\ Dropped(t) /\ run' = "down"

(* Time: the bearer comes within the renewal margin, a deadline passes. *)
BearerAges ==
    /\ fresh /\ fresh' = FALSE
    /\ UNCHANGED <<phase, bearer, keys, holder, call, run, issued, suspect>>

DeadlinePasses(t) ==
    /\ call[t].kind = "gate" /\ ~At(t, "idle") /\ ~call[t].due
    /\ Becomes(t, [call[t] EXCEPT !.due = TRUE])
    /\ UNCHANGED <<state, holder, run, issued, suspect>>

-----------------------------------------------------------------------------
Lock(t) == LockLost(t) \/ LockClose(t) \/ LockReuse(t) \/ LockRenew(t)
Answer(t) == AuthOk(t) \/ AuthRejected(t) \/ AuthFails(t)

Next ==
    \/ \E t \in Tasks :
         \/ \E k \in Kinds \ {"new"} : Begin(t, k)
         \/ Lock(t) \/ Answer(t)
         \/ Wake(t) \/ Respond(t) \/ TimesOut(t) \/ CancelStartup(t)
         \/ DeadlinePasses(t)
    \/ BearerAges

Spec == Init /\ [][Next]_vars

(* The identity client bounds its calls with a timeout, timers fire, a     *)
(* request is answered or fails, and the tokio mutex is first in, first    *)
(* out.                                                                    *)
Fairness == \A t \in Tasks :
    /\ WF_vars(Answer(t)) /\ WF_vars(Wake(t))
    /\ WF_vars(Respond(t)) /\ WF_vars(DeadlinePasses(t))
    /\ SF_vars(Lock(t))
FairSpec == Spec /\ Fairness

-----------------------------------------------------------------------------
(* An Active session has a bearer and the organization key, a Revoked or   *)
(* Closed one has neither, whatever task is waiting, renewing or dropped   *)
(* when it ends; and a task that is at the identity server holds the mutex *)
(* of a session that is Authenticating.                                    *)
SecretsFollowPhase ==
    /\ phase = "Active" => bearer # 0 /\ keys
    /\ phase \in Terminal => bearer = 0 /\ ~keys
    /\ \A t \in Tasks : At(t, "auth") => holder = t /\ phase = "Authenticating"

(* The retry after a 401 never carries the bearer that was refused, also   *)
(* when other tasks renew, fail to renew or time out in between.           *)
RetryUsesAnotherBearer ==
    \A t \in Tasks : At(t, "send") /\ call[t].stale # 0 =>
                       call[t].used \notin {0, call[t].stale}

(* Callers coalesce onto one renewal: a bearer is only ever replaced when  *)
(* it is old, or when it was itself refused or doubted.  However many      *)
(* requests meet a 401 with one bearer, one new bearer is issued for them. *)
RenewedForCause ==
    [][bearer' \notin {0, bearer} => bearer = 0 \/ ~fresh \/ bearer \in suspect]_vars

(* The session implements the phases that its callers rely on. *)
Abstract == INSTANCE SessionPhases WITH secrets <- bearer # 0 /\ keys
ImplementsPhases == Abstract!Spec

(* Every call ends, whatever the servers answer and whoever else renews:   *)
(* no caller waits forever behind a renewal that was dropped half-way.     *)
CallsEnd == \A t \in Tasks : ~At(t, "idle") ~> At(t, "idle")
=============================================================================
