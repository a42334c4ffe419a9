------------------------ MODULE RequestPipelineProofs ------------------------
(***************************************************************************)
(* Proofs about RequestPipeline, for any number of requests: its types,    *)
(* that the cookie layer asks for one sign-in at a time and loses no       *)
(* wake-up, and when the token layer renews.                               *)
(***************************************************************************)
EXTENDS RequestPipeline, TLAPS

(* Each action leaves the type of its layer's variables intact. *)
LEMMA TokenTypes ==
    ASSUME TypeOK, NEW r \in Requests,
           \/ Handle(r) \/ TokenStep(r) \/ Unauthorized(r) \/ HandleReturns(r)
           \/ HandleDropped(r)
    PROVE  TokenTypeOK'
<1>. USE TokenAssumption DEF TypeOK, TokenTypeOK, Tokens
<1>1. CASE Handle(r)
  BY <1>1 DEF Handle, AuthState
<1>2. CASE ResolveStored(r)
  BY <1>2 DEF ResolveStored, Sends, AuthState
<1>3. CASE ResolveRenew(r)
  BY <1>3 DEF ResolveRenew, Sends, AuthState
<1>4. CASE RenewOk(r)
  <2>1. /\ issued' \in Tokens /\ holder' = NoRequest /\ refused' = refused
        /\ auth' = [auth EXCEPT ![r].pc = "send", ![r].tok = issued']
    BY <1>4 DEF RenewOk, Sends
  <2>2. auth' \in [Requests -> AuthState]
    BY <2>1 DEF AuthState
  <2>3. access' \in Tokens
    BY <1>4, <2>1 DEF RenewOk
  <2>4. valid' \in BOOLEAN
    BY <1>4, Zenon DEF RenewOk
  <2>. QED  BY <2>1, <2>2, <2>3, <2>4
<1>5. CASE RenewFails(r)
  BY <1>5 DEF RenewFails, Sends, AuthState
<1>6. CASE Unauthorized(r)
  <2>1. auth[r].tok \in Tokens
    BY DEF AuthState
  <2>2. auth' \in [Requests -> AuthState]
    BY <1>6, <2>1 DEF Unauthorized, AuthState
  <2>3. refused' \subseteq Tokens /\ UNCHANGED <<access, valid, issued, holder>>
    BY <1>6, <2>1 DEF Unauthorized
  <2>. QED  BY <2>2, <2>3
<1>7. CASE HandleReturns(r)
  BY <1>7 DEF HandleReturns, AuthState, Out
<1>8. CASE HandleDropped(r)
  BY <1>8 DEF HandleDropped, AuthState, Out
<1>9. CASE ReadFails(r)
  BY <1>9 DEF ReadFails, AuthState
<1>10. CASE Reread(r)
  BY <1>10 DEF Reread, AuthState
<1>. QED
  BY <1>1, <1>2, <1>3, <1>4, <1>5, <1>6, <1>7, <1>8, <1>9, <1>10 DEF TokenStep

CookieStep(r) ==
    \/ Inject(r) \/ Resend(r) \/ Redirected(r) \/ Passed(r) \/ CheckBootstrap(r)
    \/ Dedupe(r) \/ NotifyWaiters(r) \/ ReturnRedirect(r) \/ CookieDropped(r)

LEMMA CookieTypes ==
    ASSUME TypeOK, UNCHANGED kind, NEW r \in Requests, CookieStep(r)
    PROVE  CookieTypeOK'
<1>. USE DEF TypeOK, CookieTypeOK, CookieGoto, NeedsBootstrap
<1>1. CASE Inject(r)
  BY <1>1 DEF Inject, CookieState
<1>2. CASE Resend(r)
  BY <1>2 DEF Resend, CookieState
<1>3. CASE Redirected(r)
  BY <1>3 DEF Redirected, CookieState
<1>4. CASE Passed(r)
  BY <1>4 DEF Passed, CookieState
<1>5. CASE CheckBootstrap(r)
  BY <1>5 DEF CheckBootstrap, CookieState
<1>6. CASE Dedupe(r)
  <2>1. cookie' \in [Requests -> CookieState]
    BY <1>6 DEF Dedupe, CookieState
  <2>2. /\ in_flight' \in BOOLEAN /\ waiters' \subseteq Requests
        /\ acquiring' \in [Callers -> {"idle", "read", "platform", "save"}]
        /\ UNCHANGED <<store, setting>>
    BY <1>6 DEF Dedupe, Callers
  <2>. QED  BY <2>1, <2>2
<1>7. CASE NotifyWaiters(r)
  BY <1>7 DEF NotifyWaiters, CookieState
<1>8. CASE ReturnRedirect(r)
  BY <1>8 DEF ReturnRedirect, CookieState
<1>9. CASE CookieDropped(r)
  BY <1>9 DEF CookieDropped, CookieState, Callers
<1>. QED  BY <1>1, <1>2, <1>3, <1>4, <1>5, <1>6, <1>7, <1>8, <1>9 DEF CookieStep

LEMMA AcquireTypes ==
    ASSUME TypeOK, UNCHANGED kind, NEW p \in Callers,
           Acquire(p) \/ GetCookies \/ SetReads \/ SetSaves \/ SetDirect
    PROVE  CookieTypeOK'
<1>. USE DEF TypeOK, CookieTypeOK, NeedsBootstrap
<1>1. CASE Acquire(p)
  <2>1. /\ acquiring' \in [Callers -> {"idle", "read", "platform", "save"}]
        /\ UNCHANGED <<in_flight, waiters, cookie, setting>>
    BY <1>1 DEF Acquire, AcquireReads, AcquireAnswers, AcquireSaves, AcquireFails
  <2>2. UNCHANGED store \/ store' = SsoCookieVendor(TRUE)
    BY <1>1 DEF Acquire, AcquireReads, AcquireAnswers, AcquireSaves, AcquireFails
  <2>3. store' \in Config
    BY <2>2 DEF Config
  <2>. QED  BY <2>1, <2>3
<1>2. CASE GetCookies
  BY <1>2 DEF GetCookies, Callers
<1>3. CASE SetReads
  BY <1>3 DEF SetReads
<1>4. CASE SetSaves
  BY <1>4 DEF SetSaves, Config
<1>5. CASE SetDirect
  BY <1>5 DEF SetDirect, Config
<1>. QED  BY <1>1, <1>2, <1>3, <1>4, <1>5

(* The steps of the chain, each with the part that either layer takes. *)
LEMMA Layers ==
    ASSUME [Next]_vars
    PROVE  /\ UNCHANGED kind
           /\ \/ UNCHANGED tokenVars
              \/ Login \/ Expires
              \/ \E r \in Requests :
                   \/ Handle(r) \/ TokenStep(r) \/ Unauthorized(r) \/ HandleReturns(r)
                   \/ HandleDropped(r)
           /\ \/ UNCHANGED cookieVars
              \/ \E r \in Requests : CookieStep(r) \/ Acquire(r)
              \/ AppStep
BY DEF Next, vars, tokenVars, cookieVars, Environment, RequestStep, Send, SendAgain,
       Refuse, Redirect, Answer, TokenLayer, CookieLayer, Drop, CookieStep

LEMMA TypeInductive == TypeOK /\ [Next]_vars => TypeOK'
<1>. SUFFICES ASSUME TypeOK, [Next]_vars PROVE TypeOK'
  OBVIOUS
<1>1. TokenTypeOK'
  <2>1. CASE UNCHANGED tokenVars
    BY <2>1 DEF tokenVars, TypeOK, TokenTypeOK
  <2>2. CASE Login
    <3>1. issued' \in Tokens /\ access' \in Tokens
      BY <2>2, TokenAssumption DEF TypeOK, TokenTypeOK, Tokens, Login
    <3>. QED  BY <2>2, <3>1 DEF TypeOK, TokenTypeOK, Login
  <2>3. CASE Expires
    BY <2>3 DEF TypeOK, TokenTypeOK, Expires
  <2>. QED  BY <2>1, <2>2, <2>3, Layers, TokenTypes
<1>2. CookieTypeOK'
  <2>1. CASE UNCHANGED cookieVars
    BY <2>1, Layers DEF cookieVars, TypeOK, CookieTypeOK, NeedsBootstrap
  <2>2. CASE AppStep
    <3>1. App \in Callers
      BY DEF Callers
    <3>. QED  BY <2>2, <3>1, Layers, AcquireTypes DEF AppStep
  <2>3. ASSUME NEW r \in Requests, CookieStep(r) \/ Acquire(r) PROVE CookieTypeOK'
    BY <2>3, Layers, CookieTypes, AcquireTypes DEF Callers
  <2>. QED  BY <2>1, <2>2, <2>3, Layers
<1>. QED  BY <1>1, <1>2 DEF TypeOK

(* Every reachable state of the chain is well typed. *)
THEOREM TypeCorrect == Spec => []TypeOK
<1>1. Init => TypeOK
  <2>. SUFFICES ASSUME Init PROVE TypeOK
    OBVIOUS
  <2>1. Out \in AuthState
    BY TokenAssumption DEF Out, AuthState, Tokens
  <2>2. TokenTypeOK
    <3>1. valid \in BOOLEAN
      BY Zenon DEF Init, TokenInit
    <3>. QED  BY <2>1, <3>1 DEF Init, TokenInit, TokenTypeOK
  <2>3. CookieTypeOK
    BY DEF Init, CookieInit, CookieTypeOK, CookieState
  <2>. QED  BY <2>2, <2>3 DEF TypeOK
<1>. QED  BY <1>1, TypeInductive, PTL DEF Spec

-----------------------------------------------------------------------------
(* The cookie layer *)

(* A request that acquires owns the entry of in_flight, and nobody else
   does; whoever waits is registered. *)
AcquirerOwnsEntry ==
    /\ \A r \in Requests : acquiring[r] # "idle" => CookieAt(r, "acquire")
    /\ \A r \in Requests : CookieAt(r, "acquire") => in_flight
    /\ \A r, q \in Requests : CookieAt(r, "acquire") /\ CookieAt(q, "acquire") => r = q
    /\ \A r \in Requests : CookieAt(r, "wait") <=> r \in waiters
    /\ waiters # {} => in_flight

LEMMA OwnsInductive ==
    ASSUME TypeOK, AcquirerOwnsEntry, [Next]_vars
    PROVE  AcquirerOwnsEntry'
<1>. USE DEF AcquirerOwnsEntry, CookieAt
<1>1. CASE UNCHANGED cookieVars
  BY <1>1 DEF cookieVars
<1>2. CASE AppStep
  <2>1. UNCHANGED <<in_flight, waiters, cookie>>
        /\ (UNCHANGED acquiring \/ \E x : acquiring' = [acquiring EXCEPT ![App] = x])
    BY <1>2 DEF AppStep, GetCookies, SetReads, SetSaves, SetDirect, Acquire,
       AcquireReads, AcquireAnswers, AcquireSaves, AcquireFails
  <2>2. \A r \in Requests : acquiring'[r] = acquiring[r]
    BY <2>1, AppAssumption DEF TypeOK, CookieTypeOK, Callers
  <2>. QED  BY <2>1, <2>2
<1>3. ASSUME NEW r \in Requests, CookieStep(r) \/ Acquire(r) PROVE AcquirerOwnsEntry'
  <2>. USE DEF TypeOK, CookieTypeOK, CookieState, CookieGoto, Callers
  <2>1. CASE Acquire(r)
    BY <2>1 DEF Acquire, AcquireReads, AcquireAnswers, AcquireSaves, AcquireFails
  <2>2. CASE Inject(r) \/ Redirected(r) \/ Passed(r) \/ CheckBootstrap(r) \/ ReturnRedirect(r)
    BY <2>2 DEF Inject, Redirected, Passed, CheckBootstrap, ReturnRedirect
  <2>3. CASE Resend(r)
    BY <2>3 DEF Resend
  <2>4. CASE Dedupe(r)
    <3>1. CASE in_flight
      BY <2>4, <3>1 DEF Dedupe
    <3>2. CASE ~in_flight
      BY <2>4, <3>2 DEF Dedupe
    <3>. QED  BY <3>1, <3>2
  <2>5. CASE NotifyWaiters(r)
    <3>1. \A q \in Requests : cookie'[q].pc =
             IF q \in waiters \cup {r} THEN "retry" ELSE cookie[q].pc
      BY <2>5 DEF NotifyWaiters
    <3>2. waiters' = {} /\ UNCHANGED acquiring /\ acquiring[r] = "idle"
          /\ CookieAt(r, "acquire")
      BY <2>5 DEF NotifyWaiters
    <3>. QED  BY <3>1, <3>2
  <2>6. CASE CookieDropped(r)
    BY <2>6 DEF CookieDropped
  <2>. QED  BY <1>3, <2>1, <2>2, <2>3, <2>4, <2>5, <2>6 DEF CookieStep
<1>. QED  BY <1>1, <1>2, <1>3, Layers

LEMMA OwnsInvariance == Spec => [](TypeOK /\ AcquirerOwnsEntry)
<1>1. Init => AcquirerOwnsEntry
  BY DEF Init, CookieInit, AcquirerOwnsEntry, CookieAt, Callers
<1>. QED  BY <1>1, OwnsInductive, TypeCorrect, PTL DEF Spec

(* However many requests are redirected together, one at a time takes the
   user through the sign-in, also when acquirers are dropped. *)
THEOREM OneSignInAtATime == Spec => []OneSignIn
<1>1. AcquirerOwnsEntry => OneSignIn
  BY DEF AcquirerOwnsEntry, OneSignIn
<1>. QED  BY <1>1, OwnsInvariance, PTL

(* The entry stands for a request that will remove it. *)
EntryIsOwned == in_flight => \E q \in Requests : CookieAt(q, "acquire")

LEMMA EntryInductive ==
    ASSUME ~DropsAcquirers, TypeOK, AcquirerOwnsEntry, EntryIsOwned, [Next]_vars
    PROVE  EntryIsOwned'
<1>. USE DEF EntryIsOwned, CookieAt
<1>1. CASE UNCHANGED <<cookie, in_flight>>
  BY <1>1
<1>2. ASSUME NEW r \in Requests, CookieStep(r), ~UNCHANGED <<cookie, in_flight>>
      PROVE  EntryIsOwned'
  <2>. USE DEF TypeOK, CookieTypeOK, CookieState, CookieGoto
  <2>1. CASE Dedupe(r)
    BY <2>1 DEF Dedupe
  <2>2. CASE NotifyWaiters(r)
    BY <2>2 DEF NotifyWaiters
  <2>3. ASSUME ~Dedupe(r), ~NotifyWaiters(r)
        PROVE  /\ UNCHANGED in_flight
               /\ ~CookieAt(r, "acquire")
               /\ \A q \in Requests \ {r} : cookie'[q] = cookie[q]
    BY <1>2, <2>3 DEF CookieStep, Inject, Resend, Redirected, Passed, CheckBootstrap,
       ReturnRedirect, CookieDropped
  <2>. QED  BY <2>1, <2>2, <2>3
<1>. QED
  BY <1>1, <1>2, Layers DEF cookieVars, AppStep, GetCookies, SetReads, SetSaves, SetDirect,
     Acquire, AcquireReads, AcquireAnswers, AcquireSaves, AcquireFails

(* When no acquirer is dropped, no request waits for a notification that
   nobody is going to send. *)
THEOREM NoLostWakeup ==
    ASSUME ~DropsAcquirers
    PROVE  Spec => []WaiterIsNotified
<1>1. Init => EntryIsOwned
  BY DEF Init, CookieInit, EntryIsOwned
<1>2. TypeOK /\ AcquirerOwnsEntry /\ EntryIsOwned /\ [Next]_vars => EntryIsOwned'
  BY EntryInductive
<1>3. AcquirerOwnsEntry /\ EntryIsOwned => WaiterIsNotified
  BY DEF AcquirerOwnsEntry, EntryIsOwned, WaiterIsNotified
<1>. QED  BY <1>1, <1>2, <1>3, OwnsInvariance, PTL DEF Spec

-----------------------------------------------------------------------------
(* The token layer *)

(* A token that was attached and refused is in the history; without a
   request behind it the layer keeps nothing. *)
RetryRemembers ==
    \A r \in Requests :
        /\ auth[r].retry /\ auth[r].prev # 0 => auth[r].prev \in refused
        /\ access <= issued /\ auth[r].prev <= issued /\ auth[r].tok <= issued

LEMMA RemembersInductive ==
    ASSUME TypeOK, RetryRemembers, [Next]_vars
    PROVE  RetryRemembers'
<1>. USE TokenAssumption DEF RetryRemembers, TypeOK, TokenTypeOK, Tokens
<1>1. CASE UNCHANGED tokenVars
  BY <1>1 DEF tokenVars
<1>2. CASE Login \/ Expires
  BY <1>2 DEF Login, Expires, AuthState
<1>3. ASSUME NEW r \in Requests, Handle(r) PROVE RetryRemembers'
  BY <1>3 DEF Handle, AuthState
<1>4. ASSUME NEW r \in Requests, TokenStep(r) PROVE RetryRemembers'
  <2>1. CASE ResolveStored(r)
    BY <2>1 DEF ResolveStored, Sends, AuthState
  <2>2. CASE ResolveRenew(r)
    BY <2>2 DEF ResolveRenew, Sends, AuthState
  <2>3. CASE ReadFails(r) \/ Reread(r)
    BY <2>3 DEF ReadFails, Reread, AuthState
  <2>4. CASE RenewOk(r)
    BY <2>4 DEF RenewOk, Sends, AuthState
  <2>5. CASE RenewFails(r)
    BY <2>5 DEF RenewFails, Sends, AuthState
  <2>. QED  BY <1>4, <2>1, <2>2, <2>3, <2>4, <2>5 DEF TokenStep
<1>5. ASSUME NEW r \in Requests, Unauthorized(r) PROVE RetryRemembers'
  BY <1>5 DEF Unauthorized, AuthState
<1>6. ASSUME NEW r \in Requests, HandleReturns(r) \/ HandleDropped(r) PROVE RetryRemembers'
  BY <1>6 DEF HandleReturns, HandleDropped, Out, AuthState
<1>. QED  BY <1>1, <1>2, <1>3, <1>4, <1>5, <1>6, Layers

LEMMA RemembersInvariance == Spec => [](TypeOK /\ RetryRemembers)
<1>1. Init => RetryRemembers
  <2>. SUFFICES ASSUME Init PROVE RetryRemembers
    OBVIOUS
  <2>1. 0 <= issued /\ access <= issued
    BY DEF Init, TokenInit
  <2>2. \A r \in Requests : auth[r].prev = 0 /\ auth[r].tok = 0
    BY DEF Init, TokenInit, Out
  <2>. QED  BY <2>1, <2>2 DEF RetryRemembers
<1>. QED  BY <1>1, RemembersInductive, TypeCorrect, PTL DEF Spec

(* Only a request that resolves can come to renew. *)
LEMMA OthersKept ==
    ASSUME TypeOK, [Next]_vars, NEW r \in Requests,
           AuthAt(r, "resolve"), auth'[r].pc = "renew"
    PROVE  ResolveRenew(r) /\ access # 0
<1>. USE DEF TypeOK, TokenTypeOK, AuthState, AuthAt
<1>1. ASSUME NEW q \in Requests, Handle(q) PROVE FALSE
  BY <1>1 DEF Handle
<1>2. ASSUME NEW q \in Requests,
             ResolveStored(q) \/ ReadFails(q) \/ Reread(q) \/ RenewOk(q) \/ RenewFails(q)
      PROVE  FALSE
  BY <1>2 DEF ResolveStored, ReadFails, Reread, RenewOk, RenewFails, Sends
<1>3. ASSUME NEW q \in Requests, ResolveRenew(q) PROVE ResolveRenew(r) /\ access # 0
  BY <1>3 DEF ResolveRenew, Sends
<1>4. ASSUME NEW q \in Requests, Unauthorized(q) PROVE FALSE
  BY <1>4 DEF Unauthorized
<1>5. ASSUME NEW q \in Requests, HandleReturns(q) \/ HandleDropped(q) PROVE FALSE
  BY <1>5 DEF HandleReturns, HandleDropped, Out
<1>6. CASE UNCHANGED tokenVars \/ Login \/ Expires
  BY <1>6 DEF tokenVars, Login, Expires
<1>. QED  BY <1>1, <1>2, <1>3, <1>4, <1>5, <1>6, Layers DEF TokenStep

(* For any number of requests that meet a 401 together: a stored token that
   can be read is renewed only when it is expiring or was itself refused, or for a request
   that went out without one. *)
THEOREM RenewalsHaveCause == Spec => RenewalHasCause
<1>1. TypeOK /\ RetryRemembers /\ [Next]_vars =>
        [\A r \in Requests : AuthAt(r, "resolve") /\ auth'[r].pc = "renew" =>
           ~valid \/ access \in refused \/ (auth[r].retry /\ auth[r].prev = 0)]_tokenVars
  <2>. SUFFICES ASSUME TypeOK, RetryRemembers, [Next]_vars, NEW r \in Requests,
                       AuthAt(r, "resolve"), auth'[r].pc = "renew"
                PROVE  ~valid \/ access \in refused \/ (auth[r].retry /\ auth[r].prev = 0)
    OBVIOUS
  <2>1. ~Usable(r) /\ access # 0
    BY OthersKept DEF ResolveRenew
  <2>. QED  BY <2>1 DEF Usable, RetryRemembers
<1>. QED  BY <1>1, RemembersInvariance, PTL DEF Spec, RenewalHasCause

(* A request is retried with the refused token only when the renewal that
   its 401 called for has failed. *)
THEOREM RetriesAreNew == Spec => RetryIsNew
<1>1. TypeOK /\ RetryRemembers /\ [Next]_vars =>
        [\A r \in Requests : ResolveStored(r) \/ RenewOk(r) =>
           ~auth[r].retry \/ auth'[r].tok # auth[r].prev]_tokenVars
  <2>. SUFFICES ASSUME TypeOK, RetryRemembers, NEW r \in Requests, auth[r].retry,
                       ResolveStored(r) \/ RenewOk(r)
                PROVE  auth'[r].tok # auth[r].prev
    OBVIOUS
  <2>1. CASE ResolveStored(r)
    BY <2>1 DEF ResolveStored, Usable, Sends, TypeOK, TokenTypeOK, AuthState
  <2>2. CASE RenewOk(r)
    <3>1. auth'[r].tok = issued + 1
      BY <2>2 DEF RenewOk, Sends, TypeOK, TokenTypeOK, AuthState
    <3>2. auth[r].prev <= issued /\ issued \in Nat /\ auth[r].prev \in Nat
      BY DEF RetryRemembers, TypeOK, TokenTypeOK, Tokens, AuthState
    <3>. QED  BY <3>1, <3>2
  <2>. QED  BY <2>1, <2>2
<1>. QED  BY <1>1, RemembersInvariance, PTL DEF Spec, RetryIsNew
=============================================================================
