--------------------------- MODULE RequestPipeline ---------------------------
(***************************************************************************)
(* The chain that ClientBuilder::build puts around an API client: the      *)
(* cookie middleware outermost, the token middleware innermost, then the   *)
(* HTTP client with redirects switched off.  A request that the cookie     *)
(* layer forwards enters the token layer; what the token layer returns is  *)
(* what the cookie layer looks at.  The server may answer 401, a redirect  *)
(* or anything else at any time, and the connection may fail.              *)
(***************************************************************************)
EXTENDS TokenMiddleware, CookieMiddleware

vars == <<kind, access, valid, issued, holder, auth, refused,
          store, in_flight, waiters, cookie, acquiring, setting>>

TypeOK == TokenTypeOK /\ CookieTypeOK

(* Tokens and configurations are persisted: a client starts with any.      *)
Init == kind \in [Requests -> Kinds] /\ TokenInit /\ CookieInit

-----------------------------------------------------------------------------
Send(r) == Inject(r) /\ Handle(r)
SendAgain(r) == Resend(r) /\ Handle(r)

(* The HTTP client answers: a 401 stays inside the token layer, the rest   *)
(* goes out through both.                                                  *)
Refuse(r) == Unauthorized(r) /\ UNCHANGED cookieVars
Redirect(r) == HandleReturns(r) /\ Redirected(r)
Answer(r) == HandleReturns(r) /\ Passed(r)

TokenLayer(r) == TokenStep(r) /\ UNCHANGED cookieVars
CookieLayer(r) ==
    /\ \/ CheckBootstrap(r) \/ Dedupe(r) \/ Acquire(r)
       \/ NotifyWaiters(r) \/ ReturnRedirect(r)
    /\ UNCHANGED tokenVars

(* The caller gives up, and the futures of both layers are dropped. *)
Drop(r) == CookieDropped(r) /\ HandleDropped(r)

Environment ==
    \/ (Login \/ Expires) /\ UNCHANGED cookieVars
    \/ AppStep /\ UNCHANGED tokenVars

RequestStep(r) ==
    \/ SendAgain(r) \/ Refuse(r) \/ Redirect(r) \/ Answer(r)
    \/ TokenLayer(r) \/ CookieLayer(r)

Next ==
    /\ UNCHANGED kind
    /\ \/ Environment
       \/ \E r \in Requests : Send(r) \/ RequestStep(r) \/ Drop(r)

(* A request that was sent makes progress: the executor polls its future,  *)
(* and the server, the identity server and the platform answer in the end, *)
(* even if with an error.                                                  *)
Spec == Init /\ [][Next]_vars
Fairness == \A r \in Requests : WF_vars(UNCHANGED kind /\ RequestStep(r))

-----------------------------------------------------------------------------
(* Every request that is sent gets a response or an error: no request is   *)
(* left waiting for the mutex, for the sign-in of another request, or in   *)
(* a cycle of retries.                                                     *)
EveryRequestEnds ==
    \A r \in Requests : []<>(CookieAt(r, "idle") \/ CookieAt(r, "done"))
=============================================================================
