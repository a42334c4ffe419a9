-------------------------- MODULE TokenMiddleware --------------------------
(***************************************************************************)
(* The token middleware of bitwarden-auth, MiddlewareWrapper<T>, with the  *)
(* password manager's token handler behind its mutex: handle() attaches    *)
(* the stored access token, renews it when it is about to expire, and      *)
(* after a 401 renews once and sends the request again.                    *)
(*                                                                         *)
(* Access tokens are numbered in the order in which they were issued, 0 is *)
(* none.  The identity server, and the login that calls set_tokens without *)
(* the mutex, are external.  What the rest of the chain answers is given   *)
(* by the module that composes this one.                                   *)
(***************************************************************************)
EXTENDS Naturals, HttpRequests

CONSTANT
    MaxTokens    \* bound: access tokens issued

ASSUME TokenAssumption == MaxTokens \in Nat

VARIABLES
    access,   \* the stored access token
    valid,    \* it is not within the renewal margin of its expiry
    issued,   \* tokens issued so far
    holder,   \* the request whose future holds the mutex, or NoRequest
    auth,     \* auth[r]: where handle() is for the request r
    refused   \* history: tokens that met a 401

tokenVars == <<access, valid, issued, holder, auth, refused>>

-----------------------------------------------------------------------------
Tokens == 0 .. MaxTokens
\* prev: the token that was attached; retry: this is the attempt after a 401;
\* tok: the token that is attached to what is sent now
AuthState == [pc : {"out", "resolve", "reread", "renew", "send"}, retry : BOOLEAN,
              prev : Tokens, tok : Tokens]
Out == [pc |-> "out", retry |-> FALSE, prev |-> 0, tok |-> 0]

TokenTypeOK ==
    /\ access \in Tokens /\ valid \in BOOLEAN /\ issued \in Tokens
    /\ holder \in Requests \cup {NoRequest}
    /\ auth \in [Requests -> AuthState]
    /\ refused \subseteq Tokens

TokenInit ==
    /\ access \in {0, 1} \cap Tokens /\ valid \in {FALSE, access # 0} /\ issued = access
    /\ holder = NoRequest
    /\ auth = [r \in Requests |-> Out] /\ refused = {}

AuthAt(r, pc) == auth[r].pc = pc

-----------------------------------------------------------------------------
(* handle() is entered: a request that needs no token is sent as it is. *)
Handle(r) ==
    /\ AuthAt(r, "out")
    /\ auth' = [auth EXCEPT ![r].pc = IF NeedsToken(r) THEN "resolve" ELSE "send"]
    /\ UNCHANGED <<access, valid, issued, holder, refused>>

Sends(r, t) == auth' = [auth EXCEPT ![r].pc = "send", ![r].tok = t]

(* Mutants of Usable: the retry does not look whether somebody else has    *)
(* renewed, or it takes what is stored.                                    *)
UsableFirstOnly(r) == access # 0 /\ ~auth[r].retry /\ valid
UsableAnyway(r) == access # 0 /\ (auth[r].retry \/ valid)
(* Whether the stored token will do: resolve_initial and resolve_retry. *)
Usable(r) ==
    /\ access # 0
    /\ IF auth[r].retry THEN auth[r].prev \notin {0, access} ELSE valid

ResolveStored(r) ==
    /\ AuthAt(r, "resolve") /\ holder = NoRequest /\ Usable(r)
    /\ Sends(r, access)
    /\ UNCHANGED <<access, valid, issued, holder, refused>>

(* renew_token() asks the identity server, and the mutex stays locked.     *)
(* Without tokens it fails at once.                                        *)
ResolveRenew(r) ==
    /\ AuthAt(r, "resolve") /\ holder = NoRequest /\ ~Usable(r)
    /\ IF access = 0 THEN Sends(r, 0) /\ UNCHANGED holder
                     ELSE holder' = r /\ auth' = [auth EXCEPT ![r].pc = "renew"]
    /\ UNCHANGED <<access, valid, issued, refused>>

(* current_token cannot read the stored tokens, which counts as none:      *)
(* renew_token reads them again, still under the mutex, and renews a token *)
(* that nothing is wrong with.                                             *)
ReadFails(r) ==
    /\ AuthAt(r, "resolve") /\ holder = NoRequest /\ access # 0
    /\ holder' = r /\ auth' = [auth EXCEPT ![r].pc = "reread"]
    /\ UNCHANGED <<access, valid, issued, refused>>
Reread(r) ==
    /\ AuthAt(r, "reread") /\ auth' = [auth EXCEPT ![r].pc = "renew"]
    /\ UNCHANGED <<access, valid, issued, holder, refused>>

(* The new token is attached; that storing it failed goes unnoticed. *)
RenewOk(r) ==
    /\ AuthAt(r, "renew") /\ issued < MaxTokens
    /\ issued' = issued + 1
    /\ (access' = issued' /\ valid' = TRUE) \/ UNCHANGED <<access, valid>>
    /\ holder' = NoRequest /\ Sends(r, issued')
    /\ UNCHANGED refused

(* The tokens cannot be read, or the identity server says no: the error is *)
(* logged, and the request goes out without a token, or on the retry with  *)
(* the header it already has.                                              *)
RenewFails(r) ==
    /\ AuthAt(r, "renew") /\ holder' = NoRequest /\ Sends(r, auth[r].prev)
    /\ UNCHANGED <<access, valid, issued, refused>>

(* Mutant of Unauthorized: every 401 does. *)
UnauthorizedAgain(r) ==
    /\ AuthAt(r, "send") /\ NeedsToken(r) /\ Clonable(r)
    /\ auth' = [auth EXCEPT ![r] = [pc |-> "resolve", retry |-> TRUE,
                                    prev |-> auth[r].tok, tok |-> 0]]
    /\ refused' = refused \cup ({auth[r].tok} \ {0})
    /\ UNCHANGED <<access, valid, issued, holder>>
(* The first 401 makes the middleware resolve again, if it has a clone. *)
Unauthorized(r) ==
    /\ AuthAt(r, "send") /\ NeedsToken(r) /\ Clonable(r) /\ ~auth[r].retry
    /\ auth' = [auth EXCEPT ![r] = [pc |-> "resolve", retry |-> TRUE,
                                    prev |-> auth[r].tok, tok |-> 0]]
    /\ refused' = refused \cup ({auth[r].tok} \ {0})
    /\ UNCHANGED <<access, valid, issued, holder>>

(* Any other response, or the second, is handed on. *)
HandleReturns(r) ==
    /\ AuthAt(r, "send") /\ auth' = [auth EXCEPT ![r] = Out]
    /\ UNCHANGED <<access, valid, issued, holder, refused>>

(* The future of the request is dropped: a guard it holds is released. *)
HandleDropped(r) ==
    /\ auth' = [auth EXCEPT ![r] = Out]
    /\ holder' = IF holder = r THEN NoRequest ELSE holder
    /\ UNCHANGED <<access, valid, issued, refused>>

(* set_tokens after a login, and time. *)
Login ==
    /\ issued < MaxTokens
    /\ issued' = issued + 1 /\ access' = issued' /\ valid' = TRUE
    /\ UNCHANGED <<holder, auth, refused>>
Expires ==
    /\ valid /\ valid' = FALSE
    /\ UNCHANGED <<access, issued, holder, auth, refused>>

TokenStep(r) ==
    \/ ResolveStored(r) \/ ResolveRenew(r) \/ ReadFails(r) \/ Reread(r)
    \/ RenewOk(r) \/ RenewFails(r)

-----------------------------------------------------------------------------
(* Requests that meet a 401 together cause one renewal: the middleware     *)
(* renews only when the stored token is expiring or was itself refused, or *)
(* for a request that had gone out without one; or else when it could not  *)
(* read the stored token (Reread).                                         *)
RenewalHasCause ==
    [][\A r \in Requests : AuthAt(r, "resolve") /\ auth'[r].pc = "renew" =>
         ~valid \/ access \in refused \/ (auth[r].retry /\ auth[r].prev = 0)]_tokenVars

(* The retry carries a token other than the refused one, unless the        *)
(* renewal failed.                                                         *)
RetryIsNew ==
    [][\A r \in Requests : ResolveStored(r) \/ RenewOk(r) =>
         ~auth[r].retry \/ auth'[r].tok # auth[r].prev]_tokenVars
=============================================================================
