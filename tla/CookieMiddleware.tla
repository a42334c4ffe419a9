-------------------------- MODULE CookieMiddleware --------------------------
(***************************************************************************)
(* The outermost layer of an ApiClient's chain of middlewares,             *)
(* ServerCommunicationConfigMiddleware, for one host and a native target:  *)
(* it injects the stored load balancer cookies, and after a 302 or 307 it  *)
(* has the user sign in at the identity provider, once for all requests    *)
(* that are redirected meanwhile, and sends the request again.  The        *)
(* repository of ServerCommunicationConfigClient is behind it; the         *)
(* application calls that client directly too, past the middleware.        *)
(*                                                                         *)
(* Every read and every write of the repository is a step.  The platform   *)
(* that shows the sign-in page is external.                                *)
(***************************************************************************)
EXTENDS HttpRequests

CONSTANTS
    App,            \* the application, calling get_cookies or acquire_cookie
    DropsAcquirers  \* whether the future of a request that acquires the
                    \* cookies may be dropped

ASSUME AppAssumption == App \notin Requests /\ DropsAcquirers \in BOOLEAN

VARIABLES
    store,     \* the repository's configuration for the host; none is Direct
    in_flight, \* the host has an entry in the map in_flight
    waiters,   \* requests that are registered with the entry's Notify
    cookie,    \* cookie[r]: where handle() is for the request r
    acquiring, \* acquiring[p]: where acquire_cookie is for the caller p
    setting    \* set_communication_type: idle, or what it read of the cookies

cookieVars == <<store, in_flight, waiters, cookie, acquiring, setting>>

Callers == Requests \cup {App}
Direct == [bootstrap |-> "Direct", cookies |-> FALSE]
SsoCookieVendor(cookies) == [bootstrap |-> "SsoCookieVendor", cookies |-> cookies]
Config == {Direct, SsoCookieVendor(FALSE), SsoCookieVendor(TRUE)}
CookieState == [pc : {"idle", "inner", "redirected", "dedupe", "wait", "acquire",
                      "retry", "done"},
                retried : BOOLEAN]

NeedsBootstrap == store.bootstrap = "SsoCookieVendor"

CookieTypeOK ==
    /\ kind \in [Requests -> Kinds]
    /\ store \in Config
    /\ in_flight \in BOOLEAN /\ waiters \subseteq Requests
    /\ cookie \in [Requests -> CookieState]
    /\ acquiring \in [Callers -> {"idle", "read", "platform", "save"}]
    /\ setting \in {"idle", "none", "cookies", "unread"}

CookieInit ==
    /\ store \in Config
    /\ in_flight = FALSE /\ waiters = {}
    /\ cookie = [r \in Requests |-> [pc |-> "idle", retried |-> FALSE]]
    /\ acquiring = [p \in Callers |-> "idle"] /\ setting = "idle"

CookieAt(r, pc) == cookie[r].pc = pc
CookieGoto(r, pc) == cookie' = [cookie EXCEPT ![r].pc = pc]

-----------------------------------------------------------------------------
(* acquire_cookie: the configuration is read, the user signs in, and the   *)
(* configuration that was read is saved with the new cookies.              *)
AcquireReads(p) ==
    /\ acquiring[p] = "read" /\ NeedsBootstrap
    /\ acquiring' = [acquiring EXCEPT ![p] = "platform"]
    /\ UNCHANGED <<store, in_flight, waiters, cookie, setting>>
AcquireAnswers(p) ==
    /\ acquiring[p] = "platform"
    /\ acquiring' = [acquiring EXCEPT ![p] = "save"]
    /\ UNCHANGED <<store, in_flight, waiters, cookie, setting>>
AcquireSaves(p) ==
    /\ acquiring[p] = "save"
    /\ store' = SsoCookieVendor(TRUE)
    /\ acquiring' = [acquiring EXCEPT ![p] = "idle"]
    /\ UNCHANGED <<in_flight, waiters, cookie, setting>>

(* UnsupportedConfiguration, Cancelled, CookieNameMismatch, or an error of *)
(* the repository.                                                         *)
AcquireFails(p) ==
    /\ acquiring[p] # "idle"
    /\ acquiring' = [acquiring EXCEPT ![p] = "idle"]
    /\ UNCHANGED <<store, in_flight, waiters, cookie, setting>>

Acquire(p) == AcquireReads(p) \/ AcquireAnswers(p) \/ AcquireSaves(p) \/ AcquireFails(p)

-----------------------------------------------------------------------------
(* handle(): the stored cookies are injected and the next layer runs. *)
Inject(r) ==
    /\ CookieAt(r, "idle") /\ CookieGoto(r, "inner")
    /\ UNCHANGED <<store, in_flight, waiters, acquiring, setting>>

(* The next layer returned: a redirect of the first attempt is looked at,  *)
(* everything else is handed on.                                           *)
Redirected(r) ==
    /\ CookieAt(r, "inner") /\ ~cookie[r].retried
    /\ CookieGoto(r, "redirected")
    /\ UNCHANGED <<store, in_flight, waiters, acquiring, setting>>
Passed(r) ==
    /\ CookieAt(r, "inner") /\ CookieGoto(r, "done")
    /\ UNCHANGED <<store, in_flight, waiters, acquiring, setting>>

(* A configuration that cannot be read needs no bootstrap. *)
CheckBootstrap(r) ==
    /\ CookieAt(r, "redirected")
    /\ \/ NeedsBootstrap /\ CookieGoto(r, "dedupe")
       \/ CookieGoto(r, "done")
    /\ UNCHANGED <<store, in_flight, waiters, acquiring, setting>>

(* Mutants of Dedupe: the entry is not inserted; the Notify is enabled     *)
(* only after the map has been unlocked.                                   *)
DedupeWithoutEntry(r) ==
    /\ CookieAt(r, "dedupe")
    /\ CookieGoto(r, "acquire") /\ acquiring' = [acquiring EXCEPT ![r] = "read"]
    /\ in_flight' = TRUE /\ UNCHANGED <<store, waiters, setting>>
DedupeNotEnabled(r) ==
    /\ CookieAt(r, "dedupe")
    /\ IF in_flight
       THEN CookieGoto(r, "wait") /\ UNCHANGED <<in_flight, waiters, acquiring>>
       ELSE /\ CookieGoto(r, "acquire") /\ in_flight' = TRUE
            /\ acquiring' = [acquiring EXCEPT ![r] = "read"] /\ UNCHANGED waiters
    /\ UNCHANGED <<store, setting>>
(* Under the lock of the map: wait for the request that acquires, enabled  *)
(* before the lock is released, or become that request.                    *)
Dedupe(r) ==
    /\ CookieAt(r, "dedupe")
    /\ IF in_flight
       THEN /\ waiters' = waiters \cup {r} /\ CookieGoto(r, "wait")
            /\ UNCHANGED <<in_flight, acquiring>>
       ELSE /\ in_flight' = TRUE /\ CookieGoto(r, "acquire")
            /\ acquiring' = [acquiring EXCEPT ![r] = "read"]
            /\ UNCHANGED waiters
    /\ UNCHANGED <<store, setting>>

(* The acquisition is over, whatever came of it: the entry goes and        *)
(* everybody retries.                                                      *)
NotifyWaiters(r) ==
    /\ CookieAt(r, "acquire") /\ acquiring[r] = "idle"
    /\ in_flight' = FALSE /\ waiters' = {}
    /\ cookie' = [q \in Requests |-> IF q \in waiters \cup {r}
                                     THEN [cookie[q] EXCEPT !.pc = "retry"] ELSE cookie[q]]
    /\ UNCHANGED <<store, acquiring, setting>>

(* The clone is sent with the cookies that are stored now; without a clone *)
(* the redirect is the response.                                           *)
Resend(r) ==
    /\ CookieAt(r, "retry") /\ Clonable(r)
    /\ cookie' = [cookie EXCEPT ![r] = [pc |-> "inner", retried |-> TRUE]]
    /\ UNCHANGED <<store, in_flight, waiters, acquiring, setting>>
ReturnRedirect(r) ==
    /\ CookieAt(r, "retry") /\ ~Clonable(r) /\ CookieGoto(r, "done")
    /\ UNCHANGED <<store, in_flight, waiters, acquiring, setting>>

(* The request's future is dropped: its Notified is deregistered, and the  *)
(* entry of an acquirer stays in the map.                                  *)
CookieDropped(r) ==
    /\ ~CookieAt(r, "idle") /\ ~CookieAt(r, "done")
    /\ CookieAt(r, "acquire") => DropsAcquirers
    /\ CookieGoto(r, "done")
    /\ waiters' = waiters \ {r}
    /\ acquiring' = [acquiring EXCEPT ![r] = "idle"]
    /\ UNCHANGED <<store, in_flight, setting>>

-----------------------------------------------------------------------------
(* The application: get_cookies acquires what is missing, acquire_cookie   *)
(* always does.                                                            *)
GetCookies ==
    /\ acquiring[App] = "idle" /\ NeedsBootstrap
    /\ acquiring' = [acquiring EXCEPT ![App] = "read"]
    /\ UNCHANGED <<store, in_flight, waiters, cookie, setting>>

(* set_communication_type: the cookies are read, and the new configuration *)
(* is saved with them, or without any when they could not be read.  The    *)
(* first version also saves a direct one.                                  *)
SetReads ==
    /\ setting = "idle"
    /\ setting' \in {IF store.cookies THEN "cookies" ELSE "none", "unread"}
    /\ UNCHANGED <<store, in_flight, waiters, cookie, acquiring>>
SetSaves ==
    /\ setting # "idle" /\ setting' = "idle"
    /\ store' = SsoCookieVendor(setting = "cookies")
    /\ UNCHANGED <<in_flight, waiters, cookie, acquiring>>
SetDirect ==
    /\ store' = Direct
    /\ UNCHANGED <<in_flight, waiters, cookie, acquiring, setting>>

AppStep == GetCookies \/ Acquire(App) \/ SetReads \/ SetSaves \/ SetDirect

-----------------------------------------------------------------------------
(* The user is never asked to sign in for two redirected requests at once. *)
OneSignIn ==
    \A r, q \in Requests :
        acquiring[r] # "idle" /\ acquiring[q] # "idle" => r = q

(* "Any previously acquired cookies stored in the repository are preserved  *)
(* across calls" of set_communication_type (client.rs).  They are not, even *)
(* where every read succeeds: the cookies of a sign-in that ends between    *)
(* its read and its save are overwritten.                                   *)
CookiesPreserved ==
    [][SetSaves /\ setting # "unread" /\ store.cookies => store'.cookies]_cookieVars

(* A request that waits is registered, and the request it waits for is     *)
(* still to notify it: no wake-up is lost between the lock and the wait.   *)
WaiterIsNotified ==
    \A r \in Requests : CookieAt(r, "wait") =>
        r \in waiters /\ \E q \in Requests : CookieAt(q, "acquire")
=============================================================================
