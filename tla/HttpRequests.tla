---------------------------- MODULE HttpRequests ----------------------------
(***************************************************************************)
(* The requests that an ApiClient sends through its chain of middlewares.  *)
(* A request is plain, or needs no token (its extensions hold no           *)
(* AuthRequired::Bearer), or streams its body, so that try_clone() returns *)
(* None and no layer can send it twice.                                    *)
(***************************************************************************)
CONSTANTS
    Requests,    \* the requests
    NoRequest    \* no request

ASSUME RequestsAssumption == NoRequest \notin Requests

VARIABLE kind    \* kind[r]: what sort of request r is; it never changes

Kinds == {"plain", "anonymous", "streaming"}

NeedsToken(r) == kind[r] # "anonymous"
Clonable(r) == kind[r] # "streaming"
=============================================================================
