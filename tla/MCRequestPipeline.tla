-------------------------- MODULE MCRequestPipeline --------------------------
EXTENDS RequestPipeline

CONSTANT MayDiffer   \* bound: the requests that need not be plain ones

(* Bound: the application makes one call at a time. *)
OneCall == acquiring[App] = "idle" \/ setting = "idle"

MCInit == Init /\ \A r \in Requests \ MayDiffer : kind[r] = "plain"
MCSpec == MCInit /\ [][Next /\ OneCall']_vars /\ Fairness
=============================================================================
