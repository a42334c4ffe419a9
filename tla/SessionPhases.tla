--------------------------- MODULE SessionPhases ---------------------------
(***************************************************************************)
(* What SessionManager of the access connector promises its callers about  *)
(* the phases of a session and the secrets it holds: a phase that is       *)
(* Active comes with secrets, renewals keep the secrets they replace, and  *)
(* Revoked and Closed are final and hold none.                             *)
(***************************************************************************)
VARIABLES phase, secrets

vars == <<phase, secrets>>

Terminal == {"Revoked", "Closed"}
Live == {"Authenticating", "Active", "Expired"}

Init == phase = "Authenticating" /\ secrets = FALSE

Authenticate == phase \in Live /\ phase' = "Authenticating" /\ UNCHANGED secrets
Succeed == phase = "Authenticating" /\ phase' = "Active" /\ secrets' = TRUE
Fail == phase = "Authenticating" /\ phase' = "Expired" /\ UNCHANGED secrets
Reject == phase = "Authenticating" /\ phase' = "Revoked" /\ secrets' = FALSE
Close == phase \in Live /\ phase' = "Closed" /\ secrets' = FALSE

Next == Authenticate \/ Succeed \/ Fail \/ Reject \/ Close

Spec == Init /\ [][Next]_vars
=============================================================================
