--------------------------- MODULE MCSharedUnlock ---------------------------
(* Small instances of SharedUnlock, of one user with one server.  Pair: the
   desktop app leads the browser extension.  Web: the extension leads a page
   of the user's vault. *)
EXTENDS SharedUnlock

OwnKind == [p \in Peers |-> p]
OneVault == [p \in Peers |-> [u \in Users |-> "eu"]]
AllAccounts == [p \in Peers |-> Users]
AllKinds == [p \in Peers |-> [u \in Users |-> Kinds]]

PairLeader == [p \in Peers |-> IF p = "browser" THEN "desktop" ELSE None]
NoOrigin == [p \in Peers |-> None]

WebLeader == [p \in Peers |-> IF p = "web" THEN "browser" ELSE None]
WebOrigin == [p \in Peers |-> IF p = "web" THEN "eu" ELSE None]

(* Bounds: the clock moves forward, as long as there is an event left for it *)
(* to date, or a process is reloaded or shares anew.                         *)
Forward == now' # now => now' > now /\ events < MaxEvents
OneDisturbance == now' = 1 \/ changes' = 0
=============================================================================
