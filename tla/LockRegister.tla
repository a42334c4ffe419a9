---------------------------- MODULE LockRegister ----------------------------
(***************************************************************************)
(* What the shared unlock protocol promises about the record each device   *)
(* keeps of a user's lock state: a last-writer-wins register.  A record    *)
(* changes because its own device made a newer state, because it took over *)
(* a state some device made and that supersedes it, or because the process *)
(* was reloaded and the record is gone.                                    *)
(***************************************************************************)
EXTENDS LockStates

CONSTANTS Peers, Users

VARIABLES
    reg,    \* reg[p][u]: the record of device p for user u, or None
    made    \* made[u]: every state some device entered for u

RegInit ==
    /\ reg = [p \in Peers |-> [u \in Users |-> None]]
    /\ made = [u \in Users |-> {}]

(* The user changes the lock state on device p. *)
Make(p, u) ==
    LET s == reg'[p][u] IN
      /\ s \in TimestampedLockState
      /\ s.at > DateOf(reg[p][u])
      /\ reg' = [reg EXCEPT ![p][u] = s]
      /\ made' = [made EXCEPT ![u] = @ \cup {s}]

(* Device p takes over states made before, for some of its users. *)
Adopt(p) ==
    /\ reg' \in [Peers -> [Users -> TimestampedLockState \cup {None}]]
    /\ \A q \in Peers \ {p} : reg'[q] = reg[q]
    /\ \A u \in Users :
         \/ reg'[p][u] = reg[p][u]
         \/ reg'[p][u] \in made[u] /\ Supersedes(reg'[p][u], reg[p][u])
    /\ UNCHANGED made

(* The process of p is reloaded. *)
Forget(p) ==
    /\ reg' = [reg EXCEPT ![p] = [u \in Users |-> None]]
    /\ UNCHANGED made

RegNext ==
    \E p \in Peers :
        \/ \E u \in Users : Make(p, u)
        \/ Adopt(p)
        \/ Forget(p)

RegSpec == RegInit /\ [][RegNext]_<<reg, made>>
=============================================================================
