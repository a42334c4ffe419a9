----------------------------- MODULE LockStates -----------------------------
(* The lock state of a user with the date it was entered (message.rs). *)
EXTENDS Naturals

CONSTANT None   \* nothing recorded, persisted, discovered or configured

LockState == {"Locked", "Unlocked"}
TimestampedLockState == [lock : LockState, at : Nat]

ASSUME NoneIsNoLockState == None \notin TimestampedLockState \cup Nat

(* A user nothing is recorded for counts as date 0. *)
DateOf(r) == IF r = None THEN 0 ELSE r.at

(* Mutant of Supersedes: equal dates are left alone. *)
SupersedesStrictly(s, r) == s.at > DateOf(r)

(* Whether s, as reported by a peer, supersedes the record r: a newer date
   wins, and equal dates are broken toward Locked. *)
Supersedes(s, r) ==
    \/ s.at > DateOf(r)
    \/ /\ s.at = DateOf(r) /\ s.lock = "Locked"
       /\ r # None /\ r.lock = "Unlocked"
=============================================================================
