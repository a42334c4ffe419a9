------------------------------- MODULE MCNoise -------------------------------
(* Small instances of NoiseSession, of two nodes. *)
EXTENDS NoiseSession, TLC

NodeSymmetry == Permutations(Nodes) \cup Permutations(Senders)

(* Bound: one node calls send() as often as it may, the other one once. *)
OneSendsMore == \E n \in Nodes : sent'[n] < 2
=============================================================================
