------------------------ MODULE MCCredentialRotation ------------------------
(***************************************************************************)
(* Small instances of CredentialRotation.  MaxDisturbances bounds how many *)
(* things go wrong, in any combination, in one behaviour: API calls that   *)
(* fail in transit, crashes, edits, shutdowns, revocations, and connectors *)
(* that are offline at one time.  Leases may expire at any time.           *)
(***************************************************************************)
EXTENDS CredentialRotation

CONSTANT MaxDisturbances

Disturbances ==
    faults + crashes + vault.edits + Cardinality(cancel)
    + Cardinality({c \in Connectors : ~Live(c)}) + Cardinality(Connectors \ online)

MCNext == Next /\ Disturbances' <= MaxDisturbances
MCSpec == Init /\ [][MCNext]_vars /\ Fairness
=============================================================================
