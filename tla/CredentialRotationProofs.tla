---------------------- MODULE CredentialRotationProofs ----------------------
(***************************************************************************)
(* Proofs about CredentialRotation, for any number of connectors, claims,  *)
(* faults, crashes and edits: its types, that a success on record is true  *)
(* of the vault and the target, and that no edit of a user is undone.      *)
(***************************************************************************)
EXTENDS CredentialRotation, TLAPS

(* The item as a connector or a delayed write knows it: if it is still at  *)
(* that revision, it has those edits.                                      *)
Fresh(rev, edits) == rev <= vault.rev /\ (rev = vault.rev => edits = vault.edits)

(* What a connector may conclude from where it is. *)
ConOK(c) ==
    /\ con[c].pc \notin {"idle", "exited"} => con[c].att # 0
    /\ con[c].att <= job.claims
    /\ con[c].pc \in {"fetch", "put", "recheck"} => con[c].att \in applied
    /\ con[c].pc \in {"terminate", "terminating", "succeed"} =>
         con[c].att \in applied /\ con[c].att \in written
    /\ con[c].pc = "put" => Fresh(con[c].rev, con[c].edits)

(* What a request means that the server has not processed yet. *)
LateOK(m) ==
    /\ m.att <= job.claims
    /\ m.what = "put" => Fresh(m.rev, m.edits)
    /\ m.what = "report" /\ m.outcome = "success" => m.att \in applied /\ m.att \in written

(* Attempts are numbered by their claims; what the present owner did is    *)
(* what the vault and the target show.                                     *)
ServerOK ==
    /\ job.owner <= job.claims
    /\ \A a \in applied \cup written : a <= job.claims
    /\ \A a \in written : job.owner = a => vault.pw = a
    /\ \A a \in applied : job.owner = a /\ ~overrun => target = a
    /\ vault.pw # 0 => vault.pw \in written
    /\ \A a \in Attempts : reported[a] = "success" => a \in applied /\ a \in written

Inv ==
    /\ TypeOK /\ ServerOK
    /\ \A c \in Connectors : ConOK(c)
    /\ \A m \in late : LateOK(m)

-----------------------------------------------------------------------------
(* How a connector's record changes *)

Moves(c) ==
    /\ con' \in [Connectors -> Connector]
    /\ \A d \in Connectors \ {c} : con'[d] = con[d]

LEMMA ConFields ==
    ASSUME TypeOK, NEW c \in Connectors
    PROVE  /\ con[c] \in Connector /\ con[c].pc \in Pcs /\ con[c].att \in 0 .. MaxAttempts
           /\ con[c].tries \in 0 .. MaxTries - 1 /\ con[c].sync \in Syncs
           /\ con[c].rev \in Nat /\ con[c].edits \in 0 .. MaxEdits
BY DEF TypeOK, Connector

LEMMA IdleType == Idle \in Connector
BY RotationAssumption DEF Idle, Connector, Pcs, Syncs

LEMMA GoToMoves ==
    ASSUME TypeOK, NEW c \in Connectors, NEW pc \in Pcs, GoTo(c, pc)
    PROVE  /\ Moves(c) /\ con'[c].pc = pc /\ con'[c].att = con[c].att
           /\ con'[c].rev = con[c].rev /\ con'[c].edits = con[c].edits
<1>1. 0 \in 0 .. MaxTries - 1
  BY RotationAssumption
<1>. DEFINE rec == [con[c] EXCEPT !.pc = pc, !.tries = 0]
<1>0. con[c] \in Connector /\ con \in [Connectors -> Connector]
  BY DEF TypeOK
<1>2. rec \in Connector /\ rec.pc = pc /\ rec.att = con[c].att
      /\ rec.rev = con[c].rev /\ rec.edits = con[c].edits
  BY <1>0, <1>1 DEF Connector
<1>3. con' = [con EXCEPT ![c] = rec]
  BY <1>0 DEF GoTo
<1>. HIDE DEF rec
<1>. QED  BY <1>0, <1>2, <1>3 DEF Moves

LEMMA FailMoves ==
    ASSUME TypeOK, NEW c \in Connectors, NEW sync \in Syncs, Fail(c, sync)
    PROVE  Moves(c) /\ con'[c].pc = "fail" /\ con'[c].att = con[c].att /\ con'[c].sync = sync
<1>1. "fail" \in Pcs
  BY DEF Pcs
<1>. DEFINE rec == [con[c] EXCEPT !.pc = "fail", !.sync = sync]
<1>0. con[c] \in Connector /\ con \in [Connectors -> Connector]
  BY DEF TypeOK
<1>2. rec \in Connector /\ rec.pc = "fail" /\ rec.att = con[c].att /\ rec.sync = sync
  BY <1>0, <1>1 DEF Connector
<1>3. con' = [con EXCEPT ![c] = rec]
  BY <1>0 DEF Fail
<1>. HIDE DEF rec
<1>. QED  BY <1>0, <1>2, <1>3 DEF Moves

LEMMA AgainMoves ==
    ASSUME TypeOK, NEW c \in Connectors, MoreTries(c), Again(c)
    PROVE  /\ Moves(c) /\ con'[c].pc = con[c].pc /\ con'[c].att = con[c].att
           /\ con'[c].rev = con[c].rev /\ con'[c].edits = con[c].edits
           /\ con'[c].sync = con[c].sync
<1>1. con[c].tries + 1 \in 0 .. MaxTries - 1
  BY ConFields, RotationAssumption DEF MoreTries
<1>. QED  BY <1>1 DEF TypeOK, Connector, Again, Moves

LEMMA AgainAtMoves ==
    ASSUME TypeOK, NEW c \in Connectors, NEW pc \in Pcs, MoreTries(c),
           con' = [con EXCEPT ![c].pc = pc, ![c].tries = @ + 1]
    PROVE  /\ Moves(c) /\ con'[c].pc = pc /\ con'[c].att = con[c].att
           /\ con'[c].sync = con[c].sync
<1>1. con[c].tries + 1 \in 0 .. MaxTries - 1
  BY ConFields, RotationAssumption DEF MoreTries
<1>. QED  BY <1>1 DEF TypeOK, Connector, Moves

LEMMA FinishMoves ==
    ASSUME TypeOK, NEW c \in Connectors, NEW exits, Finish(c, exits)
    PROVE  /\ Moves(c) /\ con'[c].pc \in {"idle", "exited"} /\ con'[c].att = 0
           /\ ended' = ended \cup {con[c].att}
<1>. DEFINE rec == [Idle EXCEPT !.pc = IF exits THEN "exited" ELSE "idle"]
<1>1. rec \in Connector /\ rec.pc \in {"idle", "exited"} /\ rec.att = 0
  BY IdleType DEF Idle, Connector, Pcs
<1>2. con' = [con EXCEPT ![c] = rec] /\ ended' = ended \cup {con[c].att}
  BY DEF Finish, Att
<1>. HIDE DEF rec
<1>. QED  BY <1>1, <1>2 DEF TypeOK, Moves

LEMMA FetchedMoves ==
    ASSUME TypeOK, NEW c \in Connectors, NEW pc \in Pcs, Fetched(c, pc)
    PROVE  /\ Moves(c) /\ con'[c].pc = pc /\ con'[c].att = con[c].att
           /\ con'[c].rev = vault.rev /\ con'[c].edits = vault.edits
<1>1. 0 \in 0 .. MaxTries - 1
  BY RotationAssumption
<1>4. vault.rev \in Nat /\ vault.edits \in 0 .. MaxEdits
  BY DEF TypeOK
<1>. DEFINE rec == [con[c] EXCEPT !.pc = pc, !.tries = 0, !.rev = vault.rev, !.edits = vault.edits]
<1>0. con[c] \in Connector /\ con \in [Connectors -> Connector]
  BY DEF TypeOK
<1>2. rec \in Connector /\ rec.pc = pc /\ rec.att = con[c].att
      /\ rec.rev = vault.rev /\ rec.edits = vault.edits
  BY <1>0, <1>1, <1>4 DEF Connector
<1>3. con' = [con EXCEPT ![c] = rec]
  BY <1>0 DEF Fetched
<1>. HIDE DEF rec
<1>. QED  BY <1>0, <1>2, <1>3 DEF Moves

-----------------------------------------------------------------------------
(* The frame: history grows, and the item only gets newer. *)

Forward ==
    /\ applied \subseteq applied' /\ written \subseteq written'
    /\ job'.claims \in Nat /\ job.claims <= job'.claims
    /\ vault'.rev \in Nat
    /\ vault' = vault \/ vault'.rev > vault.rev

LEMMA FreshForward ==
    ASSUME TypeOK, Forward, NEW rev \in Nat, NEW edits, Fresh(rev, edits)
    PROVE  rev <= vault'.rev /\ (rev = vault'.rev => edits = vault'.edits)
<1>1. vault.rev \in Nat
  BY DEF TypeOK
<1>. QED  BY <1>1 DEF Forward, Fresh

LEMMA ConForward ==
    ASSUME Inv, Forward, NEW d \in Connectors, con'[d] = con[d]
    PROVE  ConOK(d)'
<1>1. con[d].att \in Nat /\ con[d].rev \in Nat /\ job.claims \in Nat
  BY ConFields DEF Inv, TypeOK
<1>2. ConOK(d)
  BY DEF Inv
<1>3. con[d].pc = "put" => Fresh(con[d].rev, con[d].edits)'
  BY <1>1, <1>2, FreshForward DEF Inv, ConOK, Fresh
<1>. QED  BY <1>1, <1>2, <1>3 DEF ConOK, Forward

LEMMA LateFields ==
    ASSUME TypeOK, NEW m \in late
    PROVE  /\ m \in Request /\ m.att \in Attempts /\ m.what \in {"rotate", "put", "report"}
           /\ m.what = "put" => m.rev \in Nat /\ m.edits \in 0 .. MaxEdits
           /\ m.what = "report" => m.outcome \in Outcomes
BY DEF TypeOK, Request

LEMMA LateForward ==
    ASSUME Inv, Forward, NEW m \in late
    PROVE  LateOK(m)'
<1>1. m.att \in Nat /\ job.claims \in Nat
  BY LateFields, RotationAssumption DEF Inv, TypeOK, Attempts
<1>2. LateOK(m)
  BY DEF Inv
<1>3. m.what = "put" => Fresh(m.rev, m.edits)'
  BY <1>2, LateFields, FreshForward DEF Inv, LateOK, Fresh
<1>. QED  BY <1>1, <1>2, <1>3 DEF LateOK, Forward

-----------------------------------------------------------------------------
(* What the server and the target do *)

LEMMA PutForward ==
    ASSUME Inv, NEW a \in Attempts, NEW rev \in Nat, NEW edits \in 0 .. MaxEdits,
           a <= job.claims, Fresh(rev, edits), Put(a, rev, edits)
    PROVE  /\ vault' \in [pw : 0 .. MaxAttempts, rev : Nat, edits : 0 .. MaxEdits]
           /\ written' \subseteq Attempts /\ written \subseteq written'
           /\ \A b \in written' : b \in written \/ b = a
           /\ vault' = vault \/ vault'.rev > vault.rev
           /\ vault'.rev \in Nat /\ vault'.edits = vault.edits
           /\ \A b \in written' : job.owner = b => vault'.pw = b
           /\ vault'.pw # 0 => vault'.pw \in written'
           /\ Owns(a) /\ vault.rev = rev => a \in written'
<1>1. /\ vault \in [pw : 0 .. MaxAttempts, rev : Nat, edits : 0 .. MaxEdits]
      /\ written \subseteq Attempts /\ vault.rev \in Nat
      /\ \A b \in written : job.owner = b => vault.pw = b
      /\ vault.pw # 0 => vault.pw \in written
  BY DEF Inv, TypeOK, ServerOK
<1>2. CASE Owns(a) /\ vault.rev = rev
  <2>1. vault' = [pw |-> a, rev |-> rev + 1, edits |-> edits] /\ written' = written \cup {a}
    BY <1>2 DEF Put
  <2>2. job.owner = a /\ edits = vault.edits
    BY <1>2 DEF Owns, Fresh
  <2>3. a \in 0 .. MaxAttempts
    BY RotationAssumption DEF Attempts
  <2>. QED  BY <1>1, <1>2, <2>1, <2>2, <2>3
<1>3. CASE ~(Owns(a) /\ vault.rev = rev)
  <2>1. UNCHANGED <<vault, written>>
    BY <1>3 DEF Put
  <2>. QED  BY <1>1, <1>3, <2>1
<1>. QED  BY <1>2, <1>3

LEMMA RecordForward ==
    ASSUME Inv, NEW a \in Attempts, NEW outcome \in Outcomes, Record(a, outcome),
           outcome = "success" => a \in applied /\ a \in written
    PROVE  /\ job' \in [state : {"open", "claimed", "closed"}, owner : 0 .. MaxAttempts,
                        claims : 0 .. MaxAttempts]
           /\ job'.owner = job.owner /\ job'.claims = job.claims
           /\ reported' \in [Attempts -> Outcomes \cup {"none"}]
           /\ \A b \in Attempts : reported'[b] = "success" => b \in applied /\ b \in written
BY DEF Inv, TypeOK, ServerOK, Record

LEMMA RotateForward ==
    ASSUME Inv, NEW a \in Attempts, Rotate(a)
    PROVE  /\ target' \in 0 .. MaxAttempts /\ applied' = applied \cup {a}
           /\ applied' \subseteq Attempts /\ overrun' \in BOOLEAN
           /\ \A b \in applied' : job.owner = b /\ ~overrun' => target' = b
<1>1. target' = a /\ applied' = applied \cup {a} /\ overrun' = (overrun \/ ~Owns(a))
  BY DEF Rotate
<1>2. a \in 0 .. MaxAttempts
  BY RotationAssumption DEF Attempts
<1>3. \A b \in applied' : job.owner = b /\ ~overrun' => target' = b
  <2>. SUFFICES ASSUME NEW b \in applied', job.owner = b, ~overrun' PROVE a = b
    BY <1>1
  <2>1. Owns(a)
    BY <1>1
  <2>. QED  BY <2>1 DEF Owns
<1>4. applied \subseteq Attempts
  BY DEF Inv, TypeOK
<1>5. overrun' \in BOOLEAN
  BY <1>1, Zenon
<1>. QED  BY <1>1, <1>2, <1>3, <1>4, <1>5

(* The variables that no argument is about. *)
EnvType ==
    /\ lapsed \subseteq Attempts
    /\ session \in [Connectors -> {"live", "revoked"}]
    /\ cancel \subseteq Connectors /\ online \subseteq Connectors
    /\ faults \in 0 .. MaxFaults /\ crashes \in 0 .. MaxCrashes
    /\ ended \subseteq Attempts

ServerType ==
    /\ job \in [state : {"open", "claimed", "closed"}, owner : 0 .. MaxAttempts,
                claims : 0 .. MaxAttempts]
    /\ reported \in [Attempts -> Outcomes \cup {"none"}]
    /\ vault \in [pw : 0 .. MaxAttempts, rev : Nat, edits : 0 .. MaxEdits]
    /\ target \in 0 .. MaxAttempts
    /\ applied \subseteq Attempts /\ written \subseteq Attempts /\ overrun \in BOOLEAN

LEMMA TypeParts ==
    TypeOK <=> /\ ServerType /\ EnvType /\ late \subseteq Request
               /\ con \in [Connectors -> Connector]
BY DEF TypeOK, ServerType, EnvType

(* The parts of the new state that suffice for the invariant. *)
LEMMA Combine ==
    ASSUME Inv, Forward, ServerType', ServerOK', EnvType',
           con' \in [Connectors -> Connector], late' \subseteq Request,
           \A d \in Connectors : con'[d] = con[d] \/ ConOK(d)',
           \A m \in late' : m \in late \/ LateOK(m)'
    PROVE  Inv'
<1>1. TypeOK'
  BY DEF TypeOK, ServerType, EnvType
<1>2. \A d \in Connectors : ConOK(d)'
  BY ConForward
<1>3. \A m \in late' : LateOK(m)'
  BY LateForward
<1>. QED  BY <1>1, <1>2, <1>3 DEF Inv

(* Neither the server nor the target does anything. *)
Still == UNCHANGED <<job, reported, vault, target, applied, written, overrun>>

LEMMA StillGood ==
    ASSUME Inv, Still
    PROVE  Forward /\ ServerType' /\ ServerOK'
<1>1. ServerType /\ job.claims \in Nat /\ vault.rev \in Nat
  BY RotationAssumption DEF Inv, TypeOK, ServerType
<1>2. Forward
  BY <1>1 DEF Forward, Still
<1>. QED  BY <1>1, <1>2 DEF Still, ServerType, ServerOK, Inv

LEMMA EnvStep ==
    ASSUME TypeOK, UNCHANGED env,
           UNCHANGED faults \/ (faults < MaxFaults /\ faults' = faults + 1),
           UNCHANGED ended \/ \E a \in Attempts : ended' = ended \cup {a}
    PROVE  EnvType'
<1>1. faults' \in 0 .. MaxFaults
  BY RotationAssumption DEF TypeOK
<1>2. ended' \subseteq Attempts
  BY DEF TypeOK
<1>. QED  BY <1>1, <1>2 DEF env, EnvType, TypeOK

(* A connector that executes an attempt. *)
LEMMA Executes ==
    ASSUME Inv, NEW c \in Connectors, con[c].pc \notin {"idle", "exited"}
    PROVE  Att(c) \in Attempts /\ Att(c) <= job.claims /\ Att(c) = con[c].att
<1>1. con[c].att # 0 /\ con[c].att <= job.claims
  BY DEF Inv, ConOK
<1>2. con[c].att \in 0 .. MaxAttempts
  BY ConFields DEF Inv
<1>. QED  BY <1>1, <1>2, RotationAssumption DEF Att, Attempts

LEMMA FinishGood ==
    ASSUME Inv, NEW c \in Connectors, con[c].pc \notin {"idle", "exited"},
           NEW exits, Finish(c, exits), job'.claims \in Nat
    PROVE  Moves(c) /\ ConOK(c)' /\ \E a \in Attempts : ended' = ended \cup {a}
<1>1. /\ Moves(c) /\ con'[c].pc \in {"idle", "exited"} /\ con'[c].att = 0
      /\ ended' = ended \cup {con[c].att}
  BY FinishMoves DEF Inv
<1>2. con[c].att \in Attempts
  BY Executes
<1>. QED  BY <1>1, <1>2 DEF ConOK

(* A failure to report says nothing yet of the vault or the target. *)
LEMMA FailGood ==
    ASSUME Inv, NEW c \in Connectors, con[c].pc \notin {"idle", "exited"},
           NEW sync \in Syncs, Fail(c, sync), job'.claims = job.claims
    PROVE  Moves(c) /\ ConOK(c)'
<1>1. Moves(c) /\ con'[c].pc = "fail" /\ con'[c].att = con[c].att
  BY FailMoves DEF Inv
<1>2. con[c].att # 0 /\ con[c].att <= job.claims
  BY DEF Inv, ConOK
<1>. QED  BY <1>1, <1>2 DEF ConOK

(* Another try of the same step, in the same place. *)
LEMMA AgainGood ==
    ASSUME Inv, Forward, NEW c \in Connectors, MoreTries(c), Again(c)
    PROVE  Moves(c) /\ ConOK(c)'
<1>1. /\ Moves(c) /\ con'[c].pc = con[c].pc /\ con'[c].att = con[c].att
      /\ con'[c].rev = con[c].rev /\ con'[c].edits = con[c].edits
  BY AgainMoves DEF Inv
<1>2. con[c].att \in Nat /\ con[c].rev \in Nat /\ job.claims \in Nat
  BY ConFields, RotationAssumption DEF Inv, TypeOK
<1>3. ConOK(c)
  BY DEF Inv
<1>4. con[c].pc = "put" =>
        con[c].rev <= vault'.rev /\ (con[c].rev = vault'.rev => con[c].edits = vault'.edits)
  BY <1>2, <1>3, FreshForward DEF Inv, ConOK
<1>5. con'[c].pc = "put" => Fresh(con[c].rev, con[c].edits)'
  BY <1>1, <1>4 DEF Fresh
<1>. QED  BY <1>1, <1>2, <1>3, <1>5 DEF ConOK, Forward

(* A step that only moves the connector. *)
LEMMA MoveGood ==
    ASSUME Inv, NEW c \in Connectors, Moves(c), EnvType', Still, UNCHANGED late, ConOK(c)'
    PROVE  Inv'
<1>1. late' \subseteq Request
  BY DEF Inv, TypeOK
<1>. QED  BY <1>1, StillGood, Combine DEF Moves

-----------------------------------------------------------------------------
(* One lemma per step *)

LEMMA ClaimGood ==
    ASSUME Inv, NEW c \in Connectors, Claim(c)
    PROVE  Inv'
<1>. DEFINE a == job.claims + 1
            rec == [Idle EXCEPT !.pc = "claimed", !.att = a]
<1>1. /\ job' = [state |-> "claimed", owner |-> a, claims |-> a]
      /\ con' = [con EXCEPT ![c] = rec] \/ UNCHANGED con
      /\ UNCHANGED faults \/ (faults < MaxFaults /\ faults' = faults + 1)
      /\ UNCHANGED <<reported, vault, target, late, env, history>>
      /\ job.claims \in Nat /\ a \in Attempts /\ a \in 0 .. MaxAttempts
  BY RotationAssumption DEF Claim, Inv, TypeOK, Attempts
<1>2. rec \in Connector /\ rec.pc = "claimed" /\ rec.att = a
  <2>1. "claimed" \in Pcs
    BY DEF Pcs
  <2>. QED  BY <1>1, <2>1, IdleType DEF Idle, Connector
<1>. HIDE DEF rec
<1>3. Forward
  BY <1>1 DEF Forward, history, Inv, TypeOK
<1>4. ServerType'
  BY <1>1 DEF Inv, TypeOK, ServerType, history
<1>5. ServerOK'
  <2>1. /\ ServerOK /\ \A b \in applied \cup written : b \in Nat
        /\ UNCHANGED <<applied, written, overrun, reported, vault, target>>
    BY <1>1, RotationAssumption DEF Inv, TypeOK, Attempts, history
  <2>2. \A b \in applied \cup written : b < a
    BY <1>1, <2>1 DEF ServerOK
  <2>3. job'.owner = a /\ job'.claims = a /\ a \in Nat
    BY <1>1
  <2>4. \A b \in applied \cup written : job'.owner # b /\ b <= job'.claims
    BY <2>1, <2>2, <2>3
  <2>. QED  BY <2>1, <2>3, <2>4 DEF ServerOK
<1>6. EnvType'
  BY <1>1, EnvStep DEF Inv, history
<1>7. con' \in [Connectors -> Connector]
      /\ \A d \in Connectors : con'[d] = con[d] \/ (con'[d] = rec)
  BY <1>1, <1>2 DEF Inv, TypeOK
<1>8. \A d \in Connectors : con'[d] = con[d] \/ ConOK(d)'
  BY <1>1, <1>2, <1>7 DEF ConOK
<1>9. late' \subseteq Request /\ late' = late
  BY <1>1 DEF Inv, TypeOK
<1>. QED  BY <1>3, <1>4, <1>5, <1>6, <1>7, <1>8, <1>9, Combine

LEMMA ExitGood ==
    ASSUME Inv, NEW c \in Connectors, Exit(c)
    PROVE  Inv'
<1>1. /\ con' = [con EXCEPT ![c].pc = "exited"] /\ Still /\ UNCHANGED <<late, env, faults, ended>>
  BY DEF Exit, Still, server, history
<1>2. Moves(c) /\ con'[c].pc = "exited" /\ con'[c].att = con[c].att
  <2>1. "exited" \in Pcs
    BY DEF Pcs
  <2>. QED  BY <1>1, <2>1 DEF Inv, TypeOK, Connector, Moves
<1>3. ConOK(c)'
  BY <1>1, <1>2 DEF ConOK, Inv, Still
<1>. QED  BY <1>1, <1>2, <1>3, EnvStep, MoveGood DEF Inv

LEMMA StartGood ==
    ASSUME Inv, NEW c \in Connectors, StartAttempt(c) \/ Resolve(c)
    PROVE  Inv'
<1>1. /\ con[c].pc \in {"claimed", "resolve"}
      /\ (\E pc \in {"preflight", "rotate"} : GoTo(c, pc)) \/ Fail(c, "unchanged")
      /\ Still /\ UNCHANGED <<late, env, faults, ended>>
  BY DEF StartAttempt, Resolve, At, Still, server, history
<1>2. CASE Fail(c, "unchanged")
  <2>1. "unchanged" \in Syncs /\ job'.claims = job.claims
    BY <1>1 DEF Syncs, Still
  <2>. QED  BY <1>1, <1>2, <2>1, FailGood, EnvStep, MoveGood DEF Inv
<1>3. ASSUME NEW pc \in {"preflight", "rotate"}, GoTo(c, pc) PROVE Inv'
  <2>1. pc \in Pcs
    BY DEF Pcs
  <2>2. Moves(c) /\ con'[c].pc = pc /\ con'[c].att = con[c].att
    BY <1>3, <2>1, GoToMoves DEF Inv
  <2>3. ConOK(c)'
    BY <1>1, <2>2 DEF ConOK, Inv, Still
  <2>. QED  BY <1>1, <2>2, <2>3, EnvStep, MoveGood DEF Inv
<1>. QED  BY <1>1, <1>2, <1>3

LEMMA FetchGood ==
    ASSUME Inv, NEW c \in Connectors, PreFlight(c) \/ FetchForWrite(c)
    PROVE  Inv'
<1>1. PICK next \in {"resolve", "put"}, bad \in Syncs :
        /\ Fetch(c, next, bad)
        /\ con[c].pc = IF next = "put" THEN "fetch" ELSE "preflight"
  BY DEF PreFlight, FetchForWrite, At, Syncs
<1>2. /\ Still /\ UNCHANGED <<late, env>>
      /\ con[c].pc \notin {"idle", "exited"} /\ job'.claims = job.claims /\ job'.claims \in Nat
      /\ next \in Pcs
  BY <1>1, RotationAssumption DEF Fetch, Still, server, Pcs, Inv, TypeOK
<1>3. \/ Fetched(c, next) /\ UNCHANGED <<faults, ended>>
      \/ Fail(c, bad) /\ UNCHANGED ended
         /\ (UNCHANGED faults \/ (faults < MaxFaults /\ faults' = faults + 1))
      \/ MoreTries(c) /\ Again(c) /\ UNCHANGED ended /\ faults < MaxFaults /\ faults' = faults + 1
      \/ Finish(c, ~Live(c)) /\ UNCHANGED faults
  <2>1. \/ UNCHANGED <<faults, ended>> /\ (Fetched(c, next) \/ Fail(c, bad))
        \/ UNCHANGED faults /\ (Aborts(c) \/ (Fail(c, bad) /\ UNCHANGED ended))
        \/ /\ faults < MaxFaults /\ faults' = faults + 1 /\ UNCHANGED ended
           /\ (MoreTries(c) /\ Again(c)) \/ Fail(c, bad)
    BY <1>1, Zenon DEF Fetch, Retries
  <2>. QED  BY <2>1, Zenon DEF Aborts
<1>4. CASE Fetched(c, next) /\ UNCHANGED <<faults, ended>>
  <2>1. /\ Moves(c) /\ con'[c].pc = next /\ con'[c].att = con[c].att
        /\ con'[c].rev = vault.rev /\ con'[c].edits = vault.edits
    BY <1>2, <1>4, FetchedMoves DEF Inv
  <2>2. vault.rev \in Nat /\ UNCHANGED vault
    BY <1>2 DEF Inv, TypeOK, Still
  <2>3. ConOK(c)'
    BY <1>1, <1>2, <2>1, <2>2 DEF ConOK, Fresh, Inv, Still
  <2>. QED  BY <1>2, <1>4, <2>1, <2>3, EnvStep, MoveGood DEF Inv
<1>5. CASE Fail(c, bad) /\ UNCHANGED ended
           /\ (UNCHANGED faults \/ (faults < MaxFaults /\ faults' = faults + 1))
  BY <1>2, <1>5, FailGood, EnvStep, MoveGood DEF Inv
<1>6. CASE MoreTries(c) /\ Again(c) /\ UNCHANGED ended /\ faults < MaxFaults /\ faults' = faults + 1
  BY <1>2, <1>6, StillGood, AgainGood, EnvStep, MoveGood DEF Inv
<1>7. CASE Finish(c, ~Live(c)) /\ UNCHANGED faults
  BY <1>2, <1>7, FinishGood, EnvStep, MoveGood DEF Inv
<1>. QED  BY <1>3, <1>4, <1>5, <1>6, <1>7

LEMMA GateGood ==
    ASSUME Inv, NEW c \in Connectors, GatePasses(c) \/ GateAborts(c)
    PROVE  Inv'
<1>1. /\ con[c].pc \in {"rotate", "verify", "terminate"}
      /\ Still /\ UNCHANGED <<late, env, faults>>
      /\ job'.claims = job.claims /\ job'.claims \in Nat
  <2>1. con[c].pc \in TargetSteps /\ UNCHANGED <<server, target, late, env, faults>>
        /\ UNCHANGED <<applied, written, overrun>>
    BY DEF GatePasses, GateAborts, history
  <2>2. Still /\ UNCHANGED <<late, env, faults>>
    BY <2>1 DEF Still, server
  <2>3. job.claims \in Nat
    BY RotationAssumption DEF Inv, TypeOK
  <2>. QED  BY <2>1, <2>2, <2>3 DEF TargetSteps, Still
<1>2. CASE GatePasses(c)
  <2>1. con' = [con EXCEPT ![c].pc = InFlight(@)] /\ UNCHANGED ended
    BY <1>2 DEF GatePasses, history
  <2>2. /\ InFlight(con[c].pc) \in Pcs \ {"idle", "exited"}
        /\ InFlight(con[c].pc) \in {"rotating", "verifying", "terminating"}
        /\ InFlight(con[c].pc) = "terminating" => con[c].pc = "terminate"
    BY <1>1 DEF InFlight, Pcs
  <2>3. Moves(c) /\ con'[c].pc = InFlight(con[c].pc) /\ con'[c].att = con[c].att
    BY <2>1, <2>2 DEF Inv, TypeOK, Connector, Moves
  <2>4. ConOK(c)'
    BY <1>1, <2>2, <2>3 DEF ConOK, Inv, Still
  <2>. QED  BY <1>1, <2>1, <2>3, <2>4, EnvStep, MoveGood DEF Inv
<1>3. CASE GateAborts(c)
  <2>1. \/ con[c].pc = "terminate" /\ GoTo(c, "succeed") /\ UNCHANGED ended
        \/ Finish(c, FALSE)
        \/ Finish(c, ~Live(c))
    BY <1>3 DEF GateAborts, At, Aborts
  <2>2. CASE con[c].pc = "terminate" /\ GoTo(c, "succeed") /\ UNCHANGED ended
    <3>1. Moves(c) /\ con'[c].pc = "succeed" /\ con'[c].att = con[c].att
      BY <2>2, GoToMoves DEF Pcs, Inv
    <3>2. ConOK(c)'
      BY <1>1, <2>2, <3>1 DEF ConOK, Inv, Still
    <3>. QED  BY <1>1, <2>2, <3>1, <3>2, EnvStep, MoveGood DEF Inv
  <2>3. CASE Finish(c, FALSE)
    BY <1>1, <2>3, FinishGood, EnvStep, MoveGood DEF Inv
  <2>4. CASE Finish(c, ~Live(c))
    BY <1>1, <2>4, FinishGood, EnvStep, MoveGood DEF Inv
  <2>. QED  BY <2>1, <2>2, <2>3, <2>4
<1>. QED  BY <1>2, <1>3

(* The server writes the item, and nothing else. *)
LEMMA PutGood ==
    ASSUME Inv, NEW a \in Attempts, NEW rev \in Nat, NEW edits \in 0 .. MaxEdits,
           a <= job.claims, Fresh(rev, edits), Put(a, rev, edits),
           UNCHANGED <<job, reported, target, applied, overrun>>
    PROVE  /\ Forward /\ ServerType' /\ ServerOK' /\ job'.claims = job.claims
           /\ job.claims \in Nat
<1>1. /\ vault' \in [pw : 0 .. MaxAttempts, rev : Nat, edits : 0 .. MaxEdits]
      /\ written' \subseteq Attempts /\ written \subseteq written'
      /\ \A b \in written' : b \in written \/ b = a
      /\ vault' = vault \/ vault'.rev > vault.rev
      /\ vault'.rev \in Nat
      /\ \A b \in written' : job.owner = b => vault'.pw = b
      /\ vault'.pw # 0 => vault'.pw \in written'
  BY PutForward
<1>2. ServerType /\ ServerOK /\ job.claims \in Nat
  BY RotationAssumption DEF Inv, TypeOK, ServerType
<1>3. Forward
  BY <1>1, <1>2 DEF Forward
<1>4. ServerType'
  BY <1>1, <1>2 DEF ServerType
<1>5. ServerOK'
  BY <1>1, <1>2 DEF ServerOK
<1>. QED  BY <1>2, <1>3, <1>4, <1>5

(* The server records an outcome, and nothing else. *)
LEMMA RecordGood ==
    ASSUME Inv, NEW a \in Attempts, NEW outcome \in Outcomes, Record(a, outcome),
           outcome = "success" => a \in applied /\ a \in written,
           UNCHANGED <<vault, target, applied, written, overrun>>
    PROVE  /\ Forward /\ ServerType' /\ ServerOK' /\ job'.claims = job.claims
           /\ job.claims \in Nat
<1>1. /\ job' \in [state : {"open", "claimed", "closed"}, owner : 0 .. MaxAttempts,
                   claims : 0 .. MaxAttempts]
      /\ job'.owner = job.owner /\ job'.claims = job.claims
      /\ reported' \in [Attempts -> Outcomes \cup {"none"}]
      /\ \A b \in Attempts : reported'[b] = "success" => b \in applied /\ b \in written
  BY RecordForward
<1>2. ServerType /\ ServerOK /\ job.claims \in Nat /\ vault.rev \in Nat
  BY RotationAssumption DEF Inv, TypeOK, ServerType
<1>3. Forward
  BY <1>1, <1>2 DEF Forward
<1>4. ServerType'
  BY <1>1, <1>2 DEF ServerType
<1>5. ServerOK'
  BY <1>1, <1>2 DEF ServerOK
<1>. QED  BY <1>1, <1>2, <1>3, <1>4, <1>5

(* The target takes a password, and nothing else. *)
LEMMA RotateGood ==
    ASSUME Inv, NEW a \in Attempts, a <= job.claims, Rotate(a),
           UNCHANGED <<job, reported, vault, written>>
    PROVE  /\ Forward /\ ServerType' /\ ServerOK' /\ job'.claims = job.claims
           /\ job.claims \in Nat /\ a \in applied'
<1>1. /\ target' \in 0 .. MaxAttempts /\ applied' = applied \cup {a}
      /\ applied' \subseteq Attempts /\ overrun' \in BOOLEAN
      /\ \A b \in applied' : job.owner = b /\ ~overrun' => target' = b
  BY RotateForward
<1>2. ServerType /\ ServerOK /\ job.claims \in Nat /\ vault.rev \in Nat
  BY RotationAssumption DEF Inv, TypeOK, ServerType
<1>3. Forward
  BY <1>1, <1>2 DEF Forward
<1>4. ServerType'
  BY <1>1, <1>2 DEF ServerType
<1>5. ServerOK'
  BY <1>1, <1>2 DEF ServerOK
<1>. QED  BY <1>1, <1>2, <1>3, <1>4, <1>5

(* A step of c that leaves at most one request behind. *)
LEMMA ActGood ==
    ASSUME Inv, NEW c \in Connectors, Forward, ServerType', ServerOK', EnvType',
           Moves(c), ConOK(c)', NEW m, m \in Request, LateOK(m)',
           late' = late \/ late' = late \cup {m}
    PROVE  Inv'
<1>1. late' \subseteq Request /\ \A n \in late' : n \in late \/ n = m
  BY DEF Inv, TypeOK
<1>. QED  BY <1>1, Combine DEF Moves

LEMMA VerifyGood ==
    ASSUME Inv, NEW c \in Connectors, VerifyReturns(c) \/ TerminateReturns(c)
    PROVE  Inv'
<1>1. /\ con[c].pc \in {"verifying", "terminating"}
      /\ Still /\ UNCHANGED <<late, env, faults, ended>>
  BY DEF VerifyReturns, TerminateReturns, At, Still, server, history
<1>2. \/ Fail(c, "updated")
      \/ con[c].pc = "verifying" /\ Att(c) \in applied /\ GoTo(c, "fetch")
      \/ con[c].pc = "terminating" /\ GoTo(c, "succeed")
      \/ con[c].pc = "verifying" /\ MoreTries(c)
         /\ con' = [con EXCEPT ![c].pc = "verify", ![c].tries = @ + 1]
      \/ con[c].pc = "terminating" /\ MoreTries(c)
         /\ con' = [con EXCEPT ![c].pc = "terminate", ![c].tries = @ + 1]
  BY Zenon DEF VerifyReturns, TerminateReturns, At
<1>3. CASE Fail(c, "updated")
  <2>1. "updated" \in Syncs /\ job'.claims = job.claims
    BY <1>1 DEF Syncs, Still
  <2>. QED  BY <1>1, <1>3, <2>1, FailGood, EnvStep, MoveGood DEF Inv
<1>4. CASE con[c].pc = "verifying" /\ Att(c) \in applied /\ GoTo(c, "fetch")
  <2>1. Moves(c) /\ con'[c].pc = "fetch" /\ con'[c].att = con[c].att
    BY <1>4, GoToMoves DEF Inv, Pcs
  <2>2. ConOK(c)'
    BY <1>1, <1>4, <2>1 DEF ConOK, Inv, Still, Att
  <2>. QED  BY <1>1, <2>1, <2>2, EnvStep, MoveGood DEF Inv
<1>5. CASE con[c].pc = "terminating" /\ GoTo(c, "succeed")
  <2>1. Moves(c) /\ con'[c].pc = "succeed" /\ con'[c].att = con[c].att
    BY <1>5, GoToMoves DEF Inv, Pcs
  <2>2. ConOK(c)'
    BY <1>1, <1>5, <2>1 DEF ConOK, Inv, Still
  <2>. QED  BY <1>1, <2>1, <2>2, EnvStep, MoveGood DEF Inv
<1>6. CASE con[c].pc = "verifying" /\ MoreTries(c)
           /\ con' = [con EXCEPT ![c].pc = "verify", ![c].tries = @ + 1]
  <2>1. Moves(c) /\ con'[c].pc = "verify" /\ con'[c].att = con[c].att
    BY <1>6, AgainAtMoves DEF Inv, Pcs
  <2>2. ConOK(c)'
    BY <1>1, <1>6, <2>1 DEF ConOK, Inv, Still
  <2>. QED  BY <1>1, <2>1, <2>2, EnvStep, MoveGood DEF Inv
<1>7. CASE con[c].pc = "terminating" /\ MoreTries(c)
           /\ con' = [con EXCEPT ![c].pc = "terminate", ![c].tries = @ + 1]
  <2>1. Moves(c) /\ con'[c].pc = "terminate" /\ con'[c].att = con[c].att
    BY <1>7, AgainAtMoves DEF Inv, Pcs
  <2>2. ConOK(c)'
    BY <1>1, <1>7, <2>1 DEF ConOK, Inv, Still
  <2>. QED  BY <1>1, <2>1, <2>2, EnvStep, MoveGood DEF Inv
<1>. QED  BY <1>2, <1>3, <1>4, <1>5, <1>6, <1>7

LEMMA RotateLate ==
    ASSUME NEW a \in Attempts, NEW m, m = [what |-> "rotate", att |-> a],
           a <= job.claims, UNCHANGED job
    PROVE  m \in Request /\ LateOK(m)'
<1>1. m \in Request
  BY DEF Request
<1>2. m.what = "rotate" /\ m.att = a
  OBVIOUS
<1>. QED  BY <1>1, <1>2 DEF LateOK

LEMMA RotateReturnsGood ==
    ASSUME Inv, NEW c \in Connectors, RotateReturns(c)
    PROVE  Inv'
<1>0. PICK m : m = [what |-> "rotate", att |-> Att(c)]
  OBVIOUS
<1>1. con[c].pc = "rotating" /\ UNCHANGED <<server, env, faults, written, ended>>
  BY DEF RotateReturns, At
<1>2. Att(c) \in Attempts /\ Att(c) <= job.claims /\ Att(c) = con[c].att
  BY <1>1, Executes
<1>3. UNCHANGED <<job, reported, vault, written>> /\ EnvType'
  BY <1>1, EnvStep DEF Inv, server
<1>4. m \in Request /\ LateOK(m)'
  BY <1>0, <1>2, <1>3, RotateLate
<1>5. TargetKept \/ TargetSet(Att(c)) \/ TargetPending(Att(c))
  BY Zenon DEF RotateReturns
<1>6. (TargetSet(Att(c)) /\ GoTo(c, "verify"))
      \/ (\E sync \in Syncs : Fail(c, sync))
      \/ (MoreTries(c) /\ con' = [con EXCEPT ![c].pc = "rotate", ![c].tries = @ + 1])
  <2>1. \A e \in RotateErrors : e[2] \in Syncs
    BY DEF RotateErrors, ScriptErrors, EntraErrors, Syncs
  <2>2. \/ TargetSet(Att(c)) /\ GoTo(c, "verify")
        \/ \E e \in RotateErrors :
             IF e[1] = "transient" /\ MoreTries(c)
               THEN con' = [con EXCEPT ![c].pc = "rotate", ![c].tries = @ + 1]
               ELSE Fail(c, e[2])
    BY Zenon DEF RotateReturns
  <2>. QED  BY <2>1, <2>2, Zenon
<1>7. /\ Forward /\ ServerType' /\ ServerOK' /\ job'.claims = job.claims
      /\ late' = late \/ late' = late \cup {m}
  <2>1. CASE TargetSet(Att(c))
    BY <1>2, <1>3, <2>1, RotateGood DEF TargetSet
  <2>2. CASE ~TargetSet(Att(c))
    <3>1. Still /\ (late' = late \/ late' = late \cup {m})
      BY <1>0, <1>3, <1>5, <2>2 DEF TargetKept, TargetPending, Still
    <3>. QED  BY <3>1, StillGood DEF Still
  <2>. QED  BY <2>1, <2>2
<1>8. Moves(c) /\ ConOK(c)'
  <2>1. CASE TargetSet(Att(c)) /\ GoTo(c, "verify")
    <3>1. Moves(c) /\ con'[c].pc = "verify" /\ con'[c].att = con[c].att
      BY <2>1, GoToMoves DEF Inv, Pcs
    <3>. QED  BY <1>1, <1>2, <1>7, <3>1 DEF ConOK, Inv
  <2>2. ASSUME NEW sync \in Syncs, Fail(c, sync) PROVE Moves(c) /\ ConOK(c)'
    BY <1>1, <1>7, <2>2, FailGood
  <2>3. CASE MoreTries(c) /\ con' = [con EXCEPT ![c].pc = "rotate", ![c].tries = @ + 1]
    <3>1. Moves(c) /\ con'[c].pc = "rotate" /\ con'[c].att = con[c].att
      BY <2>3, AgainAtMoves DEF Inv, Pcs
    <3>. QED  BY <1>1, <1>2, <1>7, <3>1 DEF ConOK, Inv
  <2>. QED  BY <1>6, <2>1, <2>2, <2>3
<1>. QED  BY <1>3, <1>4, <1>7, <1>8, ActGood

(* The item is written: the termination or the report is next. *)
LEMMA WrittenGood ==
    ASSUME Inv, NEW c \in Connectors, CipherWritten(c), job'.claims = job.claims,
           con[c].pc \in {"put", "recheck"}, con[c].att \in written',
           applied \subseteq applied'
    PROVE  Moves(c) /\ ConOK(c)'
<1>1. PICK pc \in {"terminate", "succeed"} : GoTo(c, pc)
  BY DEF CipherWritten
<1>2. pc \in Pcs
  BY DEF Pcs
<1>3. Moves(c) /\ con'[c].pc = pc /\ con'[c].att = con[c].att
  BY <1>1, <1>2, GoToMoves DEF Inv
<1>4. con[c].att # 0 /\ con[c].att <= job.claims /\ con[c].att \in applied'
  BY DEF Inv, ConOK
<1>. QED  BY <1>3, <1>4 DEF ConOK

LEMMA RecheckGood ==
    ASSUME Inv, NEW c \in Connectors, Recheck(c)
    PROVE  Inv'
<1>1. /\ con[c].pc = "recheck" /\ Still /\ UNCHANGED <<late, env>>
      /\ job'.claims = job.claims /\ job'.claims \in Nat /\ "updated" \in Syncs
  BY RotationAssumption DEF Recheck, At, Still, server, Inv, TypeOK, Syncs
<1>2. \/ Landed(c) /\ CipherWritten(c) /\ UNCHANGED <<faults, ended>>
      \/ Fail(c, "updated") /\ UNCHANGED ended
         /\ (UNCHANGED faults \/ (faults < MaxFaults /\ faults' = faults + 1))
      \/ MoreTries(c) /\ Again(c) /\ UNCHANGED ended /\ faults < MaxFaults /\ faults' = faults + 1
      \/ Finish(c, ~Live(c)) /\ UNCHANGED faults
  <2>1. \/ UNCHANGED <<faults, ended>> /\ ((Landed(c) /\ CipherWritten(c)) \/ Fail(c, "updated"))
        \/ UNCHANGED faults /\ (Aborts(c) \/ (Fail(c, "updated") /\ UNCHANGED ended))
        \/ /\ faults < MaxFaults /\ faults' = faults + 1 /\ UNCHANGED ended
           /\ (MoreTries(c) /\ Again(c)) \/ Fail(c, "updated")
    BY Zenon DEF Recheck, Retries
  <2>. QED  BY <2>1, Zenon DEF Aborts
<1>3. CASE Landed(c) /\ CipherWritten(c) /\ UNCHANGED <<faults, ended>>
  <2>1. con[c].att # 0 /\ vault.pw = con[c].att
    BY <1>1, <1>3 DEF Inv, ConOK, Landed, Att
  <2>2. con[c].att \in written'
    BY <1>1, <2>1 DEF Inv, ServerOK, Still
  <2>3. applied \subseteq applied'
    BY <1>1 DEF Still
  <2>4. Moves(c) /\ ConOK(c)'
    BY <1>1, <1>3, <2>2, <2>3, WrittenGood
  <2>. QED  BY <1>1, <1>3, <2>4, EnvStep, MoveGood DEF Inv
<1>4. CASE Fail(c, "updated") /\ UNCHANGED ended
           /\ (UNCHANGED faults \/ (faults < MaxFaults /\ faults' = faults + 1))
  BY <1>1, <1>4, FailGood, EnvStep, MoveGood DEF Inv
<1>5. CASE MoreTries(c) /\ Again(c) /\ UNCHANGED ended /\ faults < MaxFaults /\ faults' = faults + 1
  BY <1>1, <1>5, StillGood, AgainGood, EnvStep, MoveGood DEF Inv
<1>6. CASE Finish(c, ~Live(c)) /\ UNCHANGED faults
  BY <1>1, <1>6, FinishGood, EnvStep, MoveGood DEF Inv
<1>. QED  BY <1>2, <1>3, <1>4, <1>5, <1>6

LEMMA WriteGood ==
    ASSUME Inv, NEW c \in Connectors, WriteCipher(c)
    PROVE  Inv' /\ vault'.edits = vault.edits
<1>0. PICK put : put = [what |-> "put", att |-> Att(c), rev |-> con[c].rev,
                        edits |-> con[c].edits]
  OBVIOUS
<1>1. /\ con[c].pc = "put" /\ UNCHANGED <<job, reported, target, env, applied, overrun>>
      /\ job'.claims = job.claims /\ job'.claims \in Nat /\ "updated" \in Syncs
  BY RotationAssumption DEF WriteCipher, At, Inv, TypeOK, Syncs
<1>2. /\ Att(c) \in Attempts /\ Att(c) <= job.claims /\ Att(c) = con[c].att
      /\ con[c].rev \in Nat /\ con[c].edits \in 0 .. MaxEdits
      /\ Fresh(con[c].rev, con[c].edits)
  BY <1>1, Executes, ConFields DEF Inv, ConOK
<1>3. put \in Request /\ put.what = "put" /\ put.att = Att(c)
      /\ put.rev = con[c].rev /\ put.edits = con[c].edits
  BY <1>0, <1>2 DEF Request
<1>4. Put(Att(c), con[c].rev, con[c].edits) \/ UNCHANGED <<vault, written>>
  BY Zenon DEF WriteCipher
<1>5. /\ UNCHANGED faults \/ (faults < MaxFaults /\ faults' = faults + 1)
      /\ late' = late \/ late' = late \cup {put}
  BY <1>0 DEF WriteCipher, Transit
<1>6. \/ /\ CipherWritten(c) /\ UNCHANGED ended
         /\ Owns(Att(c)) /\ vault.rev = con[c].rev
         /\ Put(Att(c), con[c].rev, con[c].edits)
      \/ GoTo(c, "recheck") /\ UNCHANGED ended
      \/ MoreTries(c) /\ Again(c) /\ UNCHANGED ended
      \/ Fail(c, "updated") /\ UNCHANGED ended
      \/ Finish(c, ~Live(c))
  BY <1>0, <1>3 DEF WriteCipher, Aborts, Retries
<1>7. /\ Forward /\ ServerType' /\ ServerOK' /\ vault'.edits = vault.edits
  <2>1. CASE Put(Att(c), con[c].rev, con[c].edits)
    BY <1>1, <1>2, <2>1, PutGood, PutForward
  <2>2. CASE UNCHANGED <<vault, written>>
    BY <1>1, <2>2, StillGood DEF Still
  <2>. QED  BY <1>4, <2>1, <2>2
<1>8. LateOK(put)'
  <2>1. put.att <= job'.claims
    BY <1>1, <1>2, <1>3
  <2>2. Fresh(put.rev, put.edits)'
    BY <1>2, <1>3, <1>7, FreshForward DEF Inv, Fresh
  <2>. QED  BY <1>3, <2>1, <2>2 DEF LateOK
<1>9. Moves(c) /\ ConOK(c)' /\ (UNCHANGED ended \/ \E a \in Attempts : ended' = ended \cup {a})
  <2>1. CASE /\ CipherWritten(c) /\ UNCHANGED ended
             /\ Owns(Att(c)) /\ vault.rev = con[c].rev
             /\ Put(Att(c), con[c].rev, con[c].edits)
    <3>1. con[c].att \in written'
      BY <1>2, <2>1, PutForward
    <3>. QED  BY <1>1, <2>1, <3>1, WrittenGood
  <2>2. CASE GoTo(c, "recheck") /\ UNCHANGED ended
    <3>1. Moves(c) /\ con'[c].pc = "recheck" /\ con'[c].att = con[c].att
      BY <2>2, GoToMoves DEF Inv, Pcs
    <3>. QED  BY <1>1, <2>2, <3>1 DEF ConOK, Inv
  <2>3. CASE MoreTries(c) /\ Again(c) /\ UNCHANGED ended
    BY <1>7, <2>3, AgainGood
  <2>4. CASE Fail(c, "updated") /\ UNCHANGED ended
    BY <1>1, <2>4, FailGood
  <2>5. CASE Finish(c, ~Live(c))
    BY <1>1, <2>5, FinishGood
  <2>. QED  BY <1>6, <2>1, <2>2, <2>3, <2>4, <2>5
<1>10. EnvType'
  BY <1>1, <1>5, <1>9, EnvStep DEF Inv
<1>. QED  BY <1>3, <1>5, <1>7, <1>8, <1>9, <1>10, ActGood

(* Both reports: the outcome of c reaches the server, now, later or never. *)
LEMMA ReportGood ==
    ASSUME Inv, NEW c \in Connectors, ReportSuccess(c) \/ ReportFailure(c)
    PROVE  Inv'
<1>1. PICK outcome \in Outcomes :
        /\ con[c].pc = IF outcome = "success" THEN "succeed" ELSE "fail"
        /\ Record(Att(c), outcome) \/ UNCHANGED <<job, reported>>
        /\ \/ UNCHANGED <<faults, late>>
           \/ /\ faults < MaxFaults /\ faults' = faults + 1
              /\ \/ UNCHANGED late
                 \/ late' = late \cup {[what |-> "report", att |-> Att(c), outcome |-> outcome]}
        /\ \/ Finish(c, FALSE) \/ Finish(c, ~Live(c))
           \/ MoreTries(c) /\ Again(c) /\ UNCHANGED ended
        /\ UNCHANGED <<vault, target, env, applied, written, overrun>>
  <2>1. CASE ReportSuccess(c)
    <3>1. "success" \in Outcomes
      BY DEF Outcomes
    <3>. QED  BY <2>1, <3>1 DEF ReportSuccess, At, Transit, Aborts, Retries
  <2>2. CASE ReportFailure(c)
    <3>1. con[c].sync \in Outcomes /\ con[c].sync # "success"
      BY ConFields DEF Inv, Outcomes, Syncs
    <3>. QED  BY <2>2, <3>1 DEF ReportFailure, At, Transit
  <2>. QED  BY <2>1, <2>2
<1>0. PICK m : m = [what |-> "report", att |-> Att(c), outcome |-> outcome]
  OBVIOUS
<1>2. Att(c) \in Attempts /\ Att(c) <= job.claims /\ Att(c) = con[c].att
      /\ con[c].pc \notin {"idle", "exited", "put"}
  BY <1>1, Executes
<1>3. outcome = "success" => Att(c) \in applied /\ Att(c) \in written
  BY <1>1, <1>2 DEF Inv, ConOK
<1>4. /\ Forward /\ ServerType' /\ ServerOK' /\ job'.claims = job.claims /\ job.claims \in Nat
  <2>1. CASE Record(Att(c), outcome)
    BY <1>1, <1>2, <1>3, <2>1, RecordGood
  <2>2. CASE UNCHANGED <<job, reported>>
    <3>1. Still /\ job.claims \in Nat
      BY <1>1, <2>2, RotationAssumption DEF Still, Inv, TypeOK
    <3>. QED  BY <3>1, StillGood DEF Still
  <2>. QED  BY <1>1, <2>1, <2>2
<1>5. m \in Request /\ LateOK(m)'
  <2>1. m \in Request /\ m.what = "report" /\ m.att = Att(c) /\ m.outcome = outcome
    BY <1>0, <1>2 DEF Request
  <2>2. applied' = applied /\ written' = written
    BY <1>1
  <2>. QED  BY <1>2, <1>3, <1>4, <2>1, <2>2 DEF LateOK
<1>6. Moves(c) /\ ConOK(c)' /\ (UNCHANGED ended \/ \E a \in Attempts : ended' = ended \cup {a})
  <2>1. CASE Finish(c, FALSE)
    BY <1>2, <1>4, <2>1, FinishGood
  <2>2. CASE Finish(c, ~Live(c))
    BY <1>2, <1>4, <2>2, FinishGood
  <2>3. CASE MoreTries(c) /\ Again(c) /\ UNCHANGED ended
    BY <1>4, <2>3, AgainGood
  <2>. QED  BY <1>1, <2>1, <2>2, <2>3
<1>7. EnvType'
  BY <1>1, <1>6, EnvStep DEF Inv
<1>8. late' = late \/ late' = late \cup {m}
  BY <1>0, <1>1
<1>. QED  BY <1>4, <1>5, <1>6, <1>7, <1>8, ActGood

-----------------------------------------------------------------------------
(* The environment *)

LEMMA LateGood ==
    ASSUME Inv, ProcessLate
    PROVE  Inv' /\ vault'.edits = vault.edits
<1>1. PICK m \in late :
        /\ late' = late \ {m} /\ UNCHANGED <<con, env, faults, ended>>
        /\ IF m.what = "put" THEN Put(m.att, m.rev, m.edits) ELSE UNCHANGED <<vault, written>>
        /\ IF m.what = "report" THEN Record(m.att, m.outcome) ELSE UNCHANGED <<job, reported>>
        /\ IF m.what = "rotate" THEN Rotate(m.att) ELSE UNCHANGED <<target, applied, overrun>>
  BY DEF ProcessLate
<1>2. /\ m.att \in Attempts /\ m.what \in {"rotate", "put", "report"}
      /\ m.what = "put" => m.rev \in Nat /\ m.edits \in 0 .. MaxEdits
      /\ m.what = "report" => m.outcome \in Outcomes
      /\ LateOK(m)
  BY LateFields DEF Inv
<1>3. Forward /\ ServerType' /\ ServerOK' /\ vault'.edits = vault.edits
  <2>1. CASE m.what = "put"
    <3>1. /\ Put(m.att, m.rev, m.edits) /\ UNCHANGED <<job, reported, target, applied, overrun>>
          /\ Fresh(m.rev, m.edits) /\ m.att <= job.claims
      BY <1>1, <1>2, <2>1 DEF LateOK
    <3>. QED  BY <1>2, <2>1, <3>1, PutGood, PutForward
  <2>2. CASE m.what = "report"
    <3>1. /\ Record(m.att, m.outcome) /\ UNCHANGED <<vault, target, applied, written, overrun>>
          /\ m.outcome = "success" => m.att \in applied /\ m.att \in written
      BY <1>1, <1>2, <2>2 DEF LateOK
    <3>. QED  BY <1>2, <2>2, <3>1, RecordGood
  <2>3. CASE m.what = "rotate"
    <3>1. Rotate(m.att) /\ UNCHANGED <<job, reported, vault, written>> /\ m.att <= job.claims
      BY <1>1, <1>2, <2>3 DEF LateOK
    <3>. QED  BY <1>2, <3>1, RotateGood
  <2>. QED  BY <1>2, <2>1, <2>2, <2>3
<1>4. EnvType'
  BY <1>1, EnvStep DEF Inv
<1>5. con' \in [Connectors -> Connector] /\ con' = con /\ late' \subseteq Request
  BY <1>1 DEF Inv, TypeOK
<1>6. \A n \in late' : n \in late
  BY <1>1
<1>. QED  BY <1>3, <1>4, <1>5, <1>6, Combine

(* The server takes the job back; nobody owns it. *)
LEMMA ReleaseGood ==
    ASSUME Inv, Release
    PROVE  Inv'
<1>1. /\ job' = [job EXCEPT !.state = "open", !.owner = 0]
      /\ UNCHANGED <<reported, vault, target, late, con, env, faults>>
      /\ UNCHANGED <<applied, written, ended, overrun>>
  BY DEF Release, history
<1>2. /\ job' \in [state : {"open", "claimed", "closed"}, owner : 0 .. MaxAttempts,
                   claims : 0 .. MaxAttempts]
      /\ job'.owner = 0 /\ job'.claims = job.claims /\ job.claims \in Nat /\ vault.rev \in Nat
  <2>1. /\ job \in [state : {"open", "claimed", "closed"}, owner : 0 .. MaxAttempts,
                    claims : 0 .. MaxAttempts]
        /\ vault.rev \in Nat
    BY DEF Inv, TypeOK
  <2>2. 0 \in 0 .. MaxAttempts /\ job.claims \in 0 .. MaxAttempts /\ job.claims \in Nat
    BY <2>1, RotationAssumption
  <2>3. job' = [state |-> "open", owner |-> 0, claims |-> job.claims]
    BY <1>1, <2>1
  <2>. QED  BY <2>1, <2>2, <2>3
<1>3. Forward
  BY <1>1, <1>2 DEF Forward
<1>4. ServerType'
  BY <1>1, <1>2 DEF Inv, TypeOK, ServerType
<1>5. ServerOK'
  <2>1. ServerOK /\ \A b \in applied \cup written : b # 0
    BY RotationAssumption DEF Inv, TypeOK, Attempts
  <2>. QED  BY <1>1, <1>2, <2>1 DEF ServerOK
<1>6. EnvType'
  BY <1>1, EnvStep DEF Inv
<1>7. con' \in [Connectors -> Connector] /\ con' = con /\ late' \subseteq Request /\ late' = late
  BY <1>1 DEF Inv, TypeOK
<1>. QED  BY <1>3, <1>4, <1>5, <1>6, <1>7, Combine

LEMMA EditGood ==
    ASSUME Inv, Edit
    PROVE  Inv' /\ vault'.edits >= vault.edits
<1>1. /\ vault' = [vault EXCEPT !.edits = @ + 1, !.rev = @ + 1] /\ vault.edits < MaxEdits
      /\ UNCHANGED <<job, reported, target, late, con, env, faults>>
      /\ UNCHANGED <<applied, written, ended, overrun>>
  BY DEF Edit, history
<1>2. /\ vault' \in [pw : 0 .. MaxAttempts, rev : Nat, edits : 0 .. MaxEdits]
      /\ vault'.rev = vault.rev + 1 /\ vault'.pw = vault.pw /\ vault.rev \in Nat
      /\ vault'.edits >= vault.edits /\ job.claims \in Nat
  <2>1. /\ vault \in [pw : 0 .. MaxAttempts, rev : Nat, edits : 0 .. MaxEdits]
        /\ job.claims \in Nat
    BY RotationAssumption DEF Inv, TypeOK
  <2>2. /\ vault.pw \in 0 .. MaxAttempts /\ vault.rev \in Nat /\ vault.rev + 1 \in Nat
        /\ vault.edits \in Nat /\ vault.edits + 1 \in 0 .. MaxEdits
    BY <1>1, <2>1, RotationAssumption
  <2>3. vault' = [pw |-> vault.pw, rev |-> vault.rev + 1, edits |-> vault.edits + 1]
    BY <1>1, <2>1
  <2>. QED  BY <2>1, <2>2, <2>3
<1>3. Forward
  BY <1>1, <1>2 DEF Forward
<1>4. ServerType'
  BY <1>1, <1>2 DEF Inv, TypeOK, ServerType
<1>5. ServerOK'
  BY <1>1, <1>2 DEF ServerOK, Inv
<1>6. EnvType'
  BY <1>1, EnvStep DEF Inv
<1>7. con' \in [Connectors -> Connector] /\ con' = con /\ late' \subseteq Request /\ late' = late
  BY <1>1 DEF Inv, TypeOK
<1>. QED  BY <1>2, <1>3, <1>4, <1>5, <1>6, <1>7, Combine

(* Timers, the session and the contact with the server. *)
LEMMA OutsideGood ==
    ASSUME Inv, EnvType', Still, UNCHANGED <<late, con>>
    PROVE  Inv'
<1>1. con' \in [Connectors -> Connector] /\ con' = con /\ late' \subseteq Request /\ late' = late
  BY DEF Inv, TypeOK
<1>. QED  BY <1>1, StillGood, Combine

LEMMA SwitchGood ==
    ASSUME Inv, NEW c \in Connectors, Revoke(c) \/ Shutdown(c) \/ GoesOffline(c) \/ Heartbeat(c)
    PROVE  Inv'
<1>1. Still /\ UNCHANGED <<late, con, lapsed, crashes, faults, ended>>
  BY DEF Revoke, Shutdown, GoesOffline, Heartbeat, Still, server, history
<1>2. /\ session' \in [Connectors -> {"live", "revoked"}]
      /\ cancel' \subseteq Connectors /\ online' \subseteq Connectors
  BY DEF Revoke, Shutdown, GoesOffline, Heartbeat, Inv, TypeOK
<1>3. EnvType'
  BY <1>1, <1>2 DEF Inv, TypeOK, EnvType
<1>. QED  BY <1>1, <1>3, OutsideGood

LEMMA LapseGood ==
    ASSUME Inv, NEW a \in Attempts, LeaseExpires(a)
    PROVE  Inv'
<1>1. /\ Still /\ UNCHANGED <<late, con, session, cancel, online, crashes, faults, ended>>
      /\ lapsed' = lapsed \cup {a}
  BY DEF LeaseExpires, Still, server, history
<1>2. EnvType'
  BY <1>1 DEF Inv, TypeOK, EnvType
<1>. QED  BY <1>1, <1>2, OutsideGood

LEMMA CrashGood ==
    ASSUME Inv, NEW c \in Connectors, Crash(c)
    PROVE  Inv'
<1>0. PICK m : m = [what |-> "rotate", att |-> Att(c)]
  OBVIOUS
<1>1. /\ con[c].pc \notin {"idle", "exited"} /\ con' = [con EXCEPT ![c] = Idle]
      /\ Still /\ UNCHANGED <<lapsed, session, cancel, online, faults, ended>>
      /\ crashes < MaxCrashes /\ crashes' = crashes + 1
  BY DEF Crash, Still, server, history
<1>2. late' = late \/ late' = late \cup {m}
  BY <1>0 DEF Crash
<1>3. Att(c) \in Attempts /\ Att(c) <= job.claims /\ UNCHANGED job
  BY <1>1, Executes DEF Still
<1>4. m \in Request /\ LateOK(m)'
  BY <1>0, <1>3, RotateLate
<1>5. EnvType'
  <2>1. crashes' \in 0 .. MaxCrashes
    BY <1>1, RotationAssumption DEF Inv, TypeOK
  <2>. QED  BY <1>1, <2>1 DEF Inv, TypeOK, EnvType
<1>6. Moves(c) /\ con'[c] = Idle
  BY <1>1, IdleType DEF Inv, TypeOK, Moves
<1>7. ConOK(c)'
  <2>1. job'.claims \in Nat
    BY <1>3, RotationAssumption DEF Inv, TypeOK
  <2>. QED  BY <1>6, <2>1 DEF Idle, ConOK
<1>. QED  BY <1>1, <1>2, <1>4, <1>5, <1>6, <1>7, StillGood, ActGood

-----------------------------------------------------------------------------
LEMMA StepGood ==
    ASSUME Inv, NEW c \in Connectors, Step(c)
    PROVE  Inv'
BY StartGood, FetchGood, GateGood, RotateReturnsGood, VerifyGood, WriteGood, RecheckGood,
   ReportGood DEF Step

LEMMA Invariance ==
    Spec => []Inv
<1>1. Init => Inv
  <2>. SUFFICES ASSUME Init PROVE Inv
    OBVIOUS
  <2>0. 0 \in 0 .. MaxAttempts /\ 0 \in 0 .. MaxEdits /\ 0 \in 0 .. MaxFaults
        /\ 0 \in 0 .. MaxCrashes /\ 0 \in Nat
    BY RotationAssumption
  <2>1. TypeOK
    <3>1. /\ con \in [Connectors -> Connector]
          /\ session \in [Connectors -> {"live", "revoked"}]
          /\ reported \in [Attempts -> Outcomes \cup {"none"}]
      BY IdleType DEF Init
    <3>2. /\ job \in [state : {"open", "claimed", "closed"}, owner : 0 .. MaxAttempts,
                      claims : 0 .. MaxAttempts]
          /\ vault \in [pw : 0 .. MaxAttempts, rev : Nat, edits : 0 .. MaxEdits]
      BY <2>0 DEF Init
    <3>. QED  BY <2>0, <3>1, <3>2 DEF Init, TypeOK
  <2>2. ServerOK
    BY RotationAssumption DEF Init, ServerOK
  <2>3. \A c \in Connectors : ConOK(c)
    BY DEF Init, ConOK, Idle
  <2>4. \A m \in late : LateOK(m)
    BY DEF Init
  <2>. QED  BY <2>1, <2>2, <2>3, <2>4 DEF Inv
<1>2. Inv /\ [Next]_vars => Inv'
  <2>. SUFFICES ASSUME Inv, [Next]_vars PROVE Inv'
    OBVIOUS
  <2>1. CASE UNCHANGED vars
    <3>1. Still /\ UNCHANGED <<late, con, env, faults, ended>>
      BY <2>1 DEF vars, server, history, Still
    <3>2. EnvType'
      BY <3>1, EnvStep DEF Inv
    <3>. QED  BY <3>1, <3>2, OutsideGood
  <2>2. CASE Next
    BY <2>2, ClaimGood, ExitGood, StepGood, SwitchGood, CrashGood, LateGood, ReleaseGood,
       EditGood, LapseGood DEF Next
  <2>. QED  BY <2>1, <2>2
<1>. QED  BY <1>1, <1>2, PTL DEF Spec

(* Every variable of the rotation keeps its type.  TypeOK of a spec with   *)
(* crashes and delayed requests: attempts stay within the claims that were *)
(* made, and a retry never exceeds RetryCfg::max_retry_attempts.           *)
THEOREM TypeCorrect ==
    Spec => []TypeOK
<1>1. Inv => TypeOK
  BY DEF Inv
<1>. QED  BY <1>1, Invariance, PTL

(* A success that the server has on record is true of the vault and of the *)
(* target (report_success, cipher_write_landed), for any number of         *)
(* connectors, claims, lost answers, retries and crashes.                  *)
THEOREM SuccessCorrect ==
    Spec => []SuccessIsTrue
<1>1. Inv => SuccessIsTrue
  BY DEF Inv, ServerOK, SuccessIsTrue
<1>. QED  BY <1>1, Invariance, PTL

(* No step takes an edit of a user back: write_cipher sends the revision   *)
(* of the very item it changed, so that a late or repeated write of an     *)
(* older copy is refused.                                                  *)
THEOREM EditsKept ==
    Spec => EditsSurvive
<1>1. Inv /\ [Next]_vars => [vault'.edits >= vault.edits]_vars
  <2>. SUFFICES ASSUME Inv, [Next]_vars PROVE vault'.edits >= vault.edits \/ UNCHANGED vars
    OBVIOUS
  <2>1. vault.edits \in Nat
    BY RotationAssumption DEF Inv, TypeOK
  <2>2. ASSUME NEW c \in Connectors, WriteCipher(c) PROVE vault'.edits >= vault.edits
    BY <2>1, <2>2, WriteGood
  <2>3. CASE ProcessLate
    BY <2>1, <2>3, LateGood
  <2>4. CASE Edit
    BY <2>4, EditGood
  <2>5. ASSUME NEW c \in Connectors,
               Claim(c) \/ Exit(c) \/ Revoke(c) \/ Shutdown(c) \/ GoesOffline(c)
               \/ Heartbeat(c) \/ Crash(c) \/ (Step(c) /\ ~WriteCipher(c))
        PROVE  UNCHANGED vault
    BY <2>5 DEF Claim, Exit, Revoke, Shutdown, GoesOffline, Heartbeat, Crash, Step, StartAttempt,
       PreFlight, Resolve, GatePasses, GateAborts, RotateReturns, VerifyReturns,
       TerminateReturns, FetchForWrite, Fetch, Recheck, ReportSuccess, ReportFailure, server
  <2>6. ASSUME NEW a \in Attempts, LeaseExpires(a) PROVE UNCHANGED vault
    BY <2>6 DEF LeaseExpires, server
  <2>7. CASE Release
    BY <2>1, <2>7 DEF Release
  <2>. QED  BY <2>1, <2>2, <2>3, <2>4, <2>5, <2>6, <2>7 DEF Next, Step
<1>. QED  BY <1>1, Invariance, PTL DEF Spec, EditsSurvive

-----------------------------------------------------------------------------
(* target_unchanged, for scripts *)

(* The password of the attempt a has not reached the target and is not on  *)
(* its way there.                                                          *)
Untouched(a) == a \notin applied /\ \A m \in late : m.what = "rotate" => m.att # a

(* The connector has not changed the target, as far as it can tell. *)
Before(c) ==
    \/ con[c].pc \in {"claimed", "preflight", "resolve", "rotate", "rotating"}
    \/ con[c].pc = "fail" /\ con[c].sync = "unchanged"

(* Somebody has said so of the attempt a. *)
SaidUnchanged(a) ==
    \/ reported[a] = "unchanged"
    \/ \E m \in late : m.what = "report" /\ m.att = a /\ m.outcome = "unchanged"

EffectInv ==
    /\ \A a \in Attempts : reported[a] # "none" => a <= job.claims
    /\ \A c, d \in Connectors : con[c].att # 0 /\ con[c].att = con[d].att => c = d
    /\ \A c \in Connectors : Before(c) => Untouched(con[c].att)
    /\ \A a \in Attempts : SaidUnchanged(a) =>
         Untouched(a) /\ \A c \in Connectors : con[c].att # a

(* The connector d knows no more than before. *)
Keeps(d) ==
    /\ con'[d].att \in {0, con[d].att}
    /\ Before(d)' => Before(d) /\ con'[d].att = con[d].att

(* Nobody says anything new. *)
Silent ==
    /\ \A m \in late' : m.what = "report" /\ m.outcome = "unchanged" => m \in late
    /\ \A a \in Attempts : reported'[a] = "unchanged" => SaidUnchanged(a)
    /\ \A a \in Attempts : reported'[a] # "none" => a <= job'.claims

(* The target is left alone. *)
HandsOff == applied' = applied /\ \A m \in late' : m.what = "rotate" => m \in late

LEMMA SameKeeps ==
    ASSUME NEW d \in Connectors, con'[d] = con[d]
    PROVE  Keeps(d)
BY DEF Keeps, Before

LEMMA EffectKeeps ==
    ASSUME EffectInv, HandsOff, Silent, \A d \in Connectors : Keeps(d),
           \A d \in Connectors : con[d].att \in Nat
    PROVE  EffectInv'
<1>1. \A a : Untouched(a) => Untouched(a)'
  BY DEF HandsOff, Untouched
<1>2. \A a \in Attempts : SaidUnchanged(a)' => SaidUnchanged(a)
  BY DEF Silent, SaidUnchanged
<1>3. \A a \in Attempts : (reported[a] # "none" => a <= job.claims)'
  BY DEF Silent
<1>4. \A c, d \in Connectors : (con[c].att # 0 /\ con[c].att = con[d].att => c = d)'
  BY DEF Keeps, EffectInv
<1>5. ASSUME NEW c \in Connectors, Before(c)' PROVE Untouched(con[c].att)'
  <2>1. Before(c) /\ con'[c].att = con[c].att
    BY <1>5 DEF Keeps
  <2>2. PICK a : a = con[c].att
    OBVIOUS
  <2>3. Untouched(a)'
    BY <1>1, <2>1, <2>2 DEF EffectInv
  <2>. QED  BY <2>1, <2>2, <2>3 DEF Untouched
<1>6. \A a \in Attempts : SaidUnchanged(a)' =>
         Untouched(a)' /\ \A c \in Connectors : con'[c].att # a
  <2>1. \A a \in Attempts : a # 0
    BY RotationAssumption DEF Attempts
  <2>. QED  BY <1>1, <1>2, <2>1 DEF EffectInv, Keeps
<1>. QED  BY <1>3, <1>4, <1>5, <1>6 DEF EffectInv

(* A step that says nothing and leaves the requests and reports alone. *)
LEMMA Quietly ==
    ASSUME Inv, EffectInv, UNCHANGED <<job, reported, applied, late>>
    PROVE  HandsOff /\ Silent
BY DEF HandsOff, Silent, SaidUnchanged, EffectInv

LEMMA AttNat ==
    ASSUME Inv
    PROVE  \A d \in Connectors : con[d].att \in Nat
BY ConFields DEF Inv

(* How the steps of a connector move it, apart from what rotate() and the  *)
(* reports do.                                                             *)
LEMMA FailKeeps ==
    ASSUME Inv, NEW c \in Connectors, NEW sync \in Syncs, Fail(c, sync),
           sync = "unchanged" => Before(c)
    PROVE  \A d \in Connectors : Keeps(d)
<1>1. Moves(c) /\ con'[c].pc = "fail" /\ con'[c].att = con[c].att /\ con'[c].sync = sync
  BY FailMoves DEF Inv
<1>2. Keeps(c)
  BY <1>1 DEF Keeps, Before
<1>. QED  BY <1>1, <1>2, SameKeeps DEF Moves

LEMMA FinishKeeps ==
    ASSUME Inv, NEW c \in Connectors, NEW exits, Finish(c, exits)
    PROVE  \A d \in Connectors : Keeps(d)
<1>1. Moves(c) /\ con'[c].pc \in {"idle", "exited"} /\ con'[c].att = 0
  BY FinishMoves DEF Inv
<1>2. Keeps(c)
  BY <1>1 DEF Keeps, Before
<1>. QED  BY <1>1, <1>2, SameKeeps DEF Moves

LEMMA RetryKeeps ==
    ASSUME Inv, NEW c \in Connectors, Retries(c)
    PROVE  \A d \in Connectors : Keeps(d)
<1>1. Moves(c) /\ con'[c].pc = con[c].pc /\ con'[c].att = con[c].att
      /\ con'[c].sync = con[c].sync
  BY AgainMoves DEF Inv, Retries
<1>2. Keeps(c)
  BY <1>1 DEF Keeps, Before
<1>. QED  BY <1>1, <1>2, SameKeeps DEF Moves

(* The connector goes to pc, which is early only if it was. *)
LEMMA MoveKeeps ==
    ASSUME NEW c \in Connectors, Moves(c), con'[c].att = con[c].att, con'[c].pc # "fail",
           con'[c].pc \in {"claimed", "preflight", "resolve", "rotate", "rotating"} => Before(c)
    PROVE  \A d \in Connectors : Keeps(d)
<1>1. Keeps(c)
  BY DEF Keeps, Before
<1>. QED  BY <1>1, SameKeeps DEF Moves

LEMMA WrittenKeeps ==
    ASSUME Inv, NEW c \in Connectors, CipherWritten(c)
    PROVE  \A d \in Connectors : Keeps(d)
<1>1. PICK pc \in {"terminate", "succeed"} : GoTo(c, pc)
  BY DEF CipherWritten
<1>2. pc \in Pcs
  BY DEF Pcs
<1>3. Moves(c) /\ con'[c].pc = pc /\ con'[c].att = con[c].att
  BY <1>1, <1>2, GoToMoves DEF Inv
<1>. QED  BY <1>3, MoveKeeps

(* The attempt of c may have reached the target, and c knows. *)
LEMMA TouchEffect ==
    ASSUME Inv, EffectInv, NEW c \in Connectors, NEW a \in Attempts, a = con[c].att,
           Moves(c), con'[c].att \in {0, a}, ~Before(c)', UNCHANGED <<job, reported>>,
           \A b \in Attempts : b # a /\ Untouched(b) => Untouched(b)',
           \A m \in late' : m.what = "report" => m \in late
    PROVE  EffectInv'
<1>1. \A b \in Attempts : SaidUnchanged(b)' => SaidUnchanged(b)
  BY DEF SaidUnchanged
<1>2. a # 0 /\ \A d \in Connectors \ {c} : con[d].att # a /\ con'[d] = con[d]
  BY RotationAssumption DEF EffectInv, Attempts, Moves
<1>3. \A x, y \in Connectors : (con[x].att # 0 /\ con[x].att = con[y].att => x = y)'
  BY <1>2 DEF EffectInv
<1>4. ASSUME NEW d \in Connectors, Before(d)' PROVE Untouched(con[d].att)'
  <2>1. d # c /\ con'[d] = con[d]
    BY <1>2, <1>4
  <2>2. Before(d)
    BY <1>4, <2>1 DEF Before
  <2>3. PICK b : b = con[d].att
    OBVIOUS
  <2>4. b \in Attempts
    <3>1. con[d].pc \notin {"idle", "exited"}
      BY <2>2 DEF Before
    <3>. QED  BY <2>3, <3>1, Executes
  <2>5. Untouched(b)'
    BY <1>2, <2>1, <2>2, <2>3, <2>4 DEF EffectInv
  <2>. QED  BY <2>1, <2>3, <2>5 DEF Untouched
<1>5. \A b \in Attempts : SaidUnchanged(b)' =>
         Untouched(b)' /\ \A d \in Connectors : con'[d].att # b
  <2>. SUFFICES ASSUME NEW b \in Attempts, SaidUnchanged(b)'
                PROVE  Untouched(b)' /\ \A d \in Connectors : con'[d].att # b
    OBVIOUS
  <2>1. Untouched(b) /\ \A d \in Connectors : con[d].att # b
    BY <1>1 DEF EffectInv
  <2>2. b # a /\ b # 0
    BY <2>1, RotationAssumption DEF Attempts
  <2>. QED  BY <1>2, <2>1, <2>2
<1>6. \A b \in Attempts : (reported[b] # "none" => b <= job.claims)'
  BY DEF EffectInv
<1>. QED  BY <1>3, <1>4, <1>5, <1>6 DEF EffectInv

LEMMA QuietStepKeeps ==
    ASSUME Inv, NEW c \in Connectors,
           StartAttempt(c) \/ PreFlight(c) \/ Resolve(c) \/ GatePasses(c) \/ GateAborts(c)
           \/ VerifyReturns(c) \/ TerminateReturns(c) \/ FetchForWrite(c) \/ Recheck(c)
    PROVE  \A d \in Connectors : Keeps(d)
<1>0. "unchanged" \in Syncs /\ "updated" \in Syncs
  BY DEF Syncs
<1>1. CASE StartAttempt(c) \/ Resolve(c)
  <2>1. Before(c)
    BY <1>1 DEF StartAttempt, Resolve, At, Before
  <2>2. CASE Fail(c, "unchanged")
    BY <1>0, <2>1, <2>2, FailKeeps
  <2>3. ASSUME NEW pc \in {"preflight", "rotate"}, GoTo(c, pc)
        PROVE  \A d \in Connectors : Keeps(d)
    <3>1. pc \in Pcs
      BY DEF Pcs
    <3>2. Moves(c) /\ con'[c].pc = pc /\ con'[c].att = con[c].att
      BY <2>3, <3>1, GoToMoves DEF Inv
    <3>. QED  BY <2>1, <3>2, MoveKeeps
  <2>. QED  BY <1>1, <2>2, <2>3 DEF StartAttempt, Resolve
<1>2. CASE PreFlight(c) \/ FetchForWrite(c)
  <2>1. PICK next \in {"resolve", "put"}, bad \in Syncs :
          /\ Fetch(c, next, bad)
          /\ next = "resolve" => con[c].pc = "preflight"
          /\ bad = "unchanged" => con[c].pc = "preflight"
    BY <1>2 DEF PreFlight, FetchForWrite, At, Syncs
  <2>2. Fetched(c, next) \/ Fail(c, bad) \/ Aborts(c) \/ Retries(c)
    BY <2>1, Zenon DEF Fetch
  <2>3. CASE Fetched(c, next)
    <3>1. next \in Pcs
      BY DEF Pcs
    <3>2. Moves(c) /\ con'[c].pc = next /\ con'[c].att = con[c].att
      BY <2>3, <3>1, FetchedMoves DEF Inv
    <3>. QED  BY <2>1, <3>2, MoveKeeps DEF Before
  <2>4. CASE Fail(c, bad)
    <3>1. bad = "unchanged" => Before(c)
      BY <2>1 DEF Before
    <3>. QED  BY <2>4, <3>1, FailKeeps
  <2>. QED  BY <2>2, <2>3, <2>4, FinishKeeps, RetryKeeps DEF Aborts
<1>3. CASE GatePasses(c)
  <2>1. con[c].pc \in {"rotate", "verify", "terminate"} /\ con' = [con EXCEPT ![c].pc = InFlight(@)]
    BY <1>3 DEF GatePasses, TargetSteps
  <2>2. /\ InFlight(con[c].pc) \in Pcs
        /\ InFlight(con[c].pc) \in {"rotating", "verifying", "terminating"}
        /\ InFlight(con[c].pc) = "rotating" => con[c].pc = "rotate"
    BY <2>1 DEF InFlight, Pcs
  <2>3. Moves(c) /\ con'[c].pc = InFlight(con[c].pc) /\ con'[c].att = con[c].att
    BY <2>1, <2>2 DEF Inv, TypeOK, Connector, Moves
  <2>. QED  BY <2>1, <2>2, <2>3, MoveKeeps DEF Before
<1>4. CASE GateAborts(c)
  <2>1. GoTo(c, "succeed") \/ Finish(c, FALSE) \/ Finish(c, ~Live(c))
    BY <1>4 DEF GateAborts, Aborts
  <2>2. CASE GoTo(c, "succeed")
    <3>1. Moves(c) /\ con'[c].pc = "succeed" /\ con'[c].att = con[c].att
      BY <2>2, GoToMoves DEF Inv, Pcs
    <3>. QED  BY <3>1, MoveKeeps
  <2>. QED  BY <2>1, <2>2, FinishKeeps
<1>5. CASE VerifyReturns(c) \/ TerminateReturns(c)
  <2>1. \/ Fail(c, "updated")
        \/ \E pc \in {"fetch", "succeed"} : GoTo(c, pc)
        \/ \E pc \in {"verify", "terminate"} :
             MoreTries(c) /\ con' = [con EXCEPT ![c].pc = pc, ![c].tries = @ + 1]
    BY <1>5, Zenon DEF VerifyReturns, TerminateReturns
  <2>2. ASSUME NEW pc \in {"fetch", "succeed"}, GoTo(c, pc)
        PROVE  \A d \in Connectors : Keeps(d)
    <3>1. pc \in Pcs
      BY DEF Pcs
    <3>2. Moves(c) /\ con'[c].pc = pc /\ con'[c].att = con[c].att
      BY <2>2, <3>1, GoToMoves DEF Inv
    <3>. QED  BY <3>2, MoveKeeps
  <2>3. ASSUME NEW pc \in {"verify", "terminate"}, MoreTries(c),
               con' = [con EXCEPT ![c].pc = pc, ![c].tries = @ + 1]
        PROVE  \A d \in Connectors : Keeps(d)
    <3>1. pc \in Pcs
      BY DEF Pcs
    <3>2. Moves(c) /\ con'[c].pc = pc /\ con'[c].att = con[c].att
      BY <2>3, <3>1, AgainAtMoves DEF Inv
    <3>. QED  BY <3>2, MoveKeeps
  <2>. QED  BY <1>0, <2>1, <2>2, <2>3, FailKeeps
<1>6. CASE Recheck(c)
  <2>1. CipherWritten(c) \/ Fail(c, "updated") \/ Aborts(c) \/ Retries(c)
    BY <1>6, Zenon DEF Recheck
  <2>. QED  BY <1>0, <2>1, FailKeeps, FinishKeeps, RetryKeeps, WrittenKeeps DEF Aborts
<1>. QED  BY <1>1, <1>2, <1>3, <1>4, <1>5, <1>6

LEMMA QuietStepEffect ==
    ASSUME Inv, EffectInv, NEW c \in Connectors,
           StartAttempt(c) \/ PreFlight(c) \/ Resolve(c) \/ GatePasses(c) \/ GateAborts(c)
           \/ VerifyReturns(c) \/ TerminateReturns(c) \/ FetchForWrite(c) \/ Recheck(c)
    PROVE  EffectInv'
<1>1. UNCHANGED <<job, reported, applied, late>>
  BY DEF StartAttempt, PreFlight, Resolve, GatePasses, GateAborts, VerifyReturns,
     TerminateReturns, FetchForWrite, Fetch, Recheck, server, history
<1>. QED  BY <1>1, Quietly, QuietStepKeeps, AttNat, EffectKeeps

LEMMA WriteEffect ==
    ASSUME Inv, EffectInv, NEW c \in Connectors, WriteCipher(c)
    PROVE  EffectInv'
<1>0. PICK put : put = [what |-> "put", att |-> Att(c), rev |-> con[c].rev,
                        edits |-> con[c].edits]
  OBVIOUS
<1>1. UNCHANGED <<job, reported, applied>> /\ (late' = late \/ late' = late \cup {put})
  BY <1>0 DEF WriteCipher, Transit
<1>2. HandsOff /\ Silent
  <2>1. put.what = "put"
    BY <1>0
  <2>. QED  BY <1>1, <2>1 DEF HandsOff, Silent, SaidUnchanged, EffectInv
<1>3. CipherWritten(c) \/ GoTo(c, "recheck") \/ Aborts(c) \/ Retries(c) \/ Fail(c, "updated")
  BY DEF WriteCipher
<1>4. CASE GoTo(c, "recheck")
  <2>1. Moves(c) /\ con'[c].pc = "recheck" /\ con'[c].att = con[c].att
    BY <1>4, GoToMoves DEF Inv, Pcs
  <2>2. \A d \in Connectors : Keeps(d)
    BY <2>1, MoveKeeps
  <2>. QED  BY <1>2, <2>2, AttNat, EffectKeeps
<1>5. "updated" \in Syncs
  BY DEF Syncs
<1>6. CASE CipherWritten(c) \/ Aborts(c) \/ Retries(c) \/ Fail(c, "updated")
  <2>1. \A d \in Connectors : Keeps(d)
    BY <1>5, <1>6, FailKeeps, FinishKeeps, RetryKeeps, WrittenKeeps DEF Aborts
  <2>. QED  BY <1>2, <2>1, AttNat, EffectKeeps
<1>. QED  BY <1>3, <1>4, <1>6

(* rotate() says that the target is unchanged only when it is, and is run  *)
(* again only then.                                                        *)
LEMMA RotateReturnsEffect ==
    ASSUME Inv, EffectInv, NEW c \in Connectors, RotateReturns(c), Kind = "script"
    PROVE  EffectInv'
<1>1. con[c].pc = "rotating" /\ UNCHANGED <<job, reported>>
  BY DEF RotateReturns, At, server
<1>2. PICK a : a = con[c].att
  OBVIOUS
<1>3. a \in Attempts /\ Att(c) = a /\ Before(c)
  BY <1>1, <1>2, Executes DEF Before
<1>4. \/ TargetKept /\ Fail(c, "unchanged")
      \/ TargetKept /\ MoreTries(c)
         /\ con' = [con EXCEPT ![c].pc = "rotate", ![c].tries = @ + 1]
      \/ (TargetKept \/ TargetSet(a) \/ TargetPending(a))
         /\ (GoTo(c, "verify") \/ Fail(c, "updated") \/ Fail(c, "indeterminate"))
  <2>1. \/ TargetSet(a) /\ GoTo(c, "verify")
        \/ \E e \in RotateErrors :
             /\ e[2] = "unchanged" => TargetKept
             /\ e[2] # "unchanged" => TargetKept \/ TargetSet(a) \/ TargetPending(a)
             /\ IF e[1] = "transient" /\ MoreTries(c)
                  THEN con' = [con EXCEPT ![c].pc = "rotate", ![c].tries = @ + 1]
                  ELSE Fail(c, e[2])
    <3>1. Att(c) = a
      BY <1>3
    <3>. QED  BY <3>1, Zenon DEF RotateReturns
  <2>2. \A e \in RotateErrors :
          \/ e[2] = "unchanged"
          \/ e[1] # "transient" /\ e[2] = "updated"
          \/ e[1] # "transient" /\ e[2] = "indeterminate"
    BY DEF RotateErrors, ScriptErrors
  <2>. QED  BY <2>1, <2>2, Zenon
<1>5. CASE TargetKept /\ Fail(c, "unchanged")
  <2>1. UNCHANGED <<job, reported, applied, late>> /\ "unchanged" \in Syncs
    BY <1>1, <1>5 DEF TargetKept, Syncs
  <2>. QED  BY <1>3, <1>5, <2>1, FailKeeps, Quietly, AttNat, EffectKeeps
<1>6. CASE TargetKept /\ MoreTries(c)
           /\ con' = [con EXCEPT ![c].pc = "rotate", ![c].tries = @ + 1]
  <2>1. UNCHANGED <<job, reported, applied, late>>
    BY <1>1, <1>6 DEF TargetKept
  <2>2. Moves(c) /\ con'[c].pc = "rotate" /\ con'[c].att = con[c].att
    BY <1>6, AgainAtMoves DEF Inv, Pcs
  <2>3. \A d \in Connectors : Keeps(d)
    BY <1>3, <2>2, MoveKeeps
  <2>. QED  BY <2>1, <2>3, Quietly, AttNat, EffectKeeps
<1>7. CASE (TargetKept \/ TargetSet(a) \/ TargetPending(a))
           /\ (GoTo(c, "verify") \/ Fail(c, "updated") \/ Fail(c, "indeterminate"))
  <2>1. Moves(c) /\ con'[c].att = con[c].att /\ ~Before(c)'
    <3>1. CASE GoTo(c, "verify")
      BY <3>1, GoToMoves DEF Inv, Pcs, Before
    <3>2. CASE Fail(c, "updated") \/ Fail(c, "indeterminate")
      <4>1. "updated" \in Syncs /\ "indeterminate" \in Syncs
        BY DEF Syncs
      <4>. QED  BY <3>2, <4>1, FailMoves DEF Inv, Before
    <3>. QED  BY <1>7, <3>1, <3>2
  <2>2. PICK m : m = [what |-> "rotate", att |-> a]
    OBVIOUS
  <2>3. /\ \A b : b # a /\ b \notin applied => b \notin applied'
        /\ late' = late \/ late' = late \cup {m}
    BY <1>7, <2>2 DEF TargetKept, TargetSet, TargetPending, Rotate
  <2>4. m.what = "rotate" /\ m.att = a
    BY <2>2
  <2>5. \A b \in Attempts : b # a /\ Untouched(b) => Untouched(b)'
    BY <2>3, <2>4 DEF Untouched
  <2>. QED  BY <1>1, <1>2, <1>3, <2>1, <2>3, <2>4, <2>5, TouchEffect
<1>. QED  BY <1>4, <1>5, <1>6, <1>7

LEMMA RecordEffect ==
    ASSUME Inv, NEW a \in Attempts, NEW outcome, Record(a, outcome) \/ UNCHANGED <<job, reported>>
    PROVE  /\ job'.claims = job.claims
           /\ \A b \in Attempts : reported'[b] = reported[b]
                                  \/ (b = a /\ reported'[b] = outcome /\ Owns(a))
<1>1. CASE Record(a, outcome) /\ Owns(a)
  <2>1. /\ job' = [job EXCEPT !.state = "closed"]
        /\ reported' = [reported EXCEPT ![a] = outcome]
    BY <1>1 DEF Record
  <2>. QED  BY <1>1, <2>1 DEF Inv, TypeOK
<1>2. CASE ~(Record(a, outcome) /\ Owns(a))
  BY <1>2 DEF Record
<1>. QED  BY <1>1, <1>2

LEMMA ReportSuccessEffect ==
    ASSUME Inv, EffectInv, NEW c \in Connectors, ReportSuccess(c)
    PROVE  EffectInv'
<1>0. PICK m : m = [what |-> "report", att |-> Att(c), outcome |-> "success"]
  OBVIOUS
<1>1. /\ con[c].pc = "succeed" /\ applied' = applied
      /\ late' = late \/ late' = late \cup {m}
      /\ Record(Att(c), "success") \/ UNCHANGED <<job, reported>>
      /\ Finish(c, FALSE) \/ Aborts(c) \/ Retries(c)
  BY <1>0 DEF ReportSuccess, At, Transit
<1>2. Att(c) \in Attempts /\ Att(c) <= job.claims
  BY <1>1, Executes
<1>3. /\ job'.claims = job.claims
      /\ \A b \in Attempts : reported'[b] = reported[b]
                             \/ (b = Att(c) /\ reported'[b] = "success")
  BY <1>1, <1>2, RecordEffect
<1>4. m.what = "report" /\ m.outcome = "success"
  BY <1>0
<1>5. HandsOff /\ Silent
  BY <1>1, <1>2, <1>3, <1>4 DEF HandsOff, Silent, SaidUnchanged, EffectInv
<1>6. \A d \in Connectors : Keeps(d)
  BY <1>1, FinishKeeps, RetryKeeps DEF Aborts
<1>. QED  BY <1>5, <1>6, AttNat, EffectKeeps

(* A connector that reports target_unchanged is the only one that executes *)
(* the attempt, and is done with it.                                       *)
LEMMA ReportFailureEffect ==
    ASSUME Inv, EffectInv, NEW c \in Connectors, ReportFailure(c)
    PROVE  EffectInv'
<1>0. PICK a, sync, m : /\ a = con[c].att /\ sync = con[c].sync
                        /\ m = [what |-> "report", att |-> a, outcome |-> sync]
  OBVIOUS
<1>1. /\ con[c].pc = "fail" /\ applied' = applied
      /\ late' = late \/ late' = late \cup {m}
      /\ Record(a, sync) \/ UNCHANGED <<job, reported>>
      /\ Finish(c, FALSE)
  BY <1>0 DEF ReportFailure, At, Transit, Att
<1>2. a \in Attempts /\ a <= job.claims
  BY <1>0, <1>1, Executes
<1>3. /\ job'.claims = job.claims
      /\ \A b \in Attempts : reported'[b] = reported[b] \/ (b = a /\ reported'[b] = sync)
  BY <1>1, <1>2, RecordEffect
<1>4. m.what = "report" /\ m.outcome = sync /\ m.att = a
  BY <1>0
<1>5. \A d \in Connectors : Keeps(d)
  BY <1>1, FinishKeeps
<1>6. HandsOff
  BY <1>1, <1>4 DEF HandsOff
<1>7. CASE sync # "unchanged"
  <2>1. Silent
    BY <1>1, <1>2, <1>3, <1>4, <1>7 DEF Silent, SaidUnchanged, EffectInv
  <2>. QED  BY <1>5, <1>6, <2>1, AttNat, EffectKeeps
<1>8. CASE sync = "unchanged"
  <2>1. Before(c) /\ Untouched(a)
    BY <1>0, <1>1, <1>8 DEF Before, EffectInv
  <2>2. Moves(c) /\ con'[c].att = 0 /\ con'[c].pc \in {"idle", "exited"}
    BY <1>1, FinishMoves DEF Inv
  <2>3. a # 0 /\ \A d \in Connectors : con'[d].att # a
    BY <1>0, <1>2, <2>2, RotationAssumption DEF EffectInv, Attempts, Moves
  <2>4. \A b \in Attempts : SaidUnchanged(b)' => SaidUnchanged(b) \/ b = a
    BY <1>1, <1>3, <1>4 DEF SaidUnchanged
  <2>5. \A b \in Attempts : Untouched(b) => Untouched(b)'
    BY <1>6 DEF HandsOff, Untouched
  <2>6. \A b \in Attempts : SaidUnchanged(b)' =>
           Untouched(b)' /\ \A d \in Connectors : con'[d].att # b
    <3>1. \A b \in Attempts : b # 0
      BY RotationAssumption DEF Attempts
    <3>. QED  BY <1>2, <1>5, <2>1, <2>3, <2>4, <2>5, <3>1 DEF EffectInv, Keeps
  <2>7. \A x, y \in Connectors : (con[x].att # 0 /\ con[x].att = con[y].att => x = y)'
    BY <1>5 DEF Keeps, EffectInv
  <2>8. ASSUME NEW d \in Connectors, Before(d)' PROVE Untouched(con[d].att)'
    <3>1. Before(d) /\ con'[d].att = con[d].att /\ Untouched(con[d].att)
      BY <1>5, <2>8 DEF Keeps, EffectInv
    <3>. QED  BY <1>6, <3>1 DEF HandsOff, Untouched
  <2>9. \A b \in Attempts : (reported[b] # "none" => b <= job.claims)'
    BY <1>2, <1>3 DEF EffectInv
  <2>. QED  BY <2>6, <2>7, <2>8, <2>9 DEF EffectInv
<1>. QED  BY <1>7, <1>8

LEMMA ClaimEffect ==
    ASSUME Inv, EffectInv, NEW c \in Connectors, Claim(c)
    PROVE  EffectInv'
<1>1. PICK a : a = job.claims + 1
  OBVIOUS
<1>2. /\ job'.claims = a /\ job'.owner = a
      /\ con' = [con EXCEPT ![c] = [Idle EXCEPT !.pc = "claimed", !.att = a]] \/ UNCHANGED con
      /\ UNCHANGED <<reported, late, applied>>
      /\ job.claims \in Nat /\ a \in Attempts
  BY <1>1, RotationAssumption DEF Claim, history, Inv, TypeOK, Attempts
<1>3. \A b \in Attempts : b \in Nat
  BY RotationAssumption DEF Attempts
<1>4. /\ \A d \in Connectors : con[d].att \in Nat /\ con[d].att < a
      /\ \A m \in late : m.att \in Attempts /\ m.att < a
      /\ \A b \in applied : b \in Attempts /\ b < a
      /\ \A b \in Attempts : reported[b] # "none" => b < a
  <2>1. \A d \in Connectors : con[d].att \in Nat /\ con[d].att <= job.claims
    BY AttNat DEF Inv, ConOK
  <2>2. \A m \in late : m.att \in Attempts /\ m.att <= job.claims
    BY LateFields DEF Inv, LateOK
  <2>3. \A b \in applied : b \in Attempts /\ b <= job.claims
    BY DEF Inv, TypeOK, ServerOK
  <2>. QED  BY <1>1, <1>2, <1>3, <2>1, <2>2, <2>3 DEF EffectInv
<1>5. Untouched(a)' /\ \A b : Untouched(b) => Untouched(b)'
  BY <1>2, <1>3, <1>4 DEF Untouched
<1>6. \A d \in Connectors : con'[d] = con[d] \/ (d = c /\ con'[d].att = a)
  <2>1. [Idle EXCEPT !.pc = "claimed", !.att = a].att = a
    BY DEF Idle
  <2>. QED  BY <1>2, <2>1 DEF Inv, TypeOK
<1>7. \A x, y \in Connectors : (con[x].att # 0 /\ con[x].att = con[y].att => x = y)'
  BY <1>2, <1>3, <1>4, <1>6 DEF EffectInv
<1>8. ASSUME NEW d \in Connectors, Before(d)' PROVE Untouched(con[d].att)'
  <2>1. CASE con'[d].att = a
    BY <1>5, <2>1 DEF Untouched
  <2>2. CASE con'[d] = con[d]
    <3>1. PICK b : b = con[d].att
      OBVIOUS
    <3>2. Untouched(b)'
      BY <1>5, <1>8, <2>2, <3>1 DEF EffectInv, Before
    <3>. QED  BY <2>2, <3>1, <3>2 DEF Untouched
  <2>. QED  BY <1>6, <2>1, <2>2
<1>9. \A b \in Attempts : SaidUnchanged(b)' =>
         Untouched(b)' /\ \A d \in Connectors : con'[d].att # b
  <2>. SUFFICES ASSUME NEW b \in Attempts, SaidUnchanged(b)'
                PROVE  Untouched(b)' /\ \A d \in Connectors : con'[d].att # b
    OBVIOUS
  <2>1. SaidUnchanged(b)
    BY <1>2 DEF SaidUnchanged
  <2>2. b # a
    BY <1>2, <1>3, <1>4, <2>1 DEF SaidUnchanged
  <2>. QED  BY <1>5, <1>6, <2>1, <2>2 DEF EffectInv
<1>10. \A b \in Attempts : (reported[b] # "none" => b <= job.claims)'
  BY <1>2, <1>3, <1>4
<1>. QED  BY <1>7, <1>8, <1>9, <1>10 DEF EffectInv

LEMMA CrashEffect ==
    ASSUME Inv, EffectInv, NEW c \in Connectors, Crash(c)
    PROVE  EffectInv'
<1>0. PICK a, m : a = con[c].att /\ m = [what |-> "rotate", att |-> a]
  OBVIOUS
<1>1. /\ con[c].pc \notin {"idle", "exited"} /\ con' = [con EXCEPT ![c] = Idle]
      /\ UNCHANGED <<job, reported, applied>>
      /\ late' = late \/ late' = late \cup {m}
  BY <1>0 DEF Crash, server, history, Att
<1>2. a \in Attempts
  BY <1>0, <1>1, Executes
<1>3. Moves(c) /\ con'[c] = Idle
  BY <1>1, IdleType DEF Inv, TypeOK, Moves
<1>4. con'[c].att = 0 /\ ~Before(c)'
  BY <1>3 DEF Idle, Before
<1>5. m.what = "rotate" /\ m.att = a
  BY <1>0
<1>6. \A b \in Attempts : b # a /\ Untouched(b) => Untouched(b)'
  BY <1>1, <1>5 DEF Untouched
<1>. QED  BY <1>0, <1>1, <1>2, <1>3, <1>4, <1>5, <1>6, TouchEffect

LEMMA LateEffect ==
    ASSUME Inv, EffectInv, ProcessLate
    PROVE  EffectInv'
<1>1. PICK m \in late :
        /\ late' = late \ {m} /\ UNCHANGED con
        /\ IF m.what = "report" THEN Record(m.att, m.outcome) ELSE UNCHANGED <<job, reported>>
        /\ IF m.what = "rotate" THEN Rotate(m.att) ELSE UNCHANGED <<target, applied, overrun>>
  BY DEF ProcessLate
<1>2. m.att \in Attempts /\ m.att <= job.claims /\ m.what \in {"rotate", "put", "report"}
  BY LateFields DEF Inv, LateOK
<1>3. \A d \in Connectors : Keeps(d)
  BY <1>1, SameKeeps
<1>4. Silent
  <2>1. CASE m.what = "report"
    <3>1. /\ job'.claims = job.claims
          /\ \A b \in Attempts : reported'[b] = reported[b]
                                 \/ (b = m.att /\ reported'[b] = m.outcome)
      BY <1>1, <1>2, <2>1, RecordEffect
    <3>. QED  BY <1>1, <1>2, <2>1, <3>1 DEF Silent, SaidUnchanged, EffectInv
  <2>2. CASE m.what # "report"
    BY <1>1, <2>2 DEF Silent, SaidUnchanged, EffectInv
  <2>. QED  BY <2>1, <2>2
<1>5. CASE m.what # "rotate"
  <2>1. HandsOff
    BY <1>1, <1>5 DEF HandsOff
  <2>. QED  BY <1>3, <1>4, <2>1, AttNat, EffectKeeps
<1>6. CASE m.what = "rotate"
  <2>1. applied' = applied \cup {m.att} /\ UNCHANGED <<job, reported>>
    BY <1>1, <1>6 DEF Rotate
  <2>2. \A b : Untouched(b) => Untouched(b)'
    BY <1>1, <1>6, <2>1 DEF Untouched
  <2>3. \A b \in Attempts : SaidUnchanged(b)' => SaidUnchanged(b)
    BY <1>1, <2>1 DEF SaidUnchanged
  <2>4. \A d \in Connectors : Before(d)' => Untouched(con[d].att)'
    BY <1>1, <2>2 DEF Before, EffectInv
  <2>. QED  BY <1>1, <2>1, <2>2, <2>3, <2>4 DEF EffectInv
<1>. QED  BY <1>5, <1>6

LEMMA OtherEffect ==
    ASSUME Inv, EffectInv,
           \/ \E c \in Connectors : Exit(c) \/ Revoke(c) \/ Shutdown(c) \/ GoesOffline(c)
                                    \/ Heartbeat(c)
           \/ Release \/ Edit \/ \E a \in Attempts : LeaseExpires(a)
           \/ UNCHANGED vars
    PROVE  EffectInv'
<1>1. UNCHANGED <<reported, applied, late>> /\ job'.claims = job.claims
  BY DEF Exit, Revoke, Shutdown, GoesOffline, Heartbeat, Release, Edit, LeaseExpires, vars,
     server, history, Inv, TypeOK
<1>2. HandsOff /\ Silent
  BY <1>1 DEF HandsOff, Silent, SaidUnchanged, EffectInv
<1>3. CASE UNCHANGED con
  <2>1. \A d \in Connectors : Keeps(d)
    BY <1>3, SameKeeps
  <2>. QED  BY <1>2, <2>1, AttNat, EffectKeeps
<1>4. ASSUME NEW c \in Connectors, Exit(c) PROVE EffectInv'
  <2>1. con' = [con EXCEPT ![c].pc = "exited"] /\ "exited" \in Pcs
    BY <1>4 DEF Exit, Pcs
  <2>2. Moves(c) /\ con'[c].pc = "exited" /\ con'[c].att = con[c].att
    BY <2>1 DEF Inv, TypeOK, Connector, Moves
  <2>3. \A d \in Connectors : Keeps(d)
    BY <2>2, MoveKeeps
  <2>. QED  BY <1>2, <2>3, AttNat, EffectKeeps
<1>. QED  BY <1>3, <1>4 DEF Revoke, Shutdown, GoesOffline, Heartbeat, Release, Edit,
          LeaseExpires, vars

(* With scripts, an attempt that is on record as target_unchanged has not  *)
(* changed the target and never will (TargetEffect, failure_sync): a       *)
(* script is run again only when it says that it did nothing, and no       *)
(* report of another connector, no late report and no crash upsets this.   *)
THEOREM UnchangedCorrect ==
    ASSUME Kind = "script"
    PROVE  Spec => []UnchangedIsTrue
<1>1. Init => EffectInv
  <2>. SUFFICES ASSUME Init PROVE EffectInv
    OBVIOUS
  <2>1. \A c \in Connectors : con[c].att = 0 /\ con[c].pc = "idle"
    BY DEF Init, Idle
  <2>2. \A a \in Attempts : reported[a] = "none"
    BY DEF Init
  <2>3. late = {}
    BY DEF Init
  <2>. QED  BY <2>1, <2>2, <2>3 DEF EffectInv, Before, SaidUnchanged
<1>2. Inv /\ EffectInv /\ [Next]_vars => EffectInv'
  <2>. SUFFICES ASSUME Inv, EffectInv, [Next]_vars PROVE EffectInv'
    OBVIOUS
  <2>1. ASSUME NEW c \in Connectors, Step(c) PROVE EffectInv'
    BY <2>1, QuietStepEffect, WriteEffect, RotateReturnsEffect, ReportSuccessEffect,
       ReportFailureEffect DEF Step
  <2>. QED  BY <2>1, ClaimEffect, CrashEffect, LateEffect, OtherEffect DEF Next
<1>3. EffectInv => UnchangedIsTrue
  BY DEF EffectInv, SaidUnchanged, Untouched, UnchangedIsTrue
<1>. QED  BY <1>1, <1>2, <1>3, Invariance, PTL DEF Spec
=============================================================================
