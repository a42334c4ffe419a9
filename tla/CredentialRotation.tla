------------------------- MODULE CredentialRotation -------------------------
(***************************************************************************)
(* Rotation of one credential by the PAM access connector: the connectors  *)
(* that poll, claim and execute the rotation job, the gate before every    *)
(* call to the target, the retries, the vault write with its optimistic    *)
(* check, and the reports.  A connector may crash and start again.         *)
(*                                                                         *)
(* Each claim makes an attempt; attempts are numbered, and the password    *)
(* that attempt a generates is a.  0 is the password before the first.     *)
(* The job server, the vault and the target are external: what they do is  *)
(* what the connector's code and comments say of them.  A session is live  *)
(* until it is revoked (see ConnectorSession).                             *)
(***************************************************************************)
EXTENDS Naturals, FiniteSets

CONSTANTS
    Connectors,
    Kind,          \* the integration: "script" or "entra"
    MaxTries,      \* RetryCfg::max_retry_attempts
    MaxAttempts,   \* bound: claims of the job
    MaxEdits,      \* bound: edits of the vault item by users
    MaxFaults,     \* bound: API calls that fail in transit
    MaxCrashes     \* bound: crashes of connectors

ASSUME RotationAssumption ==
    /\ Kind \in {"script", "entra"} /\ MaxTries \in Nat \ {0}
    /\ MaxAttempts \in Nat /\ MaxEdits \in Nat
    /\ MaxFaults \in Nat /\ MaxCrashes \in Nat

VARIABLES
    job,      \* [state, owner, claims]: the job at the server
    lapsed,   \* attempts whose execute_by has passed
    reported, \* reported[a]: the sync state the server recorded for a
    vault,    \* [pw, rev, edits]: the vault item
    target,   \* the password of the account at the target
    late,     \* requests that timed out here and may still be processed there
    con,      \* con[c]: where the connector c is
    session,  \* session[c]: "live" or "revoked"
    cancel,   \* connectors that were asked to shut down
    online,   \* connectors with recent server contact
    faults, crashes,
    applied,  \* history: attempts whose password reached the target
    written,  \* history: attempts whose password reached the vault
    ended,    \* history: attempts that their connector ended
    overrun   \* history: a rotate took effect after its claim was released

server == <<job, reported, vault>>
env == <<lapsed, session, cancel, online, crashes>>
history == <<applied, written, ended, overrun>>
vars == <<server, target, late, con, env, faults, history>>

-----------------------------------------------------------------------------
Attempts == 1 .. MaxAttempts
Syncs == {"unchanged", "updated", "indeterminate"}
Outcomes == Syncs \cup {"success"}
Pcs == {"idle", "claimed", "preflight", "resolve", "rotate", "rotating",
        "verify", "verifying", "fetch", "put", "recheck", "terminate",
        "terminating", "succeed", "fail", "exited"}
Connector == [pc : Pcs, att : 0 .. MaxAttempts, tries : 0 .. MaxTries - 1,
              sync : Syncs, rev : Nat, edits : 0 .. MaxEdits]
Request ==
    [what : {"rotate"}, att : Attempts]
    \cup [what : {"put"}, att : Attempts, rev : Nat, edits : 0 .. MaxEdits]
    \cup [what : {"report"}, att : Attempts, outcome : Outcomes]

TypeOK ==
    /\ job \in [state : {"open", "claimed", "closed"}, owner : 0 .. MaxAttempts,
                claims : 0 .. MaxAttempts]
    /\ lapsed \subseteq Attempts
    /\ reported \in [Attempts -> Outcomes \cup {"none"}]
    /\ vault \in [pw : 0 .. MaxAttempts, rev : Nat, edits : 0 .. MaxEdits]
    /\ target \in 0 .. MaxAttempts
    /\ late \subseteq Request
    /\ con \in [Connectors -> Connector]
    /\ session \in [Connectors -> {"live", "revoked"}]
    /\ cancel \subseteq Connectors /\ online \subseteq Connectors
    /\ faults \in 0 .. MaxFaults /\ crashes \in 0 .. MaxCrashes
    /\ applied \subseteq Attempts /\ written \subseteq Attempts
    /\ ended \subseteq Attempts /\ overrun \in BOOLEAN

Idle == [pc |-> "idle", att |-> 0, tries |-> 0, sync |-> "unchanged",
         rev |-> 0, edits |-> 0]

Init ==
    /\ job = [state |-> "open", owner |-> 0, claims |-> 0]
    /\ lapsed = {} /\ reported = [a \in Attempts |-> "none"]
    /\ vault = [pw |-> 0, rev |-> 0, edits |-> 0] /\ target = 0 /\ late = {}
    /\ con = [c \in Connectors |-> Idle]
    /\ session = [c \in Connectors |-> "live"]
    /\ cancel = {} /\ online = Connectors
    /\ faults = 0 /\ crashes = 0
    /\ applied = {} /\ written = {} /\ ended = {} /\ overrun = FALSE

-----------------------------------------------------------------------------
At(c, pc) == con[c].pc = pc
Att(c) == con[c].att
Live(c) == session[c] = "live"
Owns(a) == job.state = "claimed" /\ job.owner = a

GoTo(c, pc) == con' = [con EXCEPT ![c].pc = pc, ![c].tries = 0]
Fail(c, sync) == con' = [con EXCEPT ![c].pc = "fail", ![c].sync = sync]

(* The attempt is over for its connector.  A revoked session ends the run. *)
Finish(c, exits) ==
    /\ con' = [con EXCEPT ![c] = [Idle EXCEPT !.pc = IF exits THEN "exited" ELSE "idle"]]
    /\ ended' = ended \cup {Att(c)}
Aborts(c) == Finish(c, ~Live(c))

(* retry_loop: another try, or what the last error leads to. *)
MoreTries(c) == con[c].tries + 1 < MaxTries
Again(c) == con' = [con EXCEPT ![c].tries = @ + 1]
(* An API call that failed is tried again; it may also have failed for     *)
(* good, with an answer that cannot be read.                               *)
Retries(c) == MoreTries(c) /\ Again(c)

(* What the server does with a request of attempt a, and when it does it.  *)
Put(a, rev, edits) ==
    IF Owns(a) /\ vault.rev = rev
      THEN /\ vault' = [pw |-> a, rev |-> rev + 1, edits |-> edits]
           /\ written' = written \cup {a}
      ELSE UNCHANGED <<vault, written>>
Record(a, outcome) ==
    IF Owns(a)
      THEN /\ job' = [job EXCEPT !.state = "closed"]
           /\ reported' = [reported EXCEPT ![a] = outcome]
      ELSE UNCHANGED <<job, reported>>
Rotate(a) ==
    /\ target' = a /\ applied' = applied \cup {a}
    /\ overrun' = (overrun \/ ~Owns(a))

(* A request fails in transit: it may be lost, or be processed later. *)
Transit(m) ==
    /\ faults < MaxFaults /\ faults' = faults + 1
    /\ late' \in {late, late \cup {m}}

-----------------------------------------------------------------------------
(* Polls and claims: the job is ours, or the answer to the claim is lost.  *)
Claim(c) ==
    /\ At(c, "idle") /\ c \notin cancel /\ Live(c)
    /\ job.state = "open" /\ job.claims < MaxAttempts
    /\ job' = [state |-> "claimed", owner |-> job.claims + 1, claims |-> job.claims + 1]
    /\ \/ /\ con' = [con EXCEPT ![c] = [Idle EXCEPT !.pc = "claimed", !.att = job'.owner]]
          /\ UNCHANGED faults
       \/ faults < MaxFaults /\ faults' = faults + 1 /\ UNCHANGED con
    /\ UNCHANGED <<reported, vault, target, late, env, history>>

(* run() ends: shutdown, a refused credential, or not eligible. *)
Exit(c) ==
    /\ At(c, "idle") /\ (c \in cancel \/ ~Live(c))
    /\ con' = [con EXCEPT ![c].pc = "exited"]
    /\ UNCHANGED <<server, target, late, env, faults, history>>

(* Seals are verified, then the session is looked at. *)
StartAttempt(c) ==
    /\ At(c, "claimed")
    /\ \/ Live(c) /\ GoTo(c, "preflight")
       \/ Fail(c, "unchanged")
    /\ UNCHANGED <<server, target, late, env, faults, history>>

(* Resolves credentials, generates the password, finds the integration. *)
Resolve(c) ==
    /\ At(c, "resolve")
    /\ GoTo(c, "rotate") \/ Fail(c, "unchanged")
    /\ UNCHANGED <<server, target, late, env, faults, history>>

(* Mutant of Fetched: the item of the pre-flight check is written back     *)
(* under the revision that was fetched last.                               *)
FetchedRevisionOnly(c, next) ==
    con' = [con EXCEPT ![c].pc = next, ![c].tries = 0, ![c].rev = vault.rev,
              ![c].edits = IF next = "put" THEN @ ELSE vault.edits]
Fetched(c, next) ==
    con' = [con EXCEPT ![c].pc = next, ![c].tries = 0,
              ![c].rev = vault.rev, ![c].edits = vault.edits]

(* Fetches the cipher with retries: `next' with the item fetched, `bad'    *)
(* when it cannot be fetched or is not one that can be rotated.            *)
Fetch(c, next, bad) ==
    /\ \/ /\ Live(c) /\ Owns(Att(c)) /\ UNCHANGED <<faults, ended>>
          /\ Fetched(c, next) \/ Fail(c, bad)
       \/ /\ Live(c) /\ ~Owns(Att(c)) /\ UNCHANGED faults
          /\ Aborts(c) \/ (Fail(c, bad) /\ UNCHANGED ended)
       \/ /\ Live(c) /\ faults < MaxFaults /\ faults' = faults + 1 /\ UNCHANGED ended
          /\ Retries(c) \/ Fail(c, bad)
       \/ ~Live(c) /\ Aborts(c) /\ UNCHANGED faults
    /\ UNCHANGED <<server, target, late, env, applied, written, overrun>>

PreFlight(c) == At(c, "preflight") /\ Fetch(c, "resolve", "unchanged")
FetchForWrite(c) == At(c, "fetch") /\ Fetch(c, "put", "updated")

-----------------------------------------------------------------------------
(* The gate before every call to the target; the call starts with it.  An  *)
(* offline connector waits.                                                *)
TargetSteps == {"rotate", "verify", "terminate"}
InFlight(step) == CASE step = "rotate" -> "rotating"
                    [] step = "verify" -> "verifying"
                    [] step = "terminate" -> "terminating"

(* Mutant of LeaseOver: the lease is not looked at while waiting offline. *)
LeaseOverOnline(c) == c \in online /\ (Att(c) \in lapsed \/ c \in cancel)
LeaseOver(c) == Att(c) \in lapsed \/ c \in cancel

GatePasses(c) ==
    /\ con[c].pc \in TargetSteps
    /\ ~LeaseOver(c) /\ Live(c) /\ c \in online
    /\ con' = [con EXCEPT ![c].pc = InFlight(@)]
    /\ UNCHANGED <<server, target, late, env, faults, history>>

(* A lease that expired or a shutdown only skips the termination. *)
GateAborts(c) ==
    /\ con[c].pc \in TargetSteps
    /\ \/ /\ LeaseOver(c)
          /\ IF At(c, "terminate") THEN GoTo(c, "succeed") /\ UNCHANGED ended
                                   ELSE Finish(c, FALSE)
       \/ ~LeaseOver(c) /\ ~Live(c) /\ Aborts(c)
    /\ UNCHANGED <<server, target, late, env, faults, applied, written, overrun>>

(* How rotate() can fail: whether it is tried again, and the effect.  A    *)
(* script tells by its exit code, or is killed; Entra answers, or not.     *)
ScriptErrors ==
    {<<"permanent", "unchanged">>, <<"permanent", "updated">>,
     <<"permanent", "indeterminate">>, <<"transient", "unchanged">>}
EntraErrors ==
    {<<"transient", "unchanged">>, <<"transient", "indeterminate">>,
     <<"permanent", "unchanged">>, <<"permanent", "indeterminate">>}

(* Mutant of RotateErrors: a script whose effect is unknown is run again. *)
RotateErrorsRetried == {"permanent", "transient"} \X Syncs
RotateErrors == IF Kind = "script" THEN ScriptErrors ELSE EntraErrors

TargetKept == UNCHANGED <<target, applied, overrun, late>>
TargetSet(a) == Rotate(a) /\ UNCHANGED late
TargetPending(a) == late' = late \cup {[what |-> "rotate", att |-> a]}
                    /\ UNCHANGED <<target, applied, overrun>>

RotateReturns(c) ==
    /\ At(c, "rotating")
    /\ \/ TargetSet(Att(c)) /\ GoTo(c, "verify")
       \/ \E e \in RotateErrors :
            /\ CASE e[2] = "unchanged" -> TargetKept
                 [] e[2] = "updated" -> TargetSet(Att(c))
                 [] OTHER -> TargetKept \/ TargetSet(Att(c)) \/ TargetPending(Att(c))
            /\ IF e[1] = "transient" /\ MoreTries(c)
                 THEN con' = [con EXCEPT ![c].pc = "rotate", ![c].tries = @ + 1]
                 ELSE Fail(c, e[2])
    /\ UNCHANGED <<server, env, faults, written, ended>>

VerifyReturns(c) ==
    /\ At(c, "verifying")
    /\ \/ Att(c) \in applied /\ GoTo(c, "fetch")
       \/ MoreTries(c) /\ con' = [con EXCEPT ![c].pc = "verify", ![c].tries = @ + 1]
       \/ Fail(c, "updated")
    /\ UNCHANGED <<server, target, late, env, faults, history>>

TerminateReturns(c) ==
    /\ At(c, "terminating")
    /\ \/ MoreTries(c) /\ con' = [con EXCEPT ![c].pc = "terminate", ![c].tries = @ + 1]
       \/ GoTo(c, "succeed")
    /\ UNCHANGED <<server, target, late, env, faults, history>>

-----------------------------------------------------------------------------
(* The job may ask for the sessions of the account to be ended. *)
CipherWritten(c) == GoTo(c, "terminate") \/ GoTo(c, "succeed")

WriteCipher(c) ==
    LET a == Att(c)
        put == [what |-> "put", att |-> a, rev |-> con[c].rev, edits |-> con[c].edits]
    IN  /\ At(c, "put")
        /\ \/ /\ Live(c) /\ Put(a, put.rev, put.edits) /\ UNCHANGED <<faults, late>>
              /\ \/ Owns(a) /\ vault.rev = put.rev /\ CipherWritten(c) /\ UNCHANGED ended
                 \/ ~(Owns(a) /\ vault.rev = put.rev) /\ GoTo(c, "recheck") /\ UNCHANGED ended
                 \/ ~Owns(a) /\ Aborts(c)
           \/ /\ Live(c) /\ UNCHANGED ended
              /\ \/ Transit(put) /\ UNCHANGED <<vault, written>>
                 \/ /\ faults < MaxFaults /\ faults' = faults + 1
                    /\ Put(a, put.rev, put.edits) /\ UNCHANGED late
              /\ Retries(c) \/ Fail(c, "updated")
           \/ ~Live(c) /\ Aborts(c) /\ UNCHANGED <<vault, written, faults, late>>
        /\ UNCHANGED <<job, reported, target, env, applied, overrun>>

(* Mutant of Landed: a 409 is taken for a write that had landed. *)
LandedSurely(c) == vault.pw \in 0 .. MaxAttempts
Landed(c) == vault.pw = Att(c)

(* cipher_write_landed: after a 409 only the vault's contents settle it,   *)
(* if they can be decrypted.                                               *)
Recheck(c) ==
    /\ At(c, "recheck")
    /\ \/ /\ Live(c) /\ Owns(Att(c)) /\ UNCHANGED <<faults, ended>>
          /\ (Landed(c) /\ CipherWritten(c)) \/ Fail(c, "updated")
       \/ /\ Live(c) /\ ~Owns(Att(c)) /\ UNCHANGED faults
          /\ Aborts(c) \/ (Fail(c, "updated") /\ UNCHANGED ended)
       \/ /\ Live(c) /\ faults < MaxFaults /\ faults' = faults + 1 /\ UNCHANGED ended
          /\ Retries(c) \/ Fail(c, "updated")
       \/ ~Live(c) /\ Aborts(c) /\ UNCHANGED faults
    /\ UNCHANGED <<server, target, late, env, applied, written, overrun>>

(* Reports with retries.  A 409 or 404 counts as reported. *)
ReportSuccess(c) ==
    LET report == [what |-> "report", att |-> Att(c), outcome |-> "success"]
    IN  /\ At(c, "succeed")
        /\ \/ Live(c) /\ Record(Att(c), "success") /\ Finish(c, FALSE)
              /\ UNCHANGED <<faults, late>>
           \/ /\ Live(c)
              /\ \/ Transit(report) /\ UNCHANGED <<job, reported>>
                 \/ /\ faults < MaxFaults /\ faults' = faults + 1
                    /\ Record(Att(c), "success") /\ UNCHANGED late
              /\ (Retries(c) /\ UNCHANGED ended) \/ Finish(c, FALSE)
           \/ ~Live(c) /\ Aborts(c) /\ UNCHANGED <<job, reported, faults, late>>
        /\ UNCHANGED <<vault, target, env, applied, written, overrun>>

(* Reports once, and absorbs the error. *)
ReportFailure(c) ==
    LET report == [what |-> "report", att |-> Att(c), outcome |-> con[c].sync]
    IN  /\ At(c, "fail") /\ Finish(c, FALSE)
        /\ \/ Live(c) /\ Record(Att(c), con[c].sync) /\ UNCHANGED <<faults, late>>
           \/ Live(c) /\ Transit(report) /\ UNCHANGED <<job, reported>>
           \/ ~Live(c) /\ UNCHANGED <<job, reported, faults, late>>
        /\ UNCHANGED <<vault, target, env, applied, written, overrun>>

-----------------------------------------------------------------------------
(* The server processes a request late. *)
ProcessLate ==
    \E m \in late :
      /\ late' = late \ {m}
      /\ IF m.what = "put" THEN Put(m.att, m.rev, m.edits) ELSE UNCHANGED <<vault, written>>
      /\ IF m.what = "report" THEN Record(m.att, m.outcome) ELSE UNCHANGED <<job, reported>>
      /\ IF m.what = "rotate" THEN Rotate(m.att) ELSE UNCHANGED <<target, applied, overrun>>
      /\ UNCHANGED <<con, env, faults, ended>>

LeaseExpires(a) ==
    /\ a <= job.claims /\ a \notin lapsed /\ lapsed' = lapsed \cup {a}
    /\ UNCHANGED <<server, target, late, con, session, cancel, online, crashes, faults, history>>

(* The release sweep. *)
Release ==
    /\ job.state = "claimed" /\ job.owner \in lapsed
    /\ job' = [job EXCEPT !.state = "open", !.owner = 0]
    /\ UNCHANGED <<reported, vault, target, late, con, env, faults, history>>

Edit ==
    /\ vault.edits < MaxEdits
    /\ vault' = [vault EXCEPT !.edits = @ + 1, !.rev = @ + 1]
    /\ UNCHANGED <<job, reported, target, late, con, env, faults, history>>

Revoke(c) ==
    /\ Live(c) /\ session' = [session EXCEPT ![c] = "revoked"]
    /\ UNCHANGED <<server, target, late, con, lapsed, cancel, online, crashes, faults, history>>

Shutdown(c) ==
    /\ c \notin cancel /\ cancel' = cancel \cup {c}
    /\ UNCHANGED <<server, target, late, con, lapsed, session, online, crashes, faults, history>>

(* No contact for offline_grace; and a heartbeat that is answered again. *)
GoesOffline(c) ==
    /\ c \in online /\ online' = online \ {c}
    /\ UNCHANGED <<server, target, late, con, lapsed, session, cancel, crashes, faults, history>>
Heartbeat(c) ==
    /\ c \notin online /\ Live(c) /\ online' = online \cup {c}
    /\ UNCHANGED <<server, target, late, con, lapsed, session, cancel, crashes, faults, history>>

(* The process dies and is started again.  A call in flight may complete.  *)
Crash(c) ==
    /\ crashes < MaxCrashes /\ crashes' = crashes + 1
    /\ con[c].pc \notin {"idle", "exited"}
    /\ con' = [con EXCEPT ![c] = Idle]
    /\ late' \in {late} \cup
         IF At(c, "rotating") THEN {late \cup {[what |-> "rotate", att |-> Att(c)]}} ELSE {}
    /\ UNCHANGED <<server, target, lapsed, session, cancel, online, faults, history>>

-----------------------------------------------------------------------------
Step(c) ==
    \/ StartAttempt(c) \/ PreFlight(c) \/ Resolve(c)
    \/ GatePasses(c) \/ GateAborts(c)
    \/ RotateReturns(c) \/ VerifyReturns(c) \/ TerminateReturns(c)
    \/ FetchForWrite(c) \/ WriteCipher(c) \/ Recheck(c)
    \/ ReportSuccess(c) \/ ReportFailure(c)

Next ==
    \/ \E c \in Connectors : Claim(c) \/ Exit(c) \/ Step(c) \/ Revoke(c)
         \/ Shutdown(c) \/ GoesOffline(c) \/ Heartbeat(c) \/ Crash(c)
    \/ ProcessLate \/ Release \/ Edit
    \/ \E a \in Attempts : LeaseExpires(a)

Spec == Init /\ [][Next]_vars

(* Calls return or time out, timers fire, leases expire, and the server    *)
(* sweeps.                                                                 *)
Fairness ==
    /\ \A c \in Connectors : WF_vars(Step(c))
    /\ \A a \in Attempts : WF_vars(LeaseExpires(a))
    /\ WF_vars(Release)
FairSpec == Spec /\ Fairness

-----------------------------------------------------------------------------
(* A success on record means that the vault was given the password of that *)
(* attempt, and, unless a rotate took effect that the gate could not stop, *)
(* that the target has it too: whatever responses were lost, however often *)
(* the write was retried, and whoever else has claimed the job.            *)
SuccessIsTrue ==
    \A a \in Attempts : reported[a] = "success" =>
        /\ a \in written /\ a \in applied
        /\ ~overrun /\ job.owner = a => target = a /\ vault.pw = a

(* An attempt that is on record as target_unchanged never changed it. *)
UnchangedIsTrue ==
    \A a \in Attempts : reported[a] = "unchanged" => a \notin applied

(* No edit that a user made of the item while it was rotated is undone. *)
EditsSurvive == [][vault'.edits >= vault.edits]_vars

(* A rotation that changed the target is recorded: in the vault, or in a   *)
(* report that does not say target_unchanged.                              *)
ChangeIsRecorded ==
    \A a \in ended \cap applied :
        a \in written \/ reported[a] \in {"updated", "indeterminate"}

(* Every attempt ends, also one that is offline for good, and no job stays *)
(* claimed by an attempt that nobody executes any more.                    *)
AttemptsEnd ==
    /\ \A c \in Connectors :
         con[c].pc \notin {"idle", "exited"} ~> con[c].pc \in {"idle", "exited"}
    /\ job.state = "claimed" ~> job.state # "claimed"
=============================================================================
