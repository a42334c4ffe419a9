----------------------------- MODULE RpcHandlers -----------------------------
(***************************************************************************)
(* The requests that an IPC client serves: each is a task of its own that  *)
(* looks its handler up in RpcHandlerRegistry, runs it and answers.  The   *)
(* read guard of the registry is held while the handler runs; registering  *)
(* a handler takes the write guard.  tokio's RwLock serves its waiters in  *)
(* the order in which they came.                                           *)
(*                                                                         *)
(* All requests are of one type.  What a handler does is external.         *)
(***************************************************************************)
EXTENDS Naturals, Sequences, FiniteSets

CONSTANTS
    Incoming,        \* requests that are received
    Registrations    \* calls of register_rpc_handler for their type

ASSUME HandlersAssumption == Incoming \cap Registrations = {}

VARIABLES
    registered,  \* the registry has a handler for the type
    queue,       \* who waits for the registry's lock, in order
    serve,       \* serve[q]: where the task of the request q is
    regs         \* regs[g]: where the registration g is

handlerVars == <<registered, queue, serve, regs>>

-----------------------------------------------------------------------------
ServePc == {"none", "spawned", "lock", "handle", "reply", "done"}

HandlersTypeOK ==
    /\ registered \in BOOLEAN
    /\ queue \in Seq(Incoming \cup Registrations)
    /\ serve \in [Incoming -> ServePc]
    /\ regs \in [Registrations -> {"idle", "lock", "done"}]

HandlersInit ==
    /\ registered \in BOOLEAN /\ queue = <<>>
    /\ serve = [q \in Incoming |-> "none"]
    /\ regs = [g \in Registrations |-> "idle"]

(* The tasks that hold the read guard. *)
Readers == {q \in Incoming : serve[q] = "handle"}

ServeGoto(q, from, to) == serve[q] = from /\ serve' = [serve EXCEPT ![q] = to]
IsNext(t) == queue # <<>> /\ Head(queue) = t

-----------------------------------------------------------------------------
(* handle_rpc_request spawns the task. *)
SpawnHandler(q) ==
    /\ ServeGoto(q, "none", "spawned")
    /\ UNCHANGED <<registered, queue, regs>>

(* A request that cannot be read is logged, and never answered. *)
ReadRequest(q) ==
    /\ \/ ServeGoto(q, "spawned", "lock") /\ queue' = Append(queue, q)
       \/ ServeGoto(q, "spawned", "done") /\ UNCHANGED queue
    /\ UNCHANGED <<registered, regs>>

(* Mutant of Lookup: the registry is behind a mutex. *)
LookupExclusive(q) ==
    /\ IsNext(q) /\ Readers = {} /\ queue' = Tail(queue)
    /\ \/ registered /\ ServeGoto(q, "lock", "handle")
       \/ ServeGoto(q, "lock", "reply")
    /\ UNCHANGED <<registered, regs>>
(* The read guard is granted.  Without a handler, or when the handler's    *)
(* request cannot be read, the answer is an error and the guard is         *)
(* dropped; else the handler runs.                                         *)
Lookup(q) ==
    /\ IsNext(q) /\ queue' = Tail(queue)
    /\ \/ registered /\ ServeGoto(q, "lock", "handle")
       \/ ServeGoto(q, "lock", "reply")
    /\ UNCHANGED <<registered, regs>>

HandlerReturns(q) ==
    /\ ServeGoto(q, "handle", "reply")
    /\ UNCHANGED <<registered, queue, regs>>

(* The answer is sent, or cannot be serialized, or its send fails. *)
Reply(q) ==
    /\ ServeGoto(q, "reply", "done")
    /\ UNCHANGED <<registered, queue, regs>>

Register(g) ==
    /\ regs[g] = "idle" /\ regs' = [regs EXCEPT ![g] = "lock"]
    /\ queue' = Append(queue, g)
    /\ UNCHANGED <<registered, serve>>

(* Mutant of RegisterInsert: the registry is read again (is the name known?) in
   the statement that inserts, whose write guard lives until its end. *)
RegisterInsertReads(g) ==
    /\ IsNext(g) /\ Readers = {} /\ registered' = TRUE
    /\ UNCHANGED <<queue, serve, regs>>
(* It waits for the handlers that run. *)
RegisterInsert(g) ==
    /\ IsNext(g) /\ Readers = {} /\ queue' = Tail(queue)
    /\ registered' = TRUE /\ regs' = [regs EXCEPT ![g] = "done"]
    /\ UNCHANGED serve

-----------------------------------------------------------------------------
ServeStep(q) == ReadRequest(q) \/ Lookup(q)

(* A handler may wait for its user as long as it likes: it delays the      *)
(* other requests only while a registration waits, which the read guard    *)
(* it holds keeps waiting.                                                 *)
SlowHandlersDelayNobody ==
    \A q \in Incoming :
        serve[q] = "spawned" ~>
            \/ serve[q] \in {"handle", "done"}
            \/ \E g \in Registrations : regs[g] = "lock" /\ Readers # {}

(* Where every handler returns, every request that was received is served  *)
(* and every registration ends: readers and writers of the registry never  *)
(* wait for each other in a circle.                                        *)
AllServed ==
    (\A q \in Incoming : serve[q] = "handle" ~> serve[q] # "handle")
    => /\ \A q \in Incoming : serve[q] = "spawned" ~> serve[q] = "done"
       /\ \A g \in Registrations : regs[g] = "lock" ~> regs[g] = "done"
=============================================================================
