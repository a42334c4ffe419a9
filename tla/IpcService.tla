----------------------------- MODULE IpcService -----------------------------
(***************************************************************************)
(* An IPC client as a whole: its life, its requests and broadcasts         *)
(* (IpcClient) and the requests of others that it serves (RpcHandlers).    *)
(* The processing loop hands a received request to a task of its own, and  *)
(* the answer of that task goes out through send(), whose fatal errors     *)
(* stop the client.  The task does not depend on the loop: it goes on when *)
(* the client is stopped, and also when it is started again.               *)
(***************************************************************************)
EXTENDS IpcClient, RpcHandlers

vars == <<token, cancelled, incoming, starts, loops, reqs, asked, others, bcast,
          answered, faulted, doomed, registered, queue, serve, regs>>

TypeOK == ClientTypeOK /\ HandlersTypeOK
Init == ClientInit /\ HandlersInit

LoopReceiveRequest(c, q) ==
    /\ loops[c] = "running" /\ SpawnHandler(q)
    /\ UNCHANGED clientVars

(* The send of an answer ends, or fails with a fatal error. *)
SendAnswer(q) ==
    /\ Reply(q)
    /\ \/ UNCHANGED clientVars
       \/ FatalError /\ UNCHANGED <<incoming, starts, loops, reqs, asked, others,
                                    bcast, answered>>

Next ==
    \/ ClientNext /\ UNCHANGED handlerVars
    \/ \E c \in Calls, q \in Incoming : LoopReceiveRequest(c, q)
    \/ \E q \in Incoming :
         \/ (ServeStep(q) \/ HandlerReturns(q)) /\ UNCHANGED clientVars
         \/ SendAnswer(q)
    \/ \E g \in Registrations :
         (Register(g) \/ RegisterInsert(g)) /\ UNCHANGED clientVars

Spec == Init /\ [][Next]_vars

(* Tasks that can proceed are polled, and a send ends (NoiseSession).      *)
(* Nothing is assumed of callers, of the peer, of the transport and of the *)
(* handlers.                                                               *)
ClientFairness ==
    /\ \A c \in Calls : WF_vars(StartStep(c) /\ UNCHANGED handlerVars)
                        /\ WF_vars(LoopStep(c) /\ UNCHANGED handlerVars)
    /\ \A r \in Requests : WF_vars(RequestStep(r) /\ UNCHANGED handlerVars)
HandlerFairness ==
    /\ \A q \in Incoming : WF_vars(ServeStep(q) /\ UNCHANGED clientVars)
                           /\ WF_vars(SendAnswer(q))
    /\ \A g \in Registrations : WF_vars(RegisterInsert(g) /\ UNCHANGED clientVars)
=============================================================================
