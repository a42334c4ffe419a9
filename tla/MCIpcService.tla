---------------------------- MODULE MCIpcService ----------------------------
(***************************************************************************)
(* A small instance of IpcService.  MaxLoad bounds what happens in one     *)
(* behaviour: calls of start() and of request(), other messages, requests  *)
(* received, registrations and the two sends of a broadcast.  One less is  *)
(* explored in any combination, MaxLoad in those where the client only     *)
(* makes requests, or serves them during one life.                         *)
(***************************************************************************)
EXTENDS IpcService

CONSTANT MaxLoad

CountStarts == Cardinality({c \in Calls : starts[c] # "new"})
CountMade == Cardinality({r \in Requests : reqs[r].pc # "idle"})
CountServed ==
    Cardinality({q \in Incoming : serve[q] # "none"})
    + Cardinality({g \in Registrations : regs[g] # "idle"})
CountSends == IF bcast.pc = "idle" THEN 0 ELSE 2

Load == CountStarts + CountMade + others + CountServed + CountSends
Small ==
    \/ Load < MaxLoad
    \/ Load = MaxLoad /\ CountServed + CountSends = 0 /\ registered
    \/ Load = MaxLoad /\ CountMade = 0 /\ CountStarts < 2

MCSpec == Init /\ [][Next /\ Small']_vars /\ ClientFairness /\ HandlerFairness
=============================================================================
