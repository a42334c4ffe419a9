-------------------------- MODULE MCFragmentation --------------------------
(* A small instance of Fragmentation: the extension's popup sends next to two
   web pages that hand over any fragment.  As in the code, a source may
   reserve as much as one message of the largest size, the web pool as much as
   one source, and the other pool more. *)
EXTENDS Fragmentation

OneSource == [messages |-> 2, bytes |-> MaxPayloadSize]
TwoSources == [messages |-> 4, bytes |-> 2 * MaxPayloadSize]

Data == <<<<"page", 0, 0>>>>
AFragment(id, index, total, data) ==
    [id |-> id, index |-> index, total |-> total, topic |-> "t", data |-> data]

(* A message that trickles in and never ends and one that stops where a message
   of the popup has its second fragment, both under ids of the popup; one that
   does not fit beside them; and headers past the limits. *)
AnyFragment ==
    {AFragment(1, 0, 4, Data), AFragment(1, 1, 4, Data), AFragment(1, 2, 4, Data),
     AFragment(2, 0, 4, Data \o Data), AFragment(2, 0, 5, Data),
     AFragment(1, 0, 0, Data), AFragment(1, 0, MaxPayloadSize + 1, Data),
     AFragment(1, 0, 4, <<>>)}

(* The other pool has room for the popup, its only source. *)
ASSUME RoomAssumption == PoolRoom
=============================================================================
