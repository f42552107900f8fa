--------------------------- MODULE OrderedChannel ---------------------------
(***************************************************************************)
(* What a packet queue with forced order promises its users: packets for   *)
(* one address are delivered in the order in which they were queued, and   *)
(* each of them is delivered.  Nothing is promised between addresses.      *)
(***************************************************************************)
EXTENDS Queues

CONSTANTS Packets, Addrs, Addr

VARIABLE chan           \* for each address, the packets to deliver

Init == chan = [a \in Addrs |-> <<>>]

Put(p) ==
    /\ \A a \in Addrs : p \notin Elements(chan[a])
    /\ chan' = [chan EXCEPT ![Addr[p]] = Append(@, p)]

Deliver(a) ==
    /\ chan[a] # <<>>
    /\ chan' = [chan EXCEPT ![a] = Tail(@)]

Next == (\E p \in Packets : Put(p)) \/ (\E a \in Addrs : Deliver(a))

Ordered == Init /\ [][Next]_chan

Spec == Ordered /\ \A a \in Addrs : WF_chan(Deliver(a))
=============================================================================
