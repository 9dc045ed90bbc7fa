-------------------------------- MODULE Link --------------------------------
(***************************************************************************)
(* What the MACs of the hosts promise to the protocols above: a link with  *)
(* acknowledgements.  Frames are handed over in the order in which they    *)
(* were queued.  A frame that is acknowledged has arrived; one that is     *)
(* given up or needs no acknowledgement may have.  No host gets a frame    *)
(* that was not sent to it; it may get one more than once (CsmaCaMac.ned,  *)
(* on duplicates), which adds nothing here.                                *)
(***************************************************************************)
EXTENDS Sequences

CONSTANTS Nodes, Broadcast, Frames, UseAck

VARIABLES
    pending,        \* the frames a host has queued and not settled
    fate,           \* what became of a frame
    delivered       \* the hosts that got it

linkVars == <<pending, fate, delivered>>

LinkInit ==
    /\ pending = [n \in Nodes |-> <<>>]
    /\ fate = [f \in Frames |-> "to come"]
    /\ delivered = [f \in Frames |-> {}]

Accept(f) ==
    /\ fate[f] = "to come"
    /\ fate' = [fate EXCEPT ![f] = "queued"]
    /\ pending' = [pending EXCEPT ![f.src] = Append(@, f)]
    /\ UNCHANGED delivered

Refuse(f) ==
    /\ fate[f] = "to come"
    /\ fate' = [fate EXCEPT ![f] = "refused"]
    /\ UNCHANGED <<pending, delivered>>

\* f is the frame its sender is busy with.
InTurn(f) == pending[f.src] # <<>> /\ f = Head(pending[f.src])

NeedsAck(f) == UseAck /\ f.dst # Broadcast

\* A frame arrives; in its turn, if its sender waits for the acknowledgement.
Deliver(f, n) ==
    /\ n # f.src
    /\ f.dst \in {n, Broadcast}
    /\ IF NeedsAck(f) THEN InTurn(f) ELSE fate[f] \in {"queued", "sent"}
    /\ delivered' = [delivered EXCEPT ![f] = @ \cup {n}]
    /\ UNCHANGED <<pending, fate>>

Settled(f, how) ==
    /\ InTurn(f)
    /\ CASE how = "acknowledged" -> NeedsAck(f) /\ f.dst \in delivered[f]
         [] how = "given up" -> NeedsAck(f)
         [] how = "sent" -> ~NeedsAck(f)
    /\ fate' = [fate EXCEPT ![f] = how]
    /\ pending' = [pending EXCEPT ![f.src] = Tail(@)]
    /\ UNCHANGED delivered

LinkNext ==
    \E f \in Frames :
        \/ Accept(f)
        \/ Refuse(f)
        \/ \E n \in Nodes : Deliver(f, n)
        \/ \E how \in {"acknowledged", "given up", "sent"} : Settled(f, how)

LinkSpec == LinkInit /\ [][LinkNext]_linkVars
=============================================================================
