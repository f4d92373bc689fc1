------------------------------- MODULE Delivery -------------------------------
(***************************************************************************)
(* What the outbox of a device promises for the messages it has accepted:  *)
(* each is delivered at most once, and is held until it has been           *)
(* delivered, whatever is retried, lost or reloaded.                       *)
(***************************************************************************)
EXTENDS Naturals, Sequences

CONSTANT Keys       \* client_message_ids

VARIABLES held,      \* accepted, and kept on the device
          delivered  \* in the order of delivery

deliveryVars == <<held, delivered>>

Done == {delivered[i] : i \in 1..Len(delivered)}

Init == held = {} /\ delivered = << >>

Accept(k) == held' = held \cup {k} /\ k \notin Done /\ UNCHANGED delivered

Deliver(k) ==
    /\ k \in held \ Done
    /\ delivered' = Append(delivered, k)
    /\ UNCHANGED held

Release(k) == k \in Done /\ held' = held \ {k} /\ UNCHANGED delivered

Next == \E k \in Keys : Accept(k) \/ Deliver(k) \/ Release(k)

Spec == Init /\ [][Next]_deliveryVars
===============================================================================
