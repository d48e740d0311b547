------------------------------- MODULE SpyLink ------------------------------
(***************************************************************************)
(* What the path from the spy socket of FzWriter to the FDT server         *)
(* promises: events may be lost, but one that arrives was published, is    *)
(* whole, and arrives once.                                                *)
(***************************************************************************)
EXTENDS Naturals, Sequences

VARIABLES
    published,  \* events 1..published have been published
    delivered   \* the events that have arrived, in the order of arrival

Init == published = 0 /\ delivered = <<>>

Publish == published' = published + 1 /\ UNCHANGED delivered

Deliver(e) ==
    /\ \A k \in DOMAIN delivered : delivered[k] # e
    /\ delivered' = Append(delivered, e)
    /\ UNCHANGED published

Next == Publish \/ \E e \in 1..published : Deliver(e)

Spec == Init /\ [][Next]_<<published, delivered>>
=============================================================================
