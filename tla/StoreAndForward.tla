--------------------------- MODULE StoreAndForward ---------------------------
(***************************************************************************)
(* What the reporter promises for its samples, with no thread, connection  *)
(* or statements in it.  A new sample is delivered or kept, or both when   *)
(* it is delivered and nobody knows; what is kept is delivered oldest      *)
(* first, possibly more than once, and removed only after that; when too   *)
(* much is kept, the oldest is given up, and no more than the excess.  New *)
(* samples do not wait for those that are kept: no order is promised       *)
(* between the two.                                                        *)
(***************************************************************************)
EXTENDS Integers, FiniteSets

CONSTANTS
    MaxRows,        \* how many samples are kept for good
    MaxSamples      \* bound: samples

VARIABLES
    made,           \* the number of samples made
    held,           \* the sample not yet known to be delivered nor kept; or 0
    kept,           \* the samples kept
    delivered,      \* the samples delivered
    givenUp         \* the samples given up to the limit

promiseVars == <<made, held, kept, delivered, givenUp>>

Init ==
    /\ made = 0
    /\ held = 0
    /\ kept = {}
    /\ delivered = {}
    /\ givenUp = {}

OldestKept == {s \in kept : \A r \in kept : s <= r}

Make ==
    /\ held = 0 /\ made < MaxSamples
    /\ made' = made + 1
    /\ held' = made + 1
    /\ UNCHANGED <<kept, delivered, givenUp>>

Deliver ==
    /\ held # 0
    /\ delivered' = delivered \cup {held}
    /\ held' = 0
    /\ UNCHANGED <<made, kept, givenUp>>

\* It is delivered, and it is not known to be.
DeliverUnseen ==
    /\ held # 0
    /\ delivered' = delivered \cup {held}
    /\ UNCHANGED <<made, held, kept, givenUp>>

Keep ==
    /\ held # 0
    /\ kept' = kept \cup {held}
    /\ held' = 0
    /\ UNCHANGED <<made, delivered, givenUp>>

\* A crash, or no place to keep it.
Lose ==
    /\ held # 0
    /\ held' = 0
    /\ UNCHANGED <<made, kept, delivered, givenUp>>

DeliverKept ==
    /\ \E s \in OldestKept : delivered' = delivered \cup {s}
    /\ UNCHANGED <<made, held, kept, givenUp>>

Remove ==
    /\ \E s \in OldestKept \cap delivered : kept' = kept \ {s}
    /\ UNCHANGED <<made, held, delivered, givenUp>>

GiveUp ==
    /\ kept' \subseteq kept
    /\ Cardinality(kept) > MaxRows /\ Cardinality(kept') = MaxRows
    /\ \A s \in kept \ kept', r \in kept' : s < r
    /\ givenUp' = givenUp \cup (kept \ kept')
    /\ UNCHANGED <<made, held, delivered>>

Next ==
    \/ Make \/ Deliver \/ DeliverUnseen \/ Keep \/ Lose
    \/ DeliverKept \/ Remove \/ GiveUp

Spec == Init /\ [][Next]_promiseVars
=============================================================================
