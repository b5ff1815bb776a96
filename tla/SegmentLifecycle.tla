-------------------------- MODULE SegmentLifecycle --------------------------
(***************************************************************************)
(* What the store of segments promises, with no processes in it: the life  *)
(* of a segment id and the set of segments the server has.  An id is used  *)
(* once; a segment is offered for upload after its recording has ended; it *)
(* counts as uploaded only if the server has it, and from then on is never *)
(* offered again; a deleted segment never returns, whatever the order in   *)
(* which prune and uploader touch it.                                      *)
(***************************************************************************)
EXTENDS Integers

CONSTANT MaxSegments    \* bound: ids

VARIABLES
    life,           \* id -> where the segment is in its life
    stored          \* ids of which the server has accepted a copy

vars == <<life, stored>>

Id == 1..MaxSegments

Life == {"none", "recording", "pending", "uploading", "uploaded", "deleted"}

Init ==
    /\ life = [i \in Id |-> "none"]
    /\ stored = {}

Become(S, l) == life' = [i \in Id |-> IF i \in S THEN l ELSE life[i]]

\* Ids are given in order.
Begin(i) ==
    /\ life[i] = "none"
    /\ \A j \in Id : j < i => life[j] # "none"
    /\ Become({i}, "recording")
    /\ UNCHANGED stored

Abandon(i) ==
    /\ life[i] = "recording"
    /\ Become({i}, "deleted")
    /\ UNCHANGED stored

Finish(i) ==
    /\ life[i] = "recording"
    /\ Become({i}, "pending")
    /\ UNCHANGED stored

Claim(i) ==
    /\ life[i] = "pending"
    /\ Become({i}, "uploading")
    /\ UNCHANGED stored

\* The prune may have deleted the segment under the uploader's hands.
Store(i) ==
    /\ life[i] \in {"uploading", "deleted"}
    /\ stored' = stored \cup {i}
    /\ UNCHANGED life

Confirm(i) ==
    /\ life[i] = "uploading"
    /\ i \in stored
    /\ Become({i}, "uploaded")
    /\ UNCHANGED stored

\* One segment after a refused upload, all that are left at a restart.
Release(S) ==
    /\ \A i \in S : life[i] = "uploading"
    /\ Become(S, "pending")
    /\ UNCHANGED stored

Prune(i) ==
    /\ life[i] \in {"pending", "uploading", "uploaded"}
    /\ Become({i}, "deleted")
    /\ UNCHANGED stored

Next ==
    \/ \E S \in SUBSET Id : Release(S)
    \/ \E i \in Id :
          \/ Begin(i) \/ Abandon(i) \/ Finish(i)
          \/ Claim(i) \/ Store(i) \/ Confirm(i) \/ Prune(i)

Spec == Init /\ [][Next]_vars
=============================================================================
