---------------------------- MODULE MCChildOverlap ----------------------------
(***************************************************************************)
(* ChildOverlap for TLC.  With any second for any segment, and two         *)
(* children that take turns at every statement, the state space is large;  *)
(* these two definitions cut it.                                           *)
(***************************************************************************)
EXTENDS ChildOverlap

\* Bound: a segment's second is a new one, numbered in the order in which the
\* seconds are first given, or one that was given before.  Left out is a clock
\* that goes back to before the first segment's second.
SecondsOnward ==
    \A i \in 1..lastId :
        starts[i] = i \/ \E j \in 1..(i - 1) : starts[i] = starts[j]

\* What the properties of this run and the later steps depend on.  The server
\* counts by the ids that it has, the file being sent by whose it is; lastId is
\* the length of starts; whether every write to a file succeeded is left out.
View ==
    <<rows, starts, [p \in DOMAIN files |-> <<files[p].by, files[p].size>>],
      childVars, upc, seg, body.by, Stored, stop, crashes, oldVars>>
=============================================================================
