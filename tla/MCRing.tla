------------------------------- MODULE MCRing -------------------------------
(***************************************************************************)
(* Instances of Ring for TLC.                                              *)
(***************************************************************************)
EXTENDS Ring, TLC

\* StartPos::Now: subscribe.
StartNow == {[kind |-> "Now", n |-> 0]}

\* Every kind of start: subscribe_with_history also asks for more than the
\* ring holds, subscribe_from for any cursor that has been published.
StartAny ==
  StartNow \cup [kind : {"HistoryBack"}, n : {1, MaxTail}]
           \cup [kind : {"Explicit"}, n : {0, 1}]

\* Subscribers are interchangeable.
Symmetric == Permutations(Subs)

=============================================================================
