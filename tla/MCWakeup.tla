------------------------------ MODULE MCWakeup ------------------------------
(***************************************************************************)
(* Instances of Wakeup for TLC.                                            *)
(***************************************************************************)
EXTENDS Wakeup, TLC

\* Connections are interchangeable.
Symmetric == Permutations(Subs)

=============================================================================
