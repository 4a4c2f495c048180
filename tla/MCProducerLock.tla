--------------------------- MODULE MCProducerLock ---------------------------
(***************************************************************************)
(* Instances of ProducerLock for TLC: threads t1 and t2 share a process.   *)
(***************************************************************************)
EXTENDS ProducerLock

CONSTANTS t1, t2, t3

AllThreads == {t1, t2, t3}

TwoProcesses == [t \in AllThreads |-> IF t = t3 THEN 2 ELSE 1]

=============================================================================
