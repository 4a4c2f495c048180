---------------------------- MODULE BroadcastLog ----------------------------
(***************************************************************************)
(* What a topic promises, without slots, stamps or processes: a log of     *)
(* numbered messages, and for every reader a position in it.  A receive    *)
(* hands out one whole message at or after the position and moves past it, *)
(* so a reader sees increasing numbers and none twice.  A message may be   *)
(* stepped over only under DropOldest, and only when a whole ring of newer *)
(* ones has been published.                                                *)
(*                                                                         *)
(* Module Ring is shown to implement this specification.                   *)
(***************************************************************************)
EXTENDS Integers

CONSTANTS
  Readers,   \* subscribers
  Capacity,  \* messages a topic keeps for a reader that lags
  Lossy      \* BackpressurePolicy::DropOldest

VARIABLES
  count,     \* messages published: they are numbered from 0
  pos,       \* per reader: the message it reads next, Off when not attached
  handed     \* per reader: the message it was handed last, or Nothing

vars == <<count, pos, handed>>

Off == -1
Nothing == -1

Init ==
  /\ count = 0
  /\ pos = [r \in Readers |-> Off]
  /\ handed = [r \in Readers |-> Nothing]

Publish == count' = count + 1 /\ UNCHANGED <<pos, handed>>

\* The messages a receive of a reader at position p may return.
Receivable(p) ==
  {n \in p..(count - 1) : n = p \/ (Lossy /\ n >= p + Capacity)}

\* A subscribe that begins, and forgets what the reader was handed before ...
Open(r) ==
  /\ pos[r] = Off
  /\ handed' = [handed EXCEPT ![r] = Nothing]
  /\ UNCHANGED <<count, pos>>

\* ... and one that ends, at whatever position the caller asked for.
Attach(r) ==
  /\ pos[r] = Off
  /\ pos'[r] \in Nat /\ pos' = [pos EXCEPT ![r] = pos'[r]]
  /\ UNCHANGED <<count, handed>>

Receive(r) ==
  /\ pos[r] # Off
  /\ \E n \in Receivable(pos[r]) :
       /\ pos' = [pos EXCEPT ![r] = n + 1]
       /\ handed' = [handed EXCEPT ![r] = n]
  /\ UNCHANGED count

\* A message the reader does not take from the ring: one replayed from the
\* write-ahead log, or one too large for the caller's buffer.
Pass(r) ==
  /\ pos[r] # Off
  /\ \E n \in Receivable(pos[r]) : pos' = [pos EXCEPT ![r] = n + 1]
  /\ UNCHANGED <<count, handed>>

Detach(r) ==
  /\ pos[r] # Off
  /\ pos' = [pos EXCEPT ![r] = Off]
  /\ UNCHANGED <<count, handed>>

Next ==
  \/ Publish
  \/ \E r \in Readers : Open(r) \/ Attach(r) \/ Receive(r) \/ Pass(r) \/ Detach(r)

Spec == Init /\ [][Next]_vars

=============================================================================
