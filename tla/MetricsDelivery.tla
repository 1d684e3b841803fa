-------------------------- MODULE MetricsDelivery --------------------------
(***************************************************************************)
(* What the agent's metrics collector promises, with the buffer, the lock  *)
(* and the two threads left out: an in-order, at-least-once channel whose  *)
(* uncertainty is at most one batch wide.                                  *)
(*                                                                         *)
(* Metrics are numbered in the order in which they are put on the channel. *)
(* The channel is then three counters: `produced' metrics were put on it,  *)
(* the backend stores exactly the metrics 1..stored, and the sender knows  *)
(* that the backend stores 1..acked.                                       *)
(***************************************************************************)
EXTENDS Naturals

CONSTANT BatchSize

VARIABLES produced, stored, acked

vars == <<produced, stored, acked>>

Init == produced = 0 /\ stored = 0 /\ acked = 0

\* Some metrics are put on the channel.
Produce ==
    /\ produced' \in Nat /\ produced' >= produced
    /\ UNCHANGED <<stored, acked>>

\* Where a batch that starts right after the confirmed metrics may end.
BatchEnds == {k \in acked + 1 .. produced : k <= acked + BatchSize}

Grown(k) == IF k > stored THEN k ELSE stored

\* A batch reaches the backend, but the sender does not learn of it.
StoreUnconfirmed ==
    /\ \E k \in BatchEnds : stored' = Grown(k)
    /\ UNCHANGED <<produced, acked>>

\* A batch reaches the backend and the sender is told.
StoreConfirmed ==
    /\ \E k \in BatchEnds : stored' = Grown(k) /\ acked' = k
    /\ UNCHANGED produced

Next == Produce \/ StoreUnconfirmed \/ StoreConfirmed

Spec == Init /\ [][Next]_vars
=============================================================================
