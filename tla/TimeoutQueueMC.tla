--------------------------- MODULE TimeoutQueueMC ---------------------------
(* Instances of TimeoutQueue for TLC.                                      *)
EXTENDS TimeoutQueue, TLC

\* Ports are only compared with each other.
Symmetry == Permutations(Ports)

=============================================================================
