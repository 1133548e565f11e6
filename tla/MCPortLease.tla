----------------------------- MODULE MCPortLease -----------------------------
(* TLC's instances of PortLease: runs and ports are model values, and those  *)
(* of one kind are interchangeable.                                          *)
EXTENDS PortLeaseInvariant, TLC

Symmetry == Permutations(Reservers) \cup Permutations(Ports)

==============================================================================
