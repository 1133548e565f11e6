--------------------------- MODULE LineConfiguration ---------------------------
(***************************************************************************)
(* What is configured of the NCC's network: the lines between IMPs and     *)
(* their two ends (ncc/shared_topology.py, ncc/reconciliation.py), and the *)
(* life of an observation.                                                 *)
(***************************************************************************)
EXTENDS Integers

CONSTANTS
  Cablings,    \* "triangle" or "parallel": the configurations to start from
  Interval,    \* ticks after which an observation is expired
  MaxTime,     \* ticks of a run
  MaxFaults    \* crashes and breaks besides the switch

ASSUME ConfigurationAssumption ==
  /\ Cablings \subseteq {"triangle", "parallel"}
  /\ Interval \in Nat /\ MaxTime \in Nat /\ MaxFaults \in Nat

Imps == {5, 6, 7}

Cabled(cabling) ==
  IF cabling = "triangle" THEN {"direct", "west", "east"} ELSE {"direct", "spare"}

Ends(l) == CASE l \in {"direct", "spare"} -> {5, 6}
             [] l = "west" -> {5, 7}
             [] l = "east" -> {6, 7}

Peer(i, l) == CHOOSE j \in Ends(l) : j # i
MinusEnd(l) == CHOOSE i \in Ends(l) : \A j \in Ends(l) : i <= j
PlusEnd(l) == Peer(MinusEnd(l), l)
================================================================================
