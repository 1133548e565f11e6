------------------------------ MODULE RunSummary ------------------------------
(***************************************************************************)
(* What a summary of a completed run must satisfy, and an observation      *)
(* stream of a run in progress with it (ncc/run_summary.py), and the       *)
(* topology that summaries of two-ITS runs use (ncc/topology.py).          *)
(*                                                                         *)
(* Derived states and gates are functions from their identifiers; an       *)
(* observation is referred to by its place.  Fields that are missing or of *)
(* a wrong type cannot be written here.                                    *)
(***************************************************************************)
EXTENDS Integers, Sequences, FiniteSets

TopologyIds(t) == <<t.components, DOMAIN t.endpoints, DOMAIN t.links, DOMAIN t.routes>>

Subjects(t) == UNION {TopologyIds(t)[k] : k \in 1 .. 4}

(* The components at the two ends of each link. *)
Neighbours(t) == {{t.endpoints[e] : e \in t.links[l]} : l \in DOMAIN t.links}

ValidTopology(t) ==
  /\ t.components # {}
  /\ \A c \in t.components : \E e \in DOMAIN t.endpoints : t.endpoints[e] = c
  /\ \A l \in DOMAIN t.links : Cardinality(t.links[l]) = 2 /\ t.links[l] \subseteq DOMAIN t.endpoints
  /\ \A r \in DOMAIN t.routes : LET path == t.routes[r] IN
       /\ Len(path) >= 2 /\ \A k \in DOMAIN path : path[k] \in t.components
       /\ \A k \in 1 .. Len(path) - 1 : {path[k], path[k + 1]} \in Neighbours(t)
  /\ \A j, k \in 1 .. 4 : j < k => TopologyIds(t)[j] \cap TopologyIds(t)[k] = {}

Categories == {"application", "harness", "historical-network", "missing-evidence"}

ValidObservations(obs, subjects, started, finished) ==
  /\ obs # <<>>
  /\ \A k \in DOMAIN obs :
       /\ obs[k].sequence = k
       /\ started <= obs[k].at /\ obs[k].at <= finished
       /\ k > 1 => obs[k - 1].at <= obs[k].at
       /\ obs[k].category \in Categories /\ obs[k].subject \in subjects

(* The states of version 2 add those of one end of a line. *)
DerivedStates(version) ==
  {"contradictory", "down", "incomplete", "partitioned", "stale", "unknown", "up"} \cup
  (IF version = 1 THEN {} ELSE {"looped", "minus-down", "minus-looped", "plus-down", "plus-looped"})

ValidDerived(derived, version, subjects, obs) ==
  \A d \in DOMAIN derived :
    /\ derived[d].subject \in subjects /\ derived[d].state \in DerivedStates(version)
    /\ derived[d].support # {} /\ derived[d].support \subseteq DOMAIN obs
    /\ derived[d].state \in {"contradictory", "partitioned"} => derived[d].basis = "inference"

(* What a passed gate about the network needs. *)
NetworkGate(gate, derived, obs) ==
  /\ gate.states # {}
  /\ \E k \in gate.evidence : obs[k].category = "harness" /\ obs[k].state = "passed"
  /\ \A d \in gate.states :
       /\ derived[d].basis = "inference" /\ derived[d].support \subseteq gate.evidence
       /\ \A k \in derived[d].support : obs[k].category = "historical-network"

ValidGates(gates, derived, obs) ==
  /\ gates # {}
  /\ \A gate \in gates :
       /\ gate.evidence # {} /\ gate.evidence \subseteq DOMAIN obs
       /\ gate.states \subseteq DOMAIN derived
       /\ gate.verdict = "passed" /\ gate.kind = "application" =>
            \E k \in gate.evidence : obs[k].category = "application" /\ obs[k].state = "passed"
       /\ gate.verdict = "passed" /\ gate.kind = "network-behavior" =>
            NetworkGate(gate, derived, obs)

ValidSummary(s) ==
  /\ s.started <= s.finished /\ ValidTopology(s.topology)
  /\ ValidObservations(s.observations, Subjects(s.topology), s.started, s.finished)
  /\ ValidDerived(s.derived, s.version, Subjects(s.topology), s.observations)
  /\ ValidGates(s.gates, s.derived, s.observations)
  /\ s.outcome = "passed" => \A gate \in s.gates : gate.verdict = "passed"
  /\ s.outcome = "failed" => \E gate \in s.gates : gate.verdict = "failed"

TwoItsTopology ==
  [components |-> {"host:176", "imp:62", "imp:6", "host:106"},
   endpoints |-> [e \in {"host:176:hi2", "imp:62:hi2", "imp:62:mi1", "imp:6:mi1", "imp:6:hi2", "host:106:hi2"} |->
                    CASE e = "host:176:hi2" -> "host:176"
                      [] e \in {"imp:62:hi2", "imp:62:mi1"} -> "imp:62"
                      [] e \in {"imp:6:mi1", "imp:6:hi2"} -> "imp:6"
                      [] OTHER -> "host:106"],
   links |-> [l \in {"link:176-62", "link:62-6", "link:6-106"} |->
                CASE l = "link:176-62" -> {"host:176:hi2", "imp:62:hi2"}
                  [] l = "link:62-6" -> {"imp:62:mi1", "imp:6:mi1"}
                  [] OTHER -> {"imp:6:hi2", "host:106:hi2"}],
   routes |-> [r \in {"route:host176-to-host106"} |-> <<"host:176", "imp:62", "imp:6", "host:106">>]]
==============================================================================
