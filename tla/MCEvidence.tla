------------------------------ MODULE MCEvidence ------------------------------
(***************************************************************************)
(* TLC's instances of the programs that leave the evidence of a run, and   *)
(* take it away: MediaPrune, OperatorSession, HostIngress and TwoItsRun.   *)
(* They share no state: the first state says which of them runs, and the   *)
(* others stay as they start.                                              *)
(***************************************************************************)
EXTENDS MediaPrune, OperatorSession, TwoItsRun, HostIngress, TLC

VARIABLE part

(* Two results, one of them with two images, and between them a build.       *)
ThreeResults == {<<1, 1>>, <<2, 1>>, <<3, 1>>, <<3, 2>>}

(* Bounds on the states explored: at most one image is written to, a build   *)
(* is over from the start, the wire goes wrong once if the IMP restarts, and *)
(* a run is diagnosed as it goes on after one fault at most; the diagnosis   *)
(* does not read the stream, and of the times only the first and the last,   *)
(* so its run has a clock that goes on once, as the launcher ends.  What     *)
(* follows a diagnosis without a verdict follows without the diagnosis.      *)
OneWritten == part = "media" => /\ Cardinality({i \in Images : version[i] > 1}) <= 1
                                /\ Builds \subseteq completed
TwoTroubles == wireFaults + imp.life <= 3
OneFaultRead ==
  \/ report.at = "idle"
  \/ /\ faults < 2 /\ stream.started = 0 /\ \A n \in DOMAIN made : made[n].at = 0
     /\ now = 0 \/ launcher.at \in {"finish", "ended", "killed"}
     /\ report.at = "done" => report.status \in {"passed", "failed"}

(* Helpers are interchangeable; results and images are numbered in the order *)
(* a helper visits them.                                                     *)
Symmetry == Permutations(Helpers)

MCInit ==
  /\ part \in {"media", "operator", "ingress", "two-its"}
  /\ Init /\ OperatorInit /\ IngressInit /\ RunInit
  /\ part # "media" => completed = {}
  /\ part # "operator" => profile = "terminal"

MCNext ==
  \/ part = "media" /\ Next /\ UNCHANGED <<part, operatorVars, ingressVars, runVars>>
  \/ part = "operator" /\ OperatorNext /\ UNCHANGED <<part, vars, ingressVars, runVars>>
  \/ part = "ingress" /\ IngressNext /\ UNCHANGED <<part, vars, operatorVars, runVars>>
  \/ part = "two-its" /\ RunNext /\ UNCHANGED <<part, vars, operatorVars, ingressVars>>

MCSpec == MCInit /\ [][MCNext]_<<part, vars, operatorVars, ingressVars, runVars>>

------------------------------------------------------------------------------
(* The properties of the four keep their names; this is of all of them: what *)
(* their variables may hold.                                                 *)
TypesHold == TypeOK /\ OperatorTypeOK /\ IngressTypeOK /\ RunTypeOK
==============================================================================
