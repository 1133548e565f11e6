------------------------------- MODULE MCReports -------------------------------
(***************************************************************************)
(* TLC's instances of what is concluded from the evidence of a run:        *)
(* JourneyStream, LineReports and TraceJourney.  They share no state: the  *)
(* first state says which of them runs, and the others stay as they start. *)
(* The properties of the three keep their names.                           *)
(***************************************************************************)
EXTENDS JourneyStream, LineReports, TraceJourney

VARIABLE part

(* A bound on the states explored: with the switch no IMP crashes, and a     *)
(* line breaks before a cut only.                                            *)
CalmAfterSwitch ==
  switched >= 0 => /\ quiet = switched /\ alive = Imps
                   /\ mode = "fault" \/ faults = 0

MCInit ==
  /\ part \in {"stream", "reports", "journey"}
  /\ Init /\ ReportsInit /\ TraceInit
  /\ part # "journey" => equal = FALSE

MCNext ==
  \/ part = "stream" /\ Next /\ UNCHANGED <<part, reportVars, journeyVars>>
  \/ part = "reports" /\ ReportsNext /\ UNCHANGED <<part, streamVars, journeyVars>>
  \/ part = "journey" /\ TraceNext /\ UNCHANGED <<part, streamVars, reportVars>>

MCSpec == MCInit /\ [][MCNext]_<<part, streamVars, reportVars, journeyVars>>

------------------------------------------------------------------------------
(* What the variables of the three may hold.                                 *)
TypesHold == TypeOK /\ ReportsTypeOK /\ TraceTypeOK
==============================================================================
