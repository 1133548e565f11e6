-------------------------------- MODULE MCEnds --------------------------------
(***************************************************************************)
(* TLC's instances of what has to come to an end: a run of a workspace, a  *)
(* failover run, the pages of a desk, and the session of an operator.      *)
(* They share no state: the first state says which of them runs, and the   *)
(* others stay as they start.                                              *)
(***************************************************************************)
EXTENDS WorkspaceInvariant, LineCut, LineDesk

CONSTANTS
  MaxInput, MaxOutput, MaxChunk, MaxCommands, MaxResponse, MaxTyped, MaxPrinted

VARIABLES
  part,
  profile, alive, printed, seen, cursor, typed, todo, file, mem, bridge, sent, visit

operatorVars == <<profile, alive, printed, seen, cursor, typed, todo, file, mem, bridge, sent, visit>>

Operator == INSTANCE OperatorSession WITH run <- visit

MCInit ==
  /\ part \in {"workspace", "cut", "desk", "operator"}
  /\ Init /\ CutInit /\ DeskInit /\ Operator!OperatorInit
  /\ part # "cut" => mode = "automatic"
  /\ part # "desk" => server = [kind |-> "desk", open |-> Pages]
  /\ part # "operator" => profile = "terminal"

MCNext ==
  \/ part = "workspace" /\ Next /\ UNCHANGED <<part, cutVars, deskVars, operatorVars>>
  \/ part = "cut" /\ CutNext /\ UNCHANGED <<part, vars, deskVars, operatorVars>>
  \/ part = "desk" /\ DeskNext /\ UNCHANGED <<part, vars, cutVars, operatorVars>>
  \/ part = "operator" /\ Operator!OperatorNext /\ UNCHANGED <<part, vars, cutVars, deskVars>>

(* The fairness of each, while it is the one that runs.                      *)
MCSpec ==
  /\ MCInit /\ [][MCNext]_<<part, vars, cutVars, deskVars, operatorVars>>
  /\ \A o \in Ops :
       /\ WF_vars(part = "workspace" /\ OpStep(o))
       /\ WF_vars(part = "workspace" /\ LauncherLock(o))
       /\ WF_vars(part = "workspace" /\ LauncherStep(o))
       /\ WF_vars(part = "workspace" /\ LauncherEnd(o))
  /\ WF_cutVars(part = "cut" /\ Loop)
  /\ WF_cutVars(part = "cut" /\ Deadlines)
  /\ WF_cutVars(part = "cut" /\ Launcher)
  /\ \A p \in Pages : WF_deskVars(part = "desk" /\ PageStep(p))
  /\ WF_operatorVars(part = "operator" /\ Operator!Controller)
  /\ WF_operatorVars(part = "operator" /\ Operator!Poll)

------------------------------------------------------------------------------
(* The properties of Workspace, LineCut and LineDesk keep their names; these *)
(* are of all of them, or of OperatorSession.                                *)

(* LineCut, LineDesk: what their variables may hold.                         *)
TypesHold == CutTypeOK /\ DeskTypeOK

(* OperatorSession: an interrupted session ends, and so does a terminal      *)
(* session without its guest.                                                *)
SessionEnds == Operator!SessionEnds
==============================================================================
