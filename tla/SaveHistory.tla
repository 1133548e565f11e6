----------------------------- MODULE SaveHistory -----------------------------
(***************************************************************************)
(* What a named workspace promises to whoever keeps work in it: a tree of  *)
(* saves that grows from one seed and never loses or alters a save, and a  *)
(* selection among them.  Nothing here crashes; Workspace, with its        *)
(* invocations, signals and power losses, implements this.                 *)
(***************************************************************************)
CONSTANTS Gens,      \* identifiers of saves
          NoGen

VARIABLES saves,     \* the saves there are
          ancestor,  \* the save each was made from; NoGen for the seed
          selected   \* the save the next run starts from

vars == <<saves, ancestor, selected>>

Init == /\ saves = {}
        /\ ancestor = [g \in Gens |-> NoGen]
        /\ selected = NoGen

(* The first save is a seed, alone; every other one extends an earlier save. *)
(* Several may come to light at once.                                        *)
Keep(new) ==
  /\ saves' = saves \cup new
  /\ \A g \in Gens \ new : ancestor'[g] = ancestor[g]
  /\ IF saves = {}
     THEN \E seed \in Gens : new = {seed} /\ ancestor'[seed] = NoGen
     ELSE \A g \in new : ancestor'[g] \in saves

(* By a run, a rollback, or a power loss that takes one of these back.       *)
Select == selected' \in saves'

Next == \/ /\ \E new \in (SUBSET (Gens \ saves)) \ {{}} : Keep(new)
           /\ Select \/ UNCHANGED selected
        \/ Select /\ UNCHANGED <<saves, ancestor>>

Spec == Init /\ [][Next]_vars

==============================================================================
