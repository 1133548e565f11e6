----------------------------- MODULE MCWorkspace -----------------------------
(* TLC's instances of Workspace: invocations, generations and files are      *)
(* model values, and those of one kind are interchangeable.                  *)
EXTENDS WorkspaceInvariant, Naturals, FiniteSets, TLC

Symmetry == Permutations(Runners) \cup Permutations(Restorers)
            \cup Permutations(Gens) \cup Permutations(Media)

(* A bound on the states explored: at most one invocation goes wrong.        *)
GoneWrong(o) == \/ pc[o] \in {"failed", "dead"}
                \/ run[o].status = "nonzero"
                \/ run[o].control = "ended" /\ run[o].evidence # "passed"

OneFailure == Cardinality({o \in Ops : GoneWrong(o)}) <= 1

==============================================================================
