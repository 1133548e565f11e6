-------------------------- MODULE WorkspaceInvariant --------------------------
(***************************************************************************)
(* Inductive strengthenings of the invariants of Workspace.  ProcessInv is *)
(* about invocations, processes, the lease and the build lock; StoreInv    *)
(* about the generations and the pointer to one of them.                   *)
(***************************************************************************)
EXTENDS Workspace

(* The records of every run are sound, and only runs have them.              *)
RunsAreSound ==
  \A o \in Ops : /\ Sound(run[o])
                 /\ ~SignalInLaunch => ~run[o].lost
                 /\ run[o].launcher # "none" =>
                      o \in Runners /\ pc[o] \notin {"start", "own", "lookup", "spawn"}

(* safe_to_release is never true with a process of the run alive, and the    *)
(* lease is let go only then.                                                *)
SafeMeansDead ==
  \A o \in Runners : /\ ~SignalInLaunch /\ safe[o] => ~Live(run[o])
                     /\ pc[o] = "release" => safe[o]

ProcessInv ==
  /\ TypeOK /\ RunsAreSound /\ SafeMeansDead
  /\ LeaseExcludes /\ BuildLockExcludes
  /\ ~SignalInLaunch => LiveRunHoldsLease

------------------------------------------------------------------------------
Publishers == Creators \cup Runners

Complete(g) == /\ manifest[g] /\ flushed[g]
               /\ \A m \in Media : disks[g][m] # "absent"

(* No two publishers ever use one identifier.                                *)
TargetsDiffer ==
  \A o, p \in Publishers : target[o] = target[p] /\ target[o] # NoGen => o = p

(* What a publisher has made of its generation so far.                       *)
WorkInProgress ==
  \A o \in Publishers :
    LET g == target[o]
    IN /\ pc[o] \in {"copy", "flush", "rename"} => g \in Gens /\ place[g] = "pending"
       /\ pc[o] \in {"flush", "rename"} =>
            manifest[g] /\ \A m \in Media : disks[g][m] # "absent"
       /\ pc[o] = "rename" => flushed[g]
       /\ pc[o] \in {"name", "verify"} => g \in Gens /\ place[g] = "published"
       /\ pc[o] = "verify" => named[g]

(* The generation about to be selected, or just selected, is on disk.        *)
SelectedIsOnDisk == \A o \in Ops : pc[o] \in {"swap", "sync"} => OnDisk(target[o])

(* A published generation was flushed before its rename; one whose name is   *)
(* on disk is still there.                                                   *)
PublishedIsComplete ==
  \A g \in Gens : /\ place[g] = "published" => Complete(g)
                  /\ named[g] => place[g] = "published"

(* The root directory is on disk before any generation is.                   *)
RootComesFirst ==
  /\ \A g \in Gens : flushed[g] => home # "absent" /\ durable.home # "absent"
  /\ \A o \in Ops : pc[o] \in {"metadata", "own", "lookup", "spawn", "wait",
                               "examine", "admit", "copy", "flush"}
                      => home # "absent"

StoreInv ==
  /\ TypeOK /\ TargetsDiffer /\ WorkInProgress /\ PublishedIsComplete
  /\ RootComesFirst
  /\ ~EarlyRollback => SelectedIsOnDisk /\ CurrentIsComplete
------------------------------------------------------------------------------
(* Places between the lease and the swap, and up to the pointer's flush.     *)
Extending == {"admit", "copy", "flush", "rename", "name", "verify", "swap"}
Publishing == Extending \cup {"sync"}

(* Nobody is under the lease of a workspace that is not there.               *)
LeaseComesSecond ==
  \A o \in Runners \cup Restorers : pc[o] \in UnderLease => home # "absent"

PassedRunsAreOver == \A o \in Ops : run[o].passed => run[o].launcher = "over"

(* While a create works, its seed is the only save, and no run has passed:   *)
(* none got the build lock.                                                  *)
SeedComesFirst ==
  \A c \in Creators : pc[c] \in CreatorPC =>
    /\ \A g \in Gens : place[g] = "published" =>
         g = target[c] /\ pc[c] \notin {"makeroot", "metadata", "admit"}
    /\ \A o \in Runners : pc[o] \in UnderLease =>
         ~run[o].passed /\ pc[o] \notin Publishing

Succeeded(o) == ok[o] /\ pc[o] \in {"unwind", "release"}

(* The pointer an invocation has moved stays where it put it.                *)
MoveStands(o) ==
  /\ pc[o] \in {"swap", "sync"} \/ Succeeded(o) =>
       target[o] \in Gens /\ place[target[o]] = "published"
  /\ pc[o] = "sync" => current = target[o]
  /\ Succeeded(o) => current = target[o] /\ durable.current = target[o]
  /\ ok[o] => pc[o] \in {"unwind", "release", "settle", "unlock"} \cup Terminal

(* The pointer a publisher has read stays until it moves it; a create may    *)
(* find its own seed selected.                                               *)
ParentStands(o) ==
  /\ o \in Runners /\ pc[o] \in {"spawn", "wait", "examine"} \cup Extending =>
       current = parent[o] /\ current \in Gens /\ place[current] = "published"
  /\ o \in Creators => parent[o] = NoGen
  /\ o \in Creators /\ pc[o] \in Extending \ {"admit"} => current \in {NoGen, target[o]}
  /\ o \in Publishers /\ pc[o] \in Extending \ {"admit", "copy"} =>
       parentOf[target[o]] = parent[o]

PointerInv ==
  /\ LeaseComesSecond /\ PassedRunsAreOver /\ SeedComesFirst
  /\ \A o \in Ops : MoveStands(o) /\ ParentStands(o)

------------------------------------------------------------------------------
(* A simulator without a handle makes a shutdown proof impossible.           *)
ProvenIsNotLost == \A o \in Ops : run[o].proof => ~run[o].lost

(* What a publisher copies: the seeds, or the synchronized disks of a run    *)
(* whose guests were both shut down.                                         *)
Copied(o) == IF o \in Creators THEN "seed" ELSE "synced"

CopyIsClean(o) ==
  /\ o \in Runners /\ pc[o] \in Extending => ShutdownProved(run[o])
  /\ pc[o] \in {"copy", "flush", "rename"} =>
       \A m \in Media : disks[target[o]][m] \in {"absent", Copied(o)}
  /\ pc[o] \in {"flush", "rename"} => from[target[o]] = o

AbsentIsEmpty == \A g \in Gens : place[g] = "absent" => \A m \in Media : disks[g][m] = "absent"

SavedRunsAreProved ==
  \A g \in Gens : place[g] = "published" /\ from[g] \in Runners => ShutdownProved(run[from[g]])

(* Before another generation is published, the seed is on disk; and there is *)
(* only one seed.                                                            *)
SeedStaysFirst ==
  \A g, h \in Gens :
    place[g] = "published" /\ place[h] = "published" /\ g # h /\ from[g] \in Creators
      => named[g] /\ from[h] \notin Creators

(* A pointer that is on disk is followed by others, never by none.           *)
PointerRemains == durable.current # NoGen => current # NoGen

SaveInv ==
  /\ ProvenIsNotLost /\ AbsentIsEmpty /\ PointerRemains
  /\ \A o \in Publishers : CopyIsClean(o)
  /\ ~EarlyRollback => SavedRunsAreProved /\ SavesAreClean /\ SeedStaysFirst

==============================================================================
