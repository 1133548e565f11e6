------------------------------ MODULE Workspace ------------------------------
(***************************************************************************)
(* A named guest workspace: the directory scripts/workspace.py and         *)
(* ncc/guest_workspace.py keep, and the invocations of workspace.py that   *)
(* create it, run it and roll it back, at the grain of their file-system   *)
(* calls.  The launcher, controller and simulators of a run follow         *)
(* RunContract.                                                            *)
(*                                                                         *)
(* A directory operation is seen by other processes at once but survives   *)
(* a power loss for certain only after an fsync of its directory; until    *)
(* then the old and the new entry may each be found.  An fsync also makes  *)
(* the path to its file or directory durable, as journaled file systems    *)
(* do.                                                                     *)
(***************************************************************************)
EXTENDS RunContract

CONSTANTS Creators, Runners, Restorers,   \* invocations: create, run, restore
          Gens,                           \* generation identifiers (uuid4)
          Media,                          \* the files of MEDIA
          NoOp, NoGen,
          SignalInLaunch, \* a signal may hit a fork (RunContract)
          EarlyRollback   \* a rollback may choose a generation that its
                          \* publisher has renamed and not yet flushed

Ops == Creators \cup Runners \cup Restorers

ASSUME OpsAssumption ==
  /\ Creators \cap Runners = {} /\ Creators \cap Restorers = {}
  /\ Runners \cap Restorers = {}
  /\ NoOp \notin Ops /\ NoGen \notin Gens
  /\ SignalInLaunch \in BOOLEAN /\ EarlyRollback \in BOOLEAN

ASSUME MediaAssumption == Media # {}

VARIABLES
  pc,         \* where each invocation is
  parent,     \* its local "parent": the generation it read as current
  target,     \* its generation: the identifier it publishes or selects
  safe,       \* its local "safe_to_release"
  interrupted,\* its local "interrupted"
  ok,         \* it returns 0
  run,        \* the run it started, as RunContract has it
  home,       \* the workspace directory: absent, bare, or with workspace.json
  current,    \* current.json
  lease,      \* lease/: the invocation that made it
  durable,    \* home, current and lease as of the last fsync of the root
  buildLock,  \* <build>.lock: the invocation that holds it
  place,      \* where each generation's directory is
  disks,      \* what each of its media files holds
  manifest,   \* it has generation.json
  parentOf, from, \* the parent and the run generation.json names
  flushed,    \* its files and inner directories are on disk
  named       \* its entry in generations/ is on disk

local == <<parent, target, safe, interrupted, ok>>
root  == <<home, current, lease>>
store == <<place, disks, manifest, parentOf, from, flushed, named>>
vars  == <<pc, local, run, root, durable, buildLock, store>>

Terminal == {"done", "failed", "dead"}


(* verify_generation: both disk sets are complete and match the manifest. *)
Verified(g) == /\ g \in Gens
               /\ place[g] = "published" /\ manifest[g]
               /\ \A m \in Media : disks[g][m] # "absent"

Root == [home |-> home, current |-> current, lease |-> lease]

Goto(o, next) == pc' = [pc EXCEPT ![o] = next]

Init ==
  /\ pc = [o \in Ops |-> "start"]
  /\ parent = [o \in Ops |-> NoGen]
  /\ target = [o \in Ops |-> NoGen]
  /\ safe = [o \in Ops |-> TRUE]
  /\ interrupted = [o \in Ops |-> FALSE]
  /\ ok = [o \in Ops |-> FALSE]
  /\ run = [o \in Ops |-> Unborn]
  /\ home = "absent" /\ current = NoGen /\ lease = NoOp
  /\ durable = Root
  /\ buildLock = NoOp
  /\ place = [g \in Gens |-> "absent"]
  /\ disks = [g \in Gens |-> [m \in Media |-> "absent"]]
  /\ manifest = [g \in Gens |-> FALSE]
  /\ parentOf = [g \in Gens |-> NoGen]
  /\ from = [g \in Gens |-> NoOp]
  /\ flushed = [g \in Gens |-> FALSE]
  /\ named = [g \in Gens |-> FALSE]

------------------------------------------------------------------------------
(* create_workspace up to publish.  It takes the build's lock, not the       *)
(* workspace's lease.                                                        *)

CreateLock(o) ==
  /\ o \in Creators /\ pc[o] = "start"
  /\ IF home = "absent" /\ buildLock = NoOp
     THEN buildLock' = o /\ Goto(o, "makeroot")
     ELSE UNCHANGED buildLock /\ Goto(o, "failed")
  /\ UNCHANGED <<local, run, root, durable, store>>

CreateRoot(o) ==
  /\ pc[o] = "makeroot" /\ home = "absent"
  /\ home' = "bare"
  /\ Goto(o, "metadata")
  /\ UNCHANGED <<local, run, current, lease, durable, buildLock, store>>

CreateMetadata(o) ==
  /\ pc[o] = "metadata"
  /\ home' = "described"
  /\ Goto(o, "admit")
  /\ UNCHANGED <<local, run, current, lease, durable, buildLock, store>>

CreateUnlock(o) ==
  /\ pc[o] = "unlock"
  /\ buildLock' = NoOp
  /\ Goto(o, IF ok[o] THEN "done" ELSE "failed")
  /\ UNCHANGED <<local, run, root, durable, store>>

------------------------------------------------------------------------------
(* acquire and release: an exclusive directory, with the owner's token in    *)
(* it, flushed before anything else happens.                                 *)

(* Mutant: lease/ is made with exist_ok. *)
AcquireSharedLease(o) ==
  /\ o \in Runners \cup Restorers /\ pc[o] = "start"
  /\ home = "described"
  /\ lease' = o /\ Goto(o, "own")
  /\ UNCHANGED <<local, run, home, current, durable, buildLock, store>>

AcquireLease(o) ==
  /\ o \in Runners \cup Restorers /\ pc[o] = "start"
  /\ IF home = "described" /\ lease = NoOp
     THEN lease' = o /\ Goto(o, "own")
     ELSE UNCHANGED lease /\ Goto(o, "failed")
  /\ UNCHANGED <<local, run, home, current, durable, buildLock, store>>

OwnLease(o) ==
  /\ pc[o] = "own"
  /\ durable' = Root
  /\ Goto(o, IF o \in Runners THEN "lookup" ELSE "choose")
  /\ UNCHANGED <<local, run, root, buildLock, store>>

(* The except clause of acquire. *)
DisownLease(o) ==
  /\ pc[o] = "own"
  /\ lease' = NoOp
  /\ Goto(o, "failed")
  /\ UNCHANGED <<local, run, home, current, durable, buildLock, store>>

ReleaseLease(o) ==
  /\ pc[o] = "release" /\ lease = o
  /\ lease' = NoOp
  /\ Goto(o, "settle")
  /\ UNCHANGED <<local, run, home, current, durable, buildLock, store>>

SettleRelease(o) ==
  /\ pc[o] = "settle"
  /\ durable' = Root
  /\ Goto(o, IF ok[o] THEN "done" ELSE "failed")
  /\ UNCHANGED <<local, run, root, buildLock, store>>

------------------------------------------------------------------------------
(* run_workspace between the lease and publish. *)

(* current, verify_generation, check_inputs; then the handlers go in.        *)
LookUp(o) ==
  /\ pc[o] = "lookup"
  /\ IF Verified(current)
     THEN parent' = [parent EXCEPT ![o] = current] /\ Goto(o, "spawn")
     ELSE UNCHANGED parent /\ Goto(o, "unwind")
  /\ UNCHANGED <<target, safe, interrupted, ok, run, root, durable, buildLock,
                 store>>

(* From the assignment before Popen on, only evidence makes release safe. A  *)
(* signal inside Popen raises with the child started or not.                 *)
Spawn(o) ==
  /\ pc[o] = "spawn"
  /\ safe' = [safe EXCEPT ![o] = FALSE]
  /\ \/ /\ run' = [run EXCEPT ![o].launcher = "started"]
        /\ Goto(o, "wait")
        /\ UNCHANGED interrupted
     \/ /\ \/ run' = [run EXCEPT ![o].launcher = "started"]
           \/ UNCHANGED run
        /\ interrupted' = [interrupted EXCEPT ![o] = TRUE]
        /\ Goto(o, "unwind")
  /\ UNCHANGED <<parent, target, ok, root, durable, buildLock, store>>

(* The first signal during child.wait() is passed on and remembered. *)
Forward(o) ==
  /\ pc[o] = "wait" /\ ~interrupted[o]
  /\ interrupted' = [interrupted EXCEPT ![o] = TRUE]
  /\ UNCHANGED <<pc, parent, target, safe, ok, run, root, durable, buildLock,
                 store>>

(* Mutant: waits for the launcher's terminal records. *)
JudgeFinished(o) ==
  /\ pc[o] = "wait" /\ run[o].finished
  /\ LET proved == CleanupProved(run[o])
     IN /\ safe' = [safe EXCEPT ![o] = proved]
        /\ Goto(o, IF proved THEN "examine" ELSE "unwind")
  /\ UNCHANGED <<parent, target, interrupted, ok, run, root, durable,
                 buildLock, store>>

(* child.wait() returns; the records decide whether the lease may go.        *)
Judge(o) ==
  /\ pc[o] = "wait" /\ run[o].launcher = "over"
  /\ LET proved == run[o].result = "none" \/ CleanupProved(run[o])
     IN /\ safe' = [safe EXCEPT ![o] = proved]
        /\ Goto(o, IF proved THEN "examine" ELSE "unwind")
  /\ UNCHANGED <<parent, target, interrupted, ok, run, root, durable,
                 buildLock, store>>

(* The run passed against its parent, the parent's files are what was        *)
(* staged, and both guests shut down.                                        *)
Accepted(o) == /\ run[o].status = "zero" /\ ~interrupted[o]
               /\ run[o].passed
               /\ Verified(parent[o])
               /\ ShutdownProved(run[o])

Examine(o) ==
  /\ pc[o] = "examine"
  /\ Goto(o, IF Accepted(o) THEN "admit" ELSE "unwind")
  /\ UNCHANGED <<local, run, root, durable, buildLock, store>>

------------------------------------------------------------------------------
(* publish: a generation grows in a directory of its own, is flushed, gets   *)
(* its name, and only then is selected.  parent is NoGen for a create.       *)

(* The pointer is still the parent (or, for a create, still missing); the    *)
(* identifier is a new one.                                                  *)
Admit(o) ==
  /\ pc[o] = "admit"
  /\ IF current = parent[o]
     THEN \E g \in Gens :
            /\ place[g] = "absent" /\ \A p \in Ops : target[p] # g
            /\ target' = [target EXCEPT ![o] = g]
            /\ place' = [place EXCEPT ![g] = "pending"]
            /\ Goto(o, "copy")
     ELSE UNCHANGED <<target, place>> /\ Goto(o, "unwind")
  /\ UNCHANGED <<parent, safe, interrupted, ok, run, root, durable, buildLock,
                 disks, manifest, parentOf, from, flushed, named>>

(* copy_media, for one file: a create copies the build's seed images, a run  *)
(* its working disks as they are now.  Pruned images cannot be copied.       *)
Source(o) == IF o \in Creators THEN "seed" ELSE run[o].media

CopyMedia(o, m) ==
  /\ pc[o] = "copy" /\ disks[target[o]][m] = "absent"
  /\ IF Source(o) # "pruned"
     THEN disks' = [disks EXCEPT ![target[o]][m] = Source(o)] /\ UNCHANGED pc
     ELSE UNCHANGED disks /\ Goto(o, "unwind")
  /\ UNCHANGED <<local, run, root, durable, buildLock, place, manifest,
                 parentOf, from, flushed, named>>

(* Mutant: the manifest is written without its parent. *)
WriteManifestAlone(o) ==
  /\ pc[o] = "copy" /\ \A m \in Media : disks[target[o]][m] # "absent"
  /\ manifest' = [manifest EXCEPT ![target[o]] = TRUE]
  /\ parentOf' = [parentOf EXCEPT ![target[o]] = NoGen]
  /\ from' = [from EXCEPT ![target[o]] = o]
  /\ Goto(o, "flush")
  /\ UNCHANGED <<local, run, root, durable, buildLock, place, disks, flushed,
                 named>>

WriteManifest(o) ==
  /\ pc[o] = "copy" /\ \A m \in Media : disks[target[o]][m] # "absent"
  /\ manifest' = [manifest EXCEPT ![target[o]] = TRUE]
  /\ parentOf' = [parentOf EXCEPT ![target[o]] = parent[o]]
  /\ from' = [from EXCEPT ![target[o]] = o]
  /\ Goto(o, "flush")
  /\ UNCHANGED <<local, run, root, durable, buildLock, place, disks, flushed,
                 named>>

(* fsync of the inner directories; every file was flushed when written.      *)
FlushPending(o) ==
  /\ pc[o] = "flush"
  /\ flushed' = [flushed EXCEPT ![target[o]] = TRUE]
  /\ durable' = [durable EXCEPT !.home = home]
  /\ Goto(o, "rename")
  /\ UNCHANGED <<local, run, root, buildLock, place, disks, manifest,
                 parentOf, from, named>>

Rename(o) ==
  /\ pc[o] = "rename"
  /\ place' = [place EXCEPT ![target[o]] = "published"]
  /\ Goto(o, "name")
  /\ UNCHANGED <<local, run, root, durable, buildLock, disks, manifest,
                 parentOf, from, flushed, named>>

(* Mutant: the directory of the generations is not flushed. *)
SkipFlushName(o) ==
  /\ pc[o] = "name"
  /\ Goto(o, "verify")
  /\ UNCHANGED <<local, run, root, durable, buildLock, store>>

(* fsync of generations/. *)
FlushName(o) ==
  /\ pc[o] = "name"
  /\ named' = [g \in Gens |-> named[g] \/ place[g] = "published"]
  /\ Goto(o, "verify")
  /\ UNCHANGED <<local, run, root, durable, buildLock, place, disks, manifest,
                 parentOf, from, flushed>>

------------------------------------------------------------------------------
(* select. *)

(* Mutant: a restore goes through publish. *)
ChooseAndPublish(o) ==
  /\ pc[o] = "choose"
  /\ \E g \in Gens : target' = [target EXCEPT ![o] = g]
  /\ Goto(o, "rename")
  /\ UNCHANGED <<parent, safe, interrupted, ok, run, root, durable, buildLock,
                 store>>

(* A restore names any identifier. *)
Choose(o) ==
  /\ pc[o] = "choose"
  /\ \E g \in Gens : target' = [target EXCEPT ![o] = g]
  /\ Goto(o, "verify")
  /\ UNCHANGED <<parent, safe, interrupted, ok, run, root, durable, buildLock,
                 store>>

VerifyTarget(o) ==
  /\ pc[o] = "verify"
  /\ o \in Restorers /\ ~EarlyRollback /\ Verified(target[o]) => named[target[o]]
  /\ Goto(o, IF Verified(target[o]) THEN "swap" ELSE "unwind")
  /\ UNCHANGED <<local, run, root, durable, buildLock, store>>

(* os.replace of current.json. *)
Swap(o) ==
  /\ pc[o] = "swap"
  /\ current' = target[o]
  /\ Goto(o, "sync")
  /\ UNCHANGED <<local, run, home, lease, durable, buildLock, store>>

(* Mutant: the root is not flushed after the swap. *)
SyncNothing(o) ==
  /\ pc[o] = "sync"
  /\ ok' = [ok EXCEPT ![o] = TRUE]
  /\ Goto(o, "unwind")
  /\ UNCHANGED <<parent, target, safe, interrupted, run, root, durable,
                 buildLock, store>>

(* fsync of the root; the invocation has succeeded. *)
Sync(o) ==
  /\ pc[o] = "sync"
  /\ durable' = Root
  /\ ok' = [ok EXCEPT ![o] = TRUE]
  /\ Goto(o, "unwind")
  /\ UNCHANGED <<parent, target, safe, interrupted, run, root, buildLock,
                 store>>

------------------------------------------------------------------------------
(* Failure.  An exception -- a full disk, missing media, a first signal with *)
(* no child to pass it to -- unwinds through the finally clauses.            *)

Raising == {"makeroot", "metadata", "lookup", "examine", "admit", "copy",
            "flush", "rename", "name", "choose", "verify", "swap", "sync"}

Raise(o) ==
  /\ pc[o] \in Raising \/ (pc[o] = "wait" /\ run[o].launcher = "over")
  /\ Goto(o, "unwind")
  /\ UNCHANGED <<local, run, root, durable, buildLock, store>>

(* Mutant: a failing publish removes what it made, renamed or not. *)
UnwindAll(o) ==
  /\ pc[o] = "unwind"
  /\ LET g == target[o]
         drop == o \notin Restorers /\ g \in Gens /\ ~ok[o]
     IN IF drop
        THEN /\ place' = [place EXCEPT ![g] = "absent"]
             /\ disks' = [disks EXCEPT ![g] = [m \in Media |-> "absent"]]
             /\ manifest' = [manifest EXCEPT ![g] = FALSE]
        ELSE UNCHANGED <<place, disks, manifest>>
  /\ Goto(o, IF o \in Creators THEN "unlock"
             ELSE IF safe[o] THEN "release" ELSE "failed")
  /\ UNCHANGED <<local, run, root, durable, buildLock, parentOf, from, flushed,
                 named>>

(* publish's finally clause removes a directory still pending; then the      *)
(* caller's: a create gives its lock back, a restore its lease, a run its    *)
(* lease if that is safe.                                                    *)
Unwind(o) ==
  /\ pc[o] = "unwind"
  /\ LET g == target[o]
         drop == o \notin Restorers /\ g \in Gens /\ place[g] = "pending"
     IN IF drop
        THEN /\ place' = [place EXCEPT ![g] = "absent"]
             /\ disks' = [disks EXCEPT ![g] = [m \in Media |-> "absent"]]
             /\ manifest' = [manifest EXCEPT ![g] = FALSE]
        ELSE UNCHANGED <<place, disks, manifest>>
  /\ Goto(o, IF o \in Creators THEN "unlock"
             ELSE IF safe[o] THEN "release" ELSE "failed")
  /\ UNCHANGED <<local, run, root, durable, buildLock, parentOf, from, flushed,
                 named>>

(* A signal in the finally clause itself, before the lease or lock is gone.  *)
AbandonEnding(o) ==
  /\ pc[o] \in {"release", "unlock", "settle"}
  /\ Goto(o, "failed")
  /\ UNCHANGED <<local, run, root, durable, buildLock, store>>

(* SIGKILL, or a signal before the handlers are in. *)
Kill(o) ==
  /\ pc[o] \notin Terminal \cup {"start"}
  /\ Goto(o, "dead")
  /\ UNCHANGED <<local, run, root, durable, buildLock, store>>

(* The host loses power.  Entries changed since the last fsync of their      *)
(* directory are found as they were or as they became.                       *)
PowerLoss ==
  /\ \E o \in Ops : pc[o] \notin Terminal \cup {"start"}
  /\ pc' = [o \in Ops |-> IF pc[o] \in Terminal \cup {"start"}
                          THEN pc[o] ELSE "dead"]
  /\ run' = [o \in Ops |-> Halted(run[o])]
  /\ home' \in {home, durable.home}
  /\ current' \in {current, durable.current}
  /\ lease' \in {lease, durable.lease}
  /\ home' = "absent" => current' = NoGen /\ lease' = NoOp
  /\ durable' = Root'
  /\ buildLock' \in {buildLock, NoOp}
  /\ \E kept \in SUBSET {g \in Gens : place[g] = "published" /\ ~named[g]},
        lost \in SUBSET {g \in Gens : place[g] = "published" /\ ~flushed[g]} :
       /\ place' = [g \in Gens |->
                      IF home' = "absent" THEN "absent"
                      ELSE IF place[g] = "published" /\ ~named[g] /\ g \notin kept
                      THEN "pending" ELSE place[g]]
       /\ named' = [g \in Gens |-> place'[g] = "published"]
       /\ disks' = [g \in Gens |->
                      IF g \in lost \/ home' = "absent"
                      THEN [m \in Media |-> "absent"] ELSE disks[g]]
  /\ UNCHANGED <<local, manifest, parentOf, from, flushed>>

------------------------------------------------------------------------------
(* The processes of a run, and the tools around it.                          *)

(* Mutant: the launcher does not look at the build's lock. *)
LauncherBarges(o) ==
  /\ run[o].launcher = "started"
  /\ buildLock' = o
  /\ run' = [run EXCEPT ![o].launcher = "locked"]
  /\ UNCHANGED <<pc, local, root, durable, store>>

LauncherLock(o) ==
  /\ run[o].launcher = "started"
  /\ IF buildLock = NoOp
     THEN /\ buildLock' = o
          /\ run' = [run EXCEPT ![o].launcher = "locked"]
     ELSE /\ UNCHANGED buildLock
          /\ run' = [run EXCEPT ![o].launcher = "over", ![o].status = "nonzero"]
  /\ UNCHANGED <<pc, local, root, durable, store>>

Becomes(o, successors) == \E d \in successors : run' = [run EXCEPT ![o] = d]

LauncherStep(o) ==
  /\ Becomes(o, LauncherSteps(run[o]))
  /\ UNCHANGED <<pc, local, root, durable, buildLock, store>>

(* An untidy clean-up may be one that could not remove the lock. *)
LauncherEnd(o) ==
  /\ \E tidy \in BOOLEAN :
       /\ Becomes(o, LauncherEnds(run[o], tidy))
       /\ buildLock' \in {NoOp} \cup IF tidy THEN {} ELSE {buildLock}
  /\ UNCHANGED <<pc, local, root, durable, store>>

ControllerStep(o) ==
  /\ Becomes(o, ControllerSteps(run[o]))
  /\ UNCHANGED <<pc, local, root, durable, buildLock, store>>

ControllerEnd(o) ==
  /\ \E flag \in BOOLEAN, verdict \in Verdicts :
       Becomes(o, ControllerEnds(run[o], flag, verdict))
  /\ UNCHANGED <<pc, local, root, durable, buildLock, store>>

SignalledLaunch(o) ==
  /\ SignalInLaunch
  /\ Becomes(o, LoseHandle(run[o]))
  /\ UNCHANGED <<pc, local, root, durable, buildLock, store>>

(* SIGKILL of the launcher or the controller, or a clean-up never entered;   *)
(* a killed launcher leaves its lock.                                        *)
ProcessDies(o) ==
  /\ Becomes(o, Accidents(run[o]))
  /\ UNCHANGED <<pc, local, root, durable, buildLock, store>>

SurvivorsExit(o) ==
  /\ Becomes(o, SimsExit(run[o]))
  /\ UNCHANGED <<pc, local, root, durable, buildLock, store>>

PruneMedia(o) ==
  /\ Becomes(o, Prune(run[o]))
  /\ UNCHANGED <<pc, local, root, durable, buildLock, store>>

(* Recovery by hand, as the messages ask: only when the owner and all its    *)
(* processes are gone.                                                       *)
OwnerGone(o) == pc[o] \in Terminal /\ ~Live(run[o])

RecoverLease ==
  /\ lease # NoOp /\ OwnerGone(lease)
  /\ lease' = NoOp
  /\ UNCHANGED <<pc, local, run, home, current, durable, buildLock, store>>

RecoverBuildLock ==
  /\ buildLock # NoOp /\ OwnerGone(buildLock)
  /\ buildLock' = NoOp
  /\ UNCHANGED <<pc, local, run, root, durable, store>>

------------------------------------------------------------------------------
CreateStep(o) == CreateLock(o) \/ CreateRoot(o) \/ CreateMetadata(o)
                 \/ CreateUnlock(o)

LeaseStep(o) == AcquireLease(o) \/ OwnLease(o) \/ ReleaseLease(o)
                \/ SettleRelease(o)

RunStep(o) == LookUp(o) \/ Spawn(o) \/ Judge(o) \/ Examine(o)

PublishStep(o) == \/ Admit(o) \/ WriteManifest(o) \/ FlushPending(o)
                  \/ Rename(o) \/ FlushName(o)
                  \/ \E m \in Media : CopyMedia(o, m)

SelectStep(o) == Choose(o) \/ VerifyTarget(o) \/ Swap(o) \/ Sync(o)

(* What an invocation does by itself. *)
OpStep(o) == CreateStep(o) \/ LeaseStep(o) \/ RunStep(o) \/ PublishStep(o)
             \/ SelectStep(o) \/ Unwind(o)

(* What goes wrong with it. *)
OpFault(o) == DisownLease(o) \/ Forward(o) \/ Raise(o) \/ AbandonEnding(o)
              \/ Kill(o)

ProcessStep(o) == LauncherLock(o) \/ LauncherStep(o) \/ LauncherEnd(o)
                  \/ ControllerStep(o) \/ ControllerEnd(o)

Environment(o) == SignalledLaunch(o) \/ ProcessDies(o) \/ SurvivorsExit(o)
                  \/ PruneMedia(o)

Next == \/ \E o \in Ops : OpStep(o) \/ OpFault(o) \/ ProcessStep(o)
                          \/ Environment(o)
        \/ PowerLoss \/ RecoverLease \/ RecoverBuildLock

Spec == Init /\ [][Next]_vars

------------------------------------------------------------------------------
(* Properties. *)

RunnerPC == {"own", "lookup", "spawn", "wait", "examine", "admit", "copy",
             "flush", "rename", "name", "verify", "swap", "sync", "unwind",
             "release", "settle"}
RestorerPC == {"own", "choose", "verify", "swap", "sync", "unwind", "release",
               "settle"}
CreatorPC == {"makeroot", "metadata", "admit", "copy", "flush", "rename",
              "name", "verify", "swap", "sync", "unwind", "unlock"}

(* Where an invocation of each kind may be. *)
PathOf(o) == {"start"} \cup Terminal \cup IF o \in Creators THEN CreatorPC
                                        ELSE IF o \in Runners THEN RunnerPC
                                        ELSE RestorerPC

PathsOK == /\ pc \in [Ops -> {"start"} \cup Terminal \cup CreatorPC \cup RunnerPC
                              \cup RestorerPC]
           /\ \A o \in Ops : pc[o] \in PathOf(o)

LocalsOK == /\ parent \in [Ops -> Gens \cup {NoGen}]
            /\ target \in [Ops -> Gens \cup {NoGen}]
            /\ safe \in [Ops -> BOOLEAN]
            /\ interrupted \in [Ops -> BOOLEAN]
            /\ ok \in [Ops -> BOOLEAN]

RunsOK == run \in [Ops -> Run]

RootOK == /\ home \in {"absent", "bare", "described"}
          /\ current \in Gens \cup {NoGen}
          /\ lease \in Ops \cup {NoOp}

LocksOK == /\ durable \in [home : {"absent", "bare", "described"},
                           current : Gens \cup {NoGen}, lease : Ops \cup {NoOp}]
           /\ buildLock \in Ops \cup {NoOp}

Holdings == {"absent", "seed", "none", "staged", "dirty", "synced", "pruned"}

StoreOK == /\ place \in [Gens -> {"absent", "pending", "published"}]
           /\ disks \in [Gens -> [Media -> Holdings]]
           /\ manifest \in [Gens -> BOOLEAN]
           /\ parentOf \in [Gens -> Gens \cup {NoGen}]
           /\ from \in [Gens -> Ops \cup {NoOp}]
           /\ flushed \in [Gens -> BOOLEAN]
           /\ named \in [Gens -> BOOLEAN]

(* Every variable keeps its type, and each kind of invocation its own path.  *)
TypeOK == PathsOK /\ LocalsOK /\ RunsOK /\ RootOK /\ LocksOK /\ StoreOK

(* The pointer -- the one in force and the one a power loss may bring back   *)
(* -- never names a generation that is missing, partial or not yet on disk:  *)
(* "a partial generation cannot become current" (docs/workspaces.md:37).     *)
OnDisk(g) == Verified(g) /\ flushed[g] /\ named[g]

CurrentIsComplete ==
  \A g \in {current, durable.current} \ {NoGen} : OnDisk(g)

(* Between its acquire and its release an invocation is the only one that    *)
(* reads, runs or moves the pointer under the lease, kills and power losses  *)
(* of others included (guest_workspace.py:237-264).                          *)
UnderLease == {"own", "lookup", "spawn", "wait", "examine", "admit", "copy",
               "flush", "rename", "name", "choose", "verify", "swap", "sync",
               "unwind", "release"}

LeaseExcludes == \A o \in Runners \cup Restorers :
                   pc[o] \in UnderLease => lease = o

(* While a launcher, a controller or a simulator of a run is alive, the      *)
(* workspace is leased to that run, whatever became of the wrapper: "the     *)
(* wrapper releases it only before simulator launch or after this            *)
(* invocation's own cleanup evidence" (docs/workspaces.md:41).               *)
LiveRunHoldsLease == \A o \in Runners : Live(run[o]) => lease = o

(* Every saved generation, selected or not, consists of the synchronized     *)
(* disks of one run whose guests were both shut down, on top of a complete   *)
(* parent; every seed, of seed images.                                       *)
SavesAreClean ==
  \A g \in Gens : place[g] = "published" =>
    \/ /\ from[g] \in Creators /\ parentOf[g] = NoGen
       /\ \A m \in Media : disks[g][m] = "seed"
    \/ /\ from[g] \in Runners /\ OnDisk(parentOf[g])
       /\ \A m \in Media : disks[g][m] = "synced"
       /\ run[from[g]].proof /\ ~run[from[g]].sims

(* When an invocation succeeds, the pointer it wrote is on disk, so that no  *)
(* later power loss undoes a save the user was told of.                      *)
SuccessIsDurable ==
  \A o \in Ops : ok[o] /\ pc[o] \in {"unwind", "release"} =>
    durable.current = target[o] /\ current = target[o]

(* A generation that is on disk is never changed, renamed or removed, by any *)
(* invocation, failure, rollback or power loss: rollback stays possible.     *)
SavesAreKept ==
  [][\A g \in Gens : place[g] = "published" /\ named[g] =>
       /\ place'[g] = "published" /\ manifest'[g]
       /\ disks'[g] = disks[g]
       /\ parentOf'[g] = parentOf[g] /\ from'[g] = from[g]]_vars

(* No lost update: the pointer a run or a create replaces is the parent it   *)
(* started from, although create never takes the workspace lease (what keeps *)
(* it apart from a run is the build lock).  A create may find its own seed   *)
(* already selected by a rollback.                                           *)
SavesExtendTheirParent ==
  [][\A o \in Creators \cup Runners :
       pc[o] = "swap" /\ pc'[o] = "sync"
         => current \in {parentOf[target[o]], target[o]}]_vars

(* The build lock keeps a create and a running launcher, or two launchers,   *)
(* from using one guest build at once, kills and recoveries by hand included *)
(* (workspace.py:67-71, runtime.sh:702-708).                                 *)
LockedPhases == {"locked", "claimed", "recorded", "staged", "waiting"}

BuildLockExcludes ==
  \A o \in Ops : (o \in Creators /\ pc[o] \in CreatorPC)
                 \/ run[o].launcher \in LockedPhases => buildLock = o

(* The durable side of the workspace is a history of saves: a tree grown     *)
(* from one seed that loses nothing, and a selection that is always one of   *)
(* its saves.                                                                *)
Saves == {g \in Gens : place[g] = "published" /\ named[g]}

History == INSTANCE SaveHistory WITH
             saves <- Saves,
             ancestor <- [g \in Gens |-> IF g \in Saves THEN parentOf[g]
                                        ELSE NoGen],
             selected <- durable.current

KeepsHistory == History!Spec

(* "A partial generation cannot become current" (docs/workspaces.md:37); the *)
(* pointer is written "only after every file is durable"                     *)
(* (guest_workspace.py:4).  It fails when a rollback selects a generation    *)
(* whose publisher has renamed it but not yet flushed its directory.         *)
CurrentVerifies == current # NoGen => Verified(current)

(* "A failed or interrupted run does not publish its working disks"          *)
(* (docs/workspaces.md:39).  It fails when the signal comes after the swap   *)
(* of the pointer.                                                           *)
FailedRunIsNotCurrent ==
  \A o \in Runners : pc[o] = "failed" /\ current \in Gens => from[current] # o

(* Pruning "excludes active or incomplete runs" (docs/runbook.md:280): those *)
(* with a live process, or with disks still to be published.  It fails as     *)
(* soon as the controller has written outcome.txt.                        *)
PruneSparesActiveRuns ==
  [][\A o \in Runners :
       run[o].media # "pruned" /\ run'[o].media = "pruned"
         => /\ ~Live(run[o])
            /\ run[o].passed => pc[o] \notin {"wait", "examine", "admit", "copy"}
    ]_vars

(* The fairness of a live system: processes that can take a step take it.    *)
(* Nothing is assumed of failures, of the tools around, of the operator at   *)
(* the terminal (whose session may last for ever) or of recovery by hand.    *)
Fairness == \A o \in Ops :
  /\ WF_vars(OpStep(o))
  /\ WF_vars(LauncherLock(o))
  /\ WF_vars(LauncherStep(o))
  /\ WF_vars(LauncherEnd(o))

FairSpec == Spec /\ Fairness

(* Once the controller of a run is gone -- clean, failed or killed -- and    *)
(* likewise when there never was one, the invocation comes to an end; it is  *)
(* never left waiting for evidence that cannot come.                         *)
RunsEnd == \A o \in Runners :
  (pc[o] # "start" /\ run[o].control # "running")
    ~> (pc[o] \in Terminal \/ run[o].control = "running")

==============================================================================
