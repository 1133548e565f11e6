--------------------------- MODULE WorkspaceProofs ----------------------------
(***************************************************************************)
(* Workspace keeps its types, the records of its runs are sound, and       *)
(* ProcessInv is inductive: the lease and the build lock exclude whatever  *)
(* fails, and a run with a live process keeps its workspace leased.        *)
(* First the steps of one run (RunContract), then those of the workspace.  *)
(*                                                                         *)
(* Then the generations of a workspace, the pointer to the current one,    *)
(* and what a save holds: StoreInv, PointerInv and SaveInv are inductive,  *)
(* each on top of the ones before it, and the workspace implements         *)
(* SaveHistory.                                                            *)
(***************************************************************************)
EXTENDS WorkspaceInvariant, TLAPS

------------------------------------------------------------------------------
(* Lemmas about RunContract: every step keeps a run a run, keeps its records *)
(* sound, and brings no process of a dead run back to life.                  *)

LEMMA UnbornIsSound ==
  Unborn \in Run /\ Sound(Unborn) /\ ~Live(Unborn) /\ ~Unborn.lost
  BY DEF Unborn, Run, LauncherPhase, Verdicts, Sound, Live

(* The launcher before it ends. *)
LEMMA LauncherStepsAreSound ==
  ASSUME NEW c \in Run, Sound(c), NEW d \in LauncherSteps(c)
  PROVE  d \in Run /\ Sound(d) /\ (Live(d) => Live(c)) /\ d.lost = c.lost
<1>1. CASE d \in Claim(c)
  <2>1. c.launcher = "locked" /\ d = [c EXCEPT !.launcher = "claimed", !.result = "bare"]
    BY <1>1 DEF Claim, When
  <2>2. d \in Run
    BY <2>1 DEF Run, LauncherPhase
  <2>3. Sound(d)
    BY <2>1, <2>2 DEF Sound, Run
  <2> QED BY <2>1, <2>2, <2>3 DEF Run, Live
<1>2. CASE d \in Record(c)
  <2>1. c.launcher = "claimed" /\ d = [c EXCEPT !.launcher = "recorded", !.result = "recorded"]
    BY <1>2 DEF Record, When
  <2>2. d \in Run
    BY <2>1 DEF Run, LauncherPhase
  <2>3. Sound(d)
    BY <2>1, <2>2 DEF Sound, Run
  <2> QED BY <2>1, <2>2, <2>3 DEF Run, Live
<1>3. CASE d \in Stage(c)
  <2>1. c.launcher = "recorded" /\ d = [c EXCEPT !.launcher = "staged", !.media = "staged"]
    BY <1>3 DEF Stage, When
  <2>2. d \in Run
    BY <2>1 DEF Run, LauncherPhase
  <2>3. Sound(d)
    BY <2>1, <2>2 DEF Sound, Run
  <2> QED BY <2>1, <2>2, <2>3 DEF Run, Live
<1>4. CASE d \in Drive(c)
  <2>1. c.launcher = "staged" /\ d = [c EXCEPT !.launcher = "waiting", !.control = "running"]
    BY <1>4 DEF Drive, When
  <2>2. d \in Run
    BY <2>1 DEF Run, LauncherPhase
  <2>3. Sound(d)
    BY <2>1, <2>2 DEF Sound, Run
  <2> QED BY <2>1, <2>2, <2>3 DEF Run, Live
<1> QED BY <1>1, <1>2, <1>3, <1>4 DEF LauncherSteps

(* The controller before it ends. *)
LEMMA ControllerStepsAreSound ==
  ASSUME NEW c \in Run, Sound(c), NEW d \in ControllerSteps(c)
  PROVE  d \in Run /\ Sound(d) /\ (Live(d) => Live(c)) /\ d.lost = c.lost
<1>1. CASE d \in Attach(c)
  <2>1. c.control = "running" /\ d = [c EXCEPT !.attach = TRUE]
    BY <1>1 DEF Attach, When
  <2>2. d \in Run
    BY <2>1 DEF Run, LauncherPhase
  <2>3. Sound(d)
    BY <2>1, <2>2 DEF Sound, Run
  <2> QED BY <2>1, <2>2, <2>3 DEF Run, Live
<1>2. CASE d \in BootImps(c)
  <2>1. c.control = "running" /\ c.attach /\ d = [c EXCEPT !.sims = TRUE]
    BY <1>2 DEF BootImps, When
  <2>2. d \in Run
    BY <2>1 DEF Run, LauncherPhase
  <2>3. Sound(d)
    BY <2>1, <2>2 DEF Sound, Run
  <2> QED BY <2>1, <2>2, <2>3 DEF Run, Live
<1>3. CASE d \in BootHosts(c)
  <2>1. c.control = "running" /\ ~c.hosts /\ d = [c EXCEPT !.hosts = TRUE, !.media = "dirty"]
    BY <1>3 DEF BootHosts, When
  <2>2. d \in Run
    BY <2>1 DEF Run, LauncherPhase
  <2>3. Sound(d)
    BY <2>1, <2>2 DEF Sound, Run
  <2> QED BY <2>1, <2>2, <2>3 DEF Run, Live
<1>4. CASE d \in SyncGuests(c)
  <2>1. c.control = "running" /\ c.hosts /\ d = [c EXCEPT !.proof = TRUE, !.media = "synced"]
    BY <1>4 DEF SyncGuests, When
  <2>2. d \in Run
    BY <2>1 DEF Run, LauncherPhase
  <2>3. Sound(d)
    BY <2>1, <2>2 DEF Sound, Run
  <2> QED BY <2>1, <2>2, <2>3 DEF Run, Live
<1> QED BY <1>1, <1>2, <1>3, <1>4 DEF ControllerSteps

(* The launcher's end.  Its terminal records are written last. *)
LEMMA LauncherEndsAreSound ==
  ASSUME NEW c \in Run, Sound(c), NEW tidy \in BOOLEAN,
         NEW d \in LauncherEnds(c, tidy)
  PROVE  d \in Run /\ Sound(d) /\ (Live(d) => Live(c)) /\ d.lost = c.lost
<1>1. CASE d \in Abort(c, tidy)
  <2>1. /\ c.launcher \in {"locked", "claimed", "recorded", "staged"}
        /\ d = [c EXCEPT !.launcher = "over", !.status = "nonzero",
                         !.finished = (c.result = "recorded"),
                         !.cleaned = (c.result = "recorded") /\ tidy]
    BY <1>1 DEF Abort, When
  <2>2. d \in Run
    <3>1. CASE c.result = "recorded"
      <4>1. d = [c EXCEPT !.launcher = "over", !.status = "nonzero",
                          !.finished = TRUE, !.cleaned = tidy]
        BY <2>1, <3>1
      <4> QED BY <4>1 DEF Run, LauncherPhase
    <3>2. CASE c.result # "recorded"
      <4>1. d = [c EXCEPT !.launcher = "over", !.status = "nonzero",
                          !.finished = FALSE, !.cleaned = FALSE]
        BY <2>1, <3>2
      <4> QED BY <4>1 DEF Run, LauncherPhase
    <3> QED BY <3>1, <3>2
  <2>3. Sound(d)
    BY <2>1, <2>2 DEF Sound, Run
  <2> QED BY <2>1, <2>2, <2>3 DEF Run, Live
<1>2. ASSUME NEW good \in BOOLEAN, d \in Finish(c, tidy, good)
      PROVE  d \in Run /\ Sound(d) /\ (Live(d) => Live(c)) /\ d.lost = c.lost
            
  <2>1. /\ c.launcher = "waiting" /\ c.control = "ended"
        /\ d = [c EXCEPT !.launcher = "over", !.cleaned = tidy,
                         !.finished = TRUE, !.passed = good,
                         !.status = IF good THEN "zero" ELSE "nonzero"]
    BY <1>2 DEF Finish, When
  <2>2. d \in Run
    BY <2>1, ZenonT(40) DEF Run, LauncherPhase
  <2>3. Sound(d)
    BY <2>1, <2>2 DEF Sound, Run
  <2> QED BY <2>1, <2>2, <2>3 DEF Run, Live
<1> QED BY <1>1, <1>2 DEF LauncherEnds

(* The controller's end: clean evidence only once no known simulator runs.   *)
LEMMA ControllerEndsAreSound ==
  ASSUME NEW c \in Run, Sound(c), NEW flag \in BOOLEAN, NEW verdict \in Verdicts,
         NEW d \in ControllerEnds(c, flag, verdict)
  PROVE  d \in Run /\ Sound(d) /\ (Live(d) => Live(c)) /\ d.lost = c.lost
<1>1. CASE d \in StopFailed(c, flag)
  <2>1. /\ c.control = "running" /\ c.attach
        /\ d = [c EXCEPT !.control = "ended", !.evidence = "failed",
                         !.sims = flag]
    BY <1>1 DEF StopFailed, When
  <2>2. d \in Run
    BY <2>1 DEF Run
  <2>3. Sound(d)
    BY <2>1, <2>2 DEF Sound, Run
  <2> QED BY <2>1, <2>2, <2>3 DEF Run, Live
<1>2. CASE d \in StopClean(c, flag, verdict)
  <2>1. /\ c.control = "running" /\ c.attach
        /\ d = [c EXCEPT !.control = "ended", !.sims = c.lost,
                         !.evidence = "passed", !.exits = flag,
                         !.outcome = verdict]
    BY <1>2 DEF StopClean, When
  <2>2. d \in Run
    BY <2>1 DEF Run
  <2>3. Sound(d)
    BY <2>1, <2>2 DEF Sound, Run
  <2> QED BY <2>1, <2>2, <2>3 DEF Run, Live
<1> QED BY <1>1, <1>2 DEF ControllerEnds

(* Kills. *)
LEMMA AccidentsAreSound ==
  ASSUME NEW c \in Run, Sound(c), NEW d \in Accidents(c)
  PROVE  d \in Run /\ Sound(d) /\ (Live(d) => Live(c)) /\ d.lost = c.lost
<1>1. CASE d \in LauncherDies(c)
  <2>1. c.launcher \notin {"none", "over"} /\ d = [c EXCEPT !.launcher = "over", !.status = "nonzero"]
    BY <1>1 DEF LauncherDies, When
  <2>2. d \in Run
    BY <2>1 DEF Run, LauncherPhase
  <2>3. Sound(d)
    BY <2>1, <2>2 DEF Sound, Run
  <2> QED BY <2>1, <2>2, <2>3 DEF Run, Live
<1>2. CASE d \in ControlDies(c)
  <2>1. c.control = "running" /\ d = [c EXCEPT !.control = "ended"]
    BY <1>2 DEF ControlDies, When
  <2>2. d \in Run
    BY <2>1 DEF Run, LauncherPhase
  <2>3. Sound(d)
    BY <2>1, <2>2 DEF Sound, Run
  <2> QED BY <2>1, <2>2, <2>3 DEF Run, Live
<1> QED BY <1>1, <1>2 DEF Accidents

(* A survivor's exit and the prune tool. *)
LEMMA AftermathIsSound ==
  ASSUME NEW c \in Run, Sound(c), NEW d \in SimsExit(c) \cup Prune(c)
  PROVE  d \in Run /\ Sound(d) /\ (Live(d) => Live(c)) /\ d.lost = c.lost
<1>1. CASE d \in SimsExit(c)
  <2>1. c.control = "ended" /\ d = [c EXCEPT !.sims = FALSE]
    BY <1>1 DEF SimsExit, When
  <2>2. d \in Run
    BY <2>1 DEF Run, LauncherPhase
  <2>3. Sound(d)
    BY <2>1, <2>2 DEF Sound, Run
  <2> QED BY <2>1, <2>2, <2>3 DEF Run, Live
<1>2. CASE d \in Prune(c)
  <2>1. c.media # "none" /\ d = [c EXCEPT !.media = "pruned"]
    BY <1>2 DEF Prune, When
  <2>2. d \in Run
    BY <2>1 DEF Run, LauncherPhase
  <2>3. Sound(d)
    BY <2>1, <2>2 DEF Sound, Run
  <2> QED BY <2>1, <2>2, <2>3 DEF Run, Live
<1> QED BY <1>1, <1>2

(* A simulator whose handle is lost. *)
LEMMA LossIsSound ==
  ASSUME NEW c \in Run, Sound(c), NEW d \in LoseHandle(c)
  PROVE  d \in Run /\ Sound(d) /\ Live(c)
<1>1. /\ c.control = "running" /\ c.attach
      /\ d = [c EXCEPT !.sims = TRUE, !.lost = TRUE]
  BY DEF LoseHandle, When
<1>2. d \in Run
  BY <1>1 DEF Run
<1>3. Sound(d)
  BY <1>1, <1>2 DEF Sound, Run
<1> QED BY <1>1, <1>2, <1>3 DEF Live

(* A power loss ends every process. *)
LEMMA HaltIsSound ==
  ASSUME NEW c \in Run, Sound(c)
  PROVE  Halted(c) \in Run /\ Sound(Halted(c)) /\ ~Live(Halted(c))
         /\ Halted(c).lost = c.lost
<1>1. CASE c.launcher = "none"
  BY <1>1 DEF Halted, Sound, Live, Run
<1>2. CASE c.launcher # "none"
  <2> DEFINE control == IF c.control = "running" THEN "ended" ELSE c.control
             status == IF c.status = "none" THEN "nonzero" ELSE c.status
             d == [c EXCEPT !.launcher = "over", !.sims = FALSE,
                            !.control = control, !.status = status]
  <2>1. control \in {"none", "ended"} /\ status \in {"zero", "nonzero"}
        /\ (control = "none" <=> c.control = "none")
    BY DEF Run
  <2> HIDE DEF control, status
  <2>2. d \in Run
    BY <2>1, ZenonT(40) DEF Run, LauncherPhase
  <2>3. Sound(d) /\ ~Live(d) /\ d.lost = c.lost
    BY <2>1, <2>2 DEF Sound, Run, Live
  <2>4. Halted(c) = d
    BY <1>2 DEF Halted, control, status
  <2> QED BY <2>2, <2>3, <2>4
<1> QED BY <1>1, <1>2

(* The wrapper's judgement: a launcher that is over, with no result or with  *)
(* clean-up proved by the run's own records, has left nothing alive -- as    *)
(* long as no simulator's handle was lost.                                   *)
LEMMA ProvedMeansDead ==
  ASSUME NEW c \in Run, Sound(c), ~c.lost, c.launcher = "over",
         c.result = "none" \/ CleanupProved(c)
  PROVE  ~Live(c)
  BY DEF Run, Sound, Live, CleanupProved

------------------------------------------------------------------------------
(* Workspace keeps its types, and the records of its runs are sound.  The  *)
(* two are proved together: that a run stays a run depends on its records. *)

(* An invocation goes on along its own path. *)
LEMMA PathStep ==
  ASSUME PathsOK, NEW o \in Ops, NEW next \in PathOf(o), Goto(o, next)
  PROVE  PathsOK'
  BY DEF PathsOK, Goto, PathOf

(* create_workspace, up to publish. *)
LEMMA CreateStepTypes ==
  ASSUME TypeOK, RunsAreSound, NEW o \in Ops, CreateStep(o)
  PROVE  (TypeOK /\ RunsAreSound)'
<1> USE DEF TypeOK
<1>1. CASE CreateLock(o)
  <2>1. \E next \in PathOf(o) : Goto(o, next)
    BY <1>1, OpsAssumption DEF CreateLock, PathsOK, Ops, PathOf, CreatorPC,
       RunnerPC, RestorerPC, Terminal
  <2>2. PathsOK'
    BY <2>1, PathStep
  <2>3. LocksOK'
    BY <1>1 DEF CreateLock, LocksOK
  <2>4. LocalsOK' /\ RunsOK' /\ RootOK' /\ StoreOK'
    BY <1>1 DEF CreateLock, LocalsOK, RunsOK, RootOK, StoreOK, local, root,
       store
  <2>5. RunsAreSound'
    BY <1>1 DEF CreateLock, Goto, PathsOK, RunsAreSound
  <2> QED BY <2>2, <2>3, <2>4, <2>5
<1>2. CASE CreateRoot(o)
  <2>1. \E next \in PathOf(o) : Goto(o, next)
    BY <1>2, OpsAssumption DEF CreateRoot, PathsOK, Ops, PathOf, CreatorPC,
       RunnerPC, RestorerPC, Terminal
  <2>2. PathsOK'
    BY <2>1, PathStep
  <2>3. RootOK'
    BY <1>2 DEF CreateRoot, RootOK, root
  <2>4. LocalsOK' /\ RunsOK' /\ LocksOK' /\ StoreOK'
    BY <1>2 DEF CreateRoot, LocalsOK, RunsOK, LocksOK, StoreOK, local, root,
       store
  <2>5. RunsAreSound'
    BY <1>2 DEF CreateRoot, Goto, PathsOK, RunsAreSound
  <2> QED BY <2>2, <2>3, <2>4, <2>5
<1>3. CASE CreateMetadata(o)
  <2>1. \E next \in PathOf(o) : Goto(o, next)
    BY <1>3, OpsAssumption DEF CreateMetadata, PathsOK, Ops, PathOf,
       CreatorPC, RunnerPC, RestorerPC, Terminal
  <2>2. PathsOK'
    BY <2>1, PathStep
  <2>3. RootOK'
    BY <1>3 DEF CreateMetadata, RootOK, root
  <2>4. LocalsOK' /\ RunsOK' /\ LocksOK' /\ StoreOK'
    BY <1>3 DEF CreateMetadata, LocalsOK, RunsOK, LocksOK, StoreOK, local,
       root, store
  <2>5. RunsAreSound'
    BY <1>3 DEF CreateMetadata, Goto, PathsOK, RunsAreSound
  <2> QED BY <2>2, <2>3, <2>4, <2>5
<1>4. CASE CreateUnlock(o)
  <2>1. \E next \in PathOf(o) : Goto(o, next)
    BY <1>4, OpsAssumption DEF CreateUnlock, PathsOK, Ops, PathOf, CreatorPC,
       RunnerPC, RestorerPC, Terminal
  <2>2. PathsOK'
    BY <2>1, PathStep
  <2>3. LocksOK'
    BY <1>4 DEF CreateUnlock, LocksOK
  <2>4. LocalsOK' /\ RunsOK' /\ RootOK' /\ StoreOK'
    BY <1>4 DEF CreateUnlock, LocalsOK, RunsOK, RootOK, StoreOK, local, root,
       store
  <2>5. RunsAreSound'
    BY <1>4 DEF CreateUnlock, Goto, PathsOK, RunsAreSound
  <2> QED BY <2>2, <2>3, <2>4, <2>5
<1> QED BY <1>1, <1>2, <1>3, <1>4 DEF CreateStep

(* acquire and release. *)
LEMMA LeaseStepTypes ==
  ASSUME TypeOK, RunsAreSound, NEW o \in Ops, LeaseStep(o)
  PROVE  (TypeOK /\ RunsAreSound)'
<1> USE DEF TypeOK
<1>1. CASE AcquireLease(o)
  <2>1. \E next \in PathOf(o) : Goto(o, next)
    BY <1>1, OpsAssumption DEF AcquireLease, PathsOK, Ops, PathOf, CreatorPC,
       RunnerPC, RestorerPC, Terminal
  <2>2. PathsOK'
    BY <2>1, PathStep
  <2>3. RootOK'
    BY <1>1 DEF AcquireLease, RootOK, root
  <2>4. LocalsOK' /\ RunsOK' /\ LocksOK' /\ StoreOK'
    BY <1>1 DEF AcquireLease, LocalsOK, RunsOK, LocksOK, StoreOK, local, root,
       store
  <2>5. RunsAreSound'
    BY <1>1 DEF AcquireLease, Goto, PathsOK, RunsAreSound
  <2> QED BY <2>2, <2>3, <2>4, <2>5
<1>2. CASE OwnLease(o)
  <2>1. \E next \in PathOf(o) : Goto(o, next)
    BY <1>2, OpsAssumption DEF OwnLease, PathsOK, Ops, PathOf, CreatorPC,
       RunnerPC, RestorerPC, Terminal
  <2>2. PathsOK'
    BY <2>1, PathStep
  <2>3. LocksOK'
    BY <1>2 DEF OwnLease, LocksOK, RootOK, Root
  <2>4. LocalsOK' /\ RunsOK' /\ RootOK' /\ StoreOK'
    BY <1>2 DEF OwnLease, LocalsOK, RunsOK, RootOK, StoreOK, local, root,
       store
  <2>5. RunsAreSound'
    BY <1>2 DEF OwnLease, Goto, PathsOK, RunsAreSound
  <2> QED BY <2>2, <2>3, <2>4, <2>5
<1>3. CASE ReleaseLease(o)
  <2>1. \E next \in PathOf(o) : Goto(o, next)
    BY <1>3, OpsAssumption DEF ReleaseLease, PathsOK, Ops, PathOf, CreatorPC,
       RunnerPC, RestorerPC, Terminal
  <2>2. PathsOK'
    BY <2>1, PathStep
  <2>3. RootOK'
    BY <1>3 DEF ReleaseLease, RootOK, root
  <2>4. LocalsOK' /\ RunsOK' /\ LocksOK' /\ StoreOK'
    BY <1>3 DEF ReleaseLease, LocalsOK, RunsOK, LocksOK, StoreOK, local, root,
       store
  <2>5. RunsAreSound'
    BY <1>3 DEF ReleaseLease, Goto, PathsOK, RunsAreSound
  <2> QED BY <2>2, <2>3, <2>4, <2>5
<1>4. CASE SettleRelease(o)
  <2>1. \E next \in PathOf(o) : Goto(o, next)
    BY <1>4, OpsAssumption DEF SettleRelease, PathsOK, Ops, PathOf, CreatorPC,
       RunnerPC, RestorerPC, Terminal
  <2>2. PathsOK'
    BY <2>1, PathStep
  <2>3. LocksOK'
    BY <1>4 DEF SettleRelease, LocksOK, RootOK, Root
  <2>4. LocalsOK' /\ RunsOK' /\ RootOK' /\ StoreOK'
    BY <1>4 DEF SettleRelease, LocalsOK, RunsOK, RootOK, StoreOK, local, root,
       store
  <2>5. RunsAreSound'
    BY <1>4 DEF SettleRelease, Goto, PathsOK, RunsAreSound
  <2> QED BY <2>2, <2>3, <2>4, <2>5
<1> QED BY <1>1, <1>2, <1>3, <1>4 DEF LeaseStep

(* run_workspace, between the lease and publish. *)
LEMMA RunStepTypes ==
  ASSUME TypeOK, RunsAreSound, NEW o \in Ops, RunStep(o)
  PROVE  (TypeOK /\ RunsAreSound)'
<1> USE DEF TypeOK
<1>1. CASE LookUp(o)
  <2>1. \E next \in PathOf(o) : Goto(o, next)
    BY <1>1, OpsAssumption DEF LookUp, PathsOK, Ops, PathOf, CreatorPC,
       RunnerPC, RestorerPC, Terminal
  <2>2. PathsOK'
    BY <2>1, PathStep
  <2>3. LocalsOK'
    BY <1>1 DEF LookUp, LocalsOK, RootOK, local
  <2>4. RunsOK' /\ RootOK' /\ LocksOK' /\ StoreOK'
    BY <1>1 DEF LookUp, RunsOK, RootOK, LocksOK, StoreOK, local, root, store
  <2>5. RunsAreSound'
    BY <1>1 DEF LookUp, Goto, PathsOK, RunsAreSound
  <2> QED BY <2>2, <2>3, <2>4, <2>5
<1>2. CASE Spawn(o)
  <2>1. \E next \in PathOf(o) : Goto(o, next)
    BY <1>2, OpsAssumption DEF Spawn, PathsOK, Ops, PathOf, CreatorPC,
       RunnerPC, RestorerPC, Terminal
  <2>2. PathsOK'
    BY <2>1, PathStep
  <2>3. LocalsOK'
    BY <1>2 DEF Spawn, LocalsOK, local
  <2>4. RootOK' /\ LocksOK' /\ StoreOK'
    BY <1>2 DEF Spawn, RootOK, LocksOK, StoreOK, local, root, store
  <2>5. RunsOK' /\ RunsAreSound'
    <3> DEFINE d == [run[o] EXCEPT !.launcher = "started"]
    <3>1. o \in Runners
      BY <1>2, OpsAssumption DEF Spawn, PathsOK, Ops, PathOf, CreatorPC, RunnerPC, RestorerPC, Terminal
    <3>2. run[o].launcher = "none" /\ run[o].control = "none"
      BY <1>2 DEF Spawn, RunsAreSound, Sound
    <3>3. d \in Run /\ Sound(d) /\ d.lost = run[o].lost
      BY <3>2 DEF RunsOK, Run, LauncherPhase, Sound, RunsAreSound
    <3>4. run' = run \/ run' = [run EXCEPT ![o] = d]
      BY <1>2 DEF Spawn
    <3>5. pc'[o] \in {"wait", "unwind"} /\ \A p \in Ops \ {o} : pc'[p] = pc[p]
      BY <1>2 DEF Spawn, Goto, PathsOK
    <3> QED BY <3>1, <3>3, <3>4, <3>5 DEF RunsOK, RunsAreSound
  <2> QED BY <2>2, <2>3, <2>4, <2>5
<1>3. CASE Judge(o)
  <2>1. \E next \in PathOf(o) : Goto(o, next)
    BY <1>3, OpsAssumption DEF Judge, PathsOK, Ops, PathOf, CreatorPC,
       RunnerPC, RestorerPC, Terminal
  <2>2. PathsOK'
    BY <2>1, PathStep
  <2>3. LocalsOK'
    BY <1>3 DEF Judge, LocalsOK, local
  <2>4. RunsOK' /\ RootOK' /\ LocksOK' /\ StoreOK'
    BY <1>3 DEF Judge, RunsOK, RootOK, LocksOK, StoreOK, local, root, store
  <2>5. RunsAreSound'
    BY <1>3 DEF Judge, Goto, PathsOK, RunsAreSound
  <2> QED BY <2>2, <2>3, <2>4, <2>5
<1>4. CASE Examine(o)
  <2>1. \E next \in PathOf(o) : Goto(o, next)
    BY <1>4, OpsAssumption DEF Examine, PathsOK, Ops, PathOf, CreatorPC,
       RunnerPC, RestorerPC, Terminal
  <2>2. PathsOK'
    BY <2>1, PathStep
  <2>3. LocalsOK' /\ RunsOK' /\ RootOK' /\ LocksOK' /\ StoreOK'
    BY <1>4 DEF Examine, LocalsOK, RunsOK, RootOK, LocksOK, StoreOK, local,
       root, store
  <2>4. RunsAreSound'
    BY <1>4 DEF Examine, Goto, PathsOK, RunsAreSound
  <2> QED BY <2>2, <2>3, <2>4
<1> QED BY <1>1, <1>2, <1>3, <1>4 DEF RunStep

(* publish. *)
LEMMA PublishStepTypes ==
  ASSUME TypeOK, RunsAreSound, NEW o \in Ops, PublishStep(o)
  PROVE  (TypeOK /\ RunsAreSound)'
<1> USE DEF TypeOK
<1>1. CASE Admit(o)
  <2>1. \E next \in PathOf(o) : Goto(o, next)
    BY <1>1, OpsAssumption DEF Admit, PathsOK, Ops, PathOf, CreatorPC,
       RunnerPC, RestorerPC, Terminal
  <2>2. PathsOK'
    BY <2>1, PathStep
  <2>3. LocalsOK'
    BY <1>1 DEF Admit, LocalsOK, local
  <2>4. StoreOK'
    BY <1>1 DEF Admit, StoreOK, store
  <2>5. RunsOK' /\ RootOK' /\ LocksOK'
    BY <1>1 DEF Admit, RunsOK, RootOK, LocksOK, local, root, store
  <2>6. RunsAreSound'
    BY <1>1 DEF Admit, Goto, PathsOK, RunsAreSound
  <2> QED BY <2>2, <2>3, <2>4, <2>5, <2>6
<1>2. CASE WriteManifest(o)
  <2>1. \E next \in PathOf(o) : Goto(o, next)
    BY <1>2, OpsAssumption DEF WriteManifest, PathsOK, Ops, PathOf, CreatorPC,
       RunnerPC, RestorerPC, Terminal
  <2>2. PathsOK'
    BY <2>1, PathStep
  <2>3. StoreOK'
    BY <1>2 DEF WriteManifest, StoreOK, LocalsOK, store
  <2>4. LocalsOK' /\ RunsOK' /\ RootOK' /\ LocksOK'
    BY <1>2 DEF WriteManifest, LocalsOK, RunsOK, RootOK, LocksOK, local, root,
       store
  <2>5. RunsAreSound'
    BY <1>2 DEF WriteManifest, Goto, PathsOK, RunsAreSound
  <2> QED BY <2>2, <2>3, <2>4, <2>5
<1>3. CASE FlushPending(o)
  <2>1. \E next \in PathOf(o) : Goto(o, next)
    BY <1>3, OpsAssumption DEF FlushPending, PathsOK, Ops, PathOf, CreatorPC,
       RunnerPC, RestorerPC, Terminal
  <2>2. PathsOK'
    BY <2>1, PathStep
  <2>3. StoreOK'
    BY <1>3 DEF FlushPending, StoreOK, store
  <2>4. LocksOK'
    BY <1>3 DEF FlushPending, LocksOK, RootOK
  <2>5. LocalsOK' /\ RunsOK' /\ RootOK'
    BY <1>3 DEF FlushPending, LocalsOK, RunsOK, RootOK, local, root, store
  <2>6. RunsAreSound'
    BY <1>3 DEF FlushPending, Goto, PathsOK, RunsAreSound
  <2> QED BY <2>2, <2>3, <2>4, <2>5, <2>6
<1>4. CASE Rename(o)
  <2>1. \E next \in PathOf(o) : Goto(o, next)
    BY <1>4, OpsAssumption DEF Rename, PathsOK, Ops, PathOf, CreatorPC,
       RunnerPC, RestorerPC, Terminal
  <2>2. PathsOK'
    BY <2>1, PathStep
  <2>3. StoreOK'
    BY <1>4 DEF Rename, StoreOK, store
  <2>4. LocalsOK' /\ RunsOK' /\ RootOK' /\ LocksOK'
    BY <1>4 DEF Rename, LocalsOK, RunsOK, RootOK, LocksOK, local, root, store
  <2>5. RunsAreSound'
    BY <1>4 DEF Rename, Goto, PathsOK, RunsAreSound
  <2> QED BY <2>2, <2>3, <2>4, <2>5
<1>5. CASE FlushName(o)
  <2>1. \E next \in PathOf(o) : Goto(o, next)
    BY <1>5, OpsAssumption DEF FlushName, PathsOK, Ops, PathOf, CreatorPC,
       RunnerPC, RestorerPC, Terminal
  <2>2. PathsOK'
    BY <2>1, PathStep
  <2>3. StoreOK'
    BY <1>5 DEF FlushName, StoreOK, store
  <2>4. LocalsOK' /\ RunsOK' /\ RootOK' /\ LocksOK'
    BY <1>5 DEF FlushName, LocalsOK, RunsOK, RootOK, LocksOK, local, root,
       store
  <2>5. RunsAreSound'
    BY <1>5 DEF FlushName, Goto, PathsOK, RunsAreSound
  <2> QED BY <2>2, <2>3, <2>4, <2>5
<1>6. ASSUME NEW m \in Media, CopyMedia(o, m) PROVE (TypeOK /\ RunsAreSound)'
  <2>1. PathsOK'
    <3>1. "unwind" \in PathOf(o)
      BY DEF PathOf, CreatorPC, RunnerPC, RestorerPC, Terminal
    <3>2. Goto(o, "unwind") \/ pc' = pc
      BY <1>6 DEF CopyMedia
    <3> QED BY <3>1, <3>2, PathStep DEF PathsOK
  <2>2. StoreOK'
    <3>1. Source(o) \in Holdings
      BY <1>6 DEF CopyMedia, Source, RunsOK, Run, Holdings
    <3>2. disks' \in [Gens -> [Media -> Holdings]]
      <4>1. \/ disks' = disks
            \/ disks' = [disks EXCEPT ![target[o]][m] = Source(o)]
        BY <1>6 DEF CopyMedia
      <4>2. disks \in [Gens -> [Media -> Holdings]]
        BY DEF StoreOK
      <4> QED BY <1>6, <3>1, <4>1, <4>2
    <3> QED BY <1>6, <3>2 DEF CopyMedia, StoreOK, store
  <2>3. LocalsOK' /\ RunsOK' /\ RootOK' /\ LocksOK'
    BY <1>6 DEF CopyMedia, LocalsOK, RunsOK, RootOK, LocksOK, local, root,
       store
  <2>4. RunsAreSound'
    BY <1>6 DEF CopyMedia, Goto, PathsOK, RunsAreSound
  <2> QED BY <2>1, <2>2, <2>3, <2>4
<1> QED BY <1>1, <1>2, <1>3, <1>4, <1>5, <1>6 DEF PublishStep

(* select. *)
LEMMA SelectStepTypes ==
  ASSUME TypeOK, RunsAreSound, NEW o \in Ops, SelectStep(o)
  PROVE  (TypeOK /\ RunsAreSound)'
<1> USE DEF TypeOK
<1>1. CASE Choose(o)
  <2>1. \E next \in PathOf(o) : Goto(o, next)
    BY <1>1, OpsAssumption DEF Choose, PathsOK, Ops, PathOf, CreatorPC,
       RunnerPC, RestorerPC, Terminal
  <2>2. PathsOK'
    BY <2>1, PathStep
  <2>3. LocalsOK'
    BY <1>1 DEF Choose, LocalsOK, local
  <2>4. RunsOK' /\ RootOK' /\ LocksOK' /\ StoreOK'
    BY <1>1 DEF Choose, RunsOK, RootOK, LocksOK, StoreOK, local, root, store
  <2>5. RunsAreSound'
    BY <1>1 DEF Choose, Goto, PathsOK, RunsAreSound
  <2> QED BY <2>2, <2>3, <2>4, <2>5
<1>2. CASE VerifyTarget(o)
  <2>1. \E next \in PathOf(o) : Goto(o, next)
    BY <1>2, OpsAssumption DEF VerifyTarget, PathsOK, Ops, PathOf, CreatorPC,
       RunnerPC, RestorerPC, Terminal
  <2>2. PathsOK'
    BY <2>1, PathStep
  <2>3. LocalsOK' /\ RunsOK' /\ RootOK' /\ LocksOK' /\ StoreOK'
    BY <1>2 DEF VerifyTarget, LocalsOK, RunsOK, RootOK, LocksOK, StoreOK,
       local, root, store
  <2>4. RunsAreSound'
    BY <1>2 DEF VerifyTarget, Goto, PathsOK, RunsAreSound
  <2> QED BY <2>2, <2>3, <2>4
<1>3. CASE Swap(o)
  <2>1. \E next \in PathOf(o) : Goto(o, next)
    BY <1>3, OpsAssumption DEF Swap, PathsOK, Ops, PathOf, CreatorPC,
       RunnerPC, RestorerPC, Terminal
  <2>2. PathsOK'
    BY <2>1, PathStep
  <2>3. RootOK'
    BY <1>3 DEF Swap, RootOK, LocalsOK, root
  <2>4. LocalsOK' /\ RunsOK' /\ LocksOK' /\ StoreOK'
    BY <1>3 DEF Swap, LocalsOK, RunsOK, LocksOK, StoreOK, local, root, store
  <2>5. RunsAreSound'
    BY <1>3 DEF Swap, Goto, PathsOK, RunsAreSound
  <2> QED BY <2>2, <2>3, <2>4, <2>5
<1>4. CASE Sync(o)
  <2>1. \E next \in PathOf(o) : Goto(o, next)
    BY <1>4, OpsAssumption DEF Sync, PathsOK, Ops, PathOf, CreatorPC,
       RunnerPC, RestorerPC, Terminal
  <2>2. PathsOK'
    BY <2>1, PathStep
  <2>3. LocksOK'
    BY <1>4 DEF Sync, LocksOK, RootOK, Root
  <2>4. LocalsOK'
    BY <1>4 DEF Sync, LocalsOK, local
  <2>5. RunsOK' /\ RootOK' /\ StoreOK'
    BY <1>4 DEF Sync, RunsOK, RootOK, StoreOK, local, root, store
  <2>6. RunsAreSound'
    BY <1>4 DEF Sync, Goto, PathsOK, RunsAreSound
  <2> QED BY <2>2, <2>3, <2>4, <2>5, <2>6
<1> QED BY <1>1, <1>2, <1>3, <1>4 DEF SelectStep

(* Exceptions, signals and kills. *)
LEMMA OpFaultTypes ==
  ASSUME TypeOK, RunsAreSound, NEW o \in Ops, OpFault(o)
  PROVE  (TypeOK /\ RunsAreSound)'
<1> USE DEF TypeOK
<1>1. CASE DisownLease(o)
  <2>1. \E next \in PathOf(o) : Goto(o, next)
    BY <1>1, OpsAssumption DEF DisownLease, PathsOK, Ops, PathOf, CreatorPC,
       RunnerPC, RestorerPC, Terminal
  <2>2. PathsOK'
    BY <2>1, PathStep
  <2>3. RootOK'
    BY <1>1 DEF DisownLease, RootOK, root
  <2>4. LocalsOK' /\ RunsOK' /\ LocksOK' /\ StoreOK'
    BY <1>1 DEF DisownLease, LocalsOK, RunsOK, LocksOK, StoreOK, local, root,
       store
  <2>5. RunsAreSound'
    BY <1>1 DEF DisownLease, Goto, PathsOK, RunsAreSound
  <2> QED BY <2>2, <2>3, <2>4, <2>5
<1>2. CASE Forward(o)
  <2>1. PathsOK'
    BY <1>2 DEF Forward, PathsOK
  <2>2. LocalsOK'
    BY <1>2 DEF Forward, LocalsOK, local
  <2>3. RunsOK' /\ RootOK' /\ LocksOK' /\ StoreOK'
    BY <1>2 DEF Forward, RunsOK, RootOK, LocksOK, StoreOK, local, root, store
  <2>4. RunsAreSound'
    BY <1>2 DEF Forward, Goto, PathsOK, RunsAreSound
  <2> QED BY <2>1, <2>2, <2>3, <2>4
<1>3. CASE Raise(o)
  <2>1. \E next \in PathOf(o) : Goto(o, next)
    BY <1>3, OpsAssumption DEF Raise, PathsOK, Ops, PathOf, CreatorPC,
       RunnerPC, RestorerPC, Terminal
  <2>2. PathsOK'
    BY <2>1, PathStep
  <2>3. LocalsOK' /\ RunsOK' /\ RootOK' /\ LocksOK' /\ StoreOK'
    BY <1>3 DEF Raise, LocalsOK, RunsOK, RootOK, LocksOK, StoreOK, local,
       root, store
  <2>4. RunsAreSound'
    BY <1>3 DEF Raise, Goto, PathsOK, RunsAreSound
  <2> QED BY <2>2, <2>3, <2>4
<1>4. CASE AbandonEnding(o)
  <2>1. \E next \in PathOf(o) : Goto(o, next)
    BY <1>4, OpsAssumption DEF AbandonEnding, PathsOK, Ops, PathOf, CreatorPC,
       RunnerPC, RestorerPC, Terminal
  <2>2. PathsOK'
    BY <2>1, PathStep
  <2>3. LocalsOK' /\ RunsOK' /\ RootOK' /\ LocksOK' /\ StoreOK'
    BY <1>4 DEF AbandonEnding, LocalsOK, RunsOK, RootOK, LocksOK, StoreOK,
       local, root, store
  <2>4. RunsAreSound'
    BY <1>4 DEF AbandonEnding, Goto, PathsOK, RunsAreSound
  <2> QED BY <2>2, <2>3, <2>4
<1>5. CASE Kill(o)
  <2>1. \E next \in PathOf(o) : Goto(o, next)
    BY <1>5, OpsAssumption DEF Kill, PathsOK, Ops, PathOf, CreatorPC,
       RunnerPC, RestorerPC, Terminal
  <2>2. PathsOK'
    BY <2>1, PathStep
  <2>3. LocalsOK' /\ RunsOK' /\ RootOK' /\ LocksOK' /\ StoreOK'
    BY <1>5 DEF Kill, LocalsOK, RunsOK, RootOK, LocksOK, StoreOK, local, root,
       store
  <2>4. RunsAreSound'
    BY <1>5 DEF Kill, Goto, PathsOK, RunsAreSound
  <2> QED BY <2>2, <2>3, <2>4
<1> QED BY <1>1, <1>2, <1>3, <1>4, <1>5 DEF OpFault

(* The launcher and the controller. *)
LEMMA ProcessStepTypes ==
  ASSUME TypeOK, RunsAreSound, NEW o \in Ops, ProcessStep(o)
  PROVE  (TypeOK /\ RunsAreSound)'
<1> USE DEF TypeOK
<1>1. CASE LauncherLock(o)
  <2>1. PathsOK'
    BY <1>1 DEF LauncherLock, PathsOK
  <2>2. LocksOK'
    BY <1>1 DEF LauncherLock, LocksOK
  <2>3. LocalsOK' /\ RootOK' /\ StoreOK'
    BY <1>1 DEF LauncherLock, LocalsOK, RootOK, StoreOK, local, root, store
  <2>4. RunsOK' /\ RunsAreSound'
    <3>1. PICK d \in {[run[o] EXCEPT !.launcher = "locked"],
                    [run[o] EXCEPT !.launcher = "over", !.status = "nonzero"]} :
            run' = [run EXCEPT ![o] = d]
      BY <1>1 DEF LauncherLock
    <3>2. run[o].launcher = "started" /\ run[o].control = "none"
      BY <1>1 DEF LauncherLock, RunsAreSound, Sound
    <3>3. d \in Run /\ Sound(d) /\ d.lost = run[o].lost
      <4>1. CASE d = [run[o] EXCEPT !.launcher = "locked"]
        BY <3>2, <4>1 DEF RunsOK, Run, LauncherPhase, Sound, RunsAreSound
      <4>2. CASE d = [run[o] EXCEPT !.launcher = "over", !.status = "nonzero"]
        <5>1. run[o] \in Run /\ Sound(run[o])
          BY DEF RunsOK, RunsAreSound
        <5>2. d \in Run
          BY <4>2, <5>1 DEF Run, LauncherPhase
        <5>3. Sound(d)
          BY <3>2, <4>2, <5>1, <5>2 DEF Run, Sound
        <5> QED BY <4>2, <5>1, <5>2, <5>3 DEF Run
      <4> QED BY <4>1, <4>2
    <3> QED BY <1>1, <3>1, <3>2, <3>3 DEF LauncherLock, RunsOK, RunsAreSound
  <2> QED BY <2>1, <2>2, <2>3, <2>4
<1>2. CASE LauncherStep(o)
  <2>1. PathsOK'
    BY <1>2 DEF LauncherStep, PathsOK
  <2>2. LocalsOK' /\ RootOK' /\ LocksOK' /\ StoreOK'
    BY <1>2 DEF LauncherStep, LocalsOK, RootOK, LocksOK, StoreOK, local, root,
       store
  <2>3. RunsOK' /\ RunsAreSound'
    <3>1. PICK d \in LauncherSteps(run[o]) : run' = [run EXCEPT ![o] = d]
      BY <1>2 DEF LauncherStep, Becomes
    <3>2. d \in Run /\ Sound(d) /\ d.lost = run[o].lost
      BY <1>2, LauncherStepsAreSound DEF LauncherStep, RunsOK, RunsAreSound
    <3>3. run[o].launcher # "none"
      BY <3>1 DEF LauncherSteps, Claim, Record, Stage, Drive, When, RunsOK, RunsAreSound, Sound
    <3> QED BY <1>2, <3>1, <3>2, <3>3 DEF LauncherStep, RunsOK, RunsAreSound
  <2> QED BY <2>1, <2>2, <2>3
<1>3. CASE LauncherEnd(o)
  <2>1. PathsOK'
    BY <1>3 DEF LauncherEnd, PathsOK
  <2>2. LocksOK'
    BY <1>3 DEF LauncherEnd, LocksOK
  <2>3. LocalsOK' /\ RootOK' /\ StoreOK'
    BY <1>3 DEF LauncherEnd, LocalsOK, RootOK, StoreOK, local, root, store
  <2>4. RunsOK' /\ RunsAreSound'
    <3>0. PICK tidy \in BOOLEAN : Becomes(o, LauncherEnds(run[o], tidy))
      BY <1>3 DEF LauncherEnd
    <3>1. PICK d \in LauncherEnds(run[o], tidy) : run' = [run EXCEPT ![o] = d]
      BY <3>0 DEF Becomes
    <3>2. d \in Run /\ Sound(d) /\ d.lost = run[o].lost
      BY LauncherEndsAreSound DEF RunsOK, RunsAreSound
    <3>3. run[o].launcher # "none"
      BY <3>1 DEF LauncherEnds, Abort, Finish, When
    <3> QED BY <1>3, <3>1, <3>2, <3>3 DEF LauncherEnd, RunsOK, RunsAreSound
  <2> QED BY <2>1, <2>2, <2>3, <2>4
<1>4. CASE ControllerStep(o)
  <2>1. PathsOK'
    BY <1>4 DEF ControllerStep, PathsOK
  <2>2. LocalsOK' /\ RootOK' /\ LocksOK' /\ StoreOK'
    BY <1>4 DEF ControllerStep, LocalsOK, RootOK, LocksOK, StoreOK, local,
       root, store
  <2>3. RunsOK' /\ RunsAreSound'
    <3>1. PICK d \in ControllerSteps(run[o]) : run' = [run EXCEPT ![o] = d]
      BY <1>4 DEF ControllerStep, Becomes
    <3>2. d \in Run /\ Sound(d) /\ d.lost = run[o].lost
      BY <1>4, ControllerStepsAreSound DEF ControllerStep, RunsOK, RunsAreSound
    <3>3. run[o].launcher # "none"
      BY <3>1 DEF ControllerSteps, Attach, BootImps, BootHosts, SyncGuests, When, RunsOK, RunsAreSound, Sound
    <3> QED BY <1>4, <3>1, <3>2, <3>3 DEF ControllerStep, RunsOK, RunsAreSound
  <2> QED BY <2>1, <2>2, <2>3
<1>5. CASE ControllerEnd(o)
  <2>1. PathsOK'
    BY <1>5 DEF ControllerEnd, PathsOK
  <2>2. LocalsOK' /\ RootOK' /\ LocksOK' /\ StoreOK'
    BY <1>5 DEF ControllerEnd, LocalsOK, RootOK, LocksOK, StoreOK, local,
       root, store
  <2>3. RunsOK' /\ RunsAreSound'
    <3>0. PICK flag \in BOOLEAN, verdict \in Verdicts :
            Becomes(o, ControllerEnds(run[o], flag, verdict))
      BY <1>5 DEF ControllerEnd
    <3>1. PICK d \in ControllerEnds(run[o], flag, verdict) :
            run' = [run EXCEPT ![o] = d]
      BY <3>0 DEF Becomes
    <3>2. d \in Run /\ Sound(d) /\ d.lost = run[o].lost
      BY ControllerEndsAreSound DEF RunsOK, RunsAreSound
    <3>3. run[o].launcher # "none"
      BY <3>1 DEF ControllerEnds, StopClean, StopFailed, When, RunsOK, RunsAreSound, Sound
    <3> QED BY <1>5, <3>1, <3>2, <3>3 DEF ControllerEnd, RunsOK, RunsAreSound
  <2> QED BY <2>1, <2>2, <2>3
<1> QED BY <1>1, <1>2, <1>3, <1>4, <1>5 DEF ProcessStep

(* What happens to a run from outside. *)
LEMMA EnvironmentTypes ==
  ASSUME TypeOK, RunsAreSound, NEW o \in Ops, Environment(o)
  PROVE  (TypeOK /\ RunsAreSound)'
<1> USE DEF TypeOK
<1>1. CASE SignalledLaunch(o)
  <2>1. PathsOK'
    BY <1>1 DEF SignalledLaunch, PathsOK
  <2>2. LocalsOK' /\ RootOK' /\ LocksOK' /\ StoreOK'
    BY <1>1 DEF SignalledLaunch, LocalsOK, RootOK, LocksOK, StoreOK, local,
       root, store
  <2>3. RunsOK' /\ RunsAreSound'
    <3>1. PICK d \in LoseHandle(run[o]) : run' = [run EXCEPT ![o] = d]
      BY <1>1 DEF SignalledLaunch, Becomes
    <3>2. d \in Run /\ Sound(d) /\ SignalInLaunch
      BY <1>1, LossIsSound DEF SignalledLaunch, RunsOK, RunsAreSound
    <3>3. run[o].launcher # "none"
      BY <3>1 DEF LoseHandle, When, RunsOK, RunsAreSound, Sound
    <3> QED BY <1>1, <3>1, <3>2, <3>3 DEF SignalledLaunch, RunsOK, RunsAreSound
  <2> QED BY <2>1, <2>2, <2>3
<1>2. CASE ProcessDies(o)
  <2>1. PathsOK'
    BY <1>2 DEF ProcessDies, PathsOK
  <2>2. LocalsOK' /\ RootOK' /\ LocksOK' /\ StoreOK'
    BY <1>2 DEF ProcessDies, LocalsOK, RootOK, LocksOK, StoreOK, local, root,
       store
  <2>3. RunsOK' /\ RunsAreSound'
    <3>1. PICK d \in Accidents(run[o]) : run' = [run EXCEPT ![o] = d]
      BY <1>2 DEF ProcessDies, Becomes
    <3>2. d \in Run /\ Sound(d) /\ d.lost = run[o].lost
      BY <1>2, AccidentsAreSound DEF ProcessDies, RunsOK, RunsAreSound
    <3>3. run[o].launcher # "none"
      BY <3>1 DEF Accidents, LauncherDies, ControlDies, When, RunsOK, RunsAreSound, Sound
    <3> QED BY <1>2, <3>1, <3>2, <3>3 DEF ProcessDies, RunsOK, RunsAreSound
  <2> QED BY <2>1, <2>2, <2>3
<1>3. CASE SurvivorsExit(o)
  <2>1. PathsOK'
    BY <1>3 DEF SurvivorsExit, PathsOK
  <2>2. LocalsOK' /\ RootOK' /\ LocksOK' /\ StoreOK'
    BY <1>3 DEF SurvivorsExit, LocalsOK, RootOK, LocksOK, StoreOK, local,
       root, store
  <2>3. RunsOK' /\ RunsAreSound'
    <3>1. PICK d \in SimsExit(run[o]) : run' = [run EXCEPT ![o] = d]
      BY <1>3 DEF SurvivorsExit, Becomes
    <3>2. d \in Run /\ Sound(d) /\ d.lost = run[o].lost
      BY <1>3, AftermathIsSound DEF SurvivorsExit, RunsOK, RunsAreSound
    <3>3. run[o].launcher # "none"
      BY <3>1 DEF SimsExit, When, RunsOK, RunsAreSound, Sound
    <3> QED BY <1>3, <3>1, <3>2, <3>3 DEF SurvivorsExit, RunsOK, RunsAreSound
  <2> QED BY <2>1, <2>2, <2>3
<1>4. CASE PruneMedia(o)
  <2>1. PathsOK'
    BY <1>4 DEF PruneMedia, PathsOK
  <2>2. LocalsOK' /\ RootOK' /\ LocksOK' /\ StoreOK'
    BY <1>4 DEF PruneMedia, LocalsOK, RootOK, LocksOK, StoreOK, local, root,
       store
  <2>3. RunsOK' /\ RunsAreSound'
    <3>1. PICK d \in Prune(run[o]) : run' = [run EXCEPT ![o] = d]
      BY <1>4 DEF PruneMedia, Becomes
    <3>2. d \in Run /\ Sound(d) /\ d.lost = run[o].lost
      BY <1>4, AftermathIsSound DEF PruneMedia, RunsOK, RunsAreSound
    <3>3. d.launcher = run[o].launcher
      BY <3>1 DEF Prune, When, RunsOK, Run
    <3> QED BY <1>4, <3>1, <3>2, <3>3 DEF PruneMedia, RunsOK, RunsAreSound
  <2> QED BY <2>1, <2>2, <2>3
<1> QED BY <1>1, <1>2, <1>3, <1>4 DEF Environment

(* The finally clauses. *)
LEMMA UnwindTypes ==
  ASSUME TypeOK, RunsAreSound, NEW o \in Ops, Unwind(o)
  PROVE  (TypeOK /\ RunsAreSound)'
<1> USE DEF TypeOK
<1>1. \E next \in PathOf(o) : Goto(o, next)
  BY DEF Unwind, PathOf, CreatorPC, RunnerPC, RestorerPC, Terminal
<1>2. PathsOK'
  BY <1>1, PathStep
<1>3. StoreOK'
  <2> DEFINE g == target[o]
  <2>1. CASE /\ place' = [place EXCEPT ![g] = "absent"]
             /\ disks' = [disks EXCEPT ![g] = [m \in Media |-> "absent"]]
             /\ manifest' = [manifest EXCEPT ![g] = FALSE]
    <3>1. [m \in Media |-> "absent"] \in [Media -> Holdings]
      BY DEF Holdings
    <3> QED BY <2>1, <3>1 DEF Unwind, StoreOK
  <2>2. CASE UNCHANGED <<place, disks, manifest>>
    BY <2>2 DEF Unwind, StoreOK
  <2> QED BY <2>1, <2>2 DEF Unwind
<1>4. LocalsOK' /\ RunsOK' /\ RootOK' /\ LocksOK'
  BY DEF Unwind, LocalsOK, RunsOK, RootOK, LocksOK, local, root
<1>5. RunsAreSound'
  BY DEF Unwind, Goto, PathsOK, RunsAreSound
<1> QED BY <1>2, <1>3, <1>4, <1>5

(* A power loss. *)
LEMMA PowerLossTypes ==
  ASSUME TypeOK, RunsAreSound, PowerLoss
  PROVE  (TypeOK /\ RunsAreSound)'
<1> USE DEF TypeOK
<1>1. PathsOK'
  BY DEF PowerLoss, PathsOK, PathOf, Terminal
<1>2. RunsOK' /\ RunsAreSound'
  <2>1. \A o \in Ops : /\ run'[o] = Halted(run[o])
                       /\ run'[o] \in Run /\ Sound(run'[o])
                       /\ run'[o].lost = run[o].lost
    BY HaltIsSound DEF PowerLoss, RunsOK, RunsAreSound
  <2>2. \A o \in Ops : run'[o].launcher # "none" => run[o].launcher # "none"
    BY <2>1 DEF Halted, RunsOK
  <2>3. \A o \in Ops : pc'[o] \in {"start", "own", "lookup", "spawn"}
                         => pc[o] \in {"start", "own", "lookup", "spawn"}
    BY DEF PowerLoss, PathsOK, Terminal
  <2>4. RunsOK'
    BY <2>1 DEF PowerLoss, RunsOK
  <2> QED BY <2>1, <2>2, <2>3, <2>4 DEF RunsAreSound
<1>3. RootOK' /\ LocksOK'
  BY DEF PowerLoss, RootOK, LocksOK, Root
<1>4. StoreOK'
  <2>1. PICK kept \in SUBSET {g \in Gens : place[g] = "published" /\ ~named[g]},
             lost \in SUBSET {g \in Gens : place[g] = "published" /\ ~flushed[g]} :
          /\ place' = [g \in Gens |->
                         IF home' = "absent" THEN "absent"
                         ELSE IF place[g] = "published" /\ ~named[g] /\ g \notin kept
                         THEN "pending" ELSE place[g]]
          /\ named' = [g \in Gens |-> place'[g] = "published"]
          /\ disks' = [g \in Gens |->
                         IF g \in lost \/ home' = "absent"
                         THEN [m \in Media |-> "absent"] ELSE disks[g]]
    BY DEF PowerLoss
  <2>2. place' \in [Gens -> {"absent", "pending", "published"}]
    BY <2>1 DEF StoreOK
  <2>3. named' \in [Gens -> BOOLEAN]
    BY <2>1
  <2>4. disks' \in [Gens -> [Media -> Holdings]]
    <3>1. [m \in Media |-> "absent"] \in [Media -> Holdings]
      BY DEF Holdings
    <3> QED BY <2>1, <3>1 DEF StoreOK
  <2> QED BY <2>2, <2>3, <2>4 DEF PowerLoss, StoreOK
<1>5. LocalsOK'
  BY DEF PowerLoss, LocalsOK, local
<1> QED BY <1>1, <1>2, <1>3, <1>4, <1>5

(* Recovery by hand. *)
LEMMA RecoveryTypes ==
  ASSUME TypeOK, RunsAreSound, RecoverLease \/ RecoverBuildLock
  PROVE  (TypeOK /\ RunsAreSound)'
<1>1. UNCHANGED <<pc, local, run, home, current, durable, store>>
  BY DEF RecoverLease, RecoverBuildLock, root
<1>2. lease' \in Ops \cup {NoOp} /\ buildLock' \in Ops \cup {NoOp}
  BY DEF RecoverLease, RecoverBuildLock, root, TypeOK, RootOK, LocksOK
<1> QED BY <1>1, <1>2 DEF TypeOK, PathsOK, LocalsOK, RunsOK, RootOK, LocksOK,
           StoreOK, RunsAreSound, local, store

LEMMA InitTypes == Init => TypeOK /\ RunsAreSound
<1> SUFFICES ASSUME Init PROVE TypeOK /\ RunsAreSound
  OBVIOUS
<1>1. PathsOK
  BY DEF Init, PathsOK, PathOf
<1>2. LocalsOK /\ RootOK /\ LocksOK
  BY DEF Init, LocalsOK, RootOK, LocksOK, Root
<1>3. RunsOK /\ RunsAreSound
  BY UnbornIsSound DEF Init, RunsOK, RunsAreSound, Unborn
<1>4. StoreOK
  BY DEF Init, StoreOK, Holdings
<1> QED BY <1>1, <1>2, <1>3, <1>4 DEF TypeOK

LEMMA NextTypes ==
  ASSUME TypeOK, RunsAreSound, [Next]_vars
  PROVE  (TypeOK /\ RunsAreSound)'
<1>1. CASE UNCHANGED vars
  BY <1>1 DEF vars, local, root, store, TypeOK, PathsOK, LocalsOK, RunsOK,
     RootOK, LocksOK, StoreOK, RunsAreSound
<1>2. ASSUME NEW o \in Ops, OpStep(o) PROVE (TypeOK /\ RunsAreSound)'
  BY <1>2, CreateStepTypes, LeaseStepTypes, RunStepTypes, PublishStepTypes,
     SelectStepTypes, UnwindTypes DEF OpStep
<1>3. ASSUME NEW o \in Ops, OpFault(o) \/ ProcessStep(o) \/ Environment(o)
      PROVE  (TypeOK /\ RunsAreSound)'
  BY <1>3, OpFaultTypes, ProcessStepTypes, EnvironmentTypes
<1>4. CASE PowerLoss \/ RecoverLease \/ RecoverBuildLock
  BY <1>4, PowerLossTypes, RecoveryTypes
<1> QED BY <1>1, <1>2, <1>3, <1>4 DEF Next

(* Every variable of the workspace keeps its type whatever the interleaving, *)
(* fault or power loss.                                                      *)
THEOREM TypesHold == Spec => []TypeOK
<1>1. Spec => [](TypeOK /\ RunsAreSound)
  BY InitTypes, NextTypes, PTL DEF Spec
<1> QED BY <1>1, PTL

------------------------------------------------------------------------------
(* ProcessInv is inductive: the lease and the build lock exclude whatever  *)
(* fails, and a run with a live process keeps its workspace leased.        *)

Typed == TypeOK /\ RunsAreSound

(* A step of an invocation that leaves runs, leases and locks alone. *)
LEMMA QuietStep ==
  ASSUME ProcessInv, Typed', NEW o \in Ops,
         UNCHANGED <<safe, run, lease, buildLock>>,
         \A p \in Ops \ {o} : pc'[p] = pc[p],
         pc'[o] \in UnderLease => pc[o] \in UnderLease \/ o \in Creators,
         pc'[o] \in CreatorPC => pc[o] \in CreatorPC \/ o \notin Creators,
         pc'[o] = "release" => safe[o] \/ o \notin Runners
  PROVE  ProcessInv'
<1>1. SafeMeansDead'
  BY OpsAssumption DEF ProcessInv, SafeMeansDead, Ops
<1>2. LeaseExcludes'
  BY OpsAssumption DEF ProcessInv, LeaseExcludes, Ops
<1>3. BuildLockExcludes'
  BY DEF ProcessInv, BuildLockExcludes
<1>4. (~SignalInLaunch => LiveRunHoldsLease)'
  BY DEF ProcessInv, LiveRunHoldsLease
<1> QED BY <1>1, <1>2, <1>3, <1>4 DEF ProcessInv, Typed

(* A step of a run's processes that leaves the invocations and leases alone. *)
LEMMA RunProcessStep ==
  ASSUME ProcessInv, Typed', NEW o \in Ops, NEW d \in Run,
         UNCHANGED <<pc, safe, lease>>, run' = [run EXCEPT ![o] = d],
         ~SignalInLaunch /\ Live(d) => Live(run[o]),
         d.launcher \in LockedPhases => buildLock' = o,
         \/ buildLock' = buildLock
         \/ buildLock = NoOp /\ buildLock' = o
         \/ run[o].launcher \in LockedPhases /\ d.launcher \notin LockedPhases
  PROVE  ProcessInv'
<1>0. run \in [Ops -> Run]
  BY DEF ProcessInv, TypeOK, RunsOK
<1>1. SafeMeansDead'
  BY <1>0 DEF ProcessInv, SafeMeansDead, Ops
<1>2. LeaseExcludes'
  BY DEF ProcessInv, LeaseExcludes
<1>3. BuildLockExcludes'
  <2> SUFFICES ASSUME NEW p \in Ops,
                      \/ p \in Creators /\ pc[p] \in CreatorPC
                      \/ run'[p].launcher \in LockedPhases
               PROVE  buildLock' = p
    BY DEF BuildLockExcludes
  <2>1. CASE p = o /\ run'[p].launcher \in LockedPhases
    BY <1>0, <2>1
  <2>2. CASE p = o /\ p \in Creators /\ pc[p] \in CreatorPC
    <3>1. run'[o].launcher = "none"
      BY <2>2, OpsAssumption DEF Typed, RunsAreSound, Ops
    <3> QED BY <1>0, <2>2, <3>1, OpsAssumption DEF ProcessInv, RunsAreSound, BuildLockExcludes, LockedPhases
  <2>3. CASE p # o
    BY <1>0, <2>3, OpsAssumption DEF ProcessInv, BuildLockExcludes
  <2> QED BY <2>1, <2>2, <2>3
<1>4. (~SignalInLaunch => LiveRunHoldsLease)'
  BY <1>0 DEF ProcessInv, LiveRunHoldsLease, Ops
<1> QED BY <1>1, <1>2, <1>3, <1>4 DEF ProcessInv, Typed

LEMMA CreateStepProcess ==
  ASSUME ProcessInv, Typed', NEW o \in Ops, CreateStep(o)
  PROVE  ProcessInv'
<1> USE DEF Goto, Terminal
<1>0. pc = [p \in Ops |-> pc[p]]
  BY DEF ProcessInv, TypeOK, PathsOK
<1>1. CASE CreateLock(o)
  <2>1. CASE buildLock' = buildLock /\ Goto(o, "failed")
    BY <1>0, <1>1, <2>1, QuietStep DEF CreateLock, local, root, UnderLease, CreatorPC
  <2>2. CASE buildLock = NoOp /\ buildLock' = o /\ Goto(o, "makeroot")
    <3>1. SafeMeansDead'
      BY <1>0, <1>1, <2>2, OpsAssumption DEF CreateLock, ProcessInv, SafeMeansDead, local
    <3>2. LeaseExcludes'
      BY <1>0, <1>1, <2>2, OpsAssumption DEF CreateLock, ProcessInv, LeaseExcludes, root
    <3>3. BuildLockExcludes'
      BY <1>0, <1>1, <2>2, OpsAssumption DEF CreateLock, ProcessInv, BuildLockExcludes
    <3>4. (~SignalInLaunch => LiveRunHoldsLease)'
      BY <1>1 DEF CreateLock, ProcessInv, LiveRunHoldsLease, root
    <3> QED BY <3>1, <3>2, <3>3, <3>4 DEF ProcessInv, Typed
  <2> QED BY <1>1, <2>1, <2>2 DEF CreateLock
<1>2. CASE CreateRoot(o) \/ CreateMetadata(o)
  <2>1. o \in Creators
    BY <1>2, OpsAssumption DEF CreateRoot, CreateMetadata, ProcessInv, TypeOK,
       PathsOK, PathOf, RunnerPC, RestorerPC, Ops
  <2> QED BY <1>0, <1>2, <2>1, OpsAssumption, QuietStep DEF CreateRoot, CreateMetadata,
             local, UnderLease, CreatorPC
<1>3. CASE CreateUnlock(o)
  <2>1. o \in Creators /\ buildLock = o
    BY <1>3, OpsAssumption DEF CreateUnlock, ProcessInv, TypeOK,
       PathsOK, PathOf, RunnerPC, RestorerPC, Ops, BuildLockExcludes, CreatorPC
  <2>2. SafeMeansDead'
    BY <1>0, <1>3, <2>1, OpsAssumption DEF CreateUnlock, ProcessInv, SafeMeansDead, local
  <2>3. LeaseExcludes'
    BY <1>0, <1>3, <2>1, OpsAssumption DEF CreateUnlock, ProcessInv, LeaseExcludes, root
  <2>4. BuildLockExcludes'
    <3> SUFFICES ASSUME NEW p \in Ops,
                      \/ p \in Creators /\ pc'[p] \in CreatorPC
                      \/ run'[p].launcher \in LockedPhases
                 PROVE  FALSE
      BY DEF BuildLockExcludes
    <3>1. p # o
      BY <1>0, <1>3, <2>1, OpsAssumption DEF CreateUnlock, CreatorPC, Typed, RunsAreSound, LockedPhases
    <3> QED BY <1>0, <1>3, <2>1, <3>1 DEF CreateUnlock, ProcessInv, BuildLockExcludes
  <2>5. (~SignalInLaunch => LiveRunHoldsLease)'
    BY <1>3 DEF CreateUnlock, ProcessInv, LiveRunHoldsLease, root
  <2> QED BY <2>2, <2>3, <2>4, <2>5 DEF ProcessInv, Typed
<1> QED BY <1>1, <1>2, <1>3 DEF CreateStep

(* acquire, release and the except clause of acquire. *)
LEMMA LeaseChangesHands ==
  ASSUME ProcessInv, Typed', NEW o \in Runners \cup Restorers,
         AcquireLease(o) \/ ReleaseLease(o) \/ DisownLease(o)
  PROVE  ProcessInv'
<1>0. pc = [p \in Ops |-> pc[p]] /\ o \in Ops /\ o \notin Creators
  BY OpsAssumption DEF ProcessInv, TypeOK, PathsOK, Ops
<1>1. UNCHANGED <<safe, run, buildLock>> /\ \A p \in Ops \ {o} : pc'[p] = pc[p]
  BY <1>0 DEF AcquireLease, ReleaseLease, DisownLease, local, Goto
<1>2. pc'[o] \in {"own", "failed", "settle"}
  BY <1>0 DEF AcquireLease, ReleaseLease, DisownLease, Goto
<1>3. SafeMeansDead'
  BY <1>1, <1>2 DEF ProcessInv, SafeMeansDead, Ops
<1>4. BuildLockExcludes'
  BY <1>0, <1>1 DEF ProcessInv, BuildLockExcludes
<1>5. CASE AcquireLease(o) /\ lease' = lease /\ pc'[o] = "failed"
  <2>1. LeaseExcludes'
    BY <1>0, <1>1, <1>5 DEF ProcessInv, LeaseExcludes, UnderLease, Ops
  <2>2. (~SignalInLaunch => LiveRunHoldsLease)'
    BY <1>1, <1>5 DEF ProcessInv, LiveRunHoldsLease
  <2> QED BY <1>3, <1>4, <2>1, <2>2 DEF ProcessInv, Typed
<1>6. CASE AcquireLease(o) /\ lease = NoOp /\ lease' = o
  <2>1. LeaseExcludes'
    BY <1>0, <1>1, <1>6, OpsAssumption DEF ProcessInv, LeaseExcludes, Ops
  <2>2. (~SignalInLaunch => LiveRunHoldsLease)'
    BY <1>1, <1>6, OpsAssumption DEF ProcessInv, LiveRunHoldsLease, Ops
  <2> QED BY <1>3, <1>4, <2>1, <2>2 DEF ProcessInv, Typed
<1>7. CASE (ReleaseLease(o) \/ DisownLease(o)) /\ lease' = NoOp
  <2>1. lease = o
    BY <1>7 DEF ReleaseLease, DisownLease, ProcessInv, LeaseExcludes, UnderLease
  <2>2. o \in Runners /\ ~SignalInLaunch => ~Live(run[o])
    <3>1. CASE ReleaseLease(o)
      BY <3>1 DEF ReleaseLease, ProcessInv, SafeMeansDead
    <3>2. CASE DisownLease(o)
      BY <1>0, <3>2 DEF DisownLease, ProcessInv, RunsAreSound, Sound, Live
    <3> QED BY <1>7, <3>1, <3>2
  <2>3. LeaseExcludes'
    BY <1>0, <1>1, <1>2, <1>7, <2>1, OpsAssumption DEF ReleaseLease, DisownLease, Goto,
       ProcessInv, LeaseExcludes, UnderLease, Ops
  <2>4. (~SignalInLaunch => LiveRunHoldsLease)'
    BY <1>1, <2>1, <2>2 DEF ProcessInv, LiveRunHoldsLease
  <2> QED BY <1>3, <1>4, <2>3, <2>4 DEF ProcessInv, Typed
<1> QED BY <1>0, <1>5, <1>6, <1>7 DEF AcquireLease, ReleaseLease, DisownLease, Goto

(* The other steps of an invocation keep the lease and the lock it has. *)
LEMMA OwnLeaseProcess ==
  ASSUME ProcessInv, Typed', NEW o \in Ops, OwnLease(o) \/ SettleRelease(o)
  PROVE  ProcessInv'
<1>0. pc = [p \in Ops |-> pc[p]]
  BY DEF ProcessInv, TypeOK, PathsOK
<1>1. o \notin Creators
  BY DEF OwnLease, SettleRelease, ProcessInv, TypeOK, PathsOK, PathOf, CreatorPC, Terminal
<1> QED BY <1>0, <1>1, QuietStep DEF OwnLease, SettleRelease, Goto, local, root, UnderLease, CreatorPC

LEMMA RunStepProcess ==
  ASSUME ProcessInv, Typed', NEW o \in Ops, RunStep(o)
  PROVE  ProcessInv'
<1> USE DEF Goto
<1>0. pc = [p \in Ops |-> pc[p]] /\ safe = [p \in Ops |-> safe[p]]
      /\ run = [p \in Ops |-> run[p]]
  BY DEF ProcessInv, TypeOK, PathsOK, LocalsOK, RunsOK
<1>1. CASE LookUp(o) \/ Examine(o)
  <2>1. o \notin Creators
    BY <1>1, OpsAssumption DEF LookUp, Examine, ProcessInv, TypeOK, PathsOK, PathOf, CreatorPC, Terminal
  <2> QED BY <1>0, <1>1, <2>1, QuietStep DEF LookUp, Examine, local, root, UnderLease, CreatorPC
<1>2. CASE Spawn(o)
  <2>1. o \notin Creators /\ lease = o /\ lease' = lease /\ buildLock' = buildLock
    <3>1. o \in Runners
      BY <1>2 DEF Spawn, ProcessInv, TypeOK, PathsOK, PathOf, CreatorPC, RestorerPC, Terminal
    <3> QED BY <1>2, <3>1, OpsAssumption DEF Spawn, ProcessInv, LeaseExcludes, UnderLease, root
  <2>2. pc'[o] \in {"wait", "unwind"} /\ \A p \in Ops \ {o} : pc'[p] = pc[p]
    BY <1>0, <1>2 DEF Spawn
  <2>3. ~safe'[o] /\ \A p \in Ops \ {o} : safe'[p] = safe[p] /\ run'[p] = run[p]
    BY <1>0, <1>2 DEF Spawn
  <2>4. run'[o].launcher \in {"none", "started"}
    <3>1. run[o].launcher = "none"
      BY <1>2 DEF Spawn, ProcessInv, RunsAreSound
    <3>2. CASE run' = run
      BY <3>1, <3>2
    <3>3. CASE run' = [run EXCEPT ![o].launcher = "started"]
      BY <1>0, <3>3 DEF ProcessInv, TypeOK, RunsOK, Run
    <3> QED BY <1>2, <3>2, <3>3 DEF Spawn
  <2>5. SafeMeansDead'
    BY <2>2, <2>3 DEF ProcessInv, SafeMeansDead, Ops
  <2>6. LeaseExcludes'
    BY <2>1, <2>2 DEF ProcessInv, LeaseExcludes, UnderLease, Ops
  <2>7. BuildLockExcludes'
    BY <2>1, <2>2, <2>3, <2>4 DEF ProcessInv, BuildLockExcludes, LockedPhases, Ops
  <2>8. (~SignalInLaunch => LiveRunHoldsLease)'
    BY <2>1, <2>3 DEF ProcessInv, LiveRunHoldsLease, Ops
  <2> QED BY <2>5, <2>6, <2>7, <2>8 DEF ProcessInv, Typed
<1>3. CASE Judge(o)
  <2>1. /\ pc[o] = "wait" /\ run[o].launcher = "over"
        /\ safe' = [safe EXCEPT ![o] =
                      run[o].result = "none" \/ CleanupProved(run[o])]
        /\ pc'[o] \in {"examine", "unwind"}
        /\ \A p \in Ops \ {o} : pc'[p] = pc[p]
        /\ UNCHANGED <<run, lease, buildLock>>
    BY <1>0, <1>3 DEF Judge, root
  <2>2. o \in Runners /\ o \notin Creators
    BY <2>1, OpsAssumption DEF ProcessInv, RunsAreSound
  <2>3. ~SignalInLaunch /\ safe'[o] => ~Live(run[o])
    BY <1>0, <2>1, ProvedMeansDead DEF ProcessInv, RunsAreSound, TypeOK, RunsOK
  <2>4. SafeMeansDead'
    BY <1>0, <2>1, <2>3 DEF ProcessInv, SafeMeansDead, Ops
  <2>5. LeaseExcludes'
    BY <2>1 DEF ProcessInv, LeaseExcludes, UnderLease, Ops
  <2>6. BuildLockExcludes'
    BY <2>1, <2>2 DEF ProcessInv, BuildLockExcludes, Ops
  <2>7. (~SignalInLaunch => LiveRunHoldsLease)'
    BY <2>1 DEF ProcessInv, LiveRunHoldsLease
  <2> QED BY <2>4, <2>5, <2>6, <2>7 DEF ProcessInv, Typed
<1> QED BY <1>1, <1>2, <1>3 DEF RunStep

LEMMA PublishStepProcess ==
  ASSUME ProcessInv, Typed', NEW o \in Ops, PublishStep(o) \/ SelectStep(o)
  PROVE  ProcessInv'
<1> USE DEF Goto
<1>0. pc = [p \in Ops |-> pc[p]]
  BY DEF ProcessInv, TypeOK, PathsOK
<1>1. UNCHANGED <<safe, run, lease, buildLock>>
  BY DEF PublishStep, Admit, WriteManifest, FlushPending, Rename, FlushName,
     CopyMedia, SelectStep, Choose, VerifyTarget, Swap, Sync, local, root
<1>2. /\ pc[o] \in {"admit", "copy", "flush", "rename", "name", "choose",
                     "verify", "swap", "sync"}
      /\ pc'[o] \in {"copy", "flush", "rename", "name", "verify", "swap",
                      "sync", "unwind"}
      /\ \A p \in Ops \ {o} : pc'[p] = pc[p]
  <2>1. CASE PublishStep(o)
    BY <1>0, <2>1 DEF PublishStep, Admit, WriteManifest, FlushPending, Rename, FlushName, CopyMedia
  <2>2. CASE SelectStep(o)
    BY <1>0, <2>2 DEF SelectStep, Choose, VerifyTarget, Swap, Sync
  <2> QED BY <2>1, <2>2
<1>3. pc[o] = "choose" => o \notin Creators
  BY DEF ProcessInv, TypeOK, PathsOK, PathOf, CreatorPC, Terminal
<1> QED BY <1>1, <1>2, <1>3, QuietStep DEF UnderLease, CreatorPC

LEMMA UnwindProcess ==
  ASSUME ProcessInv, Typed', NEW o \in Ops, Unwind(o)
  PROVE  ProcessInv'
<1>0. pc = [p \in Ops |-> pc[p]]
  BY DEF ProcessInv, TypeOK, PathsOK
<1> QED BY <1>0, OpsAssumption, QuietStep DEF Unwind, Goto, local, root, UnderLease, CreatorPC, Ops

LEMMA OpFaultProcess ==
  ASSUME ProcessInv, Typed', NEW o \in Ops, OpFault(o)
  PROVE  ProcessInv'
<1> USE DEF Goto
<1>0. pc = [p \in Ops |-> pc[p]]
  BY DEF ProcessInv, TypeOK, PathsOK
<1>1. CASE DisownLease(o)
  <2>1. o \in Runners \cup Restorers
    BY <1>1 DEF DisownLease, ProcessInv, TypeOK, PathsOK, PathOf, CreatorPC, Terminal, Ops
  <2> QED BY <1>1, <2>1, LeaseChangesHands
<1>2. CASE Forward(o)
  BY <1>2, QuietStep DEF Forward, root, ProcessInv, SafeMeansDead
<1>3. CASE Raise(o)
  <2>1. pc[o] \in UnderLease \/ o \in Creators
    BY <1>3 DEF Raise, Raising, UnderLease, ProcessInv, TypeOK, PathsOK, PathOf, RunnerPC, RestorerPC, Terminal
  <2>2. pc[o] \in CreatorPC \/ o \notin Creators
    BY <1>3 DEF Raise, ProcessInv, TypeOK, PathsOK, PathOf, Raising, Terminal
  <2> QED BY <1>0, <1>3, <2>1, <2>2, QuietStep DEF Raise, local, root
<1>4. CASE AbandonEnding(o)
  BY <1>0, <1>4, QuietStep DEF AbandonEnding, local, root, UnderLease, CreatorPC
<1>5. CASE Kill(o)
  BY <1>0, <1>5, QuietStep DEF Kill, local, root, UnderLease, CreatorPC
<1> QED BY <1>1, <1>2, <1>3, <1>4, <1>5 DEF OpFault

(* The launcher and the controller of a run. *)
LEMMA ProcessStepProcess ==
  ASSUME ProcessInv, Typed', NEW o \in Ops, ProcessStep(o)
  PROVE  ProcessInv'
<1>0. run[o] \in Run /\ Sound(run[o])
  BY DEF ProcessInv, TypeOK, RunsOK, RunsAreSound
<1>1. CASE LauncherLock(o)
  <2>1. PICK d : /\ run' = [run EXCEPT ![o] = d]
                 /\ d \in {[run[o] EXCEPT !.launcher = "locked"],
                          [run[o] EXCEPT !.launcher = "over", !.status = "nonzero"]}
    BY <1>1 DEF LauncherLock
  <2>2. d \in Run
    <3>1. CASE d = [run[o] EXCEPT !.launcher = "locked"]
      BY <1>0, <3>1 DEF Run, LauncherPhase
    <3>2. CASE d = [run[o] EXCEPT !.launcher = "over", !.status = "nonzero"]
      BY <1>0, <3>2 DEF Run, LauncherPhase
    <3> QED BY <2>1, <3>1, <3>2
  <2>3. Live(run[o])
    BY <1>1 DEF LauncherLock, Live
  <2>4. CASE d.launcher = "locked"
    <3>1. buildLock = NoOp /\ buildLock' = o
      <4>1. buildLock # NoOp => run'[o].launcher = "over"
        BY <1>0, <1>1 DEF LauncherLock, ProcessInv, TypeOK, RunsOK, Run
      <4>2. run'[o] = d
        BY <2>1 DEF ProcessInv, TypeOK, RunsOK
      <4> QED BY <1>1, <2>4, <4>1, <4>2 DEF LauncherLock
    <3> QED BY <1>1, <2>1, <2>2, <2>3, <3>1, RunProcessStep DEF LauncherLock, local, root
  <2>5. CASE d.launcher = "over"
    <3>1. buildLock' = buildLock
      <4>1. buildLock = NoOp => run'[o].launcher = "locked"
        BY <1>0, <1>1 DEF LauncherLock, ProcessInv, TypeOK, RunsOK, Run
      <4>2. run'[o] = d
        BY <2>1 DEF ProcessInv, TypeOK, RunsOK
      <4> QED BY <1>1, <2>5, <4>1, <4>2 DEF LauncherLock
    <3> QED BY <1>1, <2>1, <2>2, <2>3, <2>5, <3>1, RunProcessStep DEF LauncherLock, LockedPhases,
               local, root
  <2> QED BY <1>0, <2>1, <2>4, <2>5 DEF Run
<1>2. CASE LauncherStep(o)
  <2>1. PICK d \in LauncherSteps(run[o]) : run' = [run EXCEPT ![o] = d]
    BY <1>2 DEF LauncherStep, Becomes
  <2>2. d \in Run /\ (Live(d) => Live(run[o]))
    BY <1>0, LauncherStepsAreSound
  <2>3. run[o].launcher \in LockedPhases
    BY <2>1 DEF LauncherSteps, Claim, Record, Stage, Drive, When, LockedPhases
  <2>4. buildLock = o
    BY <2>3 DEF ProcessInv, BuildLockExcludes
  <2> QED BY <1>2, <2>1, <2>2, <2>4, RunProcessStep DEF LauncherStep, local, root
<1>3. CASE LauncherEnd(o)
  <2>1. PICK tidy \in BOOLEAN : Becomes(o, LauncherEnds(run[o], tidy))
    BY <1>3 DEF LauncherEnd
  <2>2. PICK d \in LauncherEnds(run[o], tidy) : run' = [run EXCEPT ![o] = d]
    BY <2>1 DEF Becomes
  <2>3. d \in Run /\ (Live(d) => Live(run[o]))
    BY <1>0, LauncherEndsAreSound
  <2>4. run[o].launcher \in LockedPhases /\ d.launcher = "over"
    <3>1. CASE d \in Abort(run[o], tidy)
      BY <1>0, <3>1 DEF Abort, When, LockedPhases, Run
    <3>2. ASSUME NEW good \in BOOLEAN, d \in Finish(run[o], tidy, good)
          PROVE  run[o].launcher \in LockedPhases /\ d.launcher = "over"
      BY <1>0, <3>2 DEF Finish, When, LockedPhases, Run
    <3> QED BY <3>1, <3>2 DEF LauncherEnds
  <2> QED BY <1>3, <2>2, <2>3, <2>4, RunProcessStep DEF LauncherEnd, LockedPhases, local, root
<1>4. CASE ControllerStep(o)
  <2>1. PICK d \in ControllerSteps(run[o]) : run' = [run EXCEPT ![o] = d]
    BY <1>4 DEF ControllerStep, Becomes
  <2>2. d \in Run /\ (Live(d) => Live(run[o]))
    BY <1>0, ControllerStepsAreSound
  <2>3. d.launcher = run[o].launcher
    BY <1>0, <2>1 DEF ControllerSteps, Attach, BootImps, BootHosts, SyncGuests, When, Run
  <2>4. d.launcher \in LockedPhases => buildLock = o
    BY <2>3 DEF ProcessInv, BuildLockExcludes
  <2> QED BY <1>4, <2>1, <2>2, <2>4, RunProcessStep DEF ControllerStep, local, root
<1>5. CASE ControllerEnd(o)
  <2>1. PICK flag \in BOOLEAN, verdict \in Verdicts :
          Becomes(o, ControllerEnds(run[o], flag, verdict))
    BY <1>5 DEF ControllerEnd
  <2>2. PICK d \in ControllerEnds(run[o], flag, verdict) :
          run' = [run EXCEPT ![o] = d]
    BY <2>1 DEF Becomes
  <2>3. d \in Run /\ (Live(d) => Live(run[o]))
    BY <1>0, ControllerEndsAreSound
  <2>4. d.launcher = run[o].launcher
    BY <1>0, <2>2 DEF ControllerEnds, StopClean, StopFailed, When, Run
  <2>5. d.launcher \in LockedPhases => buildLock = o
    BY <2>4 DEF ProcessInv, BuildLockExcludes
  <2> QED BY <1>5, <2>2, <2>3, <2>5, RunProcessStep DEF ControllerEnd, local, root
<1> QED BY <1>1, <1>2, <1>3, <1>4, <1>5 DEF ProcessStep

(* What happens to a run from outside. *)
LEMMA EnvironmentProcess ==
  ASSUME ProcessInv, Typed', NEW o \in Ops, Environment(o)
  PROVE  ProcessInv'
<1>0. run[o] \in Run /\ Sound(run[o])
  BY DEF ProcessInv, TypeOK, RunsOK, RunsAreSound
<1>1. PICK d : /\ d \in LoseHandle(run[o]) \cup Accidents(run[o])
                       \cup SimsExit(run[o]) \cup Prune(run[o])
               /\ run' = [run EXCEPT ![o] = d]
  BY DEF Environment, SignalledLaunch, ProcessDies, SurvivorsExit, PruneMedia, Becomes
<1>2. d \in Run /\ (Live(d) => Live(run[o]))
  BY <1>0, <1>1, LossIsSound, AccidentsAreSound, AftermathIsSound
<1>3. d.launcher \in {run[o].launcher, "over"}
  BY <1>0, <1>1 DEF LoseHandle, Accidents, LauncherDies, ControlDies, SimsExit, Prune, When, Run
<1>4. d.launcher \in LockedPhases => buildLock = o
  BY <1>3 DEF ProcessInv, BuildLockExcludes, LockedPhases
<1>5. UNCHANGED <<pc, safe, lease, buildLock>>
  BY DEF Environment, SignalledLaunch, ProcessDies, SurvivorsExit, PruneMedia, local, root
<1> QED BY <1>1, <1>2, <1>4, <1>5, RunProcessStep

(* A power loss leaves nobody under the lease and nothing alive. *)
LEMMA PowerLossProcess ==
  ASSUME ProcessInv, Typed', PowerLoss
  PROVE  ProcessInv'
<1>0. \A o \in Ops : run[o] \in Run /\ Sound(run[o]) /\ run'[o] = Halted(run[o])
  BY DEF PowerLoss, ProcessInv, TypeOK, RunsOK, RunsAreSound
<1>1. \A o \in Ops : ~Live(run'[o])
  BY <1>0, HaltIsSound
<1>2. \A o \in Ops : pc'[o] \in Terminal \cup {"start"}
  BY DEF PowerLoss, Terminal
<1>3. SafeMeansDead'
  BY <1>1, <1>2 DEF SafeMeansDead, Terminal, Ops
<1>4. LeaseExcludes'
  BY <1>2 DEF LeaseExcludes, UnderLease, Terminal, Ops
<1>5. BuildLockExcludes'
  BY <1>1, <1>2 DEF BuildLockExcludes, CreatorPC, Terminal, LockedPhases, Live
<1>6. (~SignalInLaunch => LiveRunHoldsLease)'
  BY <1>1 DEF LiveRunHoldsLease, Ops
<1> QED BY <1>3, <1>4, <1>5, <1>6 DEF ProcessInv, Typed

(* Recovery by hand takes nothing from an owner that is still there. *)
LEMMA RecoveryProcess ==
  ASSUME ProcessInv, Typed', RecoverLease \/ RecoverBuildLock
  PROVE  ProcessInv'
<1>1. UNCHANGED <<pc, safe, run>>
  BY DEF RecoverLease, RecoverBuildLock, local
<1>2. \/ lease' = lease
      \/ lease # NoOp /\ OwnerGone(lease)
  BY DEF RecoverLease, RecoverBuildLock, root
<1>3. \/ buildLock' = buildLock
      \/ buildLock # NoOp /\ OwnerGone(buildLock)
  BY DEF RecoverLease, RecoverBuildLock
<1>4. SafeMeansDead'
  BY <1>1 DEF ProcessInv, SafeMeansDead
<1>5. LeaseExcludes'
  BY <1>1, <1>2 DEF ProcessInv, LeaseExcludes, OwnerGone, UnderLease, Terminal
<1>6. BuildLockExcludes'
  BY <1>1, <1>3 DEF ProcessInv, BuildLockExcludes, OwnerGone, CreatorPC,
     Terminal, LockedPhases, Live
<1>7. (~SignalInLaunch => LiveRunHoldsLease)'
  BY <1>1, <1>2 DEF ProcessInv, LiveRunHoldsLease, OwnerGone
<1> QED BY <1>4, <1>5, <1>6, <1>7 DEF ProcessInv, Typed

LEMMA InitProcess == Init => ProcessInv
<1> SUFFICES ASSUME Init PROVE ProcessInv
  OBVIOUS
<1>1. TypeOK /\ RunsAreSound
  BY InitTypes
<1>2. \A o \in Ops : pc[o] = "start" /\ run[o] = Unborn
  BY DEF Init
<1>3. SafeMeansDead /\ LeaseExcludes
  BY <1>2, UnbornIsSound DEF SafeMeansDead, LeaseExcludes, UnderLease, Ops
<1>4. BuildLockExcludes
  BY <1>2 DEF BuildLockExcludes, CreatorPC, LockedPhases, Unborn
<1>5. LiveRunHoldsLease
  BY <1>2, UnbornIsSound DEF LiveRunHoldsLease, Ops
<1> QED BY <1>1, <1>3, <1>4, <1>5 DEF ProcessInv

LEMMA NextProcess == ProcessInv /\ [Next]_vars => ProcessInv'
<1> SUFFICES ASSUME ProcessInv, [Next]_vars PROVE ProcessInv'
  OBVIOUS
<1>0. Typed'
  BY NextTypes DEF ProcessInv, Typed
<1>1. CASE UNCHANGED vars
  BY <1>0, <1>1 DEF vars, local, root, ProcessInv, Typed, SafeMeansDead,
     LeaseExcludes, BuildLockExcludes, LiveRunHoldsLease
<1>2. ASSUME NEW o \in Ops, LeaseStep(o) PROVE ProcessInv'
  <2>1. CASE AcquireLease(o) \/ ReleaseLease(o)
    <3>1. o \in Runners \cup Restorers
      BY <2>1, OpsAssumption DEF AcquireLease, ReleaseLease, ProcessInv, TypeOK,
         PathsOK, PathOf, CreatorPC, Terminal, Ops
    <3> QED BY <1>0, <2>1, <3>1, LeaseChangesHands
  <2>2. CASE OwnLease(o) \/ SettleRelease(o)
    BY <1>0, <2>2, OwnLeaseProcess
  <2> QED BY <1>2, <2>1, <2>2 DEF LeaseStep
<1>3. ASSUME NEW o \in Ops, OpStep(o) PROVE ProcessInv'
  BY <1>0, <1>2, <1>3, CreateStepProcess, RunStepProcess, PublishStepProcess,
     UnwindProcess DEF OpStep
<1>4. ASSUME NEW o \in Ops, OpFault(o) \/ ProcessStep(o) \/ Environment(o)
      PROVE  ProcessInv'
  BY <1>0, <1>4, OpFaultProcess, ProcessStepProcess, EnvironmentProcess
<1>5. CASE PowerLoss \/ RecoverLease \/ RecoverBuildLock
  BY <1>0, <1>5, PowerLossProcess, RecoveryProcess
<1> QED BY <1>1, <1>3, <1>4, <1>5 DEF Next

LEMMA ProcessInvHolds == Spec => []ProcessInv
  BY InitProcess, NextProcess, PTL DEF Spec

(* Between its acquire and its release an invocation is the only one under   *)
(* the workspace's lease (guest_workspace.py:237-264), for any number of     *)
(* invocations and in spite of kills, power losses and recoveries by hand.   *)
THEOREM LeaseAlwaysExcludes == Spec => []LeaseExcludes
<1>1. ProcessInv => LeaseExcludes
  BY DEF ProcessInv
<1> QED BY <1>1, ProcessInvHolds, PTL

(* The build lock keeps creates and launchers apart (workspace.py:67-71,     *)
(* runtime.sh:702-708).                                                      *)
THEOREM BuildLockAlwaysExcludes == Spec => []BuildLockExcludes
<1>1. ProcessInv => BuildLockExcludes
  BY DEF ProcessInv
<1> QED BY <1>1, ProcessInvHolds, PTL

(* As long as no signal hits a fork, a launcher, controller or simulator     *)
(* that is alive has its workspace leased: the clean-up evidence on which    *)
(* run_workspace releases the lease (workspace.py:181, 201-205) suffices.    *)
THEOREM LiveRunsHoldTheLease ==
  ASSUME ~SignalInLaunch
  PROVE  Spec => []LiveRunHoldsLease
<1>1. ProcessInv => LiveRunHoldsLease
  BY DEF ProcessInv
<1> QED BY <1>1, ProcessInvHolds, PTL

------------------------------------------------------------------------------
(* StoreInv is inductive, and a generation that is on disk stays as it is. *)
(* The argument: no two publishers use one identifier, a publisher works   *)
(* only on a pending generation of its own, and a generation is flushed    *)
(* before it gets its name and named before it is selected.                *)

(* What SavesAreKept says of one step. *)
SavesKept ==
  \A g \in Gens : place[g] = "published" /\ named[g] =>
    /\ place'[g] = "published" /\ manifest'[g]
    /\ disks'[g] = disks[g]
    /\ parentOf'[g] = parentOf[g] /\ from'[g] = from[g]

(* Places in which a publisher owes WorkInProgress or SelectedIsOnDisk       *)
(* something, and places that suppose the root directory.                    *)
Owing == {"copy", "flush", "rename", "name", "verify", "swap", "sync"}
Rooted == {"metadata", "own", "lookup", "spawn", "wait", "examine", "admit",
           "copy", "flush"}

(* A step that leaves the generations alone. *)
LEMMA CalmStep ==
  ASSUME StoreInv, TypeOK',
         UNCHANGED <<store, current>>,
         home' = home \/ home' # "absent",
         durable'.home \in {durable.home, home},
         durable'.current \in {durable.current, current},
         \A p \in Publishers : target'[p] = target[p],
         \A p \in Ops : \/ pc'[p] = pc[p] /\ target'[p] = target[p]
                        \/ pc'[p] \notin Owing
                        \/ p \in Restorers /\ pc'[p] = "verify",
         \A p \in Ops : pc'[p] \in Rooted \ {"own"} => pc[p] \in Rooted \/ home' # "absent",
         \A p \in Ops : pc'[p] = "own" => home' # "absent"
  PROVE  StoreInv' /\ SavesKept
<1> USE DEF store
<1>1. TargetsDiffer'
  BY DEF StoreInv, TargetsDiffer
<1>2. WorkInProgress'
  <2> SUFFICES ASSUME NEW p \in Publishers, pc'[p] \in Owing
               PROVE  pc'[p] = pc[p] /\ target'[p] = target[p]
    BY DEF StoreInv, WorkInProgress, Owing
  <2> QED BY OpsAssumption DEF Publishers, Ops
<1>3. PublishedIsComplete'
  BY DEF StoreInv, PublishedIsComplete, Complete
<1>4. RootComesFirst'
  <2>1. \A g \in Gens : flushed'[g] => home' # "absent" /\ durable'.home # "absent"
    BY DEF StoreInv, RootComesFirst
  <2>2. \A p \in Ops : pc'[p] \in Rooted => home' # "absent"
    BY DEF StoreInv, RootComesFirst, Rooted
  <2> QED BY <2>1, <2>2 DEF RootComesFirst, Rooted
<1>5. \A g : OnDisk(g)' <=> OnDisk(g)
  BY DEF OnDisk, Verified
<1>6. SelectedIsOnDisk => SelectedIsOnDisk'
  BY <1>5 DEF SelectedIsOnDisk, Owing
<1>7. CurrentIsComplete => CurrentIsComplete'
  BY <1>5 DEF CurrentIsComplete
<1>8. SavesKept
  BY DEF SavesKept, StoreInv, PublishedIsComplete, Complete
<1> QED BY <1>1, <1>2, <1>3, <1>4, <1>6, <1>7, <1>8 DEF StoreInv

(* A step of a publisher on its own generation, not yet published before it. *)
LEMMA GenerationStep ==
  ASSUME StoreInv, TypeOK', TargetsDiffer',
         NEW o \in Publishers, NEW g \in Gens,
         target'[o] = g, place[g] # "published",
         \A p \in Ops \ {o} : pc'[p] = pc[p] /\ target'[p] = target[p],
         \A h \in Gens \ {g} :
           /\ place'[h] = place[h] /\ disks'[h] = disks[h]
           /\ manifest'[h] = manifest[h] /\ flushed'[h] = flushed[h]
           /\ named'[h] = named[h]
           /\ parentOf'[h] = parentOf[h] /\ from'[h] = from[h],
         UNCHANGED <<home, current>>,
         durable'.home \in {durable.home, home},
         durable'.current = durable.current,
         pc'[o] \in Rooted => home # "absent",
         flushed'[g] => home # "absent" /\ durable'.home # "absent",
         place'[g] = "published" => Complete(g)',
         ~named'[g],
         pc'[o] \notin {"verify", "swap", "sync"},
         pc'[o] \in {"copy", "flush", "rename"} => place'[g] = "pending",
         pc'[o] \in {"flush", "rename"} =>
           manifest'[g] /\ \A m \in Media : disks'[g][m] # "absent",
         pc'[o] = "rename" => flushed'[g],
         pc'[o] = "name" => place'[g] = "published"
  PROVE  StoreInv' /\ SavesKept
<1>1. \A h : OnDisk(h) => OnDisk(h)' /\ h # g
  BY DEF OnDisk, Verified
<1>2. WorkInProgress'
  <2> SUFFICES ASSUME NEW p \in Publishers, p # o,
                      pc'[p] \in {"copy", "flush", "rename", "name", "verify"}
               PROVE  /\ pc'[p] = pc[p] /\ target'[p] = target[p]
                      /\ target[p] \in Gens \ {g}
    BY DEF StoreInv, WorkInProgress
  <2>1. p \in Ops
    BY DEF Publishers, Ops
  <2>2. target[p] \in Gens
    BY <2>1 DEF StoreInv, WorkInProgress
  <2>3. target'[p] # g
    BY <2>1, <2>2, OpsAssumption DEF TargetsDiffer
  <2> QED BY <2>1, <2>2, <2>3
<1>3. PublishedIsComplete'
  BY DEF StoreInv, PublishedIsComplete, Complete
<1>4. RootComesFirst'
  <2>1. \A h \in Gens : flushed'[h] => home' # "absent" /\ durable'.home # "absent"
    BY DEF StoreInv, RootComesFirst
  <2>2. \A p \in Ops : pc'[p] \in Rooted => home' # "absent"
    BY DEF StoreInv, RootComesFirst, Rooted
  <2> QED BY <2>1, <2>2 DEF RootComesFirst, Rooted
<1>5. SelectedIsOnDisk => SelectedIsOnDisk'
  BY <1>1 DEF SelectedIsOnDisk
<1>6. CurrentIsComplete => CurrentIsComplete'
  BY <1>1 DEF CurrentIsComplete
<1>7. SavesKept
  BY DEF SavesKept, StoreInv, PublishedIsComplete, Complete
<1> QED BY <1>2, <1>3, <1>4, <1>5, <1>6, <1>7 DEF StoreInv

(* create up to publish, and after it. *)
LEMMA CreateStepStore ==
  ASSUME StoreInv, TypeOK', NEW o \in Ops, CreateStep(o)
  PROVE  StoreInv' /\ SavesKept
<1>0. pc = [p \in Ops |-> pc[p]]
  BY DEF StoreInv, TypeOK, PathsOK
<1>1. UNCHANGED <<store, target, current, durable>>
  BY DEF CreateStep, CreateLock, CreateRoot, CreateMetadata, CreateUnlock, local, root
<1>2. /\ home' = home \/ home' # "absent"
      /\ pc'[o] \in {"makeroot", "metadata", "admit", "done", "failed"}
      /\ pc'[o] \in {"metadata", "admit"} => home' # "absent"
      /\ \A p \in Ops \ {o} : pc'[p] = pc[p]
  BY <1>0 DEF CreateStep, CreateLock, CreateRoot, CreateMetadata, CreateUnlock, Goto, root
<1>3. \A p \in Ops : pc'[p] = "own" => home' # "absent"
  BY <1>2 DEF StoreInv, RootComesFirst
<1> QED BY <1>1, <1>2, <1>3, CalmStep DEF Owing, Rooted

(* acquire, release and run_workspace before publish. *)
LEMMA LeaseStepStore ==
  ASSUME StoreInv, TypeOK', NEW o \in Ops, LeaseStep(o) \/ DisownLease(o)
  PROVE  StoreInv' /\ SavesKept
<1>0. pc = [p \in Ops |-> pc[p]]
  BY DEF StoreInv, TypeOK, PathsOK
<1>1. UNCHANGED <<store, target, home, current>>
  BY DEF LeaseStep, AcquireLease, OwnLease, ReleaseLease, SettleRelease, DisownLease,
     local, root
<1>2. durable' = durable \/ durable' = Root
  BY DEF LeaseStep, AcquireLease, OwnLease, ReleaseLease, SettleRelease, DisownLease
<1>3. /\ durable'.home \in {durable.home, home}
      /\ durable'.current \in {durable.current, current}
  BY <1>2 DEF Root
<1>4. /\ pc'[o] \in {"own", "failed", "lookup", "choose", "settle", "done"}
      /\ pc'[o] = "own" => home # "absent"
      /\ pc'[o] = "lookup" => pc[o] = "own"
      /\ \A p \in Ops \ {o} : pc'[p] = pc[p]
  BY <1>0 DEF LeaseStep, AcquireLease, OwnLease, ReleaseLease, SettleRelease, DisownLease, Goto
<1>5. \A p \in Ops : pc'[p] = "own" => home' # "absent"
  BY <1>1, <1>4 DEF StoreInv, RootComesFirst
<1> QED BY <1>1, <1>3, <1>4, <1>5, CalmStep DEF Owing, Rooted

LEMMA RunStepStore ==
  ASSUME StoreInv, TypeOK', NEW o \in Ops, RunStep(o)
  PROVE  StoreInv' /\ SavesKept
<1>0. pc = [p \in Ops |-> pc[p]]
  BY DEF StoreInv, TypeOK, PathsOK
<1>1. UNCHANGED <<store, target, home, current, durable>>
  BY DEF RunStep, LookUp, Spawn, Judge, Examine, local, root
<1>2. /\ pc[o] \in Rooted
      /\ pc'[o] \in {"spawn", "wait", "examine", "admit", "unwind"}
      /\ \A p \in Ops \ {o} : pc'[p] = pc[p]
  BY <1>0 DEF RunStep, LookUp, Spawn, Judge, Examine, Goto, Rooted
<1>3. \A p \in Ops : pc'[p] = "own" => home' # "absent"
  BY <1>1, <1>2 DEF StoreInv, RootComesFirst
<1> QED BY <1>1, <1>2, <1>3, CalmStep DEF Owing, Rooted

(* Exceptions, signals and kills. *)
LEMMA OpFaultStore ==
  ASSUME StoreInv, TypeOK', NEW o \in Ops, OpFault(o)
  PROVE  StoreInv' /\ SavesKept
<1>0. pc = [p \in Ops |-> pc[p]]
  BY DEF StoreInv, TypeOK, PathsOK
<1>1. CASE DisownLease(o)
  BY <1>1, LeaseStepStore
<1>2. CASE Forward(o) \/ Raise(o) \/ AbandonEnding(o) \/ Kill(o)
  <2>1. UNCHANGED <<store, target, home, current, durable>>
    BY <1>2 DEF Forward, Raise, AbandonEnding, Kill, local, root
  <2>2. /\ pc'[o] = pc[o] \/ pc'[o] \in {"unwind", "failed", "dead"}
        /\ \A p \in Ops \ {o} : pc'[p] = pc[p]
    BY <1>0, <1>2 DEF Forward, Raise, AbandonEnding, Kill, Goto
  <2>3. \A p \in Ops : pc'[p] = "own" => home' # "absent"
    BY <2>1, <2>2 DEF StoreInv, RootComesFirst
  <2> QED BY <2>1, <2>2, <2>3, CalmStep DEF Owing, Rooted
<1> QED BY <1>1, <1>2 DEF OpFault

(* The processes of a run, and recovery by hand. *)
LEMMA ElsewhereStore ==
  ASSUME StoreInv, TypeOK',
         \/ \E o \in Ops : ProcessStep(o) \/ Environment(o)
         \/ RecoverLease \/ RecoverBuildLock
         \/ UNCHANGED vars
  PROVE  StoreInv' /\ SavesKept
<1>1. UNCHANGED <<pc, store, target, home, current, durable>>
  BY DEF ProcessStep, LauncherLock, LauncherStep, LauncherEnd, ControllerStep,
     ControllerEnd, Environment, SignalledLaunch, ProcessDies, SurvivorsExit,
     PruneMedia, RecoverLease, RecoverBuildLock, vars, local, root
<1>2. \A p \in Ops : pc'[p] = "own" => home' # "absent"
  BY <1>1 DEF StoreInv, RootComesFirst
<1> QED BY <1>1, <1>2, CalmStep

(* publish. *)
LEMMA PublishStepStore ==
  ASSUME StoreInv, TypeOK', NEW o \in Ops, PublishStep(o)
  PROVE  StoreInv' /\ SavesKept
<1> USE DEF Goto
<1>0. /\ pc = [p \in Ops |-> pc[p]] /\ target = [p \in Ops |-> target[p]]
      /\ place = [g \in Gens |-> place[g]] /\ disks = [g \in Gens |-> disks[g]]
      /\ manifest = [g \in Gens |-> manifest[g]] /\ from = [g \in Gens |-> from[g]]
      /\ parentOf = [g \in Gens |-> parentOf[g]]
      /\ flushed = [g \in Gens |-> flushed[g]]
  BY DEF StoreInv, TypeOK, PathsOK, LocalsOK, StoreOK
<1>1. o \in Publishers
  BY DEF PublishStep, Admit, WriteManifest, FlushPending, Rename, FlushName, CopyMedia,
     StoreInv, TypeOK, PathsOK, PathOf, Publishers, Ops, RestorerPC, Terminal
<1>2. UNCHANGED <<home, current>>
  BY DEF PublishStep, Admit, WriteManifest, FlushPending, Rename, FlushName, CopyMedia, root
<1>3. \A p \in Ops \ {o} : pc'[p] = pc[p]
  BY <1>0 DEF PublishStep, Admit, WriteManifest, FlushPending, Rename, FlushName, CopyMedia
<1>4. \A p \in Ops : pc'[p] = "own" => home' # "absent"
  BY <1>0, <1>2 DEF StoreInv, RootComesFirst, PublishStep, Admit, WriteManifest,
     FlushPending, Rename, FlushName, CopyMedia
<1>5. ASSUME UNCHANGED <<store, target, durable>>, pc'[o] \in {pc[o], "unwind"}
      PROVE  StoreInv' /\ SavesKept
  BY <1>2, <1>3, <1>4, <1>5, CalmStep DEF Owing, Rooted
<1>6. CASE Admit(o)
  <2>1. CASE current = parent[o]
    <3>1. PICK g \in Gens :
            /\ place[g] = "absent" /\ \A p \in Ops : target[p] # g
            /\ target' = [target EXCEPT ![o] = g]
            /\ place' = [place EXCEPT ![g] = "pending"]
            /\ pc' = [pc EXCEPT ![o] = "copy"]
      BY <1>6, <2>1 DEF Admit
    <3>2. UNCHANGED <<disks, manifest, parentOf, from, flushed, named, durable>>
      BY <1>6 DEF Admit
    <3>3. TargetsDiffer'
      BY <1>0, <3>1 DEF StoreInv, TargetsDiffer, Publishers, Ops
    <3>4. home # "absent" /\ (flushed[g] => durable.home # "absent")
      BY <1>6 DEF Admit, StoreInv, RootComesFirst
    <3>5. ~named[g]
      BY <3>1 DEF StoreInv, PublishedIsComplete
    <3>6. target'[o] = g /\ pc'[o] = "copy" /\ place'[g] = "pending"
          /\ \A p \in Ops \ {o} : target'[p] = target[p]
          /\ \A h \in Gens \ {g} : place'[h] = place[h]
      BY <1>0, <3>1
    <3> QED BY <1>1, <1>2, <1>3, <3>1, <3>2, <3>3, <3>4, <3>5, <3>6, GenerationStep
  <2>2. CASE current # parent[o]
    BY <1>0, <1>5, <1>6, <2>2 DEF Admit, store
  <2> QED BY <2>1, <2>2
<1> DEFINE g == target[o]
<1>7. ASSUME pc[o] \in {"copy", "flush", "rename"}
      PROVE  g \in Gens /\ place[g] = "pending" /\ ~named[g]
  BY <1>1, <1>7 DEF StoreInv, WorkInProgress, PublishedIsComplete
<1>8. ASSUME NEW m \in Media, CopyMedia(o, m) PROVE StoreInv' /\ SavesKept
  <2>1. CASE Source(o) # "pruned"
    <3>1. /\ pc[o] = "copy" /\ pc' = pc /\ durable' = durable
          /\ disks' = [disks EXCEPT ![g][m] = Source(o)]
          /\ UNCHANGED <<target, place, manifest, parentOf, from, flushed, named>>
      BY <1>8, <2>1 DEF CopyMedia, local
    <3>2. home # "absent" /\ (flushed[g] => durable.home # "absent")
      BY <1>7, <3>1 DEF StoreInv, RootComesFirst
    <3>3. TargetsDiffer'
      BY <3>1 DEF StoreInv, TargetsDiffer
    <3>4. \A h \in Gens \ {g} : disks'[h] = disks[h]
      BY <1>0, <3>1
    <3> QED BY <1>1, <1>2, <1>3, <1>7, <3>1, <3>2, <3>3, <3>4, GenerationStep
  <2>2. CASE Source(o) = "pruned"
    BY <1>0, <1>5, <1>8, <2>2 DEF CopyMedia, store, local
  <2> QED BY <2>1, <2>2
<1>9. CASE WriteManifest(o)
  <2>1. /\ pc[o] = "copy" /\ pc'[o] = "flush" /\ durable' = durable
        /\ \A m \in Media : disks[g][m] # "absent"
        /\ UNCHANGED <<target, place, disks, flushed, named>>
    BY <1>0, <1>9 DEF WriteManifest, local
  <2>2. /\ manifest'[g]
        /\ \A h \in Gens \ {g} : /\ manifest'[h] = manifest[h]
                               /\ parentOf'[h] = parentOf[h] /\ from'[h] = from[h]
    BY <1>0, <1>7, <1>9, <2>1 DEF WriteManifest
  <2>3. home # "absent" /\ (flushed[g] => durable.home # "absent")
    BY <1>7, <2>1 DEF StoreInv, RootComesFirst
  <2>4. TargetsDiffer'
    BY <2>1 DEF StoreInv, TargetsDiffer
  <2> QED BY <1>1, <1>2, <1>3, <1>7, <2>1, <2>2, <2>3, <2>4, GenerationStep
<1>10. CASE FlushPending(o)
  <2>1. /\ pc[o] = "flush" /\ pc'[o] = "rename"
        /\ UNCHANGED <<target, place, disks, manifest, parentOf, from, named>>
    BY <1>0, <1>10 DEF FlushPending, local
  <2>2. /\ flushed'[g]
        /\ \A h \in Gens \ {g} : flushed'[h] = flushed[h]
    BY <1>0, <1>7, <1>10, <2>1 DEF FlushPending
  <2>3. durable'.home = home /\ durable'.current = durable.current
    BY <1>10 DEF FlushPending, StoreInv, TypeOK, LocksOK
  <2>4. home # "absent" /\ manifest[g] /\ \A m \in Media : disks[g][m] # "absent"
    BY <1>1, <2>1 DEF StoreInv, RootComesFirst, WorkInProgress
  <2>5. TargetsDiffer'
    BY <2>1 DEF StoreInv, TargetsDiffer
  <2> QED BY <1>1, <1>2, <1>3, <1>7, <2>1, <2>2, <2>3, <2>4, <2>5, GenerationStep
<1>11. CASE Rename(o)
  <2>1. /\ pc[o] = "rename" /\ pc'[o] = "name" /\ durable' = durable
        /\ UNCHANGED <<target, disks, manifest, parentOf, from, flushed, named>>
    BY <1>0, <1>11 DEF Rename, local
  <2>2. /\ place'[g] = "published"
        /\ \A h \in Gens \ {g} : place'[h] = place[h]
    BY <1>0, <1>7, <1>11, <2>1 DEF Rename
  <2>3. Complete(g)
    BY <1>1, <2>1 DEF StoreInv, WorkInProgress, Complete
  <2>4. Complete(g)'
    BY <2>1, <2>3 DEF Complete
  <2>5. home # "absent" /\ durable.home # "absent"
    BY <1>7, <2>1, <2>3 DEF StoreInv, RootComesFirst, Complete
  <2>6. TargetsDiffer'
    BY <2>1 DEF StoreInv, TargetsDiffer
  <2> QED BY <1>1, <1>2, <1>3, <1>7, <2>1, <2>2, <2>4, <2>5, <2>6, GenerationStep
<1>12. CASE FlushName(o)
  <2>1. /\ pc[o] = "name" /\ pc'[o] = "verify" /\ durable' = durable
        /\ named' = [h \in Gens |-> named[h] \/ place[h] = "published"]
        /\ UNCHANGED <<target, place, disks, manifest, parentOf, from, flushed>>
    BY <1>0, <1>12 DEF FlushName, local
  <2>2. \A h : OnDisk(h) => OnDisk(h)'
    BY <2>1 DEF OnDisk, Verified
  <2>3. TargetsDiffer' /\ PublishedIsComplete'
    BY <2>1 DEF StoreInv, TargetsDiffer, PublishedIsComplete, Complete
  <2>4. WorkInProgress'
    <3>1. g \in Gens /\ place'[g] = "published" /\ named'[g]
      BY <1>1, <2>1 DEF StoreInv, WorkInProgress
    <3>2. ASSUME NEW p \in Publishers, p # o, pc'[p] = "verify"
          PROVE  named'[target[p]]
      <4>1. pc[p] = "verify"
        BY <1>3, <3>2 DEF Publishers, Ops
      <4> QED BY <2>1, <4>1 DEF StoreInv, WorkInProgress
    <3>3. ASSUME NEW p \in Publishers, p # o PROVE pc'[p] = pc[p]
      BY <1>3, <3>3 DEF Publishers, Ops
    <3> QED BY <2>1, <3>1, <3>2, <3>3 DEF StoreInv, WorkInProgress
  <2>5. RootComesFirst'
    BY <1>2, <1>3, <2>1 DEF StoreInv, RootComesFirst
  <2>6. SelectedIsOnDisk => SelectedIsOnDisk'
    BY <1>3, <2>1, <2>2 DEF SelectedIsOnDisk
  <2>7. CurrentIsComplete => CurrentIsComplete'
    BY <1>2, <2>1, <2>2 DEF CurrentIsComplete
  <2>8. SavesKept
    BY <2>1 DEF SavesKept, StoreInv, PublishedIsComplete, Complete
  <2> QED BY <2>3, <2>4, <2>5, <2>6, <2>7, <2>8 DEF StoreInv
<1> QED BY <1>6, <1>8, <1>9, <1>10, <1>11, <1>12 DEF PublishStep

(* select. *)
LEMMA SelectStepStore ==
  ASSUME StoreInv, TypeOK', NEW o \in Ops, SelectStep(o)
  PROVE  StoreInv' /\ SavesKept
<1> USE DEF Goto
<1>0. pc = [p \in Ops |-> pc[p]] /\ target = [p \in Ops |-> target[p]]
  BY DEF StoreInv, TypeOK, PathsOK, LocalsOK
<1>1. UNCHANGED <<store, home>> /\ \A p \in Ops \ {o} : pc'[p] = pc[p]
  BY <1>0 DEF SelectStep, Choose, VerifyTarget, Swap, Sync, root
<1>2. \A p \in Ops : pc'[p] = "own" => home' # "absent"
  BY <1>0, <1>1 DEF StoreInv, RootComesFirst, SelectStep, Choose, VerifyTarget, Swap, Sync
<1>3. CASE Choose(o)
  <2>1. o \in Restorers /\ o \notin Publishers
    BY <1>3, OpsAssumption DEF Choose, StoreInv, TypeOK, PathsOK, PathOf, Publishers, Ops,
       CreatorPC, RunnerPC, Terminal
  <2>2. pc'[o] = "verify" /\ UNCHANGED <<current, durable>>
    BY <1>0, <1>3 DEF Choose, root
  <2>3. \A p \in Ops \ {o} : target'[p] = target[p]
    BY <1>0, <1>3 DEF Choose
  <2> QED BY <1>1, <1>2, <2>1, <2>2, <2>3, CalmStep DEF Rooted, Publishers, Ops
<1>4. ASSUME pc'[o] \in {"swap", "sync"}, target' = target,
             ~EarlyRollback => OnDisk(target[o]),
             current' \in {current, target[o]}, durable'.home \in {durable.home, home},
             durable'.current \in {durable.current, current}
      PROVE  StoreInv' /\ SavesKept
  <2>1. \A g : OnDisk(g)' <=> OnDisk(g)
    BY <1>1 DEF OnDisk, Verified, store
  <2>2. TargetsDiffer' /\ PublishedIsComplete' /\ SavesKept
    BY <1>1, <1>4 DEF StoreInv, TargetsDiffer, PublishedIsComplete, Complete, SavesKept, store
  <2>3. WorkInProgress'
    <3>1. \A p \in Publishers : pc'[p] \notin {"swap", "sync"} => pc'[p] = pc[p]
      BY <1>1, <1>4 DEF Publishers, Ops
    <3> QED BY <1>1, <1>4, <3>1 DEF StoreInv, WorkInProgress, store
  <2>4. RootComesFirst'
    BY <1>1, <1>4 DEF StoreInv, RootComesFirst, store
  <2>5. ~EarlyRollback => SelectedIsOnDisk'
    BY <1>1, <1>4, <2>1 DEF StoreInv, SelectedIsOnDisk
  <2>6. ~EarlyRollback => CurrentIsComplete'
    BY <1>4, <2>1 DEF StoreInv, CurrentIsComplete
  <2> QED BY <2>2, <2>3, <2>4, <2>5, <2>6 DEF StoreInv
<1>5. CASE VerifyTarget(o)
  <2>1. UNCHANGED <<target, current, durable>>
    BY <1>5 DEF VerifyTarget, local, root
  <2>2. CASE Verified(target[o])
    <3>1. pc[o] = "verify" /\ pc'[o] = "swap"
      BY <1>0, <1>5, <2>2 DEF VerifyTarget
    <3>2. ~EarlyRollback => named[target[o]]
      <4>1. CASE o \in Restorers
        BY <1>5, <2>2, <4>1 DEF VerifyTarget
      <4>2. CASE o \in Publishers
        BY <3>1, <4>2 DEF StoreInv, WorkInProgress
      <4> QED BY <4>1, <4>2 DEF Ops, Publishers
    <3>3. flushed[target[o]]
      BY <2>2 DEF StoreInv, PublishedIsComplete, Complete, Verified
    <3> QED BY <1>4, <2>1, <2>2, <3>1, <3>2, <3>3 DEF OnDisk
  <2>3. CASE ~Verified(target[o])
    <3>1. pc'[o] = "unwind"
      BY <1>0, <1>5, <2>3 DEF VerifyTarget
    <3> QED BY <1>1, <1>2, <2>1, <3>1, CalmStep DEF Rooted, Owing
  <2> QED BY <2>2, <2>3
<1>6. CASE Swap(o)
  <2>1. pc[o] = "swap" /\ pc'[o] = "sync" /\ current' = target[o]
        /\ UNCHANGED <<target, durable>>
    BY <1>0, <1>6 DEF Swap, local
  <2>2. ~EarlyRollback => OnDisk(target[o])
    BY <2>1 DEF StoreInv, SelectedIsOnDisk
  <2> QED BY <1>4, <2>1, <2>2
<1>7. CASE Sync(o)
  <2>1. pc'[o] = "unwind" /\ durable' = Root /\ UNCHANGED <<target, current>>
    BY <1>0, <1>7 DEF Sync, root
  <2> QED BY <1>1, <1>2, <2>1, CalmStep DEF Rooted, Owing, Root
<1> QED BY <1>3, <1>5, <1>6, <1>7 DEF SelectStep

(* The finally clauses: only a generation that is still pending goes. *)
LEMMA UnwindStore ==
  ASSUME StoreInv, TypeOK', NEW o \in Ops, Unwind(o)
  PROVE  StoreInv' /\ SavesKept
<1> USE DEF Goto
<1> DEFINE g == target[o]
<1>0. /\ pc = [p \in Ops |-> pc[p]]
      /\ place = [h \in Gens |-> place[h]] /\ disks = [h \in Gens |-> disks[h]]
      /\ manifest = [h \in Gens |-> manifest[h]]
  BY DEF StoreInv, TypeOK, PathsOK, StoreOK
<1>1. /\ pc'[o] \in {"unlock", "release", "failed"}
      /\ \A p \in Ops \ {o} : pc'[p] = pc[p]
      /\ UNCHANGED <<target, home, current, durable, parentOf, from, flushed, named>>
  BY <1>0 DEF Unwind, local, root
<1>2. CASE o \notin Restorers /\ g \in Gens /\ place[g] = "pending"
  <2>1. /\ place' = [place EXCEPT ![g] = "absent"]
        /\ disks' = [disks EXCEPT ![g] = [m \in Media |-> "absent"]]
        /\ manifest' = [manifest EXCEPT ![g] = FALSE]
    BY <1>2 DEF Unwind
  <2>2. \A h \in Gens \ {g} : /\ place'[h] = place[h] /\ disks'[h] = disks[h]
                            /\ manifest'[h] = manifest[h]
    BY <1>0, <2>1
  <2>3. place'[g] = "absent" /\ ~named'[g]
    BY <1>0, <1>1, <1>2, <2>1 DEF StoreInv, PublishedIsComplete
  <2>4. TargetsDiffer' /\ (flushed[g] => home # "absent" /\ durable.home # "absent")
    BY <1>1, <1>2 DEF StoreInv, TargetsDiffer, RootComesFirst
  <2> QED BY <1>1, <1>2, <2>2, <2>3, <2>4, GenerationStep DEF Publishers, Ops, Rooted
<1>3. CASE UNCHANGED <<place, disks, manifest>>
  <2>1. \A p \in Ops : pc'[p] = "own" => home' # "absent"
    BY <1>1 DEF StoreInv, RootComesFirst
  <2> QED BY <1>1, <1>3, <2>1, CalmStep DEF Rooted, Owing, store
<1> QED BY <1>2, <1>3 DEF Unwind

(* A power loss: nothing that was flushed and named is among what it loses.  *)
LEMMA PowerLossStore ==
  ASSUME StoreInv, TypeOK', PowerLoss
  PROVE  StoreInv' /\ SavesKept
<1>1. /\ home' \in {home, durable.home} /\ current' \in {current, durable.current}
      /\ home' = "absent" => current' = NoGen
      /\ durable'.home = home' /\ durable'.current = current'
      /\ UNCHANGED <<target, manifest, parentOf, from, flushed>>
  BY DEF PowerLoss, Root, local
<1>2. \A o \in Ops : pc'[o] \in Terminal \cup {"start"}
  BY DEF PowerLoss, Terminal
<1>3. \A g \in Gens : place[g] = "published" => Complete(g) /\ home' # "absent"
  BY <1>1 DEF StoreInv, PublishedIsComplete, RootComesFirst, Complete
<1>4. PICK kept \in SUBSET {g \in Gens : place[g] = "published" /\ ~named[g]},
           lost \in SUBSET {g \in Gens : place[g] = "published" /\ ~flushed[g]} :
        /\ place' = [g \in Gens |->
                       IF home' = "absent" THEN "absent"
                       ELSE IF place[g] = "published" /\ ~named[g] /\ g \notin kept
                       THEN "pending" ELSE place[g]]
        /\ named' = [g \in Gens |-> place'[g] = "published"]
        /\ disks' = [g \in Gens |->
                       IF g \in lost \/ home' = "absent"
                       THEN [m \in Media |-> "absent"] ELSE disks[g]]
  BY DEF PowerLoss
<1>5. \A g \in Gens : place[g] = "published" => disks'[g] = disks[g]
  BY <1>3, <1>4 DEF Complete
<1>6. \A g \in Gens : /\ place[g] = "published" /\ named[g] => place'[g] = "published"
                      /\ place'[g] = "published" => place[g] = "published"
                      /\ named'[g] <=> place'[g] = "published"
  BY <1>3, <1>4
<1>7. \A g : OnDisk(g) => OnDisk(g)'
  BY <1>1, <1>5, <1>6 DEF OnDisk, Verified
<1>8. TargetsDiffer'
  BY <1>1 DEF StoreInv, TargetsDiffer
<1>9. WorkInProgress'
  BY <1>2 DEF WorkInProgress, Terminal, Publishers, Ops
<1>10. PublishedIsComplete'
  BY <1>1, <1>3, <1>5, <1>6 DEF PublishedIsComplete, Complete
<1>11. RootComesFirst'
  BY <1>1, <1>2 DEF StoreInv, RootComesFirst, Terminal
<1>12. SelectedIsOnDisk'
  BY <1>2 DEF SelectedIsOnDisk, Terminal
<1>13. CurrentIsComplete => CurrentIsComplete'
  BY <1>1, <1>7 DEF CurrentIsComplete
<1>14. SavesKept
  BY <1>1, <1>3, <1>5, <1>6 DEF SavesKept, Complete
<1> QED BY <1>8, <1>9, <1>10, <1>11, <1>12, <1>13, <1>14 DEF StoreInv

LEMMA InitStore == Init => StoreInv
<1> SUFFICES ASSUME Init PROVE StoreInv
  OBVIOUS
<1>1. TypeOK
  BY InitTypes
<1>2. TargetsDiffer /\ WorkInProgress /\ PublishedIsComplete
  BY DEF Init, TargetsDiffer, WorkInProgress, PublishedIsComplete, Publishers, Ops
<1>3. RootComesFirst
  BY DEF Init, RootComesFirst
<1>4. SelectedIsOnDisk /\ CurrentIsComplete
  BY DEF Init, SelectedIsOnDisk, CurrentIsComplete, Root
<1> QED BY <1>1, <1>2, <1>3, <1>4 DEF StoreInv

LEMMA NextStore == StoreInv /\ TypeOK' /\ [Next]_vars => StoreInv' /\ SavesKept
<1> SUFFICES ASSUME StoreInv, TypeOK', [Next]_vars PROVE StoreInv' /\ SavesKept
  OBVIOUS
<1>1. ASSUME NEW o \in Ops, OpStep(o) PROVE StoreInv' /\ SavesKept
  BY <1>1, CreateStepStore, LeaseStepStore, RunStepStore, PublishStepStore,
     SelectStepStore, UnwindStore DEF OpStep
<1>2. ASSUME NEW o \in Ops, OpFault(o) PROVE StoreInv' /\ SavesKept
  BY <1>2, OpFaultStore
<1>3. CASE \/ \E o \in Ops : ProcessStep(o) \/ Environment(o)
           \/ RecoverLease \/ RecoverBuildLock \/ UNCHANGED vars
  BY <1>3, ElsewhereStore
<1>4. CASE PowerLoss
  BY <1>4, PowerLossStore
<1> QED BY <1>1, <1>2, <1>3, <1>4 DEF Next

LEMMA StoreInvHolds == Spec => []StoreInv
  BY InitStore, NextStore, TypesHold, PTL DEF Spec

(* As long as no rollback chooses a generation between its rename and the    *)
(* flush of its name, the pointer -- the one in force and the one a power    *)
(* loss may bring back -- names a complete generation that is on disk        *)
(* (docs/workspaces.md:37).                                                  *)
THEOREM CurrentIsAlwaysComplete ==
  ASSUME ~EarlyRollback
  PROVE  Spec => []CurrentIsComplete
<1>1. StoreInv => CurrentIsComplete
  BY DEF StoreInv
<1> QED BY <1>1, StoreInvHolds, PTL

(* A generation that is on disk is never changed, renamed or removed, early  *)
(* rollbacks or not.                                                         *)
THEOREM SavesAreAlwaysKept == Spec => SavesAreKept
<1>1. StoreInv /\ TypeOK' /\ [Next]_vars => SavesKept
  BY NextStore
<1>2. SavesAreKept <=> [][SavesKept]_vars
  BY DEF SavesAreKept, SavesKept
<1> QED BY <1>1, <1>2, StoreInvHolds, TypesHold, PTL DEF Spec

------------------------------------------------------------------------------
(* PointerInv is inductive: nobody but the invocation that works moves the *)
(* pointer.  The lease keeps runs and rollbacks apart, the build lock      *)
(* creates.  Between a create and the others there is no lock; what keeps  *)
(* them apart is that the workspace was not there when the create began,   *)
(* so that no run can pass before it ends and its seed is the only save    *)
(* anybody can select.                                                     *)

Starting == {"makeroot", "metadata", "admit"}
Recording == Extending \ {"admit", "copy"}

Published(g) == place[g] = "published"

(* A step of one invocation that leaves the pointer where it is disturbs no  *)
(* other invocation.                                                         *)
LEMMA OthersStand ==
  ASSUME PointerInv, NEW o \in Ops,
         \A p \in Ops \ {o} : /\ pc'[p] = pc[p] /\ target'[p] = target[p]
                              /\ parent'[p] = parent[p] /\ ok'[p] = ok[p],
         current' = current, durable'.current \in {durable.current, current},
         \A g \in Gens : Published(g) => Published(g)',
         \A p \in Publishers \ {o} :
           pc[p] \in Recording => parentOf'[target[p]] = parentOf[target[p]]
  PROVE  \A p \in Ops \ {o} : MoveStands(p)' /\ ParentStands(p)'
<1> SUFFICES ASSUME NEW p \in Ops \ {o} PROVE MoveStands(p)' /\ ParentStands(p)'
  OBVIOUS
<1>1. MoveStands(p) /\ ParentStands(p)
  BY DEF PointerInv
<1>2. MoveStands(p)'
  BY <1>1 DEF MoveStands, Succeeded, Published
<1>3. ParentStands(p)'
  BY <1>1 DEF ParentStands, Published, Recording, Extending
<1> QED BY <1>2, <1>3

(* A step of one invocation that leaves the runs as they are.                *)
LEMMA SeedStands ==
  ASSUME ProcessInv, StoreInv, PointerInv, NEW o \in Ops,
         \A p \in Ops \ {o} : pc'[p] = pc[p] /\ target'[p] = target[p],
         \A p \in Ops : run'[p].passed = run[p].passed,
         \A g \in Gens : Published(g)' => Published(g) \/ (g = target[o] /\ pc[o] = "rename"),
         pc[o] = "rename" => target'[o] = target[o] /\ pc'[o] \notin Starting,
         o \in Creators /\ pc'[o] \in CreatorPC =>
           \/ pc[o] = "start" /\ home = "absent"
           \/ /\ pc[o] \in CreatorPC
              /\ pc'[o] \in Starting \/ target'[o] # target[o] => pc[o] \in Starting,
         o \in Runners /\ pc'[o] \in UnderLease =>
           \/ pc[o] = "start" /\ pc'[o] = "own"
           \/ /\ pc[o] \in UnderLease
              /\ pc'[o] \in Publishing => pc[o] \in Publishing \/ run[o].passed
  PROVE  SeedComesFirst'
<1> SUFFICES ASSUME NEW c \in Creators, pc'[c] \in CreatorPC
             PROVE  /\ \A g \in Gens : Published(g)' => g = target'[c] /\ pc'[c] \notin Starting
                    /\ \A r \in Runners : pc'[r] \in UnderLease =>
                         ~run'[r].passed /\ pc'[r] \notin Publishing
  BY DEF SeedComesFirst, Published, Starting
<1>0. Creators \subseteq Ops /\ Runners \subseteq Ops /\ c \notin Runners
  BY OpsAssumption DEF Ops
<1>1. CASE c = o /\ pc[o] = "start"
  <2>1. home = "absent"
    BY <1>1 DEF CreatorPC
  <2>2. \A g \in Gens : ~Published(g)
    BY <2>1 DEF StoreInv, PublishedIsComplete, Complete, RootComesFirst, Published
  <2>3. \A r \in Runners : pc'[r] \notin UnderLease
    BY <1>0, <1>1, <2>1 DEF PointerInv, LeaseComesSecond
  <2> QED BY <1>1, <2>2, <2>3
<1>2. CASE pc[c] \in CreatorPC
  <2>1. /\ \A g \in Gens : Published(g) => g = target[c] /\ pc[c] \notin Starting
        /\ \A r \in Runners : pc[r] \in UnderLease => ~run[r].passed /\ pc[r] \notin Publishing
    BY <1>2 DEF PointerInv, SeedComesFirst, Published, Starting
  <2>2. ASSUME NEW g \in Gens, Published(g)'
        PROVE  g = target'[c] /\ pc'[c] \notin Starting
    <3>1. CASE Published(g)
      BY <1>0, <1>2, <2>1, <2>2, <3>1 DEF CreatorPC
    <3>2. CASE ~Published(g)
      <4>1. g = target[o] /\ pc[o] = "rename"
        BY <2>2, <3>2
      <4>2. o = c
        <5>1. o \notin Restorers
          BY <4>1, OpsAssumption DEF ProcessInv, TypeOK, PathsOK, PathOf, RestorerPC, Terminal, Ops
        <5>2. o \notin Runners
          BY <2>1, <4>1 DEF UnderLease, Publishing, Extending
        <5>3. o \in Creators
          BY <5>1, <5>2 DEF Ops
        <5> QED BY <1>0, <1>2, <4>1, <5>3 DEF ProcessInv, BuildLockExcludes, CreatorPC
      <4> QED BY <4>1, <4>2
    <3> QED BY <3>1, <3>2
  <2>3. ASSUME NEW r \in Runners, pc'[r] \in UnderLease
        PROVE  ~run'[r].passed /\ pc'[r] \notin Publishing
    <3>1. CASE pc[r] \in UnderLease
      BY <1>0, <2>1, <2>3, <3>1 DEF UnderLease, Publishing, Extending
    <3>2. CASE r = o /\ pc[r] = "start" /\ pc'[r] = "own"
      <4>1. run[r].launcher = "none"
        BY <1>0, <3>2 DEF ProcessInv, RunsAreSound
      <4> QED BY <1>0, <3>2, <4>1 DEF PointerInv, PassedRunsAreOver, Publishing, Extending
    <3> QED BY <1>0, <2>3, <3>1, <3>2
  <2> QED BY <2>2, <2>3
<1> QED BY <1>0, <1>1, <1>2

(* Both together: what a step of an invocation has to respect.               *)
LEMMA PointerStep ==
  ASSUME ProcessInv, StoreInv, PointerInv, NEW o \in Ops,
         \A p \in Ops \ {o} : /\ pc'[p] = pc[p] /\ target'[p] = target[p]
                              /\ parent'[p] = parent[p] /\ ok'[p] = ok[p],
         \A p \in Ops : /\ run'[p].passed = run[p].passed
                        /\ run'[p].launcher = "over" \/ run[p].launcher # "over",
         home' = home \/ home' # "absent",
         current' = current, durable'.current \in {durable.current, current},
         \A g \in Gens : /\ Published(g) => Published(g)'
                         /\ Published(g)' => Published(g) \/ (g = target[o] /\ pc[o] = "rename"),
         \A p \in Publishers \ {o} :
           pc[p] \in Recording => parentOf'[target[p]] = parentOf[target[p]],
         pc[o] = "rename" => target'[o] = target[o] /\ pc'[o] \notin Starting,
         o \in Creators /\ pc'[o] \in CreatorPC =>
           \/ pc[o] = "start" /\ home = "absent"
           \/ /\ pc[o] \in CreatorPC
              /\ pc'[o] \in Starting \/ target'[o] # target[o] => pc[o] \in Starting,
         o \in Runners /\ pc'[o] \in UnderLease =>
           \/ pc[o] = "start" /\ pc'[o] = "own"
           \/ /\ pc[o] \in UnderLease
              /\ pc'[o] \in Publishing => pc[o] \in Publishing \/ run[o].passed,
         o \notin Creators /\ pc'[o] \in UnderLease => pc[o] \in UnderLease \/ home # "absent",
         MoveStands(o)', ParentStands(o)'
  PROVE  PointerInv'
<1>1. SeedComesFirst'
  BY SeedStands
<1>2. \A p \in Ops \ {o} : MoveStands(p)' /\ ParentStands(p)'
  BY OthersStand
<1>3. LeaseComesSecond'
  <2> SUFFICES ASSUME NEW p \in Runners \cup Restorers, pc'[p] \in UnderLease
               PROVE  home' # "absent"
    BY DEF LeaseComesSecond
  <2>1. p \in Ops /\ p \notin Creators
    BY OpsAssumption DEF Ops
  <2> QED BY <2>1 DEF PointerInv, LeaseComesSecond
<1>4. PassedRunsAreOver'
  BY DEF PointerInv, PassedRunsAreOver
<1> QED BY <1>1, <1>2, <1>3, <1>4 DEF PointerInv

(* A step that leaves the invocation's locals and the saves alone, too.      *)
Reading == {"spawn", "wait", "examine"} \cup Extending
After == {"unwind", "release", "settle", "unlock"} \cup Terminal

LEMMA QuietPointer ==
  ASSUME ProcessInv, StoreInv, PointerInv, NEW o \in Ops,
         \A p \in Ops \ {o} : pc'[p] = pc[p],
         UNCHANGED <<target, parent, ok, current, parentOf>>,
         \A p \in Ops : /\ run'[p].passed = run[p].passed
                        /\ run'[p].launcher = "over" \/ run[p].launcher # "over",
         home' = home \/ home' # "absent",
         durable'.current \in {durable.current, current},
         \A g \in Gens : Published(g)' <=> Published(g),
         pc[o] = "rename" => pc'[o] \notin Starting,
         o \in Creators /\ pc'[o] \in CreatorPC =>
           \/ pc[o] = "start" /\ home = "absent"
           \/ pc[o] \in CreatorPC /\ (pc'[o] \in Starting => pc[o] \in Starting),
         o \in Runners /\ pc'[o] \in UnderLease =>
           \/ pc[o] = "start" /\ pc'[o] = "own"
           \/ /\ pc[o] \in UnderLease
              /\ pc'[o] \in Publishing => pc[o] \in Publishing \/ run[o].passed,
         o \notin Creators /\ pc'[o] \in UnderLease => pc[o] \in UnderLease \/ home # "absent",
         pc'[o] = "swap" => target[o] \in Gens /\ Published(target[o]),
         pc'[o] # "sync",
         pc[o] \in After => pc'[o] \in After /\ (pc'[o] = "release" => pc[o] = "unwind")
                            /\ pc'[o] # "unwind",
         o \in Runners /\ pc'[o] \in Reading => pc[o] \in Reading,
         o \in Creators /\ pc'[o] \in Extending \ {"admit"} => pc[o] \in Extending \ {"admit"},
         pc'[o] \in Recording => pc[o] \in Recording \/ o \in Restorers
  PROVE  PointerInv'
<1>0. MoveStands(o) /\ ParentStands(o)
  BY DEF PointerInv
<1>1. MoveStands(o)'
  <2>1. ok[o] => pc[o] \in After
    BY <1>0 DEF MoveStands, After
  <2>2. Succeeded(o)' => Succeeded(o)
    BY <2>1 DEF Succeeded
  <2> QED BY <1>0, <2>1, <2>2 DEF MoveStands, Published, After, Succeeded
<1>2. ParentStands(o)'
  BY <1>0, OpsAssumption DEF ParentStands, Published, Reading, Recording, Publishers
<1> QED BY <1>1, <1>2, PointerStep

(* create before and after publish, acquire, release, and what fails.        *)
LEMMA CreatePointer ==
  ASSUME ProcessInv, StoreInv, PointerInv, NEW o \in Ops, CreateStep(o)
  PROVE  PointerInv'
<1>0. pc = [p \in Ops |-> pc[p]]
  BY DEF StoreInv, TypeOK, PathsOK
<1>1. /\ UNCHANGED <<target, parent, ok, current, parentOf, run, place, durable>>
      /\ \A p \in Ops \ {o} : pc'[p] = pc[p]
      /\ home' = home \/ home' # "absent"
  BY <1>0 DEF CreateStep, CreateLock, CreateRoot, CreateMetadata, CreateUnlock, local,
     root, store, Goto
<1>2. o \in Creators
  BY OpsAssumption DEF CreateStep, CreateLock, CreateRoot, CreateMetadata, CreateUnlock,
     StoreInv, TypeOK, PathsOK, PathOf, RunnerPC, RestorerPC, Terminal, Ops
<1>3. \/ pc[o] = "start" /\ pc'[o] = "failed"
      \/ pc[o] = "start" /\ pc'[o] = "makeroot" /\ home = "absent"
      \/ pc[o] = "makeroot" /\ pc'[o] = "metadata"
      \/ pc[o] = "metadata" /\ pc'[o] = "admit"
      \/ pc[o] = "unlock" /\ pc'[o] \in {"done", "failed"}
  BY <1>0 DEF CreateStep, CreateLock, CreateRoot, CreateMetadata, CreateUnlock, Goto
<1> QED BY <1>1, <1>2, <1>3, OpsAssumption, QuietPointer
        DEF Published, Starting, CreatorPC, After, Terminal, Extending, Recording

LEMMA LeasePointer ==
  ASSUME ProcessInv, StoreInv, PointerInv, NEW o \in Ops, LeaseStep(o) \/ DisownLease(o)
  PROVE  PointerInv'
<1>0. pc = [p \in Ops |-> pc[p]]
  BY DEF StoreInv, TypeOK, PathsOK
<1>1. /\ UNCHANGED <<target, parent, ok, current, parentOf, run, place, home>>
      /\ \A p \in Ops \ {o} : pc'[p] = pc[p]
      /\ durable' = durable \/ durable' = Root
  BY <1>0 DEF LeaseStep, AcquireLease, OwnLease, ReleaseLease, SettleRelease, DisownLease,
     local, root, store, Goto
<1>2. durable'.current \in {durable.current, current}
  BY <1>1 DEF Root
<1>3. o \notin Creators
  BY OpsAssumption DEF LeaseStep, AcquireLease, OwnLease, ReleaseLease, SettleRelease,
     DisownLease, StoreInv, TypeOK, PathsOK, PathOf, CreatorPC, Terminal, Ops
<1>4. \/ pc[o] = "start" /\ pc'[o] = "failed"
      \/ pc[o] = "start" /\ pc'[o] = "own" /\ home = "described"
      \/ pc[o] = "own" /\ pc'[o] \in {"lookup", "choose", "failed"}
      \/ pc[o] = "release" /\ pc'[o] = "settle"
      \/ pc[o] = "settle" /\ pc'[o] \in {"done", "failed"}
  BY <1>0 DEF LeaseStep, AcquireLease, OwnLease, ReleaseLease, SettleRelease, DisownLease, Goto
<1> QED BY <1>1, <1>2, <1>3, <1>4, QuietPointer
        DEF Published, Starting, UnderLease, After, Terminal, Extending, Publishing,
            Recording, Reading

LEMMA FaultPointer ==
  ASSUME ProcessInv, StoreInv, PointerInv, NEW o \in Ops, OpFault(o)
  PROVE  PointerInv'
<1>0. pc = [p \in Ops |-> pc[p]]
  BY DEF StoreInv, TypeOK, PathsOK
<1>1. CASE DisownLease(o)
  BY <1>1, LeasePointer
<1>2. CASE Forward(o) \/ Raise(o) \/ AbandonEnding(o) \/ Kill(o)
  <2>1. /\ UNCHANGED <<target, parent, ok, current, parentOf, run, place, home, durable>>
        /\ \A p \in Ops \ {o} : pc'[p] = pc[p]
    BY <1>0, <1>2 DEF Forward, Raise, AbandonEnding, Kill, local, root, store, Goto
  <2>2. \/ pc[o] = "wait" /\ pc'[o] = "wait"
        \/ pc[o] \in Raising \cup {"wait"} /\ pc'[o] = "unwind"
        \/ pc'[o] \in {"failed", "dead"}
    BY <1>0, <1>2 DEF Forward, Raise, AbandonEnding, Kill, Goto
  <2>3. o \in Creators => pc[o] # "wait" /\ (pc[o] = "unwind" \/ pc[o] \in Raising => pc[o] \in CreatorPC)
    BY DEF StoreInv, TypeOK, PathsOK, PathOf, CreatorPC, Terminal, Raising
  <2>4. o \notin Creators /\ pc[o] \in Raising => pc[o] \in UnderLease
    BY DEF StoreInv, TypeOK, PathsOK, PathOf, RunnerPC, RestorerPC, Terminal, Raising, UnderLease
  <2> QED BY <2>1, <2>2, <2>3, <2>4, OpsAssumption, QuietPointer
          DEF Published, Starting, UnderLease, After, Terminal, Extending, Publishing,
              Recording, Reading, CreatorPC, Raising
<1> QED BY <1>1, <1>2 DEF OpFault

(* Unwinding removes only what is still pending.                             *)
LEMMA UnwindPointer ==
  ASSUME ProcessInv, StoreInv, PointerInv, NEW o \in Ops, Unwind(o)
  PROVE  PointerInv'
<1>0. pc = [p \in Ops |-> pc[p]] /\ place = [g \in Gens |-> place[g]]
  BY DEF StoreInv, TypeOK, PathsOK, StoreOK
<1>1. /\ UNCHANGED <<target, parent, ok, current, parentOf, run, home, durable>>
      /\ \A p \in Ops \ {o} : pc'[p] = pc[p]
      /\ pc[o] = "unwind"
      /\ pc'[o] = IF o \in Creators THEN "unlock" ELSE IF safe[o] THEN "release" ELSE "failed"
  BY <1>0 DEF Unwind, local, root, Goto
<1>2. \A g \in Gens : Published(g)' <=> Published(g)
  BY <1>0 DEF Unwind, Published
<1> QED BY <1>1, <1>2, OpsAssumption, QuietPointer
        DEF Starting, UnderLease, After, Terminal, Extending, Publishing, Recording, Reading, CreatorPC

(* run_workspace between the lease and publish: it reads the pointer, and    *)
(* comes to publish only with a run that passed.                             *)
LEMMA RunPointer ==
  ASSUME ProcessInv, StoreInv, PointerInv, TypeOK', NEW o \in Ops, RunStep(o)
  PROVE  PointerInv'
<1>0. /\ pc = [p \in Ops |-> pc[p]] /\ parent = [p \in Ops |-> parent[p]]
      /\ run = [p \in Ops |-> run[p]]
  BY DEF StoreInv, TypeOK, PathsOK, LocalsOK, RunsOK
<1>1. /\ UNCHANGED <<target, ok, current, parentOf, place, home, durable>>
      /\ \A p \in Ops \ {o} : pc'[p] = pc[p] /\ parent'[p] = parent[p]
  BY <1>0 DEF RunStep, LookUp, Spawn, Judge, Examine, local, root, store, Goto
<1>2. pc[o] \in {"lookup", "spawn", "wait", "examine"} /\ o \in Runners
  BY OpsAssumption DEF RunStep, LookUp, Spawn, Judge, Examine, StoreInv, TypeOK, PathsOK,
     PathOf, CreatorPC, RestorerPC, Terminal, Ops
<1>3. CASE LookUp(o) /\ Verified(current)
  <2>1. pc[o] = "lookup" /\ pc'[o] = "spawn" /\ parent'[o] = current /\ run' = run
        /\ current \in Gens /\ Published(current)
    BY <1>0, <1>3 DEF LookUp, Goto, Verified, Published
  <2>2. MoveStands(o)' /\ ParentStands(o)'
    <3>1. MoveStands(o)
      BY DEF PointerInv
    <3> QED BY <1>1, <1>2, <2>1, <3>1, OpsAssumption
            DEF MoveStands, ParentStands, Succeeded, Published, Extending, Terminal
  <2> QED BY <1>1, <1>2, <2>1, <2>2, OpsAssumption, PointerStep
          DEF Published, Starting, UnderLease, Publishing, Extending
<1>4. CASE Spawn(o) \/ Judge(o) \/ Examine(o) \/ (LookUp(o) /\ ~Verified(current))
  <2>1. parent' = parent
    BY <1>4 DEF LookUp, Spawn, Judge, Examine, local
  <2>2. \A p \in Ops : /\ run'[p].passed = run[p].passed
                       /\ run'[p].launcher = "over" \/ run[p].launcher # "over"
    <3>1. CASE run' = run
      BY <3>1
    <3>2. CASE Spawn(o) /\ run' = [run EXCEPT ![o].launcher = "started"]
      <4>1. run[o].launcher = "none"
        BY <3>2 DEF Spawn, ProcessInv, RunsAreSound
      <4>2. run'[o] = [run[o] EXCEPT !.launcher = "started"] /\ run[o] \in Run
            /\ \A p \in Ops \ {o} : run'[p] = run[p]
        BY <1>0, <3>2 DEF StoreInv, TypeOK, RunsOK
      <4>3. run'[o].passed = run[o].passed
        BY <4>2 DEF Run
      <4> QED BY <4>1, <4>2, <4>3
    <3> QED BY <1>4, <3>1, <3>2 DEF LookUp, Spawn, Judge, Examine
  <2>3. \/ pc'[o] = "unwind"
        \/ pc[o] = "spawn" /\ pc'[o] = "wait"
        \/ pc[o] = "wait" /\ pc'[o] = "examine"
        \/ pc[o] = "examine" /\ pc'[o] = "admit" /\ run[o].passed
    BY <1>0, <1>4 DEF LookUp, Spawn, Judge, Examine, Accepted, Goto
  <2> QED BY <1>1, <1>2, <2>1, <2>2, <2>3, OpsAssumption, QuietPointer
          DEF Published, Starting, UnderLease, After, Terminal, Extending, Publishing,
              Recording, Reading
<1> QED BY <1>3, <1>4 DEF RunStep

(* publish. *)
LEMMA PublishPointer ==
  ASSUME ProcessInv, StoreInv, PointerInv, TypeOK', NEW o \in Ops, PublishStep(o)
  PROVE  PointerInv'
<1> DEFINE g == target[o]
<1>0. /\ pc = [p \in Ops |-> pc[p]] /\ target = [p \in Ops |-> target[p]]
      /\ place = [h \in Gens |-> place[h]] /\ parentOf = [h \in Gens |-> parentOf[h]]
  BY DEF StoreInv, TypeOK, PathsOK, LocalsOK, StoreOK
<1>1. /\ UNCHANGED <<parent, ok, run, home, current>>
      /\ \A p \in Ops \ {o} : pc'[p] = pc[p] /\ target'[p] = target[p]
  BY <1>0 DEF PublishStep, Admit, WriteManifest, FlushPending, Rename, FlushName, CopyMedia,
     local, root, Goto
<1>2. o \in Publishers
  BY DEF PublishStep, Admit, WriteManifest, FlushPending, Rename, FlushName, CopyMedia,
     StoreInv, TypeOK, PathsOK, PathOf, Publishers, Ops, RestorerPC, Terminal
<1>3. MoveStands(o) /\ ParentStands(o)
  BY DEF PointerInv
<1>4. CASE Admit(o)
  <2>1. CASE current = parent[o]
    <3>1. PICK h \in Gens :
            /\ place[h] = "absent"
            /\ target' = [target EXCEPT ![o] = h]
            /\ place' = [place EXCEPT ![h] = "pending"]
            /\ pc' = [pc EXCEPT ![o] = "copy"]
      BY <1>4, <2>1 DEF Admit, Goto
    <3>2. UNCHANGED <<parentOf, durable>> /\ pc[o] = "admit"
      BY <1>4 DEF Admit
    <3>3. /\ pc'[o] = "copy" /\ target'[o] = h
          /\ \A i \in Gens : Published(i)' <=> Published(i)
      BY <1>0, <3>1 DEF Published
    <3>4. MoveStands(o)' /\ ParentStands(o)'
      BY <1>1, <1>2, <1>3, <2>1, <3>2, <3>3 DEF MoveStands, ParentStands, Succeeded, Extending,
         Terminal, Publishers, Published
    <3> QED BY <1>1, <1>2, <3>2, <3>3, <3>4, OpsAssumption, PointerStep
            DEF Starting, UnderLease, CreatorPC, Publishing, Extending
  <2>2. CASE current # parent[o]
    <3>1. UNCHANGED <<target, parentOf, place, durable>> /\ pc[o] = "admit" /\ pc'[o] = "unwind"
      BY <1>0, <1>4, <2>2 DEF Admit, Goto
    <3> QED BY <1>1, <1>2, <3>1, OpsAssumption, QuietPointer
            DEF Published, Starting, UnderLease, CreatorPC, Publishing, Extending, After,
                Terminal, Recording, Reading
  <2> QED BY <2>1, <2>2
<1>5. CASE FlushPending(o) \/ FlushName(o) \/ \E m \in Media : CopyMedia(o, m)
  <2>1. UNCHANGED <<target, parentOf, place>> /\ durable'.current = durable.current
    BY <1>5 DEF FlushPending, FlushName, CopyMedia, local, StoreInv, TypeOK, LocksOK
  <2>2. \/ pc[o] = "copy" /\ pc'[o] \in {"copy", "unwind"}
        \/ pc[o] = "flush" /\ pc'[o] = "rename"
        \/ pc[o] = "name" /\ pc'[o] = "verify"
    BY <1>0, <1>5 DEF FlushPending, FlushName, CopyMedia, Goto
  <2> QED BY <1>1, <1>2, <2>1, <2>2, OpsAssumption, QuietPointer
          DEF Published, Starting, UnderLease, CreatorPC, Publishing, Extending, After,
              Terminal, Recording, Reading
<1>6. CASE WriteManifest(o)
  <2>1. /\ pc[o] = "copy" /\ pc'[o] = "flush" /\ UNCHANGED <<target, place, durable>>
        /\ parentOf' = [parentOf EXCEPT ![g] = parent[o]]
    BY <1>0, <1>6 DEF WriteManifest, Goto, local
  <2>2. g \in Gens
    BY <1>2, <2>1 DEF StoreInv, WorkInProgress
  <2>3. ASSUME NEW p \in Publishers \ {o} PROVE parentOf'[target[p]] = parentOf[target[p]]
    <3>1. target[p] # g
      BY <1>2, <2>2, <2>3, OpsAssumption DEF StoreInv, TargetsDiffer
    <3> QED BY <1>0, <2>1, <2>2, <3>1
  <2>4. parentOf'[g] = parent[o]
    BY <1>0, <2>1, <2>2
  <2>5. MoveStands(o)' /\ ParentStands(o)'
    BY <1>1, <1>2, <1>3, <2>1, <2>4 DEF MoveStands, ParentStands, Succeeded, Extending,
       Terminal, Publishers, Published
  <2> QED BY <1>1, <1>2, <2>1, <2>3, <2>5, OpsAssumption, PointerStep
          DEF Published, Starting, UnderLease, CreatorPC, Publishing, Extending
<1>7. CASE Rename(o)
  <2>1. /\ pc[o] = "rename" /\ pc'[o] = "name" /\ UNCHANGED <<target, parentOf, durable>>
        /\ place' = [place EXCEPT ![g] = "published"]
    BY <1>0, <1>7 DEF Rename, Goto, local
  <2>2. \A h \in Gens : /\ Published(h) => Published(h)'
                        /\ Published(h)' => Published(h) \/ (h = target[o] /\ pc[o] = "rename")
    BY <1>0, <2>1 DEF Published
  <2>3. MoveStands(o)' /\ ParentStands(o)'
    <3>1. current \in Gens /\ Published(current) => Published(current)'
      BY <1>1, <2>2
    <3> QED BY <1>1, <1>2, <1>3, <2>1, <3>1 DEF MoveStands, ParentStands, Succeeded, Extending,
         Terminal, Publishers, Published
  <2> QED BY <1>1, <1>2, <2>1, <2>2, <2>3, OpsAssumption, PointerStep
          DEF Starting, UnderLease, CreatorPC, Publishing, Extending
<1> QED BY <1>4, <1>5, <1>6, <1>7 DEF PublishStep

(* os.replace of current.json: whoever else relies on the pointer now finds  *)
(* there what it relies on, since it is the same save.                       *)
LEMMA SwapPointer ==
  ASSUME ProcessInv, StoreInv, PointerInv, TypeOK', NEW o \in Ops, Swap(o)
  PROVE  PointerInv'
<1>0. pc = [p \in Ops |-> pc[p]]
  BY DEF StoreInv, TypeOK, PathsOK
<1>1. /\ pc[o] = "swap" /\ pc'[o] = "sync" /\ current' = target[o]
      /\ UNCHANGED <<parent, target, ok, run, home, durable, place, parentOf>>
      /\ \A p \in Ops \ {o} : pc'[p] = pc[p]
  BY <1>0 DEF Swap, Goto, local, store
<1>2. MoveStands(o) /\ ParentStands(o) /\ target[o] \in Gens /\ Published(target[o])
  BY <1>1 DEF PointerInv, MoveStands, Published
<1>3. MoveStands(o)' /\ ParentStands(o)'
  BY <1>1, <1>2 DEF MoveStands, ParentStands, Succeeded, Extending, Terminal, Published
<1>4. ASSUME NEW p \in Ops \ {o} PROVE MoveStands(p)' /\ ParentStands(p)'
  <2>1. MoveStands(p) /\ ParentStands(p) /\ pc'[p] = pc[p]
    BY <1>1 DEF PointerInv
  <2>2. p \notin Creators => pc[p] \in UnderLease \cup {"start", "settle"} \cup Terminal
    BY DEF StoreInv, TypeOK, PathsOK, PathOf, RunnerPC, RestorerPC, UnderLease
  <2>3. CASE p \notin Creators /\ pc[p] \in UnderLease
    <3>1. o \in Creators
      <4>1. o \in Creators \/ lease = o
        BY <1>1 DEF ProcessInv, LeaseExcludes, UnderLease, Ops
      <4>2. lease = p
        BY <2>3 DEF ProcessInv, LeaseExcludes, Ops
      <4> QED BY <4>1, <4>2
    <3>2. \A g \in Gens : Published(g) => g = target[o]
      BY <1>1, <3>1 DEF PointerInv, SeedComesFirst, CreatorPC, Published
    <3>3. MoveStands(p)'
      BY <1>1, <2>1, <3>2 DEF MoveStands, Succeeded, Published
    <3>4. ParentStands(p)'
      BY <1>1, <2>1, <2>3, <3>2 DEF ParentStands, Published
    <3> QED BY <3>3, <3>4
  <2>4. CASE p \notin Creators /\ pc[p] \notin UnderLease
    <3>1. pc[p] \in {"start", "settle"} \cup Terminal
      BY <2>2, <2>4
    <3> QED BY <1>1, <2>1, <2>4, <3>1 DEF MoveStands, ParentStands, Succeeded, Extending, Terminal
  <2>5. CASE p \in Creators /\ pc[p] \in CreatorPC
    <3>1. o \notin Creators
      BY <1>1, <2>5 DEF ProcessInv, BuildLockExcludes, CreatorPC
    <3>2. target[o] = target[p]
      BY <1>2, <2>5 DEF PointerInv, SeedComesFirst, Published
    <3>3. p \notin Runners
      BY <2>5, OpsAssumption
    <3>4. MoveStands(p)'
      BY <1>1, <2>1, <3>2 DEF MoveStands, Succeeded
    <3>5. ParentStands(p)'
      BY <1>1, <2>1, <3>2, <3>3 DEF ParentStands
    <3> QED BY <3>4, <3>5
  <2>6. CASE p \in Creators /\ pc[p] \notin CreatorPC
    <3>1. p \notin Runners
      BY <2>6, OpsAssumption
    <3>2. pc[p] \in {"start"} \cup Terminal
      BY <2>6 DEF StoreInv, TypeOK, PathsOK, PathOf
    <3> QED BY <1>1, <2>1, <3>1, <3>2 DEF MoveStands, ParentStands, Succeeded, Extending, Terminal
  <2> QED BY <2>3, <2>4, <2>5, <2>6
<1>5. SeedComesFirst'
  BY <1>1, OpsAssumption, SeedStands
     DEF Published, Starting, UnderLease, CreatorPC, Publishing, Extending
<1>6. LeaseComesSecond' /\ PassedRunsAreOver'
  BY <1>1, OpsAssumption
     DEF PointerInv, LeaseComesSecond, PassedRunsAreOver, UnderLease, Ops
<1> QED BY <1>3, <1>4, <1>5, <1>6 DEF PointerInv

(* The rest of select. *)
LEMMA SelectPointer ==
  ASSUME ProcessInv, StoreInv, PointerInv, TypeOK', NEW o \in Ops, SelectStep(o)
  PROVE  PointerInv'
<1>0. /\ pc = [p \in Ops |-> pc[p]] /\ target = [p \in Ops |-> target[p]]
      /\ ok = [p \in Ops |-> ok[p]]
  BY DEF StoreInv, TypeOK, PathsOK, LocalsOK
<1>1. MoveStands(o) /\ ParentStands(o)
  BY DEF PointerInv
<1>2. CASE Choose(o)
  <2>1. o \notin Creators /\ o \notin Runners /\ o \notin Publishers
    BY <1>2, OpsAssumption DEF Choose, StoreInv, TypeOK, PathsOK, PathOf, Publishers,
       CreatorPC, RunnerPC, Terminal
  <2>2. /\ pc[o] = "choose" /\ pc'[o] = "verify"
        /\ UNCHANGED <<parent, ok, run, home, current, durable, place, parentOf>>
        /\ \A p \in Ops \ {o} : pc'[p] = pc[p] /\ target'[p] = target[p]
    BY <1>0, <1>2 DEF Choose, Goto, root, store
  <2>3. MoveStands(o)' /\ ParentStands(o)'
    BY <1>1, <2>1, <2>2 DEF MoveStands, ParentStands, Succeeded, Terminal
  <2> QED BY <2>1, <2>2, <2>3, PointerStep DEF Published, UnderLease
<1>3. CASE VerifyTarget(o)
  <2>1. /\ pc[o] = "verify"
        /\ UNCHANGED <<target, parent, ok, run, home, current, durable, place, parentOf>>
        /\ \A p \in Ops \ {o} : pc'[p] = pc[p]
        /\ \/ pc'[o] = "swap" /\ target[o] \in Gens /\ Published(target[o])
           \/ pc'[o] = "unwind"
    BY <1>0, <1>3 DEF VerifyTarget, Goto, local, root, store, Verified, Published
  <2> QED BY <2>1, OpsAssumption, QuietPointer
          DEF Published, Starting, UnderLease, CreatorPC, Publishing, Extending, After,
              Terminal, Recording, Reading
<1>4. CASE Sync(o)
  <2>1. /\ pc[o] = "sync" /\ pc'[o] = "unwind" /\ durable' = Root
        /\ UNCHANGED <<target, parent, run, home, current, place, parentOf>>
        /\ \A p \in Ops \ {o} : pc'[p] = pc[p] /\ ok'[p] = ok[p]
    BY <1>0, <1>4 DEF Sync, Goto, root, store
  <2>2. durable'.current = current
    BY <2>1 DEF Root
  <2>3. MoveStands(o)' /\ ParentStands(o)'
    BY <1>1, <2>1, <2>2 DEF MoveStands, ParentStands, Succeeded, Extending
  <2> QED BY <2>1, <2>2, <2>3, OpsAssumption, PointerStep
          DEF Published, Starting, UnderLease, CreatorPC, Publishing, Extending
<1> QED BY <1>2, <1>3, <1>4, SwapPointer DEF SelectStep

(* The steps of the processes of a run.                                      *)
Follows(d, c) ==
  \/ c.launcher = "started" /\ d \in {[c EXCEPT !.launcher = "locked"],
                                      [c EXCEPT !.launcher = "over", !.status = "nonzero"]}
  \/ d \in LauncherSteps(c) \cup ControllerSteps(c) \cup LoseHandle(c) \cup Accidents(c)
  \/ d \in SimsExit(c) \cup Prune(c)
  \/ \E tidy \in BOOLEAN : d \in LauncherEnds(c, tidy)
  \/ \E flag \in BOOLEAN, verdict \in Verdicts : d \in ControllerEnds(c, flag, verdict)

(* A run passes only with the build lock.                                    *)
LEMMA SuccessorsPass ==
  ASSUME NEW c \in Run, NEW d, Follows(d, c), c.passed => c.launcher = "over"
  PROVE  /\ d.passed => d.launcher = "over"
         /\ d.passed => c.passed \/ c.launcher = "waiting"
         /\ c.launcher = "over" => d.launcher = "over"
<1>1. CASE c.launcher = "started" /\ d \in {[c EXCEPT !.launcher = "locked"],
                                   [c EXCEPT !.launcher = "over", !.status = "nonzero"]}
  BY <1>1 DEF Run
<1>2. CASE d \in LauncherSteps(c)
  BY <1>2 DEF LauncherSteps, Claim, Record, Stage, Drive, When, Run
<1>3. ASSUME NEW tidy \in BOOLEAN, d \in Abort(c, tidy)
      PROVE  d.launcher = "over" /\ c.launcher # "over" /\ d.passed = c.passed
  BY <1>3 DEF Abort, When, Run
<1>4. ASSUME NEW tidy \in BOOLEAN, NEW good \in BOOLEAN, d \in Finish(c, tidy, good)
      PROVE  d.launcher = "over" /\ c.launcher = "waiting"
  BY <1>4 DEF Finish, When, Run
<1>5. CASE d \in ControllerSteps(c) \cup LoseHandle(c)
  BY <1>5 DEF ControllerSteps, Attach, BootImps, BootHosts, SyncGuests, LoseHandle, When, Run
<1>6. ASSUME NEW flag \in BOOLEAN, NEW verdict \in Verdicts, d \in ControllerEnds(c, flag, verdict)
      PROVE  d.passed = c.passed /\ d.launcher = c.launcher
  BY <1>6 DEF ControllerEnds, StopClean, StopFailed, When, Run
<1>7. CASE d \in Accidents(c) \cup SimsExit(c) \cup Prune(c)
  BY <1>7 DEF Accidents, LauncherDies, ControlDies, SimsExit, Prune, When, Run
<1> QED BY <1>1, <1>2, <1>3, <1>4, <1>5, <1>6, <1>7 DEF Follows, LauncherEnds

(* The launchers, controllers and simulators, and what happens to them.      *)
LEMMA ProcessesPointer ==
  ASSUME ProcessInv, StoreInv, PointerInv, NEW o \in Ops, ProcessStep(o) \/ Environment(o)
  PROVE  PointerInv'
<1>0. UNCHANGED <<pc, target, parent, ok, home, current, durable, place, parentOf>>
  BY DEF ProcessStep, LauncherLock, LauncherStep, LauncherEnd, ControllerStep,
     ControllerEnd, Environment, SignalledLaunch, ProcessDies, SurvivorsExit, PruneMedia,
     local, root, store
<1> DEFINE c == run[o]
<1>1. c \in Run /\ run = [p \in Ops |-> run[p]]
  BY DEF StoreInv, TypeOK, RunsOK
<1>2. PICK d : run' = [run EXCEPT ![o] = d] /\ Follows(d, c)
  <2>1. CASE LauncherLock(o)
    BY <1>1, <2>1 DEF LauncherLock, Follows
  <2>2. CASE LauncherEnd(o)
    BY <2>2 DEF LauncherEnd, Becomes, Follows
  <2>3. CASE ControllerEnd(o)
    BY <2>3 DEF ControllerEnd, Becomes, Follows
  <2>4. CASE LauncherStep(o) \/ ControllerStep(o)
    BY <2>4 DEF LauncherStep, ControllerStep, Becomes, Follows
  <2>5. CASE Environment(o)
    BY <2>5 DEF Environment, SignalledLaunch, ProcessDies, SurvivorsExit, PruneMedia,
       Becomes, Follows
  <2> QED BY <2>1, <2>2, <2>3, <2>4, <2>5 DEF ProcessStep
<1>3. /\ d.passed => d.launcher = "over"
      /\ d.passed => c.passed \/ c.launcher = "waiting"
      /\ c.launcher = "over" => d.launcher = "over"
  <2>1. c.passed => c.launcher = "over"
    BY DEF PointerInv, PassedRunsAreOver
  <2> QED BY <1>1, <1>2, <2>1, SuccessorsPass
<1>4. run'[o] = d /\ \A p \in Ops \ {o} : run'[p] = run[p]
  BY <1>1, <1>2
<1>5. PassedRunsAreOver'
  BY <1>3, <1>4 DEF PointerInv, PassedRunsAreOver
<1>6. SeedComesFirst'
  <2> SUFFICES ASSUME NEW p \in Creators, pc[p] \in CreatorPC
               PROVE  \A r \in Runners : pc[r] \in UnderLease => ~run'[r].passed
    BY <1>0 DEF PointerInv, SeedComesFirst
  <2>1. buildLock = p /\ p \notin Runners
    BY OpsAssumption DEF ProcessInv, BuildLockExcludes, Ops
  <2>2. o \in Runners => c.launcher # "waiting"
    BY <2>1 DEF ProcessInv, BuildLockExcludes, LockedPhases
  <2> QED BY <1>3, <1>4, <2>2 DEF PointerInv, SeedComesFirst, Ops
<1>7. LeaseComesSecond' /\ \A p \in Ops : MoveStands(p)' /\ ParentStands(p)'
  BY <1>0 DEF PointerInv, LeaseComesSecond, MoveStands, ParentStands, Succeeded
<1> QED BY <1>5, <1>6, <1>7 DEF PointerInv

(* Recovery by hand, and steps that are not the workspace's.                 *)
LEMMA RecoveryPointer ==
  ASSUME PointerInv, RecoverLease \/ RecoverBuildLock \/ UNCHANGED vars
  PROVE  PointerInv'
<1>1. UNCHANGED <<pc, target, parent, ok, run, home, current, durable, place, parentOf>>
  BY DEF RecoverLease, RecoverBuildLock, local, root, store, vars
<1> QED BY <1>1 DEF PointerInv, LeaseComesSecond, PassedRunsAreOver, SeedComesFirst,
           MoveStands, ParentStands, Succeeded

(* A power loss leaves nobody under way.                                     *)
LEMMA PowerLossPointer ==
  ASSUME StoreInv, PointerInv, PowerLoss
  PROVE  PointerInv'
<1>1. /\ \A p \in Ops : pc'[p] = IF pc[p] \in Terminal \cup {"start"} THEN pc[p] ELSE "dead"
      /\ \A p \in Ops : run'[p] = Halted(run[p])
      /\ UNCHANGED <<target, parent, ok>>
  BY DEF PowerLoss, local
<1>2. \A p \in Ops : pc'[p] \in Terminal \cup {"start"}
  BY <1>1 DEF Terminal
<1>3. ASSUME NEW p \in Ops PROVE MoveStands(p)' /\ ParentStands(p)'
  <2>1. MoveStands(p) /\ ParentStands(p) /\ pc'[p] \in Terminal \cup {"start"}
    BY <1>2 DEF PointerInv
  <2>2. ok'[p] => pc'[p] \in Terminal
    BY <1>1, <2>1 DEF MoveStands, Terminal
  <2> QED BY <1>1, <2>1, <2>2 DEF MoveStands, ParentStands, Succeeded, Extending, Terminal
<1>4. PassedRunsAreOver'
  <2> SUFFICES ASSUME NEW p \in Ops, run'[p].passed PROVE run'[p].launcher = "over"
    BY DEF PassedRunsAreOver
  <2>1. run[p] \in Run /\ run'[p] = Halted(run[p])
    BY <1>1 DEF StoreInv, TypeOK, RunsOK
  <2>2. run[p].passed
    BY <2>1 DEF Halted, Run
  <2>3. run[p].launcher = "over"
    BY <2>2 DEF PointerInv, PassedRunsAreOver
  <2> QED BY <2>1, <2>3 DEF Halted, Run
<1>5. LeaseComesSecond' /\ SeedComesFirst'
  BY <1>2 DEF LeaseComesSecond, SeedComesFirst, UnderLease, CreatorPC, Terminal, Ops
<1> QED BY <1>3, <1>4, <1>5 DEF PointerInv

LEMMA InitPointer == Init => PointerInv
<1> SUFFICES ASSUME Init PROVE PointerInv
  OBVIOUS
<1>1. \A o \in Ops : pc[o] = "start" /\ parent[o] = NoGen /\ ~ok[o] /\ run[o] = Unborn
  BY DEF Init
<1>2. LeaseComesSecond /\ SeedComesFirst /\ PassedRunsAreOver
  BY <1>1 DEF LeaseComesSecond, SeedComesFirst, PassedRunsAreOver, UnderLease, CreatorPC,
     Unborn, Ops
<1>3. \A o \in Ops : MoveStands(o) /\ ParentStands(o)
  BY <1>1 DEF MoveStands, ParentStands, Succeeded, Extending
<1> QED BY <1>2, <1>3 DEF PointerInv

LEMMA NextPointer ==
  ProcessInv /\ StoreInv /\ TypeOK' /\ PointerInv /\ [Next]_vars => PointerInv'
<1> SUFFICES ASSUME ProcessInv, StoreInv, TypeOK', PointerInv, [Next]_vars PROVE PointerInv'
  OBVIOUS
<1>1. ASSUME NEW o \in Ops, OpStep(o) PROVE PointerInv'
  BY <1>1, CreatePointer, LeasePointer, RunPointer, PublishPointer, SelectPointer,
     UnwindPointer DEF OpStep
<1>2. ASSUME NEW o \in Ops, OpFault(o) \/ ProcessStep(o) \/ Environment(o) PROVE PointerInv'
  BY <1>2, FaultPointer, ProcessesPointer
<1>3. CASE PowerLoss
  BY <1>3, PowerLossPointer
<1>4. CASE RecoverLease \/ RecoverBuildLock \/ UNCHANGED vars
  BY <1>4, RecoveryPointer
<1> QED BY <1>1, <1>2, <1>3, <1>4 DEF Next

LEMMA PointerInvHolds == Spec => []PointerInv
  BY InitPointer, NextPointer, ProcessInvHolds, StoreInvHolds, TypesHold, PTL DEF Spec

(* When an invocation succeeds, the pointer it wrote is in force and on disk *)
(* (guest_workspace.py, select), for any number of invocations: nobody moves *)
(* it before the lease or the build lock is given back.                      *)
THEOREM SuccessIsAlwaysDurable == Spec => []SuccessIsDurable
<1>1. PointerInv => SuccessIsDurable
  BY DEF PointerInv, MoveStands, Succeeded, SuccessIsDurable
<1> QED BY <1>1, PointerInvHolds, PTL

(* No lost update (guest_workspace.py, publish): a run or a create replaces  *)
(* the parent it started from, with the lease taken by the one and only the  *)
(* build lock by the other.                                                  *)
THEOREM SavesAlwaysExtendTheirParent == Spec => SavesExtendTheirParent
<1> DEFINE Extends(o) == pc[o] = "swap" /\ pc'[o] = "sync"
                           => current \in {parentOf[target[o]], target[o]}
<1>1. PointerInv => \A o \in Publishers : Extends(o)
  <2> SUFFICES ASSUME PointerInv, NEW o \in Publishers, pc[o] = "swap"
               PROVE  current \in {parentOf[target[o]], target[o]}
    OBVIOUS
  <2>1. ParentStands(o)
    BY DEF PointerInv, Publishers, Ops
  <2> QED BY <2>1 DEF ParentStands, Extending, Publishers
<1>2. PointerInv => [\A o \in Creators \cup Runners : Extends(o)]_vars
  BY <1>1 DEF Publishers
<1> QED BY <1>2, PointerInvHolds, PTL DEF Spec, SavesExtendTheirParent

------------------------------------------------------------------------------
(* SaveInv is inductive, and the workspace implements SaveHistory.  A save *)
(* holds what its publisher copied, and a run comes to copy only with the  *)
(* proof that its guests' disks were synchronized; from then on the disks  *)
(* change no more, they can only be pruned.  Its parent was current, hence *)
(* on disk, when it got its name.                                          *)

Copying == {"copy", "flush", "rename"}

------------------------------------------------------------------------------
(* Runs. *)

(* What a run has proved stays proved, and leaves no simulator.              *)
LEMMA ProofsStay ==
  ASSUME NEW c \in Run, NEW d, Follows(d, c), Sound(c), c.proof => ~c.lost
  PROVE  /\ d.proof => ~d.lost
         /\ ShutdownProved(c) => ShutdownProved(d)
<1> USE DEF ShutdownProved
<1>1. CASE c.launcher = "started" /\ d \in {[c EXCEPT !.launcher = "locked"],
                                   [c EXCEPT !.launcher = "over", !.status = "nonzero"]}
  BY <1>1 DEF Run
<1>2. CASE d \in LauncherSteps(c)
  BY <1>2 DEF LauncherSteps, Claim, Record, Stage, Drive, When, Run, Sound
<1>3. ASSUME NEW tidy \in BOOLEAN, d \in Abort(c, tidy)
      PROVE  d.proof = c.proof /\ d.lost = c.lost /\ d.evidence = c.evidence /\ d.exits = c.exits
  BY <1>3 DEF Abort, When, Run
<1>4. ASSUME NEW tidy \in BOOLEAN, NEW good \in BOOLEAN, d \in Finish(c, tidy, good)
      PROVE  d.proof = c.proof /\ d.lost = c.lost /\ d.evidence = c.evidence /\ d.exits = c.exits
  BY <1>4 DEF Finish, When, Run
<1>5. CASE d \in ControllerSteps(c) \cup LoseHandle(c)
  BY <1>5 DEF ControllerSteps, Attach, BootImps, BootHosts, SyncGuests, LoseHandle, When, Run
<1>6. ASSUME NEW flag \in BOOLEAN, NEW verdict \in Verdicts, d \in ControllerEnds(c, flag, verdict)
      PROVE  d.proof = c.proof /\ d.lost = c.lost /\ c.evidence = "none"
  BY <1>6 DEF ControllerEnds, StopClean, StopFailed, When, Run, Sound
<1>7. CASE d \in Accidents(c) \cup SimsExit(c) \cup Prune(c)
  BY <1>7, ZenonT(40) DEF Accidents, LauncherDies, ControlDies, SimsExit, Prune, When, Run
<1> QED BY <1>1, <1>2, <1>3, <1>4, <1>5, <1>6, <1>7 DEF Follows, LauncherEnds

ProofsKept == /\ ProvenIsNotLost'
              /\ \A p \in Ops : ShutdownProved(run[p]) => ShutdownProved(run'[p])

(* The processes of the runs, and everything else.                           *)
LEMMA RunsFollow ==
  ASSUME NEW o \in Ops, ProcessStep(o) \/ Environment(o), run \in [Ops -> Run]
  PROVE  \A p \in Ops : run'[p] = run[p] \/ Follows(run'[p], run[p])
<1> DEFINE c == run[o]
<1>1. PICK d : run' = [run EXCEPT ![o] = d] /\ Follows(d, c)
  <2>1. CASE LauncherLock(o)
    <3>1. run = [p \in Ops |-> run[p]]
      OBVIOUS
    <3> QED BY <2>1, <3>1 DEF LauncherLock, Follows
  <2>2. CASE LauncherEnd(o)
    BY <2>2 DEF LauncherEnd, Becomes, Follows
  <2>3. CASE ControllerEnd(o)
    BY <2>3 DEF ControllerEnd, Becomes, Follows
  <2>4. CASE LauncherStep(o) \/ ControllerStep(o)
    BY <2>4 DEF LauncherStep, ControllerStep, Becomes, Follows
  <2>5. CASE Environment(o)
    BY <2>5 DEF Environment, SignalledLaunch, ProcessDies, SurvivorsExit, PruneMedia,
       Becomes, Follows
  <2> QED BY <2>1, <2>2, <2>3, <2>4, <2>5 DEF ProcessStep
<1> QED BY <1>1

LEMMA ProofsAreKept ==
  ASSUME ProcessInv, ProvenIsNotLost, [Next]_vars
  PROVE  ProofsKept
<1>0. run \in [Ops -> Run] /\ \A p \in Ops : Sound(run[p])
  BY DEF ProcessInv, TypeOK, RunsOK, RunsAreSound
<1>1. CASE run' = run
  BY <1>1 DEF ProofsKept, ProvenIsNotLost
<1>2. ASSUME NEW o \in Ops, ProcessStep(o) \/ Environment(o) PROVE ProofsKept
  <2>1. \A p \in Ops : run'[p] = run[p] \/ Follows(run'[p], run[p])
    BY <1>0, <1>2, RunsFollow
  <2>2. ASSUME NEW p \in Ops
        PROVE  /\ run'[p].proof => ~run'[p].lost
               /\ ShutdownProved(run[p]) => ShutdownProved(run'[p])
    BY <1>0, <2>1, ProofsStay DEF ProvenIsNotLost
  <2> QED BY <2>2 DEF ProofsKept, ProvenIsNotLost
<1>3. ASSUME NEW o \in Ops, Spawn(o) PROVE ProofsKept
  <2>1. CASE run' = run
    BY <1>1, <2>1
  <2>2. CASE run' = [run EXCEPT ![o].launcher = "started"]
    <3>1. /\ run'[o] = [run[o] EXCEPT !.launcher = "started"]
          /\ \A p \in Ops \ {o} : run'[p] = run[p]
      BY <1>0, <2>2
    <3>2. /\ run'[o].proof = run[o].proof /\ run'[o].lost = run[o].lost
          /\ run'[o].evidence = run[o].evidence /\ run'[o].exits = run[o].exits
      BY <1>0, <3>1 DEF Run
    <3> QED BY <3>1, <3>2 DEF ProofsKept, ProvenIsNotLost, ShutdownProved
  <2> QED BY <1>3, <2>1, <2>2 DEF Spawn
<1>4. CASE PowerLoss
  <2>1. ASSUME NEW p \in Ops
        PROVE  /\ run'[p].proof = run[p].proof /\ run'[p].lost = run[p].lost
               /\ run'[p].evidence = run[p].evidence /\ run'[p].exits = run[p].exits
    <3>1. run'[p] = Halted(run[p])
      BY <1>4 DEF PowerLoss
    <3> QED BY <1>0, <3>1 DEF Halted, Run
  <2> QED BY <2>1 DEF ProofsKept, ProvenIsNotLost, ShutdownProved
<1>5. ASSUME NEW o \in Ops, OpStep(o), ~Spawn(o) PROVE run' = run
  BY <1>5 DEF OpStep, CreateStep, CreateLock, CreateRoot, CreateMetadata, CreateUnlock,
     LeaseStep, AcquireLease, OwnLease, ReleaseLease, SettleRelease, RunStep, LookUp, Judge,
     Examine, PublishStep, Admit, WriteManifest, FlushPending, Rename, FlushName, CopyMedia,
     SelectStep, Choose, VerifyTarget, Swap, Sync, Unwind
<1>6. ASSUME NEW o \in Ops, OpFault(o) PROVE run' = run
  BY <1>6 DEF OpFault, DisownLease, Forward, Raise, AbandonEnding, Kill
<1>7. CASE RecoverLease \/ RecoverBuildLock \/ UNCHANGED vars
  BY <1>1, <1>7 DEF RecoverLease, RecoverBuildLock, vars
<1> QED BY <1>1, <1>2, <1>3, <1>4, <1>5, <1>6, <1>7 DEF Next

------------------------------------------------------------------------------
(* The generations in one step.  What is published stays as it is; a name on *)
(* disk stays; only a rename publishes, and only what is published is named. *)
Settled(g) ==
  /\ Published(g)' => /\ disks'[g] = disks[g] /\ from'[g] = from[g]
                      /\ parentOf'[g] = parentOf[g] /\ (named[g] => named'[g])
                      /\ Published(g) \/ \E o \in Publishers : Rename(o) /\ g = target[o]
  /\ named'[g] => named[g] \/ Published(g)
  /\ place'[g] = "absent" => \A m \in Media : disks'[g][m] = "absent"

(* Only a publisher changes its own generation, and only while it copies it. *)
Spared(p, o) ==
  p # o /\ pc[p] \in Copying =>
    disks'[target[p]] = disks[target[p]] /\ from'[target[p]] = from[target[p]]

LEMMA UntouchedIsSettled ==
  ASSUME UNCHANGED <<place, disks, from, parentOf, named>>, AbsentIsEmpty
  PROVE  /\ \A g \in Gens : Settled(g)
         /\ \A p, o \in Ops : Spared(p, o)
<1>1. ASSUME NEW g \in Gens PROVE Settled(g)
  BY DEF Settled, Published, AbsentIsEmpty
<1>2. \A p, o \in Ops : Spared(p, o)
  BY DEF Spared
<1> QED BY <1>1, <1>2

LEMMA PublishSettles ==
  ASSUME StoreInv, AbsentIsEmpty, NEW o \in Ops, PublishStep(o) \/ Unwind(o)
  PROVE  /\ \A g \in Gens : Settled(g)
         /\ \A p \in Publishers : Spared(p, o)
<1> DEFINE h == target[o]
<1>0. /\ pc = [p \in Ops |-> pc[p]]
      /\ place = [g \in Gens |-> place[g]] /\ disks = [g \in Gens |-> disks[g]]
      /\ parentOf = [g \in Gens |-> parentOf[g]] /\ from = [g \in Gens |-> from[g]]
      /\ \A g \in Gens : disks[g] \in [Media -> Holdings]
  BY DEF StoreInv, TypeOK, PathsOK, StoreOK
<1>1. /\ \A g \in Gens : named[g] => Published(g)
      /\ \A p \in Publishers : pc[p] \in Copying => target[p] \in Gens /\ ~Published(target[p])
      /\ \A p \in Publishers \ {o} : o \in Publishers /\ pc[p] \in Copying => target[p] # h
  BY OpsAssumption DEF StoreInv, PublishedIsComplete, WorkInProgress, TargetsDiffer, Published, Copying
<1>2. PublishStep(o) => o \in Publishers
  BY DEF PublishStep, Admit, WriteManifest, FlushPending, Rename, FlushName, CopyMedia,
     StoreInv, TypeOK, PathsOK, PathOf, Publishers, Ops, RestorerPC, Terminal
<1>3. CASE Admit(o)
  <2>1. UNCHANGED <<disks, from, parentOf, named>>
    BY <1>3 DEF Admit
  <2>2. \/ place' = place
        \/ \E g \in Gens : place[g] = "absent" /\ place' = [place EXCEPT ![g] = "pending"]
    BY <1>3 DEF Admit
  <2>3. \A g \in Gens : place'[g] = place[g] \/ (place[g] = "absent" /\ place'[g] = "pending")
    BY <1>0, <2>2
  <2> QED BY <2>1, <2>3 DEF Settled, Spared, Published, AbsentIsEmpty
<1>4. CASE FlushPending(o)
  <2>1. UNCHANGED <<place, disks, from, parentOf, named>>
    BY <1>4 DEF FlushPending
  <2> QED BY <2>1, UntouchedIsSettled DEF Publishers, Ops
<1>5. CASE FlushName(o)
  <2>1. /\ UNCHANGED <<place, disks, from, parentOf>>
        /\ named' = [g \in Gens |-> named[g] \/ place[g] = "published"]
    BY <1>5 DEF FlushName
  <2> QED BY <2>1 DEF Settled, Spared, Published, AbsentIsEmpty
<1>6. ASSUME NEW m \in Media, CopyMedia(o, m)
      PROVE  (\A g \in Gens : Settled(g)) /\ \A p \in Publishers : Spared(p, o)
  <2>1. CASE disks' = disks
    <3>1. UNCHANGED <<place, disks, from, parentOf, named>>
      BY <1>6, <2>1 DEF CopyMedia
    <3> QED BY <3>1, UntouchedIsSettled DEF Publishers, Ops
  <2>2. CASE disks' = [disks EXCEPT ![h][m] = Source(o)]
    <3>1. UNCHANGED <<place, from, parentOf, named>> /\ pc[o] = "copy" /\ o \in Publishers
      BY <1>2, <1>6 DEF CopyMedia, PublishStep
    <3>2. h \in Gens /\ place[h] = "pending"
      BY <3>1 DEF StoreInv, WorkInProgress
    <3>3. \A g \in Gens \ {h} : disks'[g] = disks[g]
      BY <1>0, <2>2
    <3> QED BY <1>1, <3>1, <3>2, <3>3 DEF Settled, Spared, Published, AbsentIsEmpty
  <2> QED BY <1>6, <2>1, <2>2 DEF CopyMedia
<1>7. CASE WriteManifest(o)
  <2>1. /\ UNCHANGED <<place, disks, named>> /\ pc[o] = "copy" /\ o \in Publishers
        /\ parentOf' = [parentOf EXCEPT ![h] = parent[o]]
        /\ from' = [from EXCEPT ![h] = o]
    BY <1>2, <1>7 DEF WriteManifest, PublishStep
  <2>2. h \in Gens /\ place[h] = "pending"
    BY <2>1 DEF StoreInv, WorkInProgress
  <2>3. \A g \in Gens \ {h} : parentOf'[g] = parentOf[g] /\ from'[g] = from[g]
    BY <1>0, <2>1
  <2> QED BY <1>1, <2>1, <2>2, <2>3 DEF Settled, Spared, Published, AbsentIsEmpty
<1>8. CASE Rename(o)
  <2>1. /\ UNCHANGED <<disks, from, parentOf, named>> /\ pc[o] = "rename" /\ o \in Publishers
        /\ place' = [place EXCEPT ![h] = "published"]
    BY <1>2, <1>8 DEF Rename, PublishStep
  <2>2. h \in Gens
    BY <2>1 DEF StoreInv, WorkInProgress
  <2>3. \A g \in Gens : place'[g] = place[g] \/ (g = h /\ place'[g] = "published")
    BY <1>0, <2>1, <2>2
  <2> QED BY <1>8, <2>1, <2>3 DEF Settled, Spared, Published, AbsentIsEmpty
<1>9. CASE Unwind(o)
  <2>1. UNCHANGED <<from, parentOf, named>>
    BY <1>9 DEF Unwind
  <2>2. CASE o \notin Restorers /\ h \in Gens /\ place[h] = "pending"
    <3>1. /\ place' = [place EXCEPT ![h] = "absent"]
          /\ disks' = [disks EXCEPT ![h] = [m \in Media |-> "absent"]]
      BY <1>9, <2>2 DEF Unwind
    <3>2. /\ place'[h] = "absent" /\ \A m \in Media : disks'[h][m] = "absent"
          /\ \A g \in Gens \ {h} : place'[g] = place[g] /\ disks'[g] = disks[g]
      BY <1>0, <2>2, <3>1
    <3>3. o \in Publishers
      BY <2>2 DEF Publishers, Ops
    <3> QED BY <1>1, <2>1, <3>2, <3>3 DEF Settled, Spared, Published, AbsentIsEmpty
  <2>3. CASE UNCHANGED <<place, disks>>
    BY <2>1, <2>3, UntouchedIsSettled DEF Publishers, Ops
  <2> QED BY <1>9, <2>2, <2>3 DEF Unwind
<1> QED BY <1>3, <1>4, <1>5, <1>6, <1>7, <1>8, <1>9 DEF PublishStep

LEMMA PowerLossSettles ==
  ASSUME StoreInv, AbsentIsEmpty, PowerLoss
  PROVE  \A g \in Gens : Settled(g)
<1>1. PICK kept \in SUBSET {g \in Gens : place[g] = "published" /\ ~named[g]},
           lost \in SUBSET {g \in Gens : place[g] = "published" /\ ~flushed[g]} :
        /\ place' = [g \in Gens |->
                       IF home' = "absent" THEN "absent"
                       ELSE IF place[g] = "published" /\ ~named[g] /\ g \notin kept
                       THEN "pending" ELSE place[g]]
        /\ named' = [g \in Gens |-> place'[g] = "published"]
        /\ disks' = [g \in Gens |->
                       IF g \in lost \/ home' = "absent"
                       THEN [m \in Media |-> "absent"] ELSE disks[g]]
  BY DEF PowerLoss
<1>2. UNCHANGED <<from, parentOf>>
  BY DEF PowerLoss
<1> SUFFICES ASSUME NEW g \in Gens PROVE Settled(g)
  OBVIOUS
<1>3. place[g] = "published" => g \notin lost
  BY DEF StoreInv, PublishedIsComplete, Complete
<1>4. CASE home' = "absent"
  <2>1. place'[g] = "absent" /\ ~named'[g] /\ \A m \in Media : disks'[g][m] = "absent"
    BY <1>1, <1>4
  <2> QED BY <2>1 DEF Settled, Published
<1>5. CASE home' # "absent"
  <2>1. /\ place'[g] = "published" => place[g] = "published"
        /\ place'[g] = "absent" => place[g] = "absent"
        /\ named'[g] <=> place'[g] = "published"
    BY <1>1, <1>5
  <2>2. disks'[g] = disks[g]
    BY <1>1, <1>3, <1>5
  <2> QED BY <1>2, <2>1, <2>2 DEF Settled, Published, AbsentIsEmpty
<1> QED BY <1>4, <1>5

(* The other steps do not touch the generations. *)
LEMMA OthersSettle ==
  ASSUME AbsentIsEmpty, NEW o \in Ops,
         \/ CreateStep(o) \/ LeaseStep(o) \/ RunStep(o) \/ SelectStep(o) \/ OpFault(o)
         \/ ProcessStep(o) \/ Environment(o) \/ RecoverLease \/ RecoverBuildLock
         \/ UNCHANGED vars
  PROVE  (\A g \in Gens : Settled(g)) /\ \A p \in Publishers : Spared(p, o)
<1>1. UNCHANGED store
  BY DEF CreateStep, CreateLock, CreateRoot, CreateMetadata, CreateUnlock, LeaseStep,
     AcquireLease, OwnLease, ReleaseLease, SettleRelease, RunStep, LookUp, Spawn, Judge,
     Examine, SelectStep, Choose, VerifyTarget, Swap, Sync, OpFault, DisownLease, Forward,
     Raise, AbandonEnding, Kill, ProcessStep, LauncherLock, LauncherStep, LauncherEnd,
     ControllerStep, ControllerEnd, Environment, SignalledLaunch, ProcessDies,
     SurvivorsExit, PruneMedia, RecoverLease, RecoverBuildLock, vars
<1> QED BY <1>1, UntouchedIsSettled DEF store, Publishers, Ops
------------------------------------------------------------------------------
(* Publishers. *)

LEMMA OthersCopy ==
  ASSUME SaveInv, ProofsKept, NEW o \in Ops,
         \A p \in Ops \ {o} : pc'[p] = pc[p] /\ target'[p] = target[p],
         \A p \in Publishers : Spared(p, o)
  PROVE  \A p \in Publishers \ {o} : CopyIsClean(p)'
<1> SUFFICES ASSUME NEW p \in Publishers \ {o} PROVE CopyIsClean(p)'
  OBVIOUS
<1>1. /\ CopyIsClean(p) /\ p \in Ops /\ Spared(p, o)
      /\ pc'[p] = pc[p] /\ target'[p] = target[p]
  BY DEF SaveInv, Publishers, Ops
<1>2. Copied(p)' = Copied(p)
  BY DEF Copied
<1> QED BY <1>1, <1>2 DEF CopyIsClean, Spared, Copying, ProofsKept

LEMMA OwnCopy ==
  ASSUME ProcessInv, StoreInv, SaveInv, ProofsKept, NEW o \in Publishers,
         OpStep(o) \/ OpFault(o)
  PROVE  CopyIsClean(o)'
<1> USE DEF Goto
<1> DEFINE h == target[o]
<1>0. /\ pc = [p \in Ops |-> pc[p]] /\ target = [p \in Ops |-> target[p]] /\ o \in Ops
      /\ disks = [g \in Gens |-> disks[g]] /\ from = [g \in Gens |-> from[g]]
      /\ \A g \in Gens : disks[g] \in [Media -> Holdings]
  BY DEF StoreInv, TypeOK, PathsOK, LocalsOK, StoreOK, Publishers, Ops
<1>1. CopyIsClean(o) /\ Copied(o)' = Copied(o)
  BY DEF SaveInv, Copied
<1>2. CASE Examine(o)
  <2>1. pc'[o] = "unwind" \/ (pc'[o] = "admit" /\ ShutdownProved(run[o]))
    BY <1>0, <1>2 DEF Examine, Accepted
  <2> QED BY <1>0, <2>1 DEF CopyIsClean, ProofsKept, Extending
<1>3. CASE Admit(o)
  <2>1. CASE pc'[o] = "unwind"
    BY <2>1 DEF CopyIsClean, Extending
  <2>2. CASE current = parent[o]
    <3>1. PICK g \in Gens : /\ place[g] = "absent" /\ target' = [target EXCEPT ![o] = g]
                            /\ pc' = [pc EXCEPT ![o] = "copy"]
      BY <1>3, <2>2 DEF Admit
    <3>2. target'[o] = g /\ pc'[o] = "copy" /\ disks' = disks /\ pc[o] = "admit"
      BY <1>0, <1>3, <3>1 DEF Admit
    <3>3. \A m \in Media : disks[g][m] = "absent"
      BY <3>1 DEF SaveInv, AbsentIsEmpty
    <3>4. o \in Runners => ShutdownProved(run'[o])
      BY <1>0, <1>1, <3>2 DEF CopyIsClean, Extending, ProofsKept
    <3> QED BY <3>2, <3>3, <3>4 DEF CopyIsClean
  <2> QED BY <1>0, <1>3, <2>1, <2>2 DEF Admit
<1>4. ASSUME NEW m \in Media, CopyMedia(o, m) PROVE CopyIsClean(o)'
  <2>1. CASE pc'[o] = "unwind"
    BY <2>1 DEF CopyIsClean, Extending
  <2>2. CASE Source(o) # "pruned"
    <3>1. /\ pc[o] = "copy" /\ pc'[o] = "copy" /\ UNCHANGED <<target, from>>
          /\ disks' = [disks EXCEPT ![h][m] = Source(o)]
      BY <1>4, <2>2 DEF CopyMedia, local
    <3>2. Source(o) = Copied(o)
      <4>1. CASE o \in Creators
        BY <4>1 DEF Source, Copied
      <4>2. CASE o \notin Creators
        <5>1. o \in Runners /\ run[o].proof /\ Sound(run[o])
          BY <1>0, <1>1, <3>1, <4>2 DEF CopyIsClean, Extending, Publishers, ShutdownProved,
             ProcessInv, RunsAreSound
        <5> QED BY <2>2, <4>2, <5>1 DEF Source, Copied, Sound
      <4> QED BY <4>1, <4>2
    <3>3. h \in Gens
      BY <3>1 DEF StoreInv, WorkInProgress
    <3>4. \A n \in Media : disks'[h][n] = disks[h][n] \/ disks'[h][n] = Copied(o)
      BY <1>0, <3>1, <3>2, <3>3
    <3>5. o \in Runners => ShutdownProved(run'[o])
      BY <1>0, <1>1, <3>1 DEF CopyIsClean, Extending, ProofsKept
    <3> QED BY <1>1, <3>1, <3>4, <3>5 DEF CopyIsClean
  <2> QED BY <1>0, <1>4, <2>1, <2>2 DEF CopyMedia
<1>5. CASE WriteManifest(o)
  <2>1. /\ pc[o] = "copy" /\ pc'[o] = "flush" /\ UNCHANGED <<target, disks>>
        /\ from' = [from EXCEPT ![h] = o]
    BY <1>0, <1>5 DEF WriteManifest, local
  <2>2. h \in Gens
    BY <2>1 DEF StoreInv, WorkInProgress
  <2>3. from'[h] = o
    BY <1>0, <2>1, <2>2
  <2>4. o \in Runners => ShutdownProved(run'[o])
    BY <1>0, <1>1, <2>1 DEF CopyIsClean, Extending, ProofsKept
  <2> QED BY <1>1, <2>1, <2>3, <2>4 DEF CopyIsClean
<1>6. CASE FlushPending(o) \/ Rename(o) \/ FlushName(o) \/ VerifyTarget(o)
  <2>1. /\ UNCHANGED <<target, disks, from>>
        /\ \/ pc[o] = "flush" /\ pc'[o] = "rename"
           \/ pc[o] \in Extending /\ pc'[o] \in {"name", "verify", "swap", "unwind"}
    BY <1>0, <1>6 DEF FlushPending, Rename, FlushName, VerifyTarget, local, store, Extending
  <2>2. o \in Runners => ShutdownProved(run'[o]) \/ pc'[o] = "unwind"
    BY <1>0, <1>1, <2>1 DEF CopyIsClean, Extending, ProofsKept
  <2> QED BY <1>1, <2>1, <2>2 DEF CopyIsClean, Extending
<1>7. CASE CreateStep(o) \/ LeaseStep(o) \/ LookUp(o) \/ Spawn(o) \/ Judge(o)
           \/ Swap(o) \/ Sync(o) \/ Unwind(o) \/ OpFault(o)
  <2>1. \/ pc'[o] \notin Extending
        \/ pc'[o] = "admit" /\ CreateMetadata(o)
    BY <1>0, <1>7 DEF CreateStep, CreateLock, CreateRoot, CreateMetadata, CreateUnlock,
       LeaseStep, AcquireLease, OwnLease, ReleaseLease, SettleRelease, LookUp, Spawn, Judge,
       Swap, Sync, Unwind, OpFault, DisownLease, Forward, Raise, AbandonEnding, Kill,
       Extending
  <2>2. CreateMetadata(o) => o \notin Runners
    BY <1>0, OpsAssumption DEF CreateMetadata, StoreInv, TypeOK, PathsOK, PathOf, RunnerPC, Terminal
  <2> QED BY <2>1, <2>2 DEF CopyIsClean, Extending
<1>8. ~Choose(o)
  BY <1>0 DEF Choose, StoreInv, TypeOK, PathsOK, PathOf, CreatorPC, RunnerPC, Terminal,
     Publishers
<1> QED BY <1>2, <1>3, <1>4, <1>5, <1>6, <1>7, <1>8
        DEF OpStep, RunStep, PublishStep, SelectStep
------------------------------------------------------------------------------
(* Saves. *)

(* What one step gives: the invariants before and after it, and what the     *)
(* lemmas above say of it.                                                   *)
Stepping ==
  /\ ProcessInv /\ ProcessInv' /\ StoreInv /\ StoreInv' /\ PointerInv /\ SaveInv
  /\ ProofsKept /\ SavesKept
  /\ \A g \in Gens : Settled(g)

LEMMA OnDiskStays ==
  ASSUME Stepping PROVE \A g \in Gens : OnDisk(g) => OnDisk(g)'
<1> SUFFICES ASSUME NEW g \in Gens, OnDisk(g) PROVE OnDisk(g)'
  OBVIOUS
<1>1. place'[g] = "published" /\ Settled(g)
  BY DEF Stepping, SavesKept, OnDisk, Verified
<1>2. Complete(g)'
  BY <1>1 DEF Stepping, StoreInv, PublishedIsComplete
<1> QED BY <1>1, <1>2 DEF OnDisk, Verified, Complete, Settled, Published

(* The save a rename makes. *)
LEMMA NewSave ==
  ASSUME Stepping, NEW o \in Publishers, Rename(o), ~EarlyRollback
  PROVE  LET h == target[o]
         IN /\ h \in Gens /\ from[h] = o
            /\ \/ /\ o \in Creators /\ parentOf[h] = NoGen
                  /\ \A m \in Media : disks[h][m] = "seed"
                  /\ \A g \in Gens : ~Published(g)
               \/ /\ o \in Runners /\ OnDisk(parentOf[h]) /\ parentOf[h] = current
                  /\ current \in Gens
                  /\ \A m \in Media : disks[h][m] = "synced"
                  /\ ShutdownProved(run[o])
<1> DEFINE h == target[o]
<1>1. pc[o] = "rename" /\ o \in Ops
  BY DEF Rename, Publishers, Ops
<1>2. h \in Gens /\ place[h] = "pending" /\ \A m \in Media : disks[h][m] # "absent"
  BY <1>1 DEF Stepping, StoreInv, WorkInProgress
<1>3. /\ CopyIsClean(o) /\ from[h] = o
      /\ \A m \in Media : disks[h][m] \in {"absent", Copied(o)}
  BY <1>1 DEF Stepping, SaveInv, CopyIsClean
<1>4. ParentStands(o) /\ parentOf[h] = parent[o]
  BY <1>1 DEF Stepping, PointerInv, ParentStands, Extending
<1>5. \A m \in Media : disks[h][m] = Copied(o)
  BY <1>2, <1>3
<1>6. CASE o \in Creators
  <2>1. \A g \in Gens : ~Published(g)
    BY <1>1, <1>2, <1>6 DEF Stepping, PointerInv, SeedComesFirst, CreatorPC, Published
  <2> QED BY <1>2, <1>3, <1>4, <1>5, <1>6, <2>1 DEF ParentStands, Copied
<1>7. CASE o \in Runners
  <2>1. current = parent[o] /\ current \in Gens
    BY <1>1, <1>4, <1>7 DEF ParentStands, Extending
  <2>2. OnDisk(current)
    BY <2>1, OpsAssumption DEF Stepping, StoreInv, CurrentIsComplete
  <2>3. ShutdownProved(run[o])
    BY <1>1, <1>3, <1>7 DEF CopyIsClean, Extending
  <2> QED BY <1>2, <1>3, <1>4, <1>5, <1>7, <2>1, <2>2, <2>3, OpsAssumption DEF Copied
<1> QED BY <1>6, <1>7 DEF Publishers

LEMMA SavesStayClean ==
  ASSUME Stepping, ~EarlyRollback
  PROVE  (SavedRunsAreProved /\ SavesAreClean /\ SeedStaysFirst)'
<1>1. \A o \in Ops : ShutdownProved(run'[o]) => run'[o].proof /\ ~run'[o].sims
  BY DEF Stepping, ProcessInv, RunsAreSound, Sound, ShutdownProved, ProofsKept, ProvenIsNotLost
<1>2. SavedRunsAreProved /\ SavesAreClean /\ SeedStaysFirst
  BY DEF Stepping, SaveInv
<1>3. /\ Runners \subseteq Ops
      /\ \A o \in Runners : ShutdownProved(run[o]) => ShutdownProved(run'[o])
  BY DEF Stepping, ProofsKept, Ops
<1>4. ASSUME NEW g \in Gens, Published(g)'
      PROVE  /\ from'[g] \in Runners => ShutdownProved(run'[from'[g]])
             /\ \/ /\ from'[g] \in Creators /\ parentOf'[g] = NoGen
                   /\ \A m \in Media : disks'[g][m] = "seed"
                \/ /\ from'[g] \in Runners /\ OnDisk(parentOf[g])'
                   /\ \A m \in Media : disks'[g][m] = "synced"
                   /\ run'[from'[g]].proof /\ ~run'[from'[g]].sims
  <2>0. /\ disks'[g] = disks[g] /\ from'[g] = from[g] /\ parentOf'[g] = parentOf[g]
        /\ Published(g) \/ \E o \in Publishers : Rename(o) /\ g = target[o]
    BY <1>4 DEF Stepping, Settled
  <2> DEFINE Clean ==
        /\ from[g] \in Runners => ShutdownProved(run[from[g]])
        /\ \/ /\ from[g] \in Creators /\ parentOf[g] = NoGen
              /\ \A m \in Media : disks[g][m] = "seed"
           \/ /\ from[g] \in Runners /\ OnDisk(parentOf[g])
              /\ \A m \in Media : disks[g][m] = "synced"
  <2>1. Clean
    <3>1. CASE Published(g)
      BY <1>2, <3>1 DEF SavedRunsAreProved, SavesAreClean, Published
    <3>2. ASSUME NEW o \in Publishers, Rename(o), g = target[o]
          PROVE  Clean
      BY <3>2, NewSave, OpsAssumption
    <3> QED BY <2>0, <3>1, <3>2
  <2>2. from[g] \in Runners => ShutdownProved(run'[from[g]])
    BY <1>3, <2>1
  <2>3. OnDisk(parentOf[g]) => OnDisk(parentOf[g])'
    <3>1. OnDisk(parentOf[g]) => parentOf[g] \in Gens
      BY DEF OnDisk, Verified
    <3> QED BY <2>0, <3>1, OnDiskStays
  <2> QED BY <1>1, <1>3, <2>0, <2>1, <2>2, <2>3
<1>5. ASSUME NEW g \in Gens, NEW h \in Gens, Published(g)', Published(h)', g # h,
             from'[g] \in Creators
      PROVE  named'[g] /\ from'[h] \notin Creators
  <2>0. /\ from'[g] = from[g] /\ from'[h] = from[h] /\ (named[g] => named'[g])
        /\ Published(g) \/ \E o \in Publishers : Rename(o) /\ g = target[o]
        /\ Published(h) \/ \E o \in Publishers : Rename(o) /\ h = target[o]
    BY <1>5 DEF Stepping, Settled
  <2>1. CASE Published(g) /\ Published(h)
    BY <1>2, <1>5, <2>0, <2>1 DEF SeedStaysFirst, Published
  <2>2. ASSUME NEW o \in Publishers, Rename(o), g = target[o]
        PROVE  FALSE
    <3>1. o \in Creators /\ ~Published(h)
      BY <1>5, <2>0, <2>2, NewSave, OpsAssumption
    <3>2. PICK p \in Publishers : Rename(p) /\ h = target[p]
      BY <2>0, <3>1
    <3>3. o = p
      <4>1. p \in Creators
        <5>1. pc[p] = "rename" /\ pc[o] = "rename"
          BY <2>2, <3>2 DEF Rename
        <5>2. pc'[o] # "rename" /\ pc' = [pc EXCEPT ![p] = "name"] /\ o \in Ops
          BY <2>2 , <3>2 DEF Rename, Goto, Publishers, Ops, Stepping, StoreInv, TypeOK, PathsOK
        <5> QED BY <3>1, <5>1, <5>2 DEF Stepping, StoreInv, TypeOK, PathsOK
      <4> QED BY <2>2, <3>1, <3>2, <4>1 DEF Rename, Stepping, ProcessInv, BuildLockExcludes,
              CreatorPC, Publishers, Ops
    <3> QED BY <1>5, <2>2, <3>2, <3>3
  <2>3. ASSUME NEW o \in Publishers, Rename(o), h = target[o], Published(g)
        PROVE  named'[g] /\ from'[h] \notin Creators
    <3>1. o \in Runners /\ OnDisk(current) /\ current \in Gens /\ from[h] = o
      BY <2>3, NewSave
    <3>2. named[g]
      <4>1. CASE g = current
        BY <3>1, <4>1 DEF OnDisk
      <4>2. CASE g # current
        BY <1>2, <1>5, <2>0, <2>3, <3>1, <4>2 DEF SeedStaysFirst, Published, OnDisk, Verified
      <4> QED BY <4>1, <4>2
    <3> QED BY <2>0, <3>1, <3>2, OpsAssumption
  <2> QED BY <2>0, <2>1, <2>2, <2>3
<1>6. SavesAreClean' /\ SavedRunsAreProved'
  BY <1>4 DEF SavesAreClean, SavedRunsAreProved, Published
<1>7. SeedStaysFirst'
  BY <1>5 DEF SeedStaysFirst, Published
<1> QED BY <1>6, <1>7

LEMMA PointerStays ==
  ASSUME StoreInv, PointerInv, PointerRemains, [Next]_vars
  PROVE  PointerRemains'
<1>1. CASE UNCHANGED <<current, durable>>
  BY <1>1 DEF PointerRemains
<1>2. ASSUME durable'.current = current' PROVE PointerRemains'
  BY <1>2 DEF PointerRemains
<1>3. ASSUME NEW o \in Ops, OwnLease(o) \/ SettleRelease(o) \/ Sync(o) \/ FlushPending(o) \/ Swap(o)
      PROVE  PointerRemains'
  <2>1. CASE OwnLease(o) \/ SettleRelease(o) \/ Sync(o)
    BY <1>2, <2>1 DEF OwnLease, SettleRelease, Sync, Root, root
  <2>2. CASE FlushPending(o)
    BY <2>2 DEF FlushPending, root, PointerRemains, StoreInv, TypeOK, LocksOK
  <2>3. CASE Swap(o)
    <3>1. target[o] \in Gens
      BY <2>3 DEF Swap, PointerInv, MoveStands
    <3> QED BY <2>3, <3>1, OpsAssumption DEF Swap, PointerRemains
  <2> QED BY <1>3, <2>1, <2>2, <2>3
<1>4. CASE PowerLoss
  BY <1>2, <1>4 DEF PowerLoss, Root
<1>5. ASSUME NEW o \in Ops,
             \/ OpStep(o) /\ ~OwnLease(o) /\ ~SettleRelease(o) /\ ~Sync(o)
                /\ ~FlushPending(o) /\ ~Swap(o)
             \/ OpFault(o) \/ ProcessStep(o) \/ Environment(o)
      PROVE  UNCHANGED <<current, durable>>
  BY <1>5 DEF OpStep, CreateStep, CreateLock, CreateRoot, CreateMetadata, CreateUnlock, LeaseStep,
     AcquireLease, ReleaseLease, RunStep, LookUp, Spawn, Judge, Examine, PublishStep, Admit,
     WriteManifest, Rename, FlushName, CopyMedia, SelectStep, Choose, VerifyTarget, Unwind,
     OpFault, DisownLease, Forward, Raise, AbandonEnding, Kill, ProcessStep, LauncherLock,
     LauncherStep, LauncherEnd, ControllerStep, ControllerEnd, Environment, SignalledLaunch,
     ProcessDies, SurvivorsExit, PruneMedia, root
<1>6. CASE RecoverLease \/ RecoverBuildLock \/ UNCHANGED vars
  BY <1>1, <1>6 DEF RecoverLease, RecoverBuildLock, root, vars
<1> QED BY <1>1, <1>3, <1>4, <1>5, <1>6 DEF Next
(* The generations and the publishers together.                              *)
LEMMA StepsSettle ==
  ASSUME ProcessInv, StoreInv, SaveInv, ProofsKept, [Next]_vars
  PROVE  /\ \A g \in Gens : Settled(g)
         /\ \A p \in Publishers : CopyIsClean(p)'
<1>0. AbsentIsEmpty /\ \A p \in Publishers : CopyIsClean(p)
  BY DEF SaveInv
<1>1. ASSUME NEW o \in Ops, OpStep(o) \/ OpFault(o)
      PROVE  /\ \A g \in Gens : Settled(g)
             /\ \A p \in Publishers : CopyIsClean(p)'
  <2>1. (\A g \in Gens : Settled(g)) /\ \A p \in Publishers : Spared(p, o)
    BY <1>0, <1>1, PublishSettles, OthersSettle DEF OpStep
  <2>2. pc = [p \in Ops |-> pc[p]] /\ target = [p \in Ops |-> target[p]]
    BY DEF StoreInv, TypeOK, PathsOK, LocalsOK
  <2>3. \A p \in Ops \ {o} : pc'[p] = pc[p]
    BY <1>1, <2>2 DEF OpStep, CreateStep, CreateLock, CreateRoot, CreateMetadata, CreateUnlock,
       LeaseStep, AcquireLease, OwnLease, ReleaseLease, SettleRelease, RunStep, LookUp, Spawn,
       Judge, Examine, PublishStep, Admit, WriteManifest, FlushPending, Rename, FlushName,
       CopyMedia, SelectStep, Choose, VerifyTarget, Swap, Sync, Unwind, OpFault, DisownLease,
       Forward, Raise, AbandonEnding, Kill, Goto
  <2>4. \A p \in Ops \ {o} : target'[p] = target[p]
    BY <1>1, <2>2 DEF OpStep, CreateStep, CreateLock, CreateRoot, CreateMetadata, CreateUnlock,
       LeaseStep, AcquireLease, OwnLease, ReleaseLease, SettleRelease, RunStep, LookUp, Spawn,
       Judge, Examine, PublishStep, Admit, WriteManifest, FlushPending, Rename, FlushName,
       CopyMedia, SelectStep, Choose, VerifyTarget, Swap, Sync, Unwind, OpFault, DisownLease,
       Forward, Raise, AbandonEnding, Kill, local
  <2>5. \A p \in Publishers \ {o} : CopyIsClean(p)'
    BY <2>1, <2>3, <2>4, OthersCopy
  <2>6. o \in Publishers => CopyIsClean(o)'
    BY <1>1, OwnCopy
  <2> QED BY <2>1, <2>5, <2>6
<1>2. CASE \/ \E o \in Ops : ProcessStep(o) \/ Environment(o)
           \/ RecoverLease \/ RecoverBuildLock \/ UNCHANGED vars
  <2>1. UNCHANGED <<pc, target, store>>
    BY <1>2 DEF ProcessStep, LauncherLock, LauncherStep, LauncherEnd, ControllerStep,
       ControllerEnd, Environment, SignalledLaunch, ProcessDies, SurvivorsExit, PruneMedia,
       RecoverLease, RecoverBuildLock, vars, local
  <2>2. \A g \in Gens : Settled(g)
    BY <1>0, <2>1, UntouchedIsSettled DEF store
  <2>3. ASSUME NEW p \in Publishers PROVE CopyIsClean(p)'
    <3>1. CopyIsClean(p) /\ p \in Ops /\ Copied(p)' = Copied(p)
      BY <1>0 DEF Publishers, Ops, Copied
    <3> QED BY <2>1, <3>1 DEF CopyIsClean, ProofsKept, store
  <2> QED BY <2>2, <2>3
<1>3. CASE PowerLoss
  <2>1. \A p \in Publishers : pc'[p] \in Terminal \cup {"start"}
    BY <1>3 DEF PowerLoss, Terminal, Publishers, Ops
  <2>2. \A p \in Publishers : CopyIsClean(p)'
    BY <2>1 DEF CopyIsClean, Extending, Terminal
  <2> QED BY <1>0, <1>3, <2>2, PowerLossSettles
<1> QED BY <1>1, <1>2, <1>3 DEF Next

LEMMA InitSaves == Init => SaveInv
<1> SUFFICES ASSUME Init PROVE SaveInv
  OBVIOUS
<1>1. ProvenIsNotLost
  BY DEF Init, ProvenIsNotLost, Unborn
<1>2. AbsentIsEmpty /\ PointerRemains
  BY DEF Init, AbsentIsEmpty, PointerRemains, Root
<1>3. \A o \in Publishers : CopyIsClean(o)
  BY DEF Init, CopyIsClean, Publishers, Ops, Extending
<1>4. SavedRunsAreProved /\ SavesAreClean /\ SeedStaysFirst
  BY DEF Init, SavedRunsAreProved, SavesAreClean, SeedStaysFirst
<1> QED BY <1>1, <1>2, <1>3, <1>4 DEF SaveInv

LEMMA NextStepping ==
  ASSUME ProcessInv, StoreInv, PointerInv, SaveInv, [Next]_vars
  PROVE  Stepping /\ SaveInv'
<1>1. ProcessInv' /\ StoreInv' /\ SavesKept
  <2>1. ProcessInv'
    BY NextProcess
  <2>2. TypeOK'
    BY <2>1 DEF ProcessInv
  <2> QED BY <2>1, <2>2, NextStore
<1>2. ProofsKept
  BY ProofsAreKept DEF SaveInv
<1>3. (\A g \in Gens : Settled(g)) /\ \A p \in Publishers : CopyIsClean(p)'
  BY <1>2, StepsSettle
<1>4. Stepping
  BY <1>1, <1>2, <1>3 DEF Stepping
<1>5. ~EarlyRollback => (SavedRunsAreProved /\ SavesAreClean /\ SeedStaysFirst)'
  BY <1>4, SavesStayClean
<1>6. PointerRemains'
  BY PointerStays DEF SaveInv
<1>7. AbsentIsEmpty'
  BY <1>3 DEF AbsentIsEmpty, Settled
<1> QED BY <1>2, <1>3, <1>4, <1>5, <1>6, <1>7 DEF SaveInv, ProofsKept

LEMMA SaveInvHolds == Spec => []SaveInv
<1>1. ProcessInv /\ StoreInv /\ PointerInv /\ SaveInv /\ [Next]_vars => SaveInv'
  BY NextStepping
<1> QED BY <1>1, InitSaves, ProcessInvHolds, StoreInvHolds, PointerInvHolds, PTL DEF Spec

(* Every save consists of the synchronized disks of one run whose guests     *)
(* were both shut down, on a complete parent that is on disk, or of the seed *)
(* images (guest_workspace.py, publish; workspace.py, shutdown_proved).      *)
THEOREM SavesAreAlwaysClean ==
  ASSUME ~EarlyRollback
  PROVE  Spec => []SavesAreClean
<1>1. SaveInv => SavesAreClean
  BY DEF SaveInv
<1> QED BY <1>1, SaveInvHolds, PTL

------------------------------------------------------------------------------
(* The refinement. *)

Ancestor == [g \in Gens |-> IF g \in Saves THEN parentOf[g] ELSE NoGen]

(* The pointer on disk moves only to a save.                                 *)
LEMMA SelectionMoves ==
  ASSUME Stepping, SaveInv', ~EarlyRollback, [Next]_vars
  PROVE  durable'.current = durable.current \/ durable'.current \in Saves'
<1>1. durable'.current = NoGen \/ durable'.current \in Saves'
  BY DEF Stepping, StoreInv, CurrentIsComplete, OnDisk, Verified, Saves
<1>2. durable.current # NoGen => durable'.current # NoGen
  <2> SUFFICES ASSUME durable.current # NoGen PROVE durable'.current # NoGen
    OBVIOUS
  <2>1. current # NoGen
    BY DEF Stepping, SaveInv, PointerRemains
  <2>2. CASE PowerLoss
    <3>1. home' # "absent"
      <4>1. OnDisk(durable.current)
        BY DEF Stepping, StoreInv, CurrentIsComplete
      <4>2. home # "absent" /\ durable.home # "absent"
        BY <4>1 DEF Stepping, StoreInv, RootComesFirst, OnDisk, Verified
      <4> QED BY <2>2, <4>2 DEF PowerLoss
    <3> QED BY <2>1, <2>2, <3>1 DEF PowerLoss, Root
  <2>3. ASSUME NEW o \in Ops, OwnLease(o) \/ SettleRelease(o) \/ Sync(o)
        PROVE  durable'.current # NoGen
    BY <2>1, <2>3 DEF OwnLease, SettleRelease, Sync, Root
  <2>4. ASSUME NEW o \in Ops, FlushPending(o) PROVE durable'.current # NoGen
    BY <2>4 DEF FlushPending, Stepping, StoreInv, TypeOK, LocksOK
  <2>5. ASSUME NEW o \in Ops,
               \/ OpStep(o) /\ ~OwnLease(o) /\ ~SettleRelease(o) /\ ~Sync(o) /\ ~FlushPending(o)
               \/ OpFault(o) \/ ProcessStep(o) \/ Environment(o)
        PROVE  durable' = durable
    BY <2>5 DEF OpStep, CreateStep, CreateLock, CreateRoot, CreateMetadata, CreateUnlock,
       LeaseStep, AcquireLease, ReleaseLease, RunStep, LookUp, Spawn, Judge, Examine,
       PublishStep, Admit, WriteManifest, Rename, FlushName, CopyMedia, SelectStep, Choose,
       VerifyTarget, Swap, Unwind, OpFault, DisownLease, Forward, Raise, AbandonEnding, Kill,
       ProcessStep, LauncherLock, LauncherStep, LauncherEnd, ControllerStep, ControllerEnd,
       Environment, SignalledLaunch, ProcessDies, SurvivorsExit, PruneMedia
  <2>6. CASE RecoverLease \/ RecoverBuildLock \/ UNCHANGED vars
    BY <2>6 DEF RecoverLease, RecoverBuildLock, vars
  <2> QED BY <2>2, <2>3, <2>4, <2>5, <2>6 DEF Next
<1> QED BY <1>1, <1>2

LEMMA StepsKeepHistory ==
  ASSUME Stepping, SaveInv', ~EarlyRollback, [Next]_vars
  PROVE  [History!Next]_(History!vars)
<1> DEFINE new == Saves' \ Saves
<1>1. Saves \subseteq Saves'
  BY DEF Stepping, SavesKept, Settled, Saves, Published
<1>2. \A g \in Gens \ new : Ancestor'[g] = Ancestor[g]
  <2> SUFFICES ASSUME NEW g \in Gens \ new PROVE Ancestor'[g] = Ancestor[g]
    OBVIOUS
  <2>1. g \in Saves' <=> g \in Saves
    BY <1>1
  <2>2. g \in Saves => parentOf'[g] = parentOf[g]
    BY DEF Stepping, SavesKept, Saves
  <2> QED BY <2>1, <2>2 DEF Ancestor
<1>3. \A g \in new : /\ g \in Gens /\ g \notin Saves /\ Published(g) /\ ~named[g]
                     /\ Ancestor'[g] = parentOf[g]
  <2> SUFFICES ASSUME NEW g \in new
               PROVE  /\ g \in Gens /\ g \notin Saves /\ Published(g) /\ ~named[g]
                      /\ Ancestor'[g] = parentOf[g]
    OBVIOUS
  <2>1. g \in Gens /\ Published(g)' /\ named'[g] /\ Settled(g)
    BY DEF Saves, Stepping, Published
  <2>2. Published(g) /\ ~named[g]
    BY <2>1 DEF Settled, Saves, Published, Stepping, StoreInv, PublishedIsComplete
  <2> QED BY <2>1, <2>2 DEF Settled, Ancestor
<1>4. \A g \in new : \/ from[g] \in Creators /\ Ancestor'[g] = NoGen
                     \/ from[g] \in Runners /\ Ancestor'[g] \in Saves
  BY <1>3 DEF Stepping, SaveInv, SavesAreClean, Published, OnDisk, Verified, Saves
<1>5. ASSUME NEW g \in new, from[g] \in Creators PROVE new = {g} /\ Saves = {}
  <2>1. ASSUME NEW h \in Gens, h # g, Published(h) PROVE FALSE
    BY <1>3, <1>5, <2>1 DEF Stepping, SaveInv, SeedStaysFirst, Published
  <2> QED BY <1>3, <2>1 DEF Saves, Published
<1>6. CASE new = {}
  <2>1. Saves' = Saves
    BY <1>1, <1>6
  <2>2. Ancestor' = Ancestor
    BY <1>2, <1>6 DEF Ancestor
  <2> QED BY <2>1, <2>2, SelectionMoves
          DEF History!Next, History!Select, History!vars, Ancestor
<1>7. CASE new # {}
  <2>1. new \in (SUBSET (Gens \ Saves)) \ {{}} /\ Saves' = Saves \cup new
    BY <1>1, <1>3, <1>7
  <2>2. CASE Saves = {}
    <3>1. PICK g \in new : TRUE
      BY <1>7
    <3>2. from[g] \in Creators /\ Ancestor'[g] = NoGen /\ new = {g} /\ g \in Gens
      BY <1>3, <1>4, <1>5, <2>2, <3>1
    <3>3. History!Keep(new)
      BY <1>2, <2>1, <2>2, <3>2 DEF History!Keep, Ancestor
    <3> QED BY <2>1, <3>3, SelectionMoves DEF History!Next, History!Select, History!Keep
  <2>3. CASE Saves # {}
    <3>1. \A g \in new : Ancestor'[g] \in Saves
      BY <1>4, <1>5, <2>3
    <3>2. History!Keep(new)
      BY <1>2, <2>1, <2>3, <3>1 DEF History!Keep, Ancestor
    <3> QED BY <2>1, <3>2, SelectionMoves DEF History!Next, History!Select, History!Keep
  <2> QED BY <2>2, <2>3
<1> QED BY <1>6, <1>7

(* The durable side of a workspace is a history of saves, whatever is        *)
(* interrupted, killed or loses power (SaveHistory).                         *)
THEOREM HistoryIsAlwaysKept ==
  ASSUME ~EarlyRollback
  PROVE  Spec => KeepsHistory
<1>1. Init => History!Init
  <2> SUFFICES ASSUME Init PROVE History!Init
    OBVIOUS
  <2>1. Saves = {} /\ durable.current = NoGen
    BY DEF Init, Saves, Root
  <2> QED BY <2>1 DEF History!Init
<1>2. ProcessInv /\ StoreInv /\ PointerInv /\ SaveInv /\ [Next]_vars => [History!Next]_(History!vars)
  <2> SUFFICES ASSUME ProcessInv, StoreInv, PointerInv, SaveInv, [Next]_vars
               PROVE  [History!Next]_(History!vars)
    OBVIOUS
  <2>1. Stepping /\ SaveInv'
    BY NextStepping
  <2> QED BY <2>1, StepsKeepHistory
<1> QED BY <1>1, <1>2, ProcessInvHolds, StoreInvHolds, PointerInvHolds, SaveInvHolds, PTL
        DEF Spec, KeepsHistory, History!Spec

==============================================================================
