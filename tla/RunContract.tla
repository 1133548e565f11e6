----------------------------- MODULE RunContract -----------------------------
(***************************************************************************)
(* What one guest-workspace run looks like from outside: the launcher      *)
(* scripts/telnet-pdp11-its.sh, the controller it waits for, the           *)
(* simulators the controller owns, and the records the three leave in the  *)
(* result directory.  A run is a record, and each step a relation between  *)
(* a record c and its successor d, so that a module with many runs and a   *)
(* module that details a single run can both use them.                     *)
(*                                                                         *)
(* Abstracted: the wording of the records, hashes other than whether they  *)
(* match, and the reasons for which a step fails.                          *)
(***************************************************************************)

(* Progress of the launcher shell. *)
LauncherPhase == {"none",       \* not started
                  "started",    \* sourced runtime.sh, no lease taken yet
                  "locked",     \* holds <build>.lock
                  "claimed",    \* created the result directory
                  "recorded",   \* run.env names the workspace lease token
                  "staged",     \* copied and hashed the guest media
                  "waiting",    \* in the foreground wait for the controller
                  "over"}       \* exited or killed

Verdicts == {"none", "failed", "passed"}

Run ==
  [launcher : LauncherPhase,
   result   : {"none", "bare", "recorded"},     \* directory; token in run.env
   control  : {"none", "running", "ended"},     \* the controller process
   attach   : BOOLEAN,          \* host106-attach-only.simh exists
   hosts    : BOOLEAN,          \* run.env names a pdp11 or host106 process
   sims     : BOOLEAN,          \* some simulator of this run is alive
   lost     : BOOLEAN,          \* ... that the controller has no handle on
   media    : {"none", "staged", "dirty", "synced", "pruned"},
   proof    : BOOLEAN,          \* workspace-shutdown.json and its digest
   evidence : {"none", "passed", "failed"},     \* cleanup-evidence.txt
   exits    : BOOLEAN,          \* both guest simulators exited with status 0
   outcome  : Verdicts,         \* outcome.txt
   cleaned  : BOOLEAN,          \* cleanup.runtime.exit-status=0 in run.env
   finished : BOOLEAN,          \* run.env has its terminal records
   passed   : BOOLEAN,          \* ... and among them outcome=passed
   status   : {"none", "zero", "nonzero"}]      \* what child.wait() returns

Unborn ==
  [launcher |-> "none", result |-> "none", control |-> "none",
   attach |-> FALSE, hosts |-> FALSE, sims |-> FALSE, lost |-> FALSE,
   media |-> "none", proof |-> FALSE, evidence |-> "none", exits |-> FALSE,
   outcome |-> "none", cleaned |-> FALSE, finished |-> FALSE, passed |-> FALSE,
   status |-> "none"]

(* A process of the run is alive: the launcher, the controller, a simulator. *)
Live(c) == \/ c.launcher \notin {"none", "over"}
           \/ c.control = "running"
           \/ c.sims

(* The successors S of a step, if its guard holds. *)
When(guard, S) == IF guard THEN S ELSE {}

------------------------------------------------------------------------------
(* The launcher up to the controller.  Each step may instead fail: Abort.    *)

Claim(c) == When(c.launcher = "locked",
                 {[c EXCEPT !.launcher = "claimed", !.result = "bare"]})

Record(c) == When(c.launcher = "claimed",
                  {[c EXCEPT !.launcher = "recorded", !.result = "recorded"]})

Stage(c) == When(c.launcher = "recorded",
                 {[c EXCEPT !.launcher = "staged", !.media = "staged"]})

Drive(c) == When(c.launcher = "staged",
                 {[c EXCEPT !.launcher = "waiting", !.control = "running"]})

(* A failing launcher runs brfid_exit_trap: cleanup, which is tidy or leaves *)
(* something behind, then the terminal records if a manifest was claimed.    *)
Abort(c, tidy) ==
  When(c.launcher \in {"locked", "claimed", "recorded", "staged"},
       {[c EXCEPT !.launcher = "over", !.status = "nonzero",
                  !.finished = (c.result = "recorded"),
                  !.cleaned = (c.result = "recorded") /\ tidy]})

------------------------------------------------------------------------------
(* The controller.                                                           *)

Attach(c) == When(c.control = "running" /\ ~c.attach,
                  {[c EXCEPT !.attach = TRUE]})

(* The IMPs start first, the hosts after them; a host attaches the working   *)
(* media at once and writes to it from then on.                              *)
BootImps(c) == When(c.control = "running" /\ c.attach /\ ~c.sims,
                    {[c EXCEPT !.sims = TRUE]})

BootHosts(c) == When(c.control = "running" /\ c.sims /\ ~c.hosts /\ ~c.lost,
                     {[c EXCEPT !.hosts = TRUE, !.media = "dirty"]})

(* A signal between the fork of a simulator and the store of its handle: the *)
(* child lives on, unknown to the controller, which unwinds.                 *)
LoseHandle(c) ==
  When(c.control = "running" /\ c.attach /\ ~c.lost /\ ~c.proof,
       {[c EXCEPT !.sims = TRUE, !.lost = TRUE]})

(* Mutant: the proof is written on the guests' promise, before they stop. *)
ProveEarly(c) ==
  When(c.control = "running" /\ c.hosts /\ c.sims /\ ~c.lost /\ ~c.proof,
       {[c EXCEPT !.proof = TRUE]})

(* stop_its, stop_unix and save_shutdown_proof: both processors are stopped  *)
(* with their disks synchronized, so nothing writes after it.                *)
SyncGuests(c) ==
  When(c.control = "running" /\ c.hosts /\ c.sims /\ ~c.lost /\ ~c.proof,
       {[c EXCEPT !.proof = TRUE, !.media = "synced"]})

(* stop_and_record ended every process it has a handle on; outcome.txt       *)
(* follows, unless a signal comes first.  A signal between the end of a good *)
(* session and the guests' stop skips the latter: outcome.txt says passed,   *)
(* and there is no proof.                                                    *)
StopClean(c, exits, verdict) ==
  When(/\ c.control = "running" /\ c.attach
       /\ exits => c.hosts
       /\ verdict = "passed" => c.hosts /\ ~c.lost,
       {[c EXCEPT !.control = "ended", !.sims = c.lost, !.evidence = "passed",
                  !.exits = exits, !.outcome = verdict]})

(* stop_and_record failed: it records that, and raises before outcome.txt.   *)
StopFailed(c, left) ==
  When(/\ c.control = "running" /\ c.attach
       /\ c.lost => left
       /\ left => c.sims,
       {[c EXCEPT !.control = "ended", !.evidence = "failed", !.sims = left]})

(* The controller goes without stop_and_record: SIGKILL at any point, or an  *)
(* exception before its clean-up block is entered.                           *)
ControlDies(c) == When(c.control = "running", {[c EXCEPT !.control = "ended"]})

(* A simulator left behind exits, by itself or by the operator's hand.       *)
SimsExit(c) == When(c.sims /\ c.control = "ended", {[c EXCEPT !.sims = FALSE]})

------------------------------------------------------------------------------
(* The launcher after the controller: the evidence checks, brfid_cleanup and *)
(* brfid_finish_run_manifest.  A check may fail after a good session, and    *)
(* the clean-up may fail (a lock that cannot be removed).  A controller that *)
(* did not get to the proof was interrupted, and its status is not 0.        *)
Finish(c, tidy, good) ==
  When(/\ c.launcher = "waiting" /\ c.control = "ended"
       /\ good => tidy /\ c.outcome = "passed" /\ c.evidence = "passed" /\ c.proof,
       {[c EXCEPT !.launcher = "over", !.cleaned = tidy, !.finished = TRUE,
                  !.passed = good,
                  !.status = IF good THEN "zero" ELSE "nonzero"]})

LauncherDies(c) == When(c.launcher \notin {"none", "over"},
                        {[c EXCEPT !.launcher = "over", !.status = "nonzero"]})

(* prune-media.py --apply removes the rp03 images of a run it takes for      *)
(* completed: outcome.txt is there, or run.env has its terminal fields.      *)
CompletedRun(c) == c.outcome # "none" \/ c.finished

Prune(c) == When(c.media \notin {"none", "pruned"} /\ CompletedRun(c),
                 {[c EXCEPT !.media = "pruned"]})

(* The host stops: every process is gone.                                    *)
Halted(c) ==
  IF c.launcher = "none" THEN c
  ELSE [c EXCEPT !.launcher = "over", !.sims = FALSE,
                 !.control = IF c.control = "running" THEN "ended"
                             ELSE c.control,
                 !.status = IF c.status = "none" THEN "nonzero" ELSE c.status]

------------------------------------------------------------------------------
(* The two judgements scripts/workspace.py makes of the records.             *)

(* Mutant: a run whose hosts never started needs no further evidence. *)
CleanupAssumed(c) ==
  /\ c.result = "recorded" /\ c.cleaned
  /\ c.hosts => c.evidence = "passed"

(* cleanup_proved. *)
CleanupProved(c) ==
  /\ c.result = "recorded" /\ c.cleaned
  /\ IF c.hosts \/ c.evidence # "none" THEN c.evidence = "passed" ELSE ~c.attach

(* shutdown_proved, which raises when this is false. *)
ShutdownProved(c) == c.evidence = "passed" /\ c.exits /\ c.proof

------------------------------------------------------------------------------
(* What the records of a run and its processes have to do with each other at *)
(* every moment: the launcher starts the controller last and outlives it or  *)
(* is killed; simulators come after the attach script, and clean evidence    *)
(* after the last of them that the controller knows of.                      *)
Sound(c) ==
  /\ c.launcher \notin {"waiting", "over"} => c.control = "none"
  /\ c.result # "recorded" => c.control = "none"
  /\ c.launcher \in {"recorded", "staged"} => c.result = "recorded"
  /\ c.control = "none" => ~c.sims /\ ~c.hosts /\ ~c.proof /\ c.evidence = "none"
  /\ c.sims => c.attach
  /\ c.cleaned => c.launcher = "over" /\ c.control # "running"
  /\ c.evidence # "none" => c.control = "ended"
  /\ c.evidence = "passed" /\ c.sims => c.lost
  /\ c.proof => c.hosts
  /\ c.proof /\ c.media # "pruned" => c.media = "synced"

(* The steps of a run, by the process that takes them.                       *)
LauncherSteps(c) == Claim(c) \cup Record(c) \cup Stage(c) \cup Drive(c)

LauncherEnds(c, tidy) ==
  Abort(c, tidy) \cup UNION {Finish(c, tidy, good) : good \in BOOLEAN}

ControllerSteps(c) == Attach(c) \cup BootImps(c) \cup BootHosts(c) \cup SyncGuests(c)

ControllerEnds(c, flag, verdict) ==
  StopClean(c, flag, verdict) \cup StopFailed(c, flag)

Accidents(c) == LauncherDies(c) \cup ControlDies(c)

==============================================================================
