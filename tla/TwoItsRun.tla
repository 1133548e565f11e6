------------------------------ MODULE TwoItsRun ------------------------------
(***************************************************************************)
(* A run of two ITS guests and what others read of it while it goes on and *)
(* afterwards.  The launcher (scripts/smoke-two-its.sh with                *)
(* scripts/lib/runtime.sh) writes the manifest, its controller             *)
(* (scripts/two-its-controller.py) the observation stream (ncc/live.py),   *)
(* the sentinel and outcome.txt.  ncc/run_diagnostics.py reads the         *)
(* manifest and then outcome.txt, ncc/two_its_summary.py the files of a    *)
(* run that is over.                                                       *)
(*                                                                         *)
(* A write of one line is seen whole or not at all; the header of the      *)
(* stream is longer than a buffer.  The controller observes Plan, one      *)
(* observation for each of its stages.                                     *)
(***************************************************************************)
EXTENDS RunSummary

CONSTANTS
  MaxFaults,   \* signals from outside and steps of the clock
  MaxTime      \* ticks; an observation is stale after the tick it is made in

ASSUME TimeAssumption == MaxTime \in Nat

Plan == <<[subject |-> "imp:6", state |-> "started", category |-> "harness"],
          [subject |-> "route:host176-to-host106", state |-> "passed", category |-> "application"]>>
StaleAfter == 0

VARIABLES
  now, faults,
  launcher,    \* at, status, signal: what it handled, cleaned, lost: it had to
               \* kill the controller, tail: the records to append
  manifest,    \* records of a key and a value
  controller,  \* at, step, outcome, interrupted, next: what is in hand, status
  running,     \* the simulators run
  made,        \* the observations of the publisher
  stream,      \* the file: its header, the start the header tells, its lines
  sentinel,    \* sentinel-evidence.txt is written
  outcome,     \* outcome.txt
  report       \* of the diagnosis: the manifest it has read, and its status

launcherVars == <<launcher, manifest>>
controllerVars == <<controller, running, made, stream, sentinel, outcome>>
runVars == <<now, faults, launcher, manifest, controller, running, made, stream,
             sentinel, outcome, report>>

Entry(k, v) == [key |-> k, value |-> v]
Has(m, k) == \E n \in DOMAIN m : m[n].key = k
Value(m, k) == m[CHOOSE n \in DOMAIN m : m[n].key = k].value

RunInit ==
  /\ now = 0 /\ faults = 0
  /\ launcher = [at |-> "start", status |-> 0, signal |-> FALSE, cleaned |-> FALSE,
                 lost |-> FALSE, tail |-> <<>>]
  /\ manifest = <<>>
  /\ controller = [at |-> "none", step |-> 1, outcome |-> "failed", interrupted |-> FALSE,
                   next |-> "run", status |-> 0]
  /\ running = FALSE /\ made = <<>> /\ stream = [header |-> "none", started |-> 0, lines |-> <<>>]
  /\ sentinel = FALSE /\ outcome = "absent"
  /\ report = [at |-> "idle", manifest |-> <<>>, status |-> "none"]

------------------------------------------------------------------------------
(* The controller. *)

InController(at) == controller.at = at
ControllerGone == controller.at \in {"none", "exited", "killed"}
Leave(status) == [controller EXCEPT !.at = "exited", !.status = status]

(* The stream starts when its header is made.                                *)
OpenStream ==
  /\ InController("open")
  /\ \/ /\ stream.header = "none"
        /\ stream' = [stream EXCEPT !.header = "part", !.started = now] /\ UNCHANGED controller
     \/ /\ stream.header = "part"
        /\ stream' = [stream EXCEPT !.header = "whole"]
        /\ controller' = [controller EXCEPT !.at = "run"]
  /\ UNCHANGED <<now, faults, launcherVars, running, made, sentinel, outcome, report>>

(* An observation is validated with those before it, appended to the         *)
(* publisher's list, and then written.                                       *)
Candidate(p) == Append(made, [sequence |-> Len(made) + 1, at |-> now, subject |-> p.subject,
                               state |-> p.state, category |-> p.category])
Valid(obs) == ValidObservations(obs, Subjects(TwoItsTopology), stream.started, obs[Len(obs)].at)

(* Mutant: an observation is not validated before it is published. *)
PublishAnything(p, next) ==
  /\ made' = Candidate(p)
  /\ controller' = [controller EXCEPT !.at = "write", !.next = next, !.step = @ + 1]

Publish(p, next) ==
  IF Valid(Candidate(p))
  THEN /\ made' = Candidate(p)
       /\ controller' = [controller EXCEPT !.at = "write", !.next = next, !.step = @ + 1]
  ELSE /\ UNCHANGED made
       /\ controller' = [controller EXCEPT !.at = IF next = "run" THEN "failed" ELSE next, !.status = 1]

(* The simulators are launched; the wait of a stage follows.                 *)
Launch ==
  /\ InController("run") /\ controller.step <= Len(Plan) /\ ~running
  /\ running' = TRUE
  /\ UNCHANGED <<now, faults, launcherVars, controller, made, stream, sentinel, outcome, report>>

(* The proof leaves its sentinel and records the digest of it before it      *)
(* publishes the last observation.                                           *)
SentinelDigest == "application.sentinel_sha256"
Proving == InController("run") /\ controller.step = Len(Plan) /\ running

LeaveSentinel ==
  /\ Proving /\ ~sentinel
  /\ sentinel' = TRUE
  /\ UNCHANGED <<now, faults, launcherVars, controller, running, made, stream, outcome, report>>

(* Mutant: the digest is recorded once more when the stage goes on. *)
RecordDigestAgain ==
  /\ Proving /\ sentinel
  /\ manifest' = Append(manifest, Entry(SentinelDigest, "digest"))
  /\ UNCHANGED <<now, faults, launcher, controllerVars, report>>

RecordDigest ==
  /\ Proving /\ sentinel /\ ~Has(manifest, SentinelDigest)
  /\ manifest' = Append(manifest, Entry(SentinelDigest, "digest"))
  /\ UNCHANGED <<now, faults, launcher, controllerVars, report>>

(* What a stage waited for has come, and is published.                       *)
Stage ==
  /\ InController("run") /\ controller.step <= Len(Plan) /\ running
  /\ controller.step = Len(Plan) => Has(manifest, SentinelDigest)
  /\ Publish(Plan[controller.step], "run")
  /\ UNCHANGED <<now, faults, launcherVars, running, stream, sentinel, outcome, report>>

WriteObservation ==
  /\ InController("write")
  /\ stream' = [stream EXCEPT !.lines = Append(@, made[Len(made)])]
  /\ controller' = [controller EXCEPT !.at = controller.next]
  /\ UNCHANGED <<now, faults, launcherVars, running, made, sentinel, outcome, report>>

Prove ==
  /\ InController("run") /\ controller.step > Len(Plan)
  /\ controller' = [controller EXCEPT !.at = "proved", !.outcome = "passed"]
  /\ UNCHANGED <<now, faults, launcherVars, running, made, stream, sentinel, outcome, report>>

(* A stage times out or fails.                                               *)
FailStage ==
  /\ InController("run") /\ controller.step <= Len(Plan)
  /\ \E kind \in {"timeout", "failed"} : controller' = [controller EXCEPT !.at = kind, !.status = 1]
  /\ UNCHANGED <<now, faults, launcherVars, running, made, stream, sentinel, outcome, report>>

(* The handlers of the exceptions publish what happened.                     *)
Handle ==
  /\ controller.at \in {"timeout", "failed", "interrupted"}
  /\ Publish([subject |-> "route:host176-to-host106", state |-> controller.at,
              category |-> IF InController("failed") THEN "harness" ELSE "missing-evidence"], "finally")
  /\ UNCHANGED <<now, faults, launcherVars, running, stream, sentinel, outcome, report>>

(* stop_all ignores signals; when it fails the rest of the clause is not run.*)
Shield ==
  /\ controller.at \in {"proved", "finally"}
  /\ controller' = [controller EXCEPT !.at = IF InController("proved") THEN "finally" ELSE "stop"]
  /\ UNCHANGED <<now, faults, launcherVars, running, made, stream, sentinel, outcome, report>>

StopAll ==
  /\ InController("stop")
  /\ \/ running' = FALSE /\ controller' = [controller EXCEPT !.at = "outcome"]
     \/ running /\ running' = TRUE /\ controller' = Leave(1)
  /\ UNCHANGED <<now, faults, launcherVars, made, stream, sentinel, outcome, report>>

(* outcome.txt is created empty, and written.                                *)
WriteOutcome ==
  /\ InController("outcome")
  /\ IF outcome = "absent"
     THEN outcome' = "empty" /\ UNCHANGED controller
     ELSE outcome' = controller.outcome /\ controller' = Leave(controller.status)
  /\ UNCHANGED <<now, faults, launcherVars, running, made, stream, sentinel, report>>

(* What a signal does to the controller.  Only the first one raises; in a    *)
(* handler or in the finally clause it leaves at once.  Before the handlers  *)
(* are installed it ends the process.                                        *)
Interrupted(c) ==
  IF c.interrupted \/ c.at \in {"stop", "none", "exited", "killed"} THEN c
  ELSE CASE c.at = "open" -> [c EXCEPT !.at = "exited", !.status = 143]
         [] c.at \in {"run", "proved"} \/ (c.at = "write" /\ c.next = "run") ->
              [c EXCEPT !.at = "interrupted", !.interrupted = TRUE, !.status = 1]
         [] c.at \in {"timeout", "failed"} \/ (c.at = "write" /\ c.next = "finally") ->
              [c EXCEPT !.at = "finally", !.interrupted = TRUE, !.status = 1]
         [] OTHER -> [c EXCEPT !.at = "exited", !.interrupted = TRUE, !.status = 1]

SignalController ==
  /\ faults < MaxFaults /\ faults' = faults + 1
  /\ ~ControllerGone /\ controller' = Interrupted(controller)
  /\ UNCHANGED <<now, launcherVars, running, made, stream, sentinel, outcome, report>>

------------------------------------------------------------------------------
(* The launcher. *)

InLauncher(at) == launcher.at = at
LauncherAlive == launcher.at \notin {"ended", "killed"}

(* The launcher begins the manifest and prepares the run.                    *)
Setup == <<Entry("format", "1"), Entry("started_utc", now), Entry("repository.revision", "revision"),
           Entry("process.controller.pid", "pid")>>

Start ==
  /\ InLauncher("start")
  /\ LET n == Len(manifest) + 1 IN
       /\ manifest' = Append(manifest, Setup[n])
       /\ IF n = Len(Setup)
          THEN /\ launcher' = [launcher EXCEPT !.at = "wait"]
               /\ controller' = [controller EXCEPT !.at = "open"]
          ELSE UNCHANGED <<launcher, controller>>
  /\ UNCHANGED <<now, faults, running, made, stream, sentinel, outcome, report>>

Await ==
  /\ InLauncher("wait") /\ InController("exited")
  /\ launcher' = IF controller.status = 0
                 THEN [launcher EXCEPT !.at = "judge"]
                 ELSE [launcher EXCEPT !.at = "exit", !.status = controller.status]
  /\ UNCHANGED <<now, faults, manifest, controllerVars, report>>

(* The requirements on outcome.txt, the sentinel and the logs, and the first *)
(* cleanup, which may not be able to remove something.                       *)
Judge ==
  /\ InLauncher("judge")
  /\ \/ outcome = "passed" /\ sentinel /\ launcher' = [launcher EXCEPT !.at = "passed", !.cleaned = TRUE]
     \/ launcher' = [launcher EXCEPT !.at = "exit", !.status = 1]
  /\ UNCHANGED <<now, faults, manifest, controllerVars, report>>

MarkPassed ==
  /\ InLauncher("passed")
  /\ launcher' = [launcher EXCEPT !.at = "exit"]
  /\ UNCHANGED <<now, faults, manifest, controllerVars, report>>

(* A signal runs the exit trap, unless that has begun: until it ignores      *)
(* signals another one ends the launcher.                                    *)
SignalLauncher ==
  /\ faults < MaxFaults /\ faults' = faults + 1
  /\ launcher' = CASE launcher.at \in {"start", "wait", "judge", "passed"} ->
                        [launcher EXCEPT !.at = "exit", !.status = 143, !.signal = TRUE]
                   [] InLauncher("exit") -> [launcher EXCEPT !.at = "killed"]
                   [] OTHER -> launcher
  /\ UNCHANGED <<now, manifest, controllerVars, report>>

KillLauncher ==
  /\ LauncherAlive /\ faults < MaxFaults /\ faults' = faults + 1
  /\ launcher' = [launcher EXCEPT !.at = "killed"]
  /\ UNCHANGED <<now, manifest, controllerVars, report>>

(* The exit trap: the controller is asked to stop and killed when it does    *)
(* not, what is left is removed, and the manifest is finished.               *)
ExitTrap ==
  /\ InLauncher("exit")
  /\ launcher' = [launcher EXCEPT !.at = "stop"]
  /\ controller' = Interrupted(controller)
  /\ UNCHANGED <<now, faults, manifest, running, made, stream, sentinel, outcome, report>>

KillController ==
  /\ InLauncher("stop") /\ ~ControllerGone
  /\ controller' = [controller EXCEPT !.at = "killed"]
  /\ launcher' = [launcher EXCEPT !.lost = TRUE]
  /\ UNCHANGED <<now, faults, manifest, running, made, stream, sentinel, outcome, report>>

(* Mutant: a signal is reason enough. *)
SignalIsReason(status, exit, cleanup) ==
  <<Entry("termination.exit-status", status),
    Entry("termination.kind", IF launcher.signal THEN "signal" ELSE "exit")>>
  \o (IF launcher.signal THEN <<Entry("termination.signal", "TERM")>> ELSE <<>>)
  \o <<Entry("cleanup.runtime.attempts", 1), Entry("cleanup.runtime.exit-status", cleanup),
       Entry("cleanup.runtime.failed-resources", IF cleanup = 0 THEN "none" ELSE "resource")>>
  \o (IF exit # 0 /\ ~launcher.signal THEN <<Entry("failure.reason", "text")>> ELSE <<>>)
  \o <<Entry("finished_utc", now), Entry("outcome", IF exit = 0 THEN "passed" ELSE "failed"),
       Entry("exit_status", exit)>>

(* The records of brfid_finish_run_manifest, in their order.                 *)
FinalRecords(status, exit, cleanup) ==
  <<Entry("termination.exit-status", status),
    Entry("termination.kind", IF launcher.signal THEN "signal" ELSE "exit")>>
  \o (IF launcher.signal THEN <<Entry("termination.signal", "TERM")>> ELSE <<>>)
  \o <<Entry("cleanup.runtime.attempts", 1), Entry("cleanup.runtime.exit-status", cleanup),
       Entry("cleanup.runtime.failed-resources", IF cleanup = 0 THEN "none" ELSE "resource")>>
  \o (IF exit # 0 THEN <<Entry("failure.reason", "text")>> ELSE <<>>)
  \o <<Entry("finished_utc", now), Entry("outcome", IF exit = 0 THEN "passed" ELSE "failed"),
       Entry("exit_status", exit)>>

Clean ==
  /\ InLauncher("stop") /\ ControllerGone
  /\ \E cleanup \in 0 .. 1 :
       /\ launcher.lost => cleanup = 1
       /\ launcher.cleaned => cleanup = 0
       /\ LET exit == IF launcher.status = 0 THEN cleanup ELSE launcher.status
          IN launcher' = IF manifest = <<>> THEN [launcher EXCEPT !.at = "ended", !.status = exit]
                         ELSE [launcher EXCEPT !.at = "finish", !.status = exit,
                                               !.tail = FinalRecords(launcher.status, exit, cleanup)]
  /\ UNCHANGED <<now, faults, manifest, controllerVars, report>>

FinishManifest ==
  /\ InLauncher("finish")
  /\ manifest' = Append(manifest, Head(launcher.tail))
  /\ launcher' = [launcher EXCEPT !.tail = Tail(@),
                                          !.at = IF Len(launcher.tail) = 1 THEN "ended" ELSE @]
  /\ UNCHANGED <<now, faults, controllerVars, report>>

(* The clock goes on, or is set back.                                        *)
Tick ==
  /\ \/ now < MaxTime /\ now' = now + 1 /\ UNCHANGED faults
     \/ 0 < now /\ now' = now - 1 /\ faults < MaxFaults /\ faults' = faults + 1
  /\ UNCHANGED <<launcherVars, controllerVars, report>>

(* The readers. *)

(* Mutant: the outcome alone completes a record. *)
HasOutcome(m) == Has(m, "outcome")

CompleteRecord(m) == \A k \in {"finished_utc", "outcome", "exit_status"} : Has(m, k)

Is(m, k, v) == Has(m, k) /\ Value(m, k) = v

(* What the diagnosis takes for an inconsistency: of the outcome and the     *)
(* exit status, of the termination, and of the cleanup.                      *)
OutcomeIssue(m, o) ==
  \/ ~Has(m, "format")
  \/ CompleteRecord(m) /\ ~(Has(m, "started_utc") /\ Has(m, "repository.revision"))
  \/ /\ Has(m, "started_utc") /\ Has(m, "finished_utc")
     /\ Value(m, "finished_utc") < Value(m, "started_utc")
  \/ Is(m, "outcome", "passed") /\ (o = "failed" \/ (Has(m, "exit_status") /\ Value(m, "exit_status") # 0))
  \/ o = "empty"

TerminationIssue(m) ==
  /\ \E k \in {"termination.exit-status", "termination.kind", "termination.signal", "failure.reason"} : Has(m, k)
  /\ \/ ~Has(m, "termination.kind") \/ ~Has(m, "termination.exit-status")
     \/ Is(m, "termination.kind", "signal") # Has(m, "termination.signal")
     \/ Has(m, "termination.signal") /\ Value(m, "termination.exit-status") # 143
     \/ LET status == Value(m, "termination.exit-status") IN
          \/ status # 0 /\ Has(m, "exit_status") /\ Value(m, "exit_status") # status
          \/ Is(m, "outcome", "passed") /\ (Has(m, "failure.reason") \/ status # 0)
          \/ Is(m, "outcome", "failed") /\ ~Has(m, "failure.reason")
          \/ /\ status = 0 /\ Has(m, "exit_status")
             /\ Value(m, "exit_status") \in {0, 1} => /\ Value(m, "exit_status") = 1
                                                      /\ ~Is(m, "cleanup.runtime.exit-status", 1)

CleanupKeys == {"cleanup.runtime.attempts", "cleanup.runtime.exit-status", "cleanup.runtime.failed-resources"}

CleanupIssue(m) ==
  \/ (\E k \in CleanupKeys : Has(m, k)) /\ \E k \in CleanupKeys : ~Has(m, k)
  \/ Is(m, "cleanup.runtime.exit-status", 1) # Is(m, "cleanup.runtime.failed-resources", "resource")
  \/ Is(m, "cleanup.runtime.exit-status", 1) /\ Is(m, "outcome", "passed")

Diagnosis(m, o) ==
  CASE m = <<>> -> "unavailable"
    [] m # <<>> /\ (OutcomeIssue(m, o) \/ TerminationIssue(m) \/ CleanupIssue(m)) -> "inconsistent"
    [] OTHER -> IF ~CompleteRecord(m) THEN "unfinished" ELSE Value(m, "outcome")

ReadManifest ==
  /\ report.at = "idle" /\ report' = [report EXCEPT !.at = "manifest", !.manifest = manifest]
  /\ UNCHANGED <<now, faults, launcherVars, controllerVars>>

ReadOutcome ==
  /\ report.at = "manifest"
  /\ report' = [at |-> "done", manifest |-> <<>>, status |-> Diagnosis(report.manifest, outcome)]
  /\ UNCHANGED <<now, faults, launcherVars, controllerVars>>

(* A reader of the stream.                                                   *)
Readable == stream.header = "whole" /\ (stream.lines = <<>> \/ Valid(stream.lines))

LastKnown(s) == CHOOSE k \in DOMAIN stream.lines :
  stream.lines[k].subject = s /\ \A j \in DOMAIN stream.lines : stream.lines[j].subject = s => j <= k

Shown(s) == IF now - stream.lines[LastKnown(s)].at > StaleAfter THEN "stale" ELSE stream.lines[LastKnown(s)].state

(* Mutant: the outcome of the controller is enough. *)
OutcomeIsEnough == outcome \in {"passed", "failed"} /\ CompleteRecord(manifest) /\ Has(manifest, "started_utc")

(* The summary of a run that is over.                                        *)
Accepted ==
  /\ CompleteRecord(manifest) /\ Has(manifest, "repository.revision") /\ outcome = Value(manifest, "outcome")
  /\ (outcome = "passed") = (Value(manifest, "exit_status") = 0)
  /\ outcome = "passed" => sentinel /\ Has(manifest, SentinelDigest)

Summary ==
  LET end == Value(manifest, "finished_utc")
      passed == outcome = "passed"
      Of(k, category, state) == [sequence |-> k, at |-> end, subject |-> "route:host176-to-host106",
                                 category |-> category, state |-> state]
  IN [version |-> 1, started |-> Value(manifest, "started_utc"), finished |-> end,
      outcome |-> IF passed THEN "passed" ELSE "incomplete", topology |-> TwoItsTopology,
      observations |-> <<Of(1, "harness", outcome),
        IF passed THEN Of(2, "application", "passed") ELSE Of(2, "missing-evidence", "absent")>>,
      derived |-> [d \in {"derived:two-its-route"} |->
        [subject |-> "route:host176-to-host106", state |-> IF passed THEN "up" ELSE "incomplete",
         basis |-> "inference", support |-> {1, 2}]],
      gates |-> {[id |-> g, kind |-> "application", evidence |-> {2}, states |-> {},
                  verdict |-> IF passed THEN "passed" ELSE "inconclusive"] :
                   g \in {"gate:two-its-application", "gate:payload-anti-bypass"}}]

------------------------------------------------------------------------------
RunNext ==
  \/ OpenStream \/ Launch \/ LeaveSentinel \/ RecordDigest \/ Stage \/ WriteObservation \/ Prove \/ FailStage \/ Handle
  \/ Shield \/ StopAll \/ WriteOutcome \/ SignalController
  \/ Start \/ Await \/ Judge \/ MarkPassed \/ SignalLauncher \/ KillLauncher \/ ExitTrap
  \/ KillController \/ Clean \/ FinishManifest
  \/ ReadManifest \/ ReadOutcome \/ Tick

RunSpec == RunInit /\ [][RunNext]_runVars

------------------------------------------------------------------------------
(* No record is written twice, and what is in the stream was made by its     *)
(* publisher. (brfid_manifest_append, LiveObservationPublisher)              *)
RunTypeOK ==
  /\ now \in 0 .. MaxTime /\ running \in BOOLEAN
  /\ \A j, k \in DOMAIN manifest : j # k => manifest[j].key # manifest[k].key
  /\ \A k \in DOMAIN stream.lines : \E j \in DOMAIN made : j >= k /\ stream.lines[k] = made[j]
  /\ outcome \in {"absent", "empty", "passed", "failed"}

(* Whoever reads the stream while it grows gets what the controller has      *)
(* published, to the last or the last but one, and shows of a subject the    *)
(* last that was published of it, unless that is old; only an interrupted    *)
(* controller leaves a stream that cannot be read.                           *)
(* (read_live_observation_stream, snapshot)                                  *)
StreamIsTrue ==
  stream.header = "whole" /\ ~controller.interrupted =>
    /\ Readable /\ Len(stream.lines) >= Len(made) - 1
    /\ stream.lines = SubSeq(made, 1, Len(stream.lines))
    /\ \A k \in DOMAIN stream.lines :
         LET s == stream.lines[k].subject IN
         Shown(s) # "stale" => \E j \in k .. Len(made) :
           made[j].subject = s /\ made[j].state = Shown(s) /\ now - made[j].at <= StaleAfter

(* A run that is diagnosed as passed, from files read at different times,    *)
(* has passed: its controller did and its simulators are stopped; and one    *)
(* that is diagnosed as failed has failed. (diagnose_run)                    *)
ReportIsTrue ==
  /\ report.status = "passed" =>
       /\ InLauncher("ended") /\ launcher.status = 0
       /\ controller.outcome = "passed" /\ controller.status = 0 /\ ~running
  /\ report.status = "failed" => InLauncher("ended") /\ launcher.status # 0

(* The records of a run whose launcher reached its end are consistent, if    *)
(* its clock ran forward and its controller was left to write outcome.txt.   *)
(* (brfid_exit_trap, diagnose_run)                                           *)
EndedRunIsRecorded ==
  InLauncher("ended") /\ outcome # "empty" /\ Has(manifest, "repository.revision")
    /\ Value(manifest, "finished_utc") >= Value(manifest, "started_utc") =>
      Diagnosis(manifest, outcome) = IF launcher.status = 0 THEN "passed" ELSE "failed"

(* What the summary accepts it can summarize, and it says that a run passed  *)
(* only of one that did. (summarize_two_its_result)                          *)
SummaryIsTrue ==
  Accepted /\ Value(manifest, "finished_utc") >= Value(manifest, "started_utc") =>
    /\ ValidSummary(Summary)
    /\ Summary.outcome = "passed" => InLauncher("ended") /\ launcher.status = 0 /\ ~running

(* Nobody who reads what a run leaves, while it goes on or when it is over,  *)
(* is told a verdict other than that of the launcher and its controller.     *)
(* (diagnose_run, summarize_two_its_result)                                  *)
VerdictsAreTrue == ReportIsTrue /\ EndedRunIsRecorded /\ SummaryIsTrue
==============================================================================
