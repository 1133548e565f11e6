# A specification of the laboratory's runs and of what is concluded from them

TLA+ modules, TLC configurations and TLAPS proofs for this repository: the
Python and shell programs that connect a PDP-11 running Network UNIX, H316
IMPs and PDP-10s running ITS, record what happens between them, judge the
records, show them, and keep the guests' disks from one session to the next.

## 1. Inventory

| Component | Source | State it keeps | Operations | What is hard | What makes it correct |
|---|---|---|---|---|---|
| Guest workspaces | `ncc/guest_workspace.py`, `scripts/workspace.py` | a directory: `workspace.json`, `generations/`, `current.json`, `lease/` | create, run, restore, status, list | concurrent invocations, signals, kills, power loss, a save in several steps | the pointer names a complete save; saves are never lost; one invocation at a time; nothing is released while a simulator lives; only clean shutdowns are saved |
| Launcher | `scripts/telnet-pdp11-its.sh`, `scripts/lib/runtime.sh` | `<build>.lock`, the result directory, `run.env` | lock, claim, record, stage, reserve ports, wait, clean up, finish | exit traps, signals deferred behind a foreground child, SIGKILL | records match what happened; the lock excludes |
| Controller | `scripts/pdp11-its-interactive-controller.py`, `ncc/pdp11_its_harness.py`, `ncc/harness_*.py`, `ncc/workspace_shutdown.py` | four owned simulators and their handles, evidence files | launch, expect, drive a session, shut the guests down, stop and record | a signal anywhere, a simulator that does not die, evidence that is written last | clean evidence means no simulator; a shutdown proof means synchronized disks |
| Media pruning | `scripts/prune-media.py` | audit notes in result directories | plan, verify, unlink, finalize notes | runs that are still going on, partial failure | only completed runs lose media; the note says what went |
| Port leases | `scripts/reserve-udp-ports.py` | `udp-<port>.lock/owner`, bound sockets | claim, reclaim, release to a simulator, clean up | racing reclaims, dead owners | no two runs hold one port |
| Operator sessions | `ncc/terminal_session.py`, `ncc/interactive_telnet.py`, `ncc/historical_terminal.py`, the interactive controller | an append-only JSONL stream, totals in memory, the console's buffer | record, send, show, frame a response, end, read back | a signal or a kill between any two calls, limits kept in two places, torn ends | nothing sent or shown is unrecorded; the reader accepts what was written; a complete response is the guest's |
| Host interface | `ncc/host_interface.py`, `ncc/imp_to_host.py`, `ncc/trouble_report.py`, `ncc/historical_events.py`, `scripts/ncc-host-interface-proof.py` | the last sequence number, a partial message, the event record | receive, assemble, decode, record | lost, repeated, reordered datagrams, an IMP that restarts | nothing is joined across a gap; a record reads back |
| Journeys | `ncc/message_journey*.py`, `ncc/pdp11_its*_journey.py`, `ncc/*_journey.py`, `scripts/pdp11-its-controller.py` | ordered observations of messages at interfaces; windows on four traces | open and close windows, extract, reduce, publish, read | order and correlation of independent logs, retransmissions, equal messages | no claim without its observations; doubt is refused |
| Observation planes | `ncc/reconciliation.py`, `ncc/historical_summary.py`, `ncc/shared_topology.py` and others | the last report of each IMP | reconcile, summarize | age, gaps, one-sided failures | what is shown of a line is so, or shown as stale |
| Live snapshots | `ncc/live.py` | the published observations and their file | publish, read, age | torn reads, clocks | a snapshot never claims more than was observed |
| Summaries, diagnostics | `ncc/run_summary.py`, `ncc/run_diagnostics.py`, `ncc/two_its_summary.py` | none | read, decide, render | missing and contradictory evidence, files of different moments | no pass without complete evidence |
| Two-ITS runs | `scripts/smoke-two-its.sh`, `scripts/two-its-controller.py`, `scripts/lib/runtime.sh` | `run.env`, `outcome.txt`, the sentinel, the live stream | stages, exit traps, clean-up, terminal records | signals to either process, kills, traps that start twice | the records of an ended run agree |
| Failover and line experiments | `scripts/ncc-direct-line-relay.py`, `scripts/pdp11-its-failover-controller.py`, `scripts/smoke-ncc-*.sh`, evaluators | request and acknowledgement of the cut, windows on logs | forward, cut, wait, evaluate | the cut races traffic and timeouts | a verdict rests on windows that are ordered; every wait ends |
| Displays and servers | `ncc/*display*.py`, `ncc/*viewer*.py`, `ncc/*server*.py`, `ncc/passive_http.py` | the last revision seen, a generation | poll, read, classify, compare, render | a sidecar that is appended to and rewritten while threads read it | completed means the verdict's evidence; every page gets there |
| Setup and receipts | `scripts/lab-*.py`, `scripts/*receipt*.py`, `scripts/verify-*`, `scripts/build-*` | installed files, receipts | download, build, verify | external programs | pins match |

How they interact: `workspace.py run` takes the workspace lease, starts the
launcher as a child and waits for it. The launcher takes the build lock,
creates the result directory, copies a save's media into it, reserves ports
and waits in the foreground for the controller. The controller owns the
simulators, records the session, shuts the guests down and writes its evidence.
The launcher adds its own terminal records. `workspace.py` reads the records --
it has no other channel -- and decides whether the lease may go and whether the
disks become a new save. `prune-media.py` walks the result directories at any
time. All of them can be signalled or killed at any point.

The experiments have the same launchers and controllers. In a failover run the
controller and the relay share two files, a request and an acknowledgement; the
evaluator and the displays see nothing but the logs, and only between the
offsets the controller took. Reports of the IMPs reach a receiver over UDP and
become events of an append-only sidecar; the reconciliation turns the last
events of each IMP into states of lines; evaluator, summary, desk and board each
derive these states again before they believe each other. Journeys are found in
traces of four programs by comparing contents.

## 2. Modules and what they stand for

| Module | Models | Extends |
|---|---|---|
| `RunContract` | one run of launcher, controller and simulators, as its records and processes look from outside | - |
| `Workspace` | the workspace directory, the invocations of `workspace.py` on it, the build lock, pruning, power loss | `RunContract` |
| `SaveHistory` | abstract specification: a tree of saves and a selection; nothing crashes | - |
| `WorkspaceInvariant` | the inductive strengthenings of `Workspace`'s invariants | `Workspace` |
| `MCWorkspace` | TLC's instances: symmetry and the bound `OneFailure` | `WorkspaceInvariant` |
| `WorkspaceProofs` | proofs: types, leases and locks; then the store, the pointer and the saves | `WorkspaceInvariant` |
| `PortLease` | the reservers of `reserve-udp-ports.py`, their launchers, the lock directories and sockets | - |
| `PortLeaseInvariant`, `PortLeaseProofs`, `MCPortLease` | its inductive invariant, proofs, TLC's instances | `PortLease` |
| `MediaPrune` | the helpers of `prune-media.py --apply`, the images and the notes | - |
| `OperatorSession` | an operator at the character terminal or in the line dialogue, the recorder, its file and its reader | - |
| `HostIngress` | an IMP's host interface, the wire, the receiver and its event record | - |
| `RunSummary` | the validation of a run summary, as predicates | - |
| `TwoItsRun` | launcher and controller of a two-ITS run, its records, the live stream, diagnosis and summary | `RunSummary` |
| `LineConfiguration` | the lines between three IMPs, their ends, and the life of an observation | - |
| `LineReports` | three IMPs and their lines, reports, reconciliation, the verdicts of the line experiments and their summary | `LineConfiguration`, `RunSummary` |
| `TraceJourney` | a connection over two IMPs, four traces with windows, the extraction of a journey | - |
| `JourneyStream` | a journey's route, its reducer, its recorder and its reader | - |
| `LineCut` | the relay, the failover controller and its operator, the launcher with the NCC's receiver, the evaluators, what the board reads again | - |
| `LineDesk` | a sidecar, the observer of a desk or board, and the pages that poll it | - |
| `ListLemmas` | no code: lemmas about lists, least numbers and pairs that several proofs use | - |
| `OperatorSessionProofs` | the session's inductive invariant and proofs | `OperatorSession`, `ListLemmas` |
| `HostIngressProofs` | the receiver's inductive invariant and proofs | `HostIngress`, `ListLemmas` |
| `MCEvidence` | TLC's instances of `MediaPrune`, `OperatorSession`, `HostIngress`, `TwoItsRun` | the four |
| `EvidenceProofs` | the inductive invariants of pruning and of two-ITS runs, and proofs about the four | `MCEvidence`, `OperatorSessionProofs`, `HostIngressProofs` |
| `MCReports` | TLC's instances of `JourneyStream`, `LineReports`, `TraceJourney` | the three |
| `ReportsProofs` | their inductive invariants and proofs | `MCReports`, `ListLemmas` |
| `MCEnds` | TLC's instances of `Workspace`, `LineCut`, `LineDesk`, `OperatorSession`, with fairness | `WorkspaceInvariant`, `LineCut`, `LineDesk`; instantiates `OperatorSession` |
| `EndsProofs` | the inductive invariants of a failover run and of a desk, and proofs about the run's variables | `MCEnds` |

`MCEvidence`, `MCReports` and `MCEnds` put components that share no state into
one run: a variable `part` says which of them runs, and the others stay in their
initial states. Nothing is concluded about a composition from them; the
components that do interact are inside one module each (relay, controller and
launcher in `LineCut`; launcher, controller, publisher and readers in
`TwoItsRun`; publisher and pages in `LineDesk`; run and workspace in
`Workspace`). A theorem is to be about the very definition that a run checks, so
these modules extend the components instead of renaming them, and names that
several specifications would share (`Init`, `Next`, `Spec`, `TypeOK`, `Kill`, ...)
say in all but one of them whose they are (`CutInit`, `DeskNext`, `ReportsSpec`,
`TraceSpec`, `OperatorSpec`, `KillProof`, ...).

### RunContract: a run as a record

A run is one record, and each step maps a record to the set of its successors.
`Workspace` keeps one record for every `run` invocation. The fields are the
processes (`launcher`, `control`, `sims`), the files others read (`result`,
`attach`, `evidence`, `outcome`, `proof`, and the fields `finished`, `cleaned`,
`passed`, `hosts` of `run.env`), the state of the guest disks (`media`), and
the status `child.wait()` returns.

| Steps | Code |
|---|---|
| `Claim`, `Record`, `Stage`, `Drive` | `telnet-pdp11-its.sh` from the result directory to the foreground wait |
| `Attach`, `BootImps`, `BootHosts` | the controller writes the attach script, starts the IMPs, then the hosts |
| `SyncGuests` | `workspace_shutdown.py`: both processors stopped, disks synchronized, proof written |
| `StopClean`, `StopFailed`, `ControlDies` | `stop_and_record` and its absence |
| `LoseHandle` | a signal between `Popen`'s fork and the assignment of `self.process` |
| `Abort`, `Finish`, `LauncherDies` | `brfid_exit_trap`, `brfid_cleanup`, `brfid_finish_run_manifest`; SIGKILL |
| `CleanupProved`, `ShutdownProved` | the two judgements `workspace.py` makes of these records |

A guest session, with all its dialogue, is one nondeterministic verdict. A
signal after that verdict and before the hosts are stopped leaves it in
`outcome.txt` without a shutdown proof (`StopClean`); `Finish` then fails the run. The
media have the values *staged*, *dirty* (a host has them attached), *synced*
and *pruned*.

### Workspace: the directory and its invocations

Each invocation is a process with a program counter. One action is one
file-system call, or a group of calls nothing else can tell apart:

- `create`: `CreateLock` -> `CreateRoot` -> `CreateMetadata` -> publish -> `CreateUnlock`;
- `run`: `AcquireLease` -> `OwnLease` -> `LookUp` -> `Spawn` -> (the run) ->
  `Judge` -> `Examine` -> publish -> `ReleaseLease` -> `SettleRelease`;
- `restore`: lease -> `Choose` -> select -> release;
- publish: `Admit` -> `CopyMedia` per file -> `WriteManifest` -> `FlushPending` ->
  `Rename` -> `FlushName` -> select;
- select: `VerifyTarget` -> `Swap` -> `Sync`.

`Raise` is an exception (or a first signal without a child to pass it to) at
any of these points, `Unwind` the `finally` clauses that run then, `Forward` a
signal that arrives during `child.wait()`, `AbandonEnding` a signal in the
`finally` clause itself, `Kill` SIGKILL. `PowerLoss` stops everything and picks,
for each directory entry changed since the last fsync of its directory, the old
or the new one. `RecoverLease` and `RecoverBuildLock` are the operator who
follows the messages: only when the owner and all its processes are gone.
`safe`, `interrupted`, `parent` and `ok` are the code's locals.

### SaveHistory: what a workspace promises

`saves`, `ancestor` and `selected`; a step adds saves whose ancestors exist, or
selects a save. `Workspace` implements it with the saves that are on disk by
name, `parentOf`, and the pointer a power loss would leave
(`durable.current`): property `KeepsHistory`.

### PortLease: sockets and lock directories

Each run has a reserver (`pc`, `trying`, `claims`, ...) and a launcher
(`launcher`, `given`). `socket` and `simulator` say who has a port bound,
`lock` and `owner` who made `udp-<port>.lock` and whose identifiers its `owner`
file has. The reserver's actions are its system calls: `Bind`, `MakeLock`,
`Own`; `ReadOwner`, `JudgeLock`, `ReclaimOwner`, `ReclaimLock`, `Remake` for a
lock that seems abandoned; `WriteReady`, `HandOver` (SIGUSR1), `Announce`,
`Leave`, and the clean-up. `Kill` can strike at any point. The launcher asks for
the hand-over, runs simulators, is interrupted, ends, or is killed and leaves
its simulators as orphans. `Age` is the hour after which a lock without an owner
counts as abandoned.

### MediaPrune: images and notes

Each helper goes through `build_plan` (`Inspect`, `Admit` per result: the images
first, the outcome after them), `create_provisional_notes` (`OpenNote`,
`WriteNote`), the verification of every image (`VerifyUnchanged`), the unlinks
(`RemoveImage`) and the notes' final text (`FinalizeNote`); `Unnote` is
`remove_provisional_notes`. `note` is `media-pruned.txt` as others see it,
`flushed` what a power loss leaves of it. Around the helpers, runs come to their
outcome and simulators write to their images.

### OperatorSession: a controller with a list of things to do

`todo` is what the controller has still to do, so every call of the loop and of
the `except` and `finally` clauses is a step, and `Signal` and `Kill` fall
between any two. `WriteRecord` puts a record into `file` (a kill may leave it
torn), `Count` advances the recorder's totals (`mem`) afterwards; a string of
bytes is recorded chunk by chunk (`Chunk`, `AfterChunk`). `RelayOutput`, `Show`,
`Poll`, `Read` and `Send` are the character loop, `Ask`, `Send`, `Respond` and
`NoResponse` the dialogue, with `printed` as the console's buffer and `cursor` as
the end of `expect_any`'s last match. `TranscriptAccepted` is the strict reader
(`ReadTerminal`, `ReadDialogue`). `Looks` only lets the guest print when the
controller is about to look at its output, where it can make a difference.

### HostIngress: datagrams

`SendDatagram`, `Repeat`, `Restart` and the loss and overtaking of datagrams are
the wire and the IMP; `Receive` is `PassiveHostIngress.receive` with `Kept`,
`Taken`, `Assembled` and `Completes` for its rules. `Decode`, `WriteEvent`,
`Finish` and `KillProof` take the collected messages to the event record and the
proof's exit status.

### RunSummary and TwoItsRun

`RunSummary` has the validation of `run_summary.py` as predicates on an abstract
document; a module that makes a summary asks whether it is valid. `TwoItsRun`
has the launcher's and the controller's programs, the manifest as a sequence of
keys and values (`FinalRecords` are written one by one), `Launch`, `LeaveSentinel`,
`RecordDigest` and `Stage` as the steps of the controller's proof, `Publish` and
`WriteObservation` as the two halves of a live observation, which is valid from the
start that the stream's header tells, and the two diagnoses: `ReadManifest`
and `ReadOutcome` at different moments, `Accepted` and `Summary` afterwards.

### LineReports: what the NCC knows

`sees` is what each IMP's program knows of its lines, `heard` its last report as
decoded. `Switch` is the relay's or reflector's change, `Disturb` a crash or a
break besides. `LineState` and `ImpState` are the reconciliation, `CutPassed` and
`LoopPassed` the two evaluators, `SummaryDocument` what the summary derives from
the `Events` of the last reports, which come in the order they were decoded in.
Only the last report of each IMP is kept, since the code keeps no more; a report
that gets lost on its way is one that was never decoded.

### TraceJourney and JourneyStream

Three messages -- the opening of a connection, its answer, and another control
message of the called host that may be equal to it -- go from a host through two
IMPs to the other host (`place`); the traces log them only while their windows
are open (`OpenWindow`, `CloseWindow` in the controller's order). `Extraction`
is `extract_pdp11_its_journey`. `JourneyStream` takes any observations in batches
(`Produce`, `WriteObservation`), ends with a diagnosis (`Complete`), and has the
reader as `Readable`. A route has a host and an IMP; every rule is per leg and
boundary.

### LineCut: a cable that is cut on request

The relay's loop is `Poll` (request, duration, stop; publication of the cut) and
`Relay` for each datagram of a batch. The controller (`ctl`) waits for the
acknowledgement, for either IMP's line and for the routes, each with a timeout;
in the terminal the operator connects, asks the time, presses the key. A log
window is modelled by what it holds. `CollectReceiver`, `TerminateRelay`,
`CollectRelay`, `Evaluate` and `FinishRun` are the launcher's end, in its order;
only an automatic run has a receiver, and what that heard is any set of `Reports`:
of the cut from the four IMPs, from some other IMP, of throughput from the four.
`FormalVerdict` and `TerminalVerdict` are the two profiles of the evaluator.
`BoardAccepts` is what `failover_display.py` reads again, file by file
(`StatusesPassed`, `VerdictPassed`, `CutAgrees`, `JourneyAgrees`,
`StreamComplete`), and it reads formal runs only: a terminal run has another
topology, another kind of verdict and no receiver. It also wants more of the event
stream than the evaluator, so the property about it is an equivalence: the board
shows an automatic run exactly if it passed and its stream is complete.

### LineDesk: pages and revisions

`Event`, `EvaluateRun`, `FinishRecord` and `Rewrite` are the run and its files. A page's
request goes through `ReadStream`, `Classify` (the observer's shared state) and
`Reply`; `Refused` is a request that got an error. Read and classification are
atomic each, in the threads of the server.

## 3. Assumptions

Named in the modules, and worth knowing when reading a result:

- *One guest build.* All invocations of a model share one build and so one
  build lock; different builds do not meet in the code.
- *fsync.* An fsync makes a file or directory and the path to it durable, as
  journaled file systems do. Everything else may be lost or kept, entry by entry.
- *Recovery by hand* happens as the messages ask, never earlier.
- `SignalInLaunch = FALSE` excludes the signal between a fork and the store of
  the handle. That case is real (run `signalled_fork`); the constant separates
  what holds in spite of it from what holds without it.
- `EarlyRollback = FALSE` excludes a rollback to a generation that has been
  renamed and not yet flushed. Also real (run `hasty_rollback`).
- *Pruning.* Process identifiers in the names of temporary notes are not used
  twice; a note that could not be completed can be removed.
- *Operator sessions.* `printed` grows only where the controller looks; bytes are
  counted and have no content, since the streams carry digests of them.
- *Reports.* A report's checksum is perfect: it is damaged or it is not.
  Reports name the neighbours of the configuration.
- *Failover.* One datagram of each direction is followed; a settling time is
  longer than a delivery on the loopback interface.
- *Files.* A line that is written and flushed is seen whole or not at all,
  except the live stream's header, which is longer than a buffer, and the torn
  last line of a kill. The desk's read between two equal `stat` results is one step.
- *Ports.* Both address families of a port are one socket; process identifiers
  are not reused; no reserver sleeps for an hour between two calls; the
  clean-up takes its locks in any order.

## 4. Runs

Most bounds are the sizes of the sets of constants. The others: `Attempts` of
`PortLease` and the limits of `OperatorSession` (`MaxInput`, `MaxOutput`,
`MaxChunk`, `MaxCommands`, `MaxResponse`) are the programs' own arguments;
`MaxVersion` bounds how often an image changes, `MaxTyped` and `MaxPrinted` what
operator and guest do, `MaxPackets`, `MaxLives` and `MaxWireFaults` what an IMP and
its wire do, `MaxFaults` what strikes a two-ITS run or a network of IMPs, `MaxTime`
the clock, `MaxRetransmissions` the line, `MaxLines` and `MaxRewrites` the streams. State constraints cut the search further, each in one
part of a run:

- `OneFailure`: at most one invocation goes wrong;
- `OneWritten`: at most one image is written to, and the build under the helpers'
  roots is over from the start;
- `TwoTroubles`: the IMP is restarted and the wire goes wrong once, or the wire
  goes wrong twice;
- `OneFaultRead`: a two-ITS run is diagnosed while at most one fault has struck
  it (it goes on after a second one) and, since the diagnosis reads of all
  times only those at which a run started and finished, with a clock that goes on
  as the launcher ends; a diagnosis that gives no verdict is not followed;
- `CalmAfterSwitch`: once a line has been cut or looped, no IMP crashes and no
  disturbance lasts; only before a cut may a line break besides.

| Run | Instance | Shows |
|---|---|---|
| `workspace_safety` | create, run, restore; 2 generations; every failure, any number of them (690,934 states) | the pointer is on a durable complete generation; lease and build lock exclude; a live process keeps the workspace leased; success is durable; saves are kept; no move of the pointer loses a save made in between |
| `workspace_two_runs` | create and two runs; 3 generations, 2 media; signals into a fork allowed; at most one invocation goes wrong (519,984 states) | saves are clean and on a durable parent; `SaveHistory` is implemented |
| `port_leases` | 2 reservers, 2 ports, 2 attempts, fair (506,774 states) | claims are marked; runs do not share a port; no lock of a live run is taken; reservers end |
| `ends` | create and run; a failover run, automatic or with an operator; a desk or a board with one page over two events and a rewrite; an operator with one byte or one command; fair (267,099 states) | a run whose controller is gone ends, and so do the waits of a failover run, an interrupted session and the polling of a page; a passed failover run had one connection on both sides of the cut and the board shows exactly the automatic ones that passed with a complete event stream; nothing is forwarded after the acknowledgement; what a page shows as completed is the verdict's |
| `evidence` | 2 pruning helpers over two runs with 1 and 2 images and a build; an operator with one byte or two commands; 3 datagrams and two troubles (a restart or a fault of the wire); a two-ITS run of two stages with two faults (1,304,687 states) | removals are audited, notes exact, refusals without effect; a transcript leaves nothing out and reads back; messages are unbroken and records read back; the live stream is true and no reader is told a wrong verdict |
| `reports` | five lines of a journey stream; three IMPs in a triangle over three report intervals with one disturbance; three messages with one retransmission (948,317 states) | a stream is readable at any time and its diagnosis independent of the order of sources; a settled view is true or stale; a passed line run has a valid summary; extraction is sound, refuses doubt, and succeeds on a good line |
| `interrupted_publish`, `early_prune`, `signalled_fork`, `hasty_rollback`, `port_probe`, `stale_prompt` | the smallest instance that shows it | a counterexample each; see section 6 |

Some properties are conjunctions of named parts, which their modules define and
comment one by one: `TranscriptIsTrue` (`NothingUnrecorded`,
`CleanStreamIsTheSession`), `TranscriptIsReadable` (`RecorderNeverRefuses`,
`PassedIsReadable`, `KilledIsReadable`), `IngressIsFaithful` (`MessagesSpanNoGap`,
`GoodWireDelivers`, `RecordReadsBack`), `VerdictsAreTrue` (`ReportIsTrue`,
`EndedRunIsRecorded`, `SummaryIsTrue`), `PassedRunIsSummarized`
(`PassedRunSawTheSwitch` and the summary), `ExtractionIsTrue`
(`CompleteIsOneJourney`, `DoubtIsRefused`, `GoodLineExtracts`), `PassedRunHolds`
(`PassedSessionCrossed`, `PassedRunIsShown`). `PROJECT.json` has a mutant for
each part.

*Why these bounds are enough for the questions asked.* The workspace is shared
by at most one leaseholder and one create, so create + run + restore has each
pair of kinds that can meet; two runs add the case of a competitor of the same
kind and of a save on top of a save, with a third generation for it. Two media
files are the least for which a copy can be half done; with one file the
half-done copy is still there as the empty directory. A reclaim races with a
claim, another reclaim or a clean-up of the same lock; two reservers have all of
these, and two ports let one reserver pass to another port. For
pruning, the second run with its two images is the least in which an unlink can
fail with images removed before it in its own and in another result. What the theorems
below cover holds for any sizes.

A terminal session of one byte each way reaches every limit, and a dialogue of
two commands has a command after a complete one, which is where a stale prompt
bites. Two datagrams make a message, so three allow a loss in the middle of one
and a tail without its head; a restart and one fault let a repeated first
datagram meet the first one of a new life, and two faults a loss meet a repetition. Two faults of a two-ITS run are a signal and a second
one, or a signal and a clock that is set back. Three ticks are one to see a line,
one to switch it and one for what was seen before to expire. One retransmission
is the least with which a request has two candidates on the line. Five lines of a
journey stream are the four boundaries of a request and its reply and one
observation too many. Two events and a rewrite give a desk growth, truncation,
replacement and a verdict that rests on an earlier event than the last.

*What a failing mutant shows.* For every property of a passing run there is a
change of one action -- a dropped flush, a lease made with `exist_ok`, a lock
judged by one identifier instead of two, and so on; the modules mark them
"Mutant" -- with which TLC finds the property violated.

*Fairness.* Weak fairness of each invocation's own steps and of the launcher's
(`Workspace!Fairness`), and of each reserver's own steps (`PortLease!FairSpec`):
these are operating-system processes that are scheduled, make calls that return,
and wait only where the model waits. In `ends` the relay's loop, the failover controller's deadlines
(not its operator), the launcher's end, the timers of open pages and the answers
to them, and the operator controller's own steps are fair in the same way.
Nothing is assumed of failures, signals,
kills, recovery by hand, pruning, operators, guests, or the controller, whose interactive session
may last for ever; so `RunsEnd` only speaks of runs whose controller is gone.

## 5. Proofs

Every invariant and every action property that a passing run checks is proved,
and so is the refinement: for any number of invocations, generations, media
files, reservers, ports, pages, observations, datagrams, lives, commands, bytes,
retransmissions, faults and ticks; where the runs exclude signals into a fork or
early rollbacks (section 3) the theorems do, as said below. They rest on the named
assumptions on the constants
(`OpsAssumption`, `MediaAssumption`, `RangeAssumption`, `NamesAssumption`,
`ImagesAssumption`, `VersionAssumption`, `MaxLinesAssumption`,
`ConfigurationAssumption`, `TimeAssumption`, `TraceAssumption`,
`IngressAssumption`, `OperatorAssumption`). None of them says more than what a
constant is. The theorems are about the components' own specifications; those
about `TypesHold` are about the specifications of the three composing modules.

**Workspaces** (`WorkspaceProofs`)

- `TypesHold`: the type invariant, action by action.
- Every step of a run keeps `Sound`, what a run's records have to do with its
  processes: clean evidence means that no simulator with a known handle lives,
  clean-up records mean that launcher and controller are gone, a shutdown proof
  means synchronized disks.
- `LeaseAlwaysExcludes`, `BuildLockAlwaysExcludes`, and, without signals into a
  fork, `LiveRunsHoldTheLease`. None is inductive alone: a release is harmless
  only because `safe_to_release` was true, and that is so only because the
  records that made it true are sound. `ProcessInv` adds both (`RunsAreSound`,
  `SafeMeansDead`).
- `CurrentIsAlwaysComplete` (without early rollbacks) and `SavesAreAlwaysKept`.
  `StoreInv` adds that publishers never share an identifier, what each has made
  of its generation at each point, that a generation is flushed before it is
  renamed and named on disk before it is selected, and that the root is on disk
  before anything in it.
- `SuccessIsAlwaysDurable` and `SavesAlwaysExtendTheirParent`, without
  assumptions on signals and rollbacks. Who moves the pointer holds the lease, or
  is a create, which holds the build lock and not the lease; nothing excludes a
  create and a rollback or an early run directly. `PointerInv` says what keeps
  them apart: the workspace was absent when the create began
  (`SeedComesFirst`), so until it is over no run has passed and its own seed is
  the only save there is; a run that has passed is over and holds the lease
  alone (`PassedRunsAreOver`). Then the pointer a publisher has read stays until
  it moves it (`ParentStands`), and the pointer it has moved stays until it lets
  go (`MoveStands`).
- `SavesAreAlwaysClean` and the refinement `HistoryIsAlwaysKept`, without early
  rollbacks. `SaveInv` adds that a copy holds nothing but what it is a copy of
  (`CopyIsClean`), that a shutdown proof outlives the run and any pruning
  (`SavedRunsAreProved`), and that a seed is named on disk before anything is
  saved on top of it (`SeedStaysFirst`), so that a power loss that brings names
  to light brings a seed alone, or saves with a parent.

**Ports and media** (`PortLeaseProofs`, `EvidenceProofs`)

- `PortTypesHold`, `ClaimsAreAlwaysMarked`, `LocksAreNeverStolen`,
  `RunsNeverShare`. No lock guards the reclaim; what makes it safe is the bound
  socket. `LockInv` says so: from its bind to its claim a reserver has the port's
  socket (`Occupied`); so while it considers an owner the lock can only disappear
  (`SeenMayGo`), and what it unlinks or removes belongs to the dead
  (`ReclaimsAreSafe`). `GivenIsHeld` carries that over from the claim to the
  ports the launcher uses, across the hand-over and the death of the reserver.
- `MediaTypesHold`, `RemovalsAreAlwaysAudited`, `NotesAreAlwaysExact`,
  `RefusalsAlwaysLeaveNothing`. No lock keeps two helpers apart; the exclusive
  creation of a note does. `MediaInv` says for each helper by itself how far its
  notes are at each point (`Progress`, `NotesStand`, `NoteOpened`, `Listed`), that
  what a final note tells stays so (`FinalNotesTrue`), and the proof that a step
  of one helper disturbs nothing of another's rests on notes being written by
  their maker alone.

**A line that is cut** (`EndsProofs`)

- `CutTypesHold`, `SecondWindowsHold`, `PassedRunsHold`, `AckIsRespected`. The
  second window is clean although nothing is exchanged between relay and
  controller but two files: the relay publishes the cut in the same turn of its
  loop in which it stops forwarding (`RelayAgrees`), from then on what is in the
  air can only become less, and the controller takes its second offsets when that
  is gone (`WindowsAreApart`). What the windows hold of a transaction happened to
  a session that was opened (`JourneysHappened`); the evidence is accepted when
  exactly one has been, and the records that follow need it
  (`OutcomeNeedsEvidence`, `RecordsInOrder`). What the evaluator compared is then
  final: the relay is over and the controller has stopped, so the board, which
  looks later and at more files, can refuse a passed automatic run only for what
  the receiver heard.

**Pages** (`EndsProofs`)

- `DeskTypesHold`, `CompletedIsAlwaysTheVerdict`, `GenerationsOnlyGrow`. The
  observer compares a revision with the one it saw before only. That two answers
  of one generation are of a sidecar that grew, with any number of answers in
  between, follows since growth is transitive and every change that is not growth
  starts a generation (`ExtendsTransitive`, `ChangeTells`). The bound of the
  generations by the rewrites, which is part of the type invariant, needs them
  counted along the way a revision takes, from what was classified last over what
  was read to the sidecar (`WithinRewrites`).
- `EndsTypesHold`: whichever part of `MCEnds` runs, the variables of the failover
  run and of the desk hold what they may.

**Streams, reports and traces** (`ReportsProofs`)

- `StreamTypesHold`, `StreamIsAlwaysReadable`, `DiagnosisNeverDependsOnOrder`.
  What is in the file is a beginning of what the recorder accepted, and the rest
  waits in the batch for as long as the recorder is open (`LinesAreAccepted`); a
  beginning of a valid list is valid (`ValidPrefix`). The diagnosis is a function
  of the set of the observations, since no two of a valid list are equal
  (`CandidatesTell`).
- `ReportTypesHold`, `SettledViewIsAlwaysTrue`, `PassedRunAlwaysSawTheSwitch`,
  `PassedRunIsAlwaysSummarized`, on either cabling. An IMP notices within a tick what happened in it, so once the
  tick of the last event is over every running IMP knows its lines
  (`NoticedWhenQuiet`), and what was reported since then is still so
  (`ReportedWhenQuiet`); an observation that has not expired was reported since
  then. Everything decoded before the switch was sent before it, and nothing that
  is decoded after its tick was (`SwitchTells`).
  That the summary of a run that passed is valid is proved piece by piece: its
  events are those of the last reports in the order of their times
  (`EventsTell`), its topology is one (`SharedTopologyIsValid`), its observations
  are numbered and dated in order, and each derived state has a state's name and
  support among them. The evaluator takes the state before the switch at the last
  report of any IMP, the summary at the last one of an end of the line; both see
  the line up, since a report that has not expired at the later of the two times
  has not at the earlier one (`StateBeforeIsDerivedAgain`). A run that passed had
  three IMPs, so it was of the triangle (`SeventhIsOfTheTriangle`).
- `TraceTypesHold`, `ExtractionIsAlwaysTrue`. `TraceInv` says that a record is in
  the trace of the place where it happened and of a message that has come that
  far (`TraceIsTrue`), that no message is read twice however often it was
  retransmitted (`ReadIsLoggedOnce`), and that what the windows must hold of the
  request and of its answer they hold in order (`RequestIsLogged`,
  `AnswerIsLogged`), since the windows enclose them (`WindowsEnclose`). The
  extraction takes the first record that fits; a first one exists
  (`LeastNumber`, from the well-foundedness of finite sets). A path it calls
  whole is one of records that are there (`WholePath`), in an order the invariant
  forbids for any other message; and over a line that repeated nothing the path
  that was logged is whole (`LoggedPathIsWhole`).
- `ReportsTypesHold`: the same of `MCReports` as a whole.

**A host interface** (`HostIngressProofs`)

- `IngressTypesHold`, `IngressIsAlwaysFaithful`. The receiver knows of the wire
  nothing but a number and the words it has put together. `IngressInv` says that
  these are of an unbroken run of datagrams that ends where the receiver is
  (`UnderWay`). An interface that has not restarted counts its datagrams and sends
  a message in one piece (`SentInOrder`, `PartsInOrder`), and over a wire without
  faults the receiver is as far as the interface (`KeptUp`); so the next datagram
  is the one the message waits for (`NextOfFirstLife`, `GoodWireReceives`), and
  what was handed over, flattened, is what was sent. What is in the record is a
  beginning of what was decoded, which is of whole messages
  (`DecodedInOrder`).

**An operator's session** (`OperatorSessionProofs`)

- `OperatorTypesHold`, `TranscriptIsAlwaysTrue`, `TranscriptIsAlwaysReadable`,
  wherever a signal and a kill fall. What the controller has still to do says how
  far the program, the transcript and the screen are from one another: which bytes
  are recorded and not yet sent or shown (`TerminalGoesOn`), which command has
  been sent without a result (`DialogueGoesOn`). The recorder keeps its own totals
  and checks its limits against them, the reader counts the file again:
  `RecorderInStep` says that they agree, up to the record that is being counted,
  for as long as no signal has struck between a line and its count
  (`Undisturbed`). A session that ends cleanly has nothing under way when the end
  is written (`CleanEndsAreTrue`), and nothing is sent or shown after it
  (`StageGoesOn`). A kill leaves whole lines and half a line at most.
- `EvidenceTypesHold` (`EvidenceProofs`): the variables of pruning, session,
  receiver and two-ITS run hold what they may, whichever part of `MCEvidence`
  runs.

**A run of two guests** (`EvidenceProofs`)

- `RunTypesHold`, `StreamTellsTheTruth`. The publisher keeps its list and the
  file apart, and a signal between the two loses a line. `StreamInv` says where
  in the plan the controller is, so how much it has made (`ControllerInPlan`),
  that what it has made is valid by itself (`MadeIsValid`), and that the file is
  a beginning of it, short of the last at most, as long as no signal has struck
  (`StreamFollows`).
- `VerdictsTellTheTruth`: of the diagnosis of a run in progress, of that of a
  run that is over, and of its summary, whose validity is proved down to its
  topology. A reader takes the manifest and `outcome.txt` at two moments, while
  both are being written. It is not misled since only the launcher writes
  terminal records, it begins when its controller is gone, and the exit status
  is the last of them (`RecordsInOrder`): a manifest that is complete is the
  whole of it whenever it was read, and nothing it depends on changes any more
  (`CompleteIsFinal`, `EndedIsSettled`). A launcher whose status is 0 came
  through the judgement of a controller that passed (`PassedWasJudged`). That
  the records of a launcher that ended contradict each other nowhere, with or
  without signals and whether or not the cleanup succeeded, follows from what
  each of them says (`FinalRecordsTell`).

Each inductive invariant was checked by TLC on an instance before it was proved.

What a fold or a filter makes of a file of any length is proved without an
induction over the file, which the provers cannot do: the invariants say what a
list has become with each step that appends to it, and one lemma says what one
more element does to the count, the fold or the flattened list
(`ListLemmas`, `FlattenOneMore`).

*Model-checked only.* Liveness: `RunsEnd`, `ReserversEnd`, `WaitsEnd`,
`SessionEnds` and `PagesSeeTheSummary` need ENABLED and fairness, which are beyond
the provers. They hold within the bounds of `ends` and `port_leases`. That the six
counterexamples of section 6 exist is TLC's result as well.

## 6. What the runs found

1. `interrupted_publish`: a first signal after the swap of the pointer makes the
   run report an interruption, and its save is current all the same;
   `docs/workspaces.md:39` says it does not publish.
2. `early_prune`: `prune-media.py --apply` takes a run for completed as soon as
   `outcome.txt` is there, while the launcher still works and the disks are still
   to be saved; `docs/runbook.md:280` says it excludes active runs. (The save
   then fails; none is corrupted: `SavesAreClean` holds with pruning.)
3. `signalled_fork`: a signal between the fork of a simulator and the store of
   its handle leaves it running with clean evidence and a released lease, against
   `docs/workspaces.md:41`.
4. `hasty_rollback`: a rollback may make the pointer to a generation durable
   before the generation's name is, against `ncc/guest_workspace.py:3-4`.
5. `port_probe`: a reserver binds whatever port the kernel offers before it looks
   at the lock, so a port that has been handed over may be bound by someone else
   for a moment, and a simulator that starts in that moment fails.
6. `stale_prompt`: a response starts at the end of the console's buffer, but the
   prompt that ends it is looked for from the end of the last match. A guest that
   prints a prompt in between gives the next command an empty response with the
   status *complete*; `docs/adr/0014`, line 23, says it is the exact slice through
   the next prompt.

Found by a proof: a message that the receiver hands over was first stated to have
consecutive numbers. That is not inductive, and with five datagrams and two lives
TLC finds it false: a datagram of flags only, which a restarted interface sends,
takes a number and carries no words, and the receiver joins what came before it to
what comes after. `MessagesSpanNoGap` now says so: a number between two datagrams
of a message is of flags only (`FlagsOnly`), and there is none over an interface
that has not restarted. The bounds of `evidence` are too small to tell the two
statements apart; the theorem does.

Modelled as it is, and no finding since nothing says otherwise: an automatic
failover run may pass and the board refuse it. The board wants throughput reports of
all four IMPs, and trouble reports after the cut of no other
(`ncc/failover_display.py:750`, `:766`); the evaluator is content with the four among
the sources (`scripts/ncc-evaluate-pdp11-its-failover.py:280`). `PassedRunIsShown`
says that this is the only way in which the two can differ.

Seen while modelling and not checked by a run: a message whose first datagrams were lost while none was in progress is
emitted though it is not complete (`ncc/host_interface.py:133`); a signal between
a command's record and the wait for its response leaves no typed result
(`docs/test-plan.md:109`); the desk's observer is shared by threads without a lock
(`ncc/historical_display.py:237`), so with two pages growth may start a new
generation (`docs/ncc.md:45`); the line scenario
finishes its manifest outside the exit trap (`scripts/lib/ncc-line-scenario.sh:261`);
a create killed between its directory and its first save leaves a workspace that
can be neither run nor created again (`scripts/workspace.py:75`); a signal in the
`finally` clause, before the release, leaves the lease of a finished run to
recovery (`scripts/workspace.py:201`).

## 7. Plan

| Next | Module | Questions |
|---|---|---|
| 1 | `Harness` (harness_process, harness_imp, harness_manifest, the controllers' clean-up): implements the controller part of `RunContract` | `stop_all` under signals, order of the evidence, a process that does not die |
| 2 | `LauncherLife` (runtime.sh, telnet-pdp11-its.sh): implements the launcher part of `RunContract` | the reserver's hand-over composed with `PortLease`; terminal records |
| 3 | the coexistence experiment and its display | two sessions at once, and windows on both |
| 4 | `Checksum` (report_checksum, trouble and throughput reports) | the arithmetic against a reference |

Of the proofs, the liveness properties are left; they would need a prover with
ENABLED. A theorem that a run of `Harness` and one of `LauncherLife` implement
`RunContract` would let the results about workspaces rest on less.

## 8. Not modelled

Listed with reasons in `PROJECT.json`. In short: the dialogues with the guest
operating systems, the simulators and the programs inside the guests (external;
modelled by what the code observes of them); markup; the servers of journeys and
of the coexistence and failover displays, which follow the pattern of `LineDesk`;
the bits of reports and leaders; downloads, builds and receipts (one actor around
external programs); research scripts.
