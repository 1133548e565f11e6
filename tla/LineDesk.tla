------------------------------- MODULE LineDesk --------------------------------
(***************************************************************************)
(* The pages that watch a historical line run: each polls a threaded       *)
(* server (ncc/passive_http.py) whose one observer                         *)
(* (ncc/historical_display.py, the same rules in ncc/journey_display.py)   *)
(* reads the event sidecar while it grows, tells rewrites from growth by   *)
(* comparing with what it read last, and compares the live conclusion with *)
(* the summary of a completed run.  The line desk                          *)
(* (ncc/historical_server.py, ncc/historical_viewer.py) hands over to the  *)
(* summary; the board (ncc/board_display.py, ncc/board_server.py) shows it *)
(* in place.                                                               *)
(*                                                                         *)
(* An event either supports the state of the line ("line") or not          *)
(* ("note"); the conclusion is the place of the last that does.  A read    *)
(* between two equal stat results is one step.                             *)
(***************************************************************************)
EXTENDS Integers, Sequences

CONSTANTS
  Pages,        \* pages that may be open
  MaxLines,     \* events in the sidecar
  MaxRewrites   \* times it is truncated or replaced

VARIABLES
  server,     \* kind of the server, and the pages that are open
  sidecar,    \* file identity, run and events
  rewrites,
  record,     \* progress of the run's record: phase, whether it passed and
              \* the support that verdict.json names
  observer,   \* previous revision, last change, generation
  page        \* of a page: at, target, terminal, revision, shown

deskVars == <<server, sidecar, rewrites, record, observer, page>>

NothingShown == [revision |-> [id |-> -1, run |-> "none", lines |-> <<>>], generation |-> 0, mode |-> "none"]
None == NothingShown.revision

Extends(r, old) ==
  /\ r.id = old.id /\ r.run = old.run /\ Len(old.lines) <= Len(r.lines)
  /\ SubSeq(r.lines, 1, Len(old.lines)) = old.lines

Conclusion(lines) ==
  LET support == {k \in DOMAIN lines : lines[k] = "line"}
  IN IF support = {} THEN 0 ELSE CHOOSE k \in support : \A j \in support : j <= k

Closed == [at |-> "idle", target |-> "snapshot", terminal |-> FALSE, revision |-> None, shown |-> NothingShown]

(* The line desk takes a snapshot before it serves.                          *)
DeskInit ==
  /\ server \in [kind : {"desk", "board"}, open : (SUBSET Pages) \ {{}}]
  /\ sidecar = [id |-> 0, run |-> "run", lines |-> <<>>]
  /\ rewrites = 0
  /\ record = [phase |-> "writing", passed |-> FALSE, support |-> 0]
  /\ observer = [previous |-> IF server.kind = "desk" THEN sidecar ELSE None, change |-> "initial", generation |-> 1]
  /\ page = [p \in Pages |-> Closed]

------------------------------------------------------------------------------
(* The run. *)

Event(e) ==
  /\ record.phase = "writing"
  /\ Len(sidecar.lines) < MaxLines /\ sidecar' = [sidecar EXCEPT !.lines = Append(@, e)]
  /\ UNCHANGED <<server, rewrites, record, observer, page>>

(* The evaluator reads the events and leaves verdict.json; it may fail the   *)
(* run.  Then the manifest is completed: the verdict's status and the        *)
(* clean-up, and the three terminal fields.                                  *)
EvaluateRun ==
  /\ record.phase = "writing"
  /\ \E passed \in BOOLEAN :
       /\ passed => Conclusion(sidecar.lines) # 0
       /\ record' = [phase |-> "verdict", passed |-> passed, support |-> Conclusion(sidecar.lines)]
  /\ UNCHANGED <<server, sidecar, rewrites, observer, page>>

(* A run that is ended by a signal or a failure has the terminal fields      *)
(* without the others.                                                       *)
FinishRecord ==
  /\ \/ record.phase = "verdict" /\ record' = [record EXCEPT !.phase = "cleaned"]
     \/ record.phase = "cleaned" /\ record' = [record EXCEPT !.phase = "ended"]
     \/ record.phase # "ended" /\ record.phase # "broken" /\ record' = [record EXCEPT !.phase = "broken"]
  /\ UNCHANGED <<server, sidecar, rewrites, observer, page>>

(* Somebody truncates the sidecar, restarts it or puts another run's in its  *)
(* place.                                                                    *)
Rewrite ==
  /\ rewrites < MaxRewrites /\ rewrites' = rewrites + 1
  /\ \/ sidecar.lines # <<>> /\ sidecar' = [sidecar EXCEPT !.lines = SubSeq(@, 1, Len(@) - 1)]
     \/ sidecar' = [sidecar EXCEPT !.id = @ + 1]
     \/ sidecar' = [sidecar EXCEPT !.id = @ + 1, !.lines = <<>>]
     \/ sidecar' = [sidecar EXCEPT !.run = "other"]
  /\ UNCHANGED <<server, record, observer, page>>

------------------------------------------------------------------------------
(* The observer. *)

(* Mutant: the identity of the file is not compared. *)
AnyFile(r, old) ==
  CASE old = None -> "initial"
    [] old # None /\ r.run # old.run -> "identity-changed"
    [] old # None /\ r.run = old.run /\ r.lines = old.lines -> "same"
    [] old # None /\ r.run = old.run /\ r.lines # old.lines /\ Extends([r EXCEPT !.id = old.id], old) -> "appended"
    [] OTHER -> "replaced"

Change(r, old) ==
  CASE old = None -> "initial"
    [] old # None /\ r.run # old.run -> "identity-changed"
    [] old # None /\ r.run = old.run /\ r.id # old.id -> "restarted"
    [] r = old -> "same"
    [] old # None /\ r # old /\ Extends(r, old) -> "appended"
    [] old # None /\ r # old /\ Extends(old, r) -> "truncated"
    [] OTHER -> "replaced"

(* Mutant: whatever is not growth starts a generation, the same file too. *)
ClassifyAnew(r) ==
  LET change == Change(r, observer.previous)
  IN observer' = [previous |-> r, change |-> change,
       generation |-> IF change \in {"initial", "appended"} THEN observer.generation ELSE observer.generation + 1]

ClassifyRevision(r) ==
  LET change == Change(r, observer.previous)
  IN observer' = [previous |-> r,
       change |-> IF change = "same" THEN observer.change ELSE change,
       generation |-> IF change \in {"identity-changed", "replaced", "restarted", "truncated"}
                      THEN observer.generation + 1 ELSE observer.generation]

TerminalFields == record.phase \in {"ended", "broken"}
LooksTerminal == record.phase = "ended"

(* The summary of a completed run reads the sidecar again.                   *)
SummaryValid ==
  record.passed /\ sidecar.run = "run" /\ Conclusion(sidecar.lines) = record.support

(* Mutant: a summary that is valid is taken for that of what was read. *)
AnySummary(r) ==
  IF ~LooksTerminal THEN "live" ELSE IF SummaryValid THEN "completed" ELSE "completion-invalid"

Completion(r) ==
  CASE ~LooksTerminal -> "live"
    [] LooksTerminal /\ ~SummaryValid -> "completion-invalid"
    [] OTHER -> IF r.run = "run" /\ Conclusion(r.lines) = Conclusion(sidecar.lines)
                THEN "completed" ELSE "completion-mismatch"

------------------------------------------------------------------------------
(* A request of a page, and the page. *)

At(p, at) == p \in server.open /\ page[p].at = at
Step(p, q) == page' = [page EXCEPT ![p] = q]

(* Mutant: the page does not ask again after an error. *)
StopsAsking(p) ==
  [page[p] EXCEPT !.at = "stopped", !.revision = None]

(* What a page does with a request that failed.  What it shows stays; only   *)
(* one that has left for the summary does not ask again.                     *)
Refused(p) ==
  [page[p] EXCEPT !.at = IF page[p].target = "completed" THEN "stopped" ELSE "idle",
                  !.revision = None]

AskServer(p) ==
  /\ At(p, "idle")
  /\ Step(p, [page[p] EXCEPT !.at = "read", !.terminal = server.kind = "board" /\ TerminalFields])
  /\ UNCHANGED <<server, sidecar, rewrites, record, observer>>

(* A read that is disturbed twice is refused: by events, or by rewrites of   *)
(* which the first has happened.                                             *)
MayChange == record.phase = "writing" \/ rewrites > 0

ReadStream(p) ==
  /\ At(p, "read")
  /\ \/ Step(p, [page[p] EXCEPT !.at = "classify", !.revision = sidecar])
     \/ MayChange /\ Step(p, Refused(p))
  /\ UNCHANGED <<server, sidecar, rewrites, record, observer>>

Classify(p) ==
  /\ At(p, "classify")
  /\ ClassifyRevision(page[p].revision)
  /\ Step(p, [page[p] EXCEPT !.at = "complete"])
  /\ UNCHANGED <<server, sidecar, rewrites, record>>

(* The board refuses what does not match a terminal record, and the server   *)
(* of the line desk a summary that does not match.                           *)
Refuses(q, done) == ~done /\ (q.terminal \/ q.target = "completed")

(* The line desk leaves for the summary when it matches.                     *)
NextTarget(done) == IF done /\ server.kind = "desk" THEN "completed" ELSE "snapshot"

Snapshot(q, mode) == [revision |-> q.revision, generation |-> observer.generation, mode |-> mode]

Reply(p) ==
  /\ At(p, "complete")
  /\ LET q == page[p]
         mode == Completion(q.revision)
         done == mode = "completed"
     IN Step(p, CASE Refuses(q, done) -> Refused(p)
                  [] done /\ q.target = "completed" -> [Closed EXCEPT !.at = "summary", !.shown = q.shown]
                  [] OTHER -> [Closed EXCEPT !.target = NextTarget(done), !.shown = Snapshot(q, mode)])
  /\ UNCHANGED <<server, sidecar, rewrites, record, observer>>

PageStep(p) == AskServer(p) \/ ReadStream(p) \/ Classify(p) \/ Reply(p)

DeskNext ==
  \/ \E e \in {"line", "note"} : Event(e)
  \/ EvaluateRun \/ FinishRecord \/ Rewrite
  \/ \E p \in Pages : PageStep(p)

(* A page asks again a second after each answer.                             *)
DeskSpec == DeskInit /\ [][DeskNext]_deskVars /\ \A p \in Pages : WF_deskVars(PageStep(p))

------------------------------------------------------------------------------
(* A page of its own observer sees no more generations than the sidecar was  *)
(* rewritten, and one that has left for the summary was shown a completed    *)
(* run. (HistoricalDisplayObserver, render)                                  *)
DeskTypeOK ==
  /\ observer.generation >= 1
  /\ \A p \in Pages :
       /\ server.open = {p} => observer.generation <= 1 + rewrites
       /\ page[p].shown.revision.id <= sidecar.id
       /\ page[p].target = "completed" \/ page[p].at = "summary" =>
            server.kind = "desk" /\ page[p].shown.mode = "completed"

(* The events a page shows as those of a completed run support the verdict   *)
(* of that run, whatever was appended or rewritten while they were read.     *)
(* (compare_completed_summary)                                               *)
CompletedIsTheVerdict ==
  \A p \in Pages : page[p].shown # NothingShown /\ page[p].shown.mode = "completed" =>
    /\ LooksTerminal /\ record.passed /\ page[p].shown.revision.run = "run"
    /\ Conclusion(page[p].shown.revision.lines) = record.support

(* Two answers of one generation that a page gets one after the other are of *)
(* a sidecar that has only grown between them, when no other page is open.   *)
(* (HistoricalDisplayObserver._classify_revision)                            *)
GenerationOnlyGrows ==
  [][\A p \in Pages :
       server.open = {p} /\ page[p].shown # NothingShown /\ page'[p].shown # page[p].shown =>
         \/ page'[p].shown.generation > page[p].shown.generation
         \/ Extends(page'[p].shown.revision, page[p].shown.revision)]_deskVars

(* Each page ends up with the summary of a run that passed, unless somebody  *)
(* rewrites its sidecar: no answer it could not get, and none that came too  *)
(* early, keeps it from asking. (poll, historical_display_response)          *)
PagesSeeTheSummary ==
  \A p \in Pages :
    [](LooksTerminal /\ record.passed /\ rewrites = 0 /\ p \in server.open =>
        <>(rewrites > 0 \/ page[p].at = "summary" \/ (server.kind = "board" /\ page[p].shown # NothingShown /\ page[p].shown.mode = "completed")))
==============================================================================
