----------------------------- MODULE LineReports -----------------------------
(***************************************************************************)
(* The NCC's view of a small network and the experiment that judges it.    *)
(* IMPs report what they see of their lines to a receiver at IMP 5; one    *)
(* line runs through a relay that cuts it, or a reflector that loops it    *)
(* (scripts/lib/ncc-line-scenario.sh, ncc-direct-line-reflector.py).       *)
(* ncc/reconciliation.py pairs the two ends of each line.  The evaluators  *)
(* scripts/ncc-evaluate-alternate-path.py and -line-loopback.py judge the  *)
(* run, and ncc/historical_summary.py derives its line states once more    *)
(* before it believes the verdict.                                         *)
(*                                                                         *)
(* Only the last report of an IMP matters to the code, and a report        *)
(* carries the states of all its lines.  Reports name the neighbours of    *)
(* the configuration.  An observation expires after Interval ticks.        *)
(***************************************************************************)
EXTENDS LineConfiguration, RunSummary, SequencesExt

VARIABLES
  cabling,   \* the configuration
  now,
  alive,     \* the IMPs that run
  mode,      \* what the relay does: "forward", then "fault" or "loopback"
  switched,  \* when it switched, or -1
  broken,    \* lines that do not work, besides the direct one
  quiet,     \* when something last happened to the network
  faults,
  sees,      \* what an IMP's program knows of its lines
  heard,     \* the last report of each IMP the receiver has decoded
  before     \* those it had decoded before the time of the switch

reportVars == <<cabling, now, alive, mode, switched, broken, quiet, faults,
                sees, heard, before>>

Lines == Cabled(cabling)
LinesOf(i) == {l \in Lines : i \in Ends(l)}

None == [at |-> -1]

------------------------------------------------------------------------------
(* The network. *)

(* What there is to see of a line at one of its ends.  A reflector sends     *)
(* back to an IMP what came from it.                                         *)
Actual(i, l) ==
  CASE l = "direct" /\ mode = "fault" -> "down"
    [] l = "direct" /\ mode = "loopback" -> "looped"
    [] l \in broken \/ Peer(i, l) \notin alive -> "down"
    [] OTHER -> "up"

View(i) == [l \in LinesOf(i) |-> Actual(i, l)]

ReportsInit ==
  /\ cabling \in Cablings
  /\ now = 0 /\ alive = (IF cabling = "triangle" THEN Imps ELSE {5, 6})
  /\ mode = "forward" /\ switched = -1 /\ broken = {} /\ quiet = 0 /\ faults = 0
  /\ sees = [i \in Imps |-> [l \in LinesOf(i) |-> "down"]]
  /\ heard = [i \in Imps |-> None] /\ before = heard

(* The relay forwards for some time, and then it does not.                   *)
Switch ==
  /\ mode = "forward" /\ mode' \in {"fault", "loopback"}
  /\ switched' = now /\ quiet' = now
  /\ UNCHANGED <<cabling, now, alive, broken, faults, sees, heard, before>>

Disturb ==
  /\ faults < MaxFaults
  /\ \/ \E i \in alive \ {5} : alive' = alive \ {i} /\ UNCHANGED broken
     \/ \E l \in Lines \ {"direct"} :
          /\ broken' = IF l \in broken THEN broken \ {l} ELSE broken \cup {l}
          /\ UNCHANGED alive
  /\ faults' = faults + 1 /\ quiet' = now
  /\ UNCHANGED <<cabling, now, mode, switched, sees, heard, before>>

Notice(i) ==
  /\ i \in alive /\ sees[i] # View(i)
  /\ sees' = [sees EXCEPT ![i] = View(i)]
  /\ UNCHANGED <<cabling, now, alive, mode, switched, broken, quiet, faults, heard, before>>

(* IMP 5 hands reports to the receiver.                                      *)
Reaches(i) ==
  LET Up(j, k) == \E l \in Lines : Ends(l) = {j, k} /\ Actual(j, l) = "up"
  IN i = 5 \/ Up(i, 5) \/ \E j \in alive : Up(i, j) /\ Up(j, 5)

(* Mutant: a report is dated by its next tick. *)
ReportAhead(i) ==
  /\ i \in alive /\ Reaches(i) /\ heard[i].at < now
  /\ heard' = [heard EXCEPT ![i] = [at |-> now + 1, lines |-> sees[i], forwarding |-> mode = "forward"]]
  /\ UNCHANGED <<cabling, now, alive, mode, switched, broken, quiet, faults, sees, before>>

(* A report the receiver decodes, at most one of an IMP in a tick; one that  *)
(* is lost changes nothing here.                                             *)
Report(i) ==
  /\ i \in alive /\ Reaches(i) /\ heard[i].at < now
  /\ heard' = [heard EXCEPT ![i] = [at |-> now, lines |-> sees[i], forwarding |-> mode = "forward"]]
  /\ UNCHANGED <<cabling, now, alive, mode, switched, broken, quiet, faults, sees, before>>

(* An IMP notices within the tick.                                           *)
Tick ==
  /\ now < MaxTime /\ now' = now + 1
  /\ \A i \in alive : sees[i] = View(i)
  /\ before' = IF mode = "forward" THEN heard ELSE before
  /\ UNCHANGED <<cabling, alive, mode, switched, broken, quiet, faults, sees, heard>>

ReportsNext ==
  \/ Switch \/ Disturb \/ Tick
  \/ \E i \in Imps : Notice(i) \/ Report(i)

ReportsSpec == ReportsInit /\ [][ReportsNext]_reportVars

------------------------------------------------------------------------------
(* The reconciliation of the reports h at a time t. *)

(* Mutant: an observation is never too old. *)
NeverExpired(o, t) == FALSE

Expired(o, t) == t - o.at > Interval

EndState(i, l, h, t) ==
  CASE h[i] = None -> "unknown"
    [] h[i] # None /\ Expired(h[i], t) -> "stale"
    [] OTHER -> h[i].lines[l]

Paired(minus, plus) ==
  CASE minus = plus -> minus
    [] {minus, plus} = {"down", "looped"} -> "contradictory"
    [] minus = "down" /\ plus = "up" -> "minus-down"
    [] minus = "up" /\ plus = "down" -> "plus-down"
    [] minus = "looped" /\ plus = "up" -> "minus-looped"
    [] minus = "up" /\ plus = "looped" -> "plus-looped"

LineState(l, h, t) ==
  LET minus == EndState(MinusEnd(l), l, h, t)
      plus == EndState(PlusEnd(l), l, h, t)
  IN CASE "stale" \in {minus, plus} -> "stale"
       [] "stale" \notin {minus, plus} /\ "unknown" \in {minus, plus} -> "unknown"
       [] OTHER -> Paired(minus, plus)

(* Fresh reports of peers that see their end of a line to an IMP down.       *)
PeerDown(i, h, t) == {l \in LinesOf(i) : EndState(Peer(i, l), l, h, t) = "down"}

(* The run started at 0.                                                     *)
ImpState(i, h, t) ==
  CASE h[i] # None /\ ~Expired(h[i], t) -> "up"
    [] h[i] = None /\ t <= Interval -> "unknown"
    [] OTHER -> IF Cardinality(PeerDown(i, h, t)) >= 2 /\ PeerDown(i, h, t) = LinesOf(i)
                THEN "partitioned" ELSE "stale"

------------------------------------------------------------------------------
(* The evaluators, and the summary. *)

Target == CASE mode = "fault" -> "down" [] mode = "loopback" -> "looped" [] OTHER -> "none"

LastOf(h, imps) ==
  LET times == {h[i].at : i \in imps}
  IN CHOOSE t \in times : \A u \in times : u <= t

(* The evaluators refuse a run without a switch or without a report before   *)
(* it.                                                                       *)
Evaluable == switched >= 0 /\ LastOf(before, Imps) >= 0

(* The two states are taken at the times of the last report before the       *)
(* switch and of the last report.                                            *)
PreState == LineState("direct", before, LastOf(before, Imps))
FinalState == LineState("direct", heard, LastOf(heard, Imps))

(* Both IMPs send something over the line in every tick.                     *)
RelayCounted == 0 < switched /\ switched < now

(* Mutant: reports of either IMP after the switch are enough. *)
VerdictPassedEarly ==
  /\ RelayCounted
  /\ PreState = "up" /\ LineState("direct", heard, LastOf(heard, {5})) \in {Target, "minus-down", "minus-looped"}
  /\ \A i \in Imps : heard[i] # None
  /\ \E i \in {5, 6} : heard[i].at > switched

ReportsCovered ==
  /\ \A i \in Imps : heard[i] # None
  /\ \A i \in {5, 6} : heard[i].at > switched

CutPassed == /\ RelayCounted /\ ReportsCovered
             /\ PreState = "up" /\ FinalState = "down"

(* Here the last states of the two ends are looked at as well.               *)
LoopPassed == /\ RelayCounted /\ ReportsCovered
              /\ PreState = "up" /\ FinalState = "looped"
              /\ \A i \in {5, 6} : heard[i].lines["direct"] = "looped"

VerdictPassed == IF mode = "fault" THEN CutPassed ELSE LoopPassed

(* The launcher also wants every IMP to have survived.                       *)
RunPassed == Evaluable /\ VerdictPassed /\ alive = Imps

(* Mutant: the last supporting event itself is left out. *)
PreEventsBefore ==
  [i \in Imps |-> IF i \in {5, 6} /\ before[i].at < LastOf(before, {5, 6}) THEN before[i] ELSE None]

(* The summary takes the events up to the last one that supports the state   *)
(* before the switch, and derives that state at its time.                    *)
PreEvents ==
  [i \in Imps |-> IF before[i].at <= LastOf(before, {5, 6}) THEN before[i] ELSE None]

(* The events of the last reports, in the order the reports were decoded     *)
(* (those of one tick in any): a report, and a state for each of its lines.  *)
DecodingOrder ==
  CHOOSE o \in [1 .. 3 -> Imps] :
    \A j, k \in 1 .. 3 : j < k => o[j] # o[k] /\ heard[o[j]].at <= heard[o[k]].at

Parts(i) == <<"report">> \o SetToSeq(LinesOf(i))

EventsOf(i) ==
  IF heard[i] = None THEN <<>>
  ELSE [n \in DOMAIN Parts(i) |-> [at |-> heard[i].at, imp |-> i, line |-> Parts(i)[n]]]

Events == EventsOf(DecodingOrder[1]) \o EventsOf(DecodingOrder[2]) \o EventsOf(DecodingOrder[3])

SummaryObservations ==
  [k \in DOMAIN Events |-> LET e == Events[k] IN
     [sequence |-> k, at |-> e.at, category |-> "historical-network",
      subject |-> IF e.line = "report" THEN <<"imp", e.imp>> ELSE <<"end", e.line, e.imp>>,
      state |-> IF e.line = "report" THEN "reported" ELSE heard[e.imp].lines[e.line]]]
  \o <<[sequence |-> Len(Events) + 1, at |-> now, category |-> "harness",
        subject |-> <<"line", "direct">>, state |-> "passed"]>>

(* The places of the events that a state rests on.                           *)
LineSupport(l) == {k \in DOMAIN Events : Events[k].line = l}
ImpSupport(i) ==
  {k \in DOMAIN Events : Events[k].imp = i /\ Events[k].line = "report"} \cup
  (IF ImpState(i, heard, LastOf(heard, Imps)) # "partitioned" THEN {}
   ELSE {k \in DOMAIN Events : Events[k].line \in LinesOf(i) /\ Events[k].imp # i})

Derived ==
  LET supported == {<<"line", l>> : l \in {m \in Lines : LineSupport(m) # {}}} \cup
                   {<<"imp", i>> : i \in {j \in alive : ImpSupport(j) # {}}}
      State(d) == IF d[1] = "line" THEN LineState(d[2], heard, LastOf(heard, Imps))
                  ELSE ImpState(d[2], heard, LastOf(heard, Imps))
  IN [d \in supported |->
        [subject |-> d, state |-> State(d),
         basis |-> IF d[1] = "imp" /\ State(d) = "up" THEN "direct" ELSE "inference",
         support |-> IF d[1] = "line" THEN LineSupport(d[2]) ELSE ImpSupport(d[2])]]

SharedTopology ==
  [components |-> {<<"imp", i>> : i \in UNION {Ends(l) : l \in Lines}},
   endpoints |-> [e \in {<<"end", l, i>> : l \in Lines, i \in Imps} \cap
                         UNION {{<<"end", l, i>> : i \in Ends(l)} : l \in Lines} |-> <<"imp", e[3]>>],
   links |-> [k \in {<<"line", l>> : l \in Lines} |-> {<<"end", k[2], i>> : i \in Ends(k[2])}],
   routes |-> <<>>]

SummaryDocument ==
  [version |-> 2, started |-> 0, finished |-> now, outcome |-> "passed",
   topology |-> SharedTopology, observations |-> SummaryObservations, derived |-> Derived,
   gates |-> {[kind |-> "network-behavior", verdict |-> "passed",
               evidence |-> LineSupport("direct") \cup {Len(SummaryObservations)},
               states |-> {<<"line", "direct">>}]}]

(* Each kind of verdict has its transition, and names its support.           *)
VerdictAccepted ==
  /\ PreState = "up" /\ FinalState = Target
  /\ \E i \in {5, 6} : before[i] # None
  /\ \E i \in {5, 6} : heard[i] # None

Summarizes ==
  /\ VerdictAccepted
  /\ LineState("direct", PreEvents, LastOf(before, {5, 6})) = "up"
  /\ LineState("direct", heard, LastOf(heard, Imps)) = FinalState
  /\ {Events[k].imp : k \in LineSupport("direct")} = {5, 6}
  /\ ValidSummary(SummaryDocument)

------------------------------------------------------------------------------
(* Reports tell what their IMP saw, of its own lines, when it was sent.      *)
ReportsTypeOK ==
  /\ now \in 0 .. MaxTime /\ switched \in -1 .. now /\ quiet \in 0 .. now
  /\ \A i \in Imps :
       /\ DOMAIN sees[i] = LinesOf(i)
       /\ \A o \in {heard[i], before[i]} : o # None =>
            o.at <= now /\ DOMAIN o.lines = LinesOf(i)
       /\ before[i].at <= heard[i].at

(* When nothing has happened to the network for as long as an observation    *)
(* lives, and a report may take and an IMP need to notice, whatever is shown *)
(* of a line is so, or it is shown to be stale or unknown; and an IMP that   *)
(* is shown as partitioned has no line that works. (reconcile)               *)
SettledViewIsTrue ==
  now - quiet > Interval =>
    /\ \A l \in Lines :
         LET state == LineState(l, heard, now)
         IN Ends(l) \subseteq alive =>
              state \in {"stale", "unknown", Paired(Actual(MinusEnd(l), l), Actual(PlusEnd(l), l))}
    /\ \A l \in Lines : ~(Ends(l) \subseteq alive) => LineState(l, heard, now) \in {"stale", "unknown"}
    /\ \A i \in Imps : ImpState(i, heard, now) = "partitioned" =>
         i \notin alive \/ \A l \in LinesOf(i) : Actual(i, l) # "up"

(* A run that passed saw the switch: both IMPs reported the line up when it  *)
(* was forwarded, and down or looped when it was not. (evaluate)             *)
PassedRunSawTheSwitch ==
  RunPassed => \A i \in {5, 6} : before[i].forwarding /\ ~heard[i].forwarding

(* A run that passed saw the switch, and its summary derives the same from   *)
(* the same events, though it cuts them elsewhere.                           *)
(* (summarize_historical_line_result)                                        *)
PassedRunIsSummarized == PassedRunSawTheSwitch /\ (RunPassed => Summarizes)
==============================================================================
