-------------------------------- MODULE LineCut --------------------------------
(***************************************************************************)
(* The application-link failover run: scripts/ncc-direct-line-relay.py      *)
(* carries the cable between IMP 6 and IMP 62 and cuts it on request,       *)
(* scripts/pdp11-its-failover-controller.py drives one TELNET session over  *)
(* the cut, automatically or for an operator at a terminal, and             *)
(* scripts/smoke-ncc-pdp11-its-failover.sh stops the relay and has          *)
(* scripts/ncc-evaluate-pdp11-its-failover.py judge the records.            *)
(*                                                                         *)
(* The two programs share two files: the controller creates the request,   *)
(* the relay publishes the acknowledgement.  Evidence is what lies between *)
(* two offsets of a log, so a log is modelled by what its window holds: a  *)
(* window opens empty, and what is logged elsewhere is not seen.  Of the   *)
(* datagrams in one direction one is followed.  Time is not modelled: a    *)
(* wait may time out at any moment, and a settling time is longer than any *)
(* delivery on the loopback interface.                                     *)
(***************************************************************************)
EXTENDS Naturals, FiniteSets

Ends == {"imp6", "imp62"}
Peer(e) == IF e = "imp6" THEN "imp62" ELSE "imp6"

VARIABLES
  mode,      \* "automatic" or "terminal"
  request,   \* the cut request exists
  ack,       \* the cut state has been published
  relay,     \* the relay: where it is, forwarding, fault_started_at set, exit status
  dropped,   \* the ends a packet for which the relay has dropped
  air,       \* datagrams on their way: to the relay or from it, and for which end
  line,      \* the state of the direct line each IMP last reported
  leg,       \* the transaction under way, if any
  session,   \* connections opened, and whether the last one is still open
  console,   \* TIME responses in the PDP-11 output before and after its offset
  ctl,       \* the controller
  cut,       \* its dictionary "cut" is filled: the offsets of the second windows
  window,    \* what the windows on the IMP logs hold
  controls,  \* cut requests recorded in the terminal transcript
  records,   \* outcome.txt, the statuses and reports the launcher has
             \* collected, the verdict, and the outcome in the manifest
  story      \* what really happened, for the properties: sessions that were
             \* answered over the cable before the cut, and around it afterwards

link == <<request, ack, relay, dropped, air, line>>
guest == <<leg, session, console>>
control == <<ctl, cut, controls, records>>
cutVars == <<mode, link, guest, control, window, story>>

Idle == [at |-> "idle", asked |-> "pre", via |-> {}]
Nothing == [controller |-> "none", receiver |-> "none", relay |-> "none",
            outcome |-> "none", verdict |-> "none", run |-> "none", reports |-> {}]

(* What the NCC's receiver may have heard by its deadline, besides what it   *)
(* needs to end with 0 (one trouble and one throughput report): both ends of *)
(* the direct line up before the cut and down after it, the detour up, and   *)
(* after the cut a trouble report from each of the four IMPs; one from some  *)
(* other source; a throughput report from each of the four.                  *)
Reports == {"cut", "stranger", "throughput"}

CutInit ==
  /\ mode \in {"automatic", "terminal"}
  /\ request = FALSE /\ ack = FALSE
  /\ relay = [pc |-> "poll", forwarding |-> TRUE, fault |-> FALSE, stopping |-> FALSE]
  /\ dropped = {} /\ air = {}
  /\ line = [e \in Ends |-> "dead"]
  /\ leg = Idle
  /\ session = [opened |-> 0, open |-> FALSE]
  /\ console = {}
  /\ ctl = "boot" /\ cut = FALSE /\ controls = 0
  /\ window = [pre |-> {}, post |-> {}]
  /\ records = Nothing
  /\ story = {}

------------------------------------------------------------------------------
(* The relay. *)

(* Mutant: the acknowledgement is published when the request is seen, and    *)
(* the state of the relay is looked up on the next turn.                     *)
PollEarly ==
  /\ relay.pc = "poll"
  /\ relay' = [relay EXCEPT !.pc = "batch", !.forwarding = ~@ \/ ~request \/ ~relay.fault,
                            !.fault = @ \/ request]
  /\ ack' = (ack \/ request)
  /\ UNCHANGED <<mode, request, dropped, air, line, guest, control, window, story>>

(* Mutant: the cut state is written with the result only. *)
PollSilently ==
  /\ relay.pc = "poll" /\ ~relay.stopping
  /\ relay' = [relay EXCEPT !.pc = "batch", !.forwarding = ~request,
                            !.fault = @ \/ request]
  /\ UNCHANGED <<mode, request, ack, dropped, air, line, guest, control, window, story>>

(* The head of the loop: the request is looked for once, and the cut state   *)
(* is published before anything more is received.                            *)
Poll ==
  /\ relay.pc = "poll" /\ ~relay.stopping
  /\ relay' = [relay EXCEPT !.pc = "batch", !.forwarding = ~request,
                            !.fault = @ \/ request]
  /\ ack' = (ack \/ request)
  /\ UNCHANGED <<mode, request, dropped, air, line, guest, control, window, story>>

(* One datagram of those select has reported.                                *)
Relay(e) ==
  /\ relay.pc = "batch"
  /\ <<"relay", e>> \in air
  /\ IF relay.forwarding
     THEN air' = (air \ {<<"relay", e>>}) \cup {<<"imp", e>>} /\ UNCHANGED dropped
     ELSE air' = air \ {<<"relay", e>>} /\ dropped' = dropped \cup {e}
  /\ UNCHANGED <<mode, request, ack, relay, line, guest, control, window, story>>

BatchEnds ==
  /\ relay.pc = "batch"
  /\ relay' = [relay EXCEPT !.pc = "poll"]
  /\ UNCHANGED <<mode, request, ack, dropped, air, line, guest, control, window, story>>

(* At the head of the loop, on SIGTERM or when the duration is over.         *)
RelayEnds ==
  /\ relay.pc = "poll"
  /\ relay' = [relay EXCEPT !.pc = "over"]
  /\ UNCHANGED <<mode, request, ack, dropped, air, line, guest, control, window, story>>

RelayStatus == IF relay.fault THEN "0" ELSE "1"

------------------------------------------------------------------------------
(* The IMPs, the guests and the operator, as far as the controller sees them. *)

(* An IMP says hello on its line whether or not it thinks it is up.          *)
Hello(e) ==
  /\ {<<"relay", Peer(e)>>, <<"imp", Peer(e)>>} \cap air = {}
  /\ relay.pc # "over"
  /\ air' = air \cup {<<"relay", Peer(e)>>}
  /\ UNCHANGED <<mode, request, ack, relay, dropped, line, guest, control, window, story>>

(* What is logged goes to the window that is open, if any.                   *)
Logged(what) ==
  window' = CASE cut -> [window EXCEPT !.post = @ \cup what]
              [] ~cut /\ ~request -> [window EXCEPT !.pre = @ \cup what]
              [] OTHER -> window

LineDies(e) ==
  /\ line[e] = "up"
  /\ line' = [line EXCEPT ![e] = "dead"]
  /\ Logged({"dead"})
  /\ UNCHANGED <<mode, request, ack, relay, dropped, air, guest, control, story>>

Open == CASE cut -> "post" [] ~cut /\ ~request -> "pre" [] OTHER -> "gap"

(* The request goes to IMP 6 and the reply to IMP 62; each IMP sends on the  *)
(* line while it is up, again if need be, and through IMP 7 when it is dead. *)
Target == IF leg.at = "request" THEN "imp6" ELSE "imp62"

(* The journeys take a transaction only when all of it is in the window.     *)
Carried(how) ==
  IF leg.at = "request"
  THEN /\ leg' = [leg EXCEPT !.at = "reply", !.via = @ \cup {how}]
       /\ UNCHANGED <<session, console, story>>
  ELSE LET via == leg.via \cup {how}
       IN /\ leg' = Idle
          /\ console' = console \cup {IF cut THEN "post" ELSE "pre"}
          /\ story' = story
               \cup (IF via = {"direct"} /\ ~relay.fault
                     THEN {<<session.opened, "direct">>} ELSE {})
               \cup (IF via = {"alternate"} /\ leg.asked = "post" /\ relay.fault
                     THEN {<<session.opened, "alternate">>} ELSE {})
          /\ UNCHANGED session

(* Every packet of the transaction went the same way.                        *)
OneRoute(how) == leg.via \cup {how} = {how}

(* A journey is extracted from a window that holds the request and the reply. *)
Whole(how) == IF leg.at = "reply" /\ leg.asked = Open /\ OneRoute(how)
              THEN {how} ELSE {}

Receive(e) ==
  /\ <<"imp", e>> \in air
  /\ air' = air \ {<<"imp", e>>}
  /\ line' = [line EXCEPT ![e] = "up"]
  /\ \/ /\ leg.at # "idle" /\ e = Target
        /\ Carried("direct")
        /\ Logged(Whole("direct") \cup {"arrival"})
     \/ /\ Logged({"arrival"})
        /\ UNCHANGED <<guest, story>>
  /\ UNCHANGED <<mode, request, ack, relay, dropped, control>>

Detour ==
  /\ leg.at # "idle"
  /\ line[Peer(Target)] = "dead"
  /\ Carried("alternate")
  /\ Logged(Whole("alternate"))
  /\ UNCHANGED <<mode, link, control>>

Connect ==
  /\ ctl = "session" /\ ~session.open
  /\ session.opened < (IF mode = "terminal" THEN 2 ELSE 1)
  /\ session' = [opened |-> session.opened + 1, open |-> TRUE]
  /\ UNCHANGED <<mode, link, leg, console, control, window, story>>

(* The connection may be lost at any time, with what was asked on it.        *)
Disconnect ==
  /\ session.open
  /\ session' = [session EXCEPT !.open = FALSE]
  /\ leg' = Idle
  /\ UNCHANGED <<mode, link, console, control, window, story>>

AskTime ==
  /\ ctl = "session" /\ session.open /\ leg.at = "idle"
  /\ leg' = [Idle EXCEPT !.at = "request", !.asked = Open]
  /\ UNCHANGED <<mode, link, session, console, control, window, story>>

------------------------------------------------------------------------------
(* The controller. *)

(* Boot and the waits for the routes; then the offsets of the first windows. *)
RoutesSettled ==
  /\ ctl = "boot"
  /\ \A e \in Ends : line[e] = "up"
  /\ ctl' = "session"
  /\ window' = [window EXCEPT !.pre = {}]
  /\ UNCHANGED <<mode, link, guest, cut, controls, records, story>>

(* A structured TIME, packets both ways and no dead line in the window, and  *)
(* for the operator one connection only.                                     *)
Ready == /\ "pre" \in console
         /\ "arrival" \in window.pre /\ "dead" \notin window.pre
         /\ mode = "terminal" => session.opened = 1

(* Mutant: a second key press is a second request. *)
RequestAgain ==
  /\ ctl = "session"
  /\ Ready
  /\ mode = "automatic" => "direct" \in window.pre
  /\ request' = TRUE
  /\ controls' = controls + (IF mode = "terminal" THEN 1 ELSE 0)
  /\ ctl' = "await"
  /\ UNCHANGED <<mode, ack, relay, dropped, air, line, guest, cut, window, records, story>>

(* The direct journey needs the whole transaction on the direct line; the    *)
(* operator's is extracted at the end, from the same window.                 *)
RequestCut ==
  /\ ctl = "session" /\ ~cut /\ ~request
  /\ Ready
  /\ mode = "automatic" => "direct" \in window.pre
  /\ request' = TRUE
  /\ controls' = controls + (IF mode = "terminal" THEN 1 ELSE 0)
  /\ ctl' = "await"
  /\ UNCHANGED <<mode, ack, relay, dropped, air, line, guest, cut, window, records, story>>

(* Mutant: the controller does not wait for the acknowledgement. *)
GoOn ==
  /\ ctl = "await"
  /\ ctl' = "imp6"
  /\ UNCHANGED <<mode, link, guest, cut, controls, window, records, story>>

Acknowledged ==
  /\ ctl = "await" /\ ack
  /\ ctl' = "imp6"
  /\ UNCHANGED <<mode, link, guest, cut, controls, window, records, story>>

(* One IMP after the other: direct line dead, alternate ready.               *)
LineDead(e) ==
  /\ ctl = e /\ line[e] = "dead"
  /\ ctl' = IF e = "imp6" THEN "imp62" ELSE "settle"
  /\ UNCHANGED <<mode, link, guest, cut, controls, window, records, story>>

(* The settling time, IMP 7 ready, the hosts alive; then the offsets of the  *)
(* second windows.                                                           *)
Settled ==
  /\ ctl = "settle"
  /\ \A e \in Ends : <<"imp", e>> \notin air
  /\ ctl' = "session" /\ cut' = TRUE
  /\ window' = [window EXCEPT !.post = {}]
  /\ UNCHANGED <<mode, link, guest, controls, records, story>>

(* Mutant: the operator's connections are not counted. *)
UncountedEvidence ==
  /\ cut /\ "post" \in console
  /\ "direct" \in window.pre /\ "alternate" \in window.post

Evidence ==
  /\ cut /\ "post" \in console
  /\ mode = "terminal" => session.opened = 1 /\ controls = 1
  /\ "direct" \in window.pre /\ "alternate" \in window.post

(* The automatic session is at its end when the second TIME has come; the    *)
(* operator ends the other one at any time.                                  *)
FinishSession ==
  /\ ctl = "session" /\ (mode = "automatic" => "post" \in console)
  /\ ctl' = IF Evidence THEN "passed" ELSE "failed"
  /\ UNCHANGED <<mode, link, guest, cut, controls, window, records, story>>

(* Mutant: the wait for an IMP has no deadline. *)
FailElsewhere ==
  /\ ctl \notin Ends \cup {"passed", "failed", "interrupted", "stopped", "evaluated"}
  /\ ctl' = "failed"
  /\ UNCHANGED <<mode, link, guest, cut, controls, window, records, story>>

(* A deadline passes, a process dies, a signal arrives, a call fails.        *)
Fail ==
  /\ ctl \notin {"passed", "failed", "interrupted", "stopped", "evaluated"}
  /\ ctl' = "failed"
  /\ UNCHANGED <<mode, link, guest, cut, controls, window, records, story>>

(* A first signal after outcome = "passed".                                  *)
LateSignal ==
  /\ ctl = "passed"
  /\ ctl' = "interrupted"
  /\ UNCHANGED <<mode, link, guest, cut, controls, window, records, story>>

(* stop_and_record; when it fails, there is no outcome.                      *)
Stop ==
  /\ ctl \in {"passed", "failed", "interrupted"}
  /\ \/ records' = [records EXCEPT
            !.controller = IF ctl = "passed" THEN "0" ELSE "1",
            !.outcome = IF ctl = "failed" THEN "failed" ELSE "passed"]
     \/ records' = [records EXCEPT !.controller = "1"]
  /\ ctl' = "stopped"
  /\ UNCHANGED <<mode, link, guest, cut, controls, window, story>>

------------------------------------------------------------------------------
(* The launcher and the evaluator. *)

(* Only an automatic run has a receiver; it writes what it heard, as one     *)
(* record, when its time is over, and the launcher waits for that.           *)
CollectReceiver ==
  /\ ctl = "stopped" /\ records.controller = "0"
  /\ mode = "automatic" /\ records.receiver = "none"
  /\ \/ records' = [records EXCEPT !.receiver = "1"]
     \/ \E heard \in SUBSET Reports :
          records' = [records EXCEPT !.receiver = "0", !.reports = heard]
  /\ UNCHANGED <<mode, link, guest, ctl, cut, controls, window, story>>

TerminateRelay ==
  /\ ctl = "stopped" /\ records.controller = "0" /\ ~relay.stopping
  /\ mode = "automatic" => records.receiver = "0"
  /\ relay' = [relay EXCEPT !.stopping = TRUE]
  /\ UNCHANGED <<mode, request, ack, dropped, air, line, guest, control, window, story>>

CollectRelay ==
  /\ relay.stopping /\ relay.pc = "over" /\ records.relay = "none"
  /\ records' = [records EXCEPT !.relay = RelayStatus]
  /\ UNCHANGED <<mode, link, guest, ctl, cut, controls, window, story>>

(* Mutant: the verdict does not look at what the relay counted. *)
EvaluateApplication ==
  /\ ctl = "stopped" /\ records.relay = "0"
  /\ records' = [records EXCEPT !.verdict =
       IF records.outcome = "passed" THEN "passed" ELSE "failed"]
  /\ ctl' = "evaluated"
  /\ UNCHANGED <<mode, link, guest, cut, controls, window, story>>

(* Both profiles compare the two records of the cut, the relay's counters,   *)
(* the outcome and the alternate journey.                                    *)
ApplicationCrossed == /\ ack /\ relay.fault /\ dropped = Ends
                      /\ records.outcome = "passed" /\ "alternate" \in window.post

(* The NCC has to have heard of the cut; more, from others too, does no harm. *)
FormalVerdict == ApplicationCrossed /\ "cut" \in records.reports

(* The terminal's transcript has to show one cut.                            *)
TerminalVerdict == ApplicationCrossed /\ controls = 1

Evaluate ==
  /\ ctl = "stopped" /\ records.relay = "0"
  /\ records' = [records EXCEPT !.verdict =
       IF IF mode = "terminal" THEN TerminalVerdict ELSE FormalVerdict
       THEN "passed" ELSE "failed"]
  /\ ctl' = "evaluated"
  /\ UNCHANGED <<mode, link, guest, cut, controls, window, story>>

(* The launcher's last word in the manifest: a run that passed its           *)
(* evaluation may still be interrupted before it is marked.                  *)
FinishRun ==
  /\ ctl = "evaluated" /\ records.run = "none"
  /\ \/ records.verdict = "passed" /\ records' = [records EXCEPT !.run = "passed"]
     \/ records' = [records EXCEPT !.run = "failed"]
  /\ UNCHANGED <<mode, link, guest, ctl, cut, controls, window, story>>

------------------------------------------------------------------------------
(* The failover board reads the artifacts of a formal run again              *)
(* (ncc/failover_display.py).  Of a terminal run it refuses the topology of  *)
(* the manifest, the receiver's status and the kind of the verdict.          *)

Formal == mode = "automatic"

StatusesPassed == /\ Formal /\ records.run = "passed" /\ records.outcome = "passed"
                  /\ records.controller = "0" /\ records.relay = "0"
                  /\ records.receiver = "0"

(* The evaluator takes the four IMPs among the sources, the board these only. *)
VerdictPassed == Formal /\ records.verdict = "passed" /\ "stranger" \notin records.reports

CutAgrees == ack /\ relay.fault /\ relay.pc = "over" /\ dropped = Ends

JourneyAgrees == "alternate" \in window.post

(* historical-events.jsonl, which the receiver wrote: after the cut trouble   *)
(* reports from exactly the four IMPs, and throughput reports from them all.  *)
StreamComplete == /\ records.receiver = "0"
                  /\ {"cut", "throughput"} \subseteq records.reports
                  /\ "stranger" \notin records.reports

BoardAccepts ==
  StatusesPassed /\ VerdictPassed /\ CutAgrees /\ JourneyAgrees /\ StreamComplete

------------------------------------------------------------------------------

Controller ==
  \/ RoutesSettled \/ RequestCut \/ Acknowledged \/ (\E e \in Ends : LineDead(e))
  \/ Settled \/ FinishSession \/ Fail \/ LateSignal \/ Stop

Launcher == CollectReceiver \/ TerminateRelay \/ CollectRelay \/ Evaluate \/ FinishRun

CutNext ==
  \/ Poll \/ (\E e \in Ends : Relay(e)) \/ BatchEnds \/ RelayEnds
  \/ (\E e \in Ends : Hello(e) \/ LineDies(e) \/ Receive(e))
  \/ Detour \/ Connect \/ Disconnect \/ AskTime
  \/ Controller
  \/ Launcher

(* The relay goes round its loop; every wait of the controller has a         *)
(* deadline, which an operator's session has not; the launcher goes on.      *)
Loop == Poll \/ BatchEnds \/ RelayEnds
Deadlines == ctl \notin {"boot", "session"} /\ Controller
CutFairness == WF_cutVars(Loop) /\ WF_cutVars(Deadlines) /\ WF_cutVars(Launcher)

CutSpec == CutInit /\ [][CutNext]_cutVars /\ CutFairness

------------------------------------------------------------------------------
(* Properties. *)

CutRecords ==
  [controller : {"none", "0", "1"}, receiver : {"none", "0", "1"}, relay : {"none", "0", "1"},
   outcome : {"none", "passed", "failed"}, verdict : {"none", "passed", "failed"},
   run : {"none", "passed", "failed"}, reports : SUBSET Reports]

CutTypeOK ==
  /\ mode \in {"automatic", "terminal"}
  /\ request \in BOOLEAN /\ ack \in BOOLEAN /\ cut \in BOOLEAN
  /\ relay \in [pc : {"poll", "batch", "over"}, forwarding : BOOLEAN,
                fault : BOOLEAN, stopping : BOOLEAN]
  /\ dropped \subseteq Ends
  /\ air \subseteq {"relay", "imp"} \X Ends
  /\ line \in [Ends -> {"up", "dead"}]
  /\ leg \in [at : {"idle", "request", "reply"}, asked : {"pre", "gap", "post"},
              via : SUBSET {"direct", "alternate"}]
  /\ session \in [opened : 0..2, open : BOOLEAN]
  /\ console \subseteq {"pre", "post"}
  /\ ctl \in {"boot", "session", "await", "imp6", "imp62", "settle", "passed",
              "failed", "interrupted", "stopped", "evaluated"}
  /\ window \in [pre : SUBSET {"direct", "alternate", "arrival", "dead"},
                 post : SUBSET {"direct", "alternate", "arrival", "dead"}]
  /\ controls \in 0..1
  /\ records \in CutRecords
  /\ story \subseteq (0..2) \X {"direct", "alternate"}

(* Once the cut state is published, nothing that reaches the relay is sent   *)
(* on: "Atomically acknowledge the exact moment the relay entered cut state" *)
(* (ncc-direct-line-relay.py:78).                                            *)
AckStopsForwarding ==
  [][ack => \A e \in Ends : <<"imp", e>> \in air' => <<"imp", e>> \in air]_cutVars

(* The windows of the alternate journey hold nothing that came over the      *)
(* direct line, although packets were on their way when it was cut           *)
(* (pdp11-its-failover-controller.py:472-506).                               *)
PostWindowIsAlternate == window.post \cap {"direct", "arrival"} = {}

(* A run passes only when one and the same connection was answered over the  *)
(* cable before the relay cut it, and around it afterwards, whatever the     *)
(* operator did ("one guest session crossed the cut").                       *)
PassedSessionCrossed ==
  records.verdict = "passed" \/ records.outcome = "passed" =>
    \E s \in 1..2 : {<<s, "direct">>, <<s, "alternate">>} \subseteq story

(* Of the runs of both modes the board shows exactly the automatic ones that  *)
(* passed and in which the NCC heard from the four IMPs and no other, of      *)
(* throughput too: nothing else that it looks at (statuses, outcome, cut      *)
(* state, counters, journey) disagrees with what the evaluator passed, though *)
(* the relay may end before the request, the acknowledgement be late and a    *)
(* signal arrive after the last check.  (evaluate; _build_snapshot)           *)
PassedRunIsShown ==
  BoardAccepts <=> Formal /\ records.run = "passed" /\ StreamComplete

(* What a passing run claims is so, and what the board shows is a passing    *)
(* run. (evaluate; failover_display._build_snapshot)                         *)
PassedRunHolds == PassedSessionCrossed /\ PassedRunIsShown

(* A request is answered, by the acknowledgement or by the end of the relay, *)
(* and no wait holds the operator's terminal for ever: each of them has a    *)
(* deadline. (main of the relay, wait_for_cut_state, wait_for_post_cut_state) *)
WaitsEnd ==
  /\ request ~> (ack \/ relay.pc = "over")
  /\ ctl \in {"await", "imp6", "imp62", "settle"} ~> ctl \in {"session", "stopped", "evaluated"}

==============================================================================
