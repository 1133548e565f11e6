------------------------------- MODULE EndsProofs -------------------------------
(***************************************************************************)
(* CutInv is inductive: the two programs of a failover run agree on the    *)
(* cut although they only share two files, and a verdict is about one      *)
(* session that crossed it.                                                *)
(*                                                                         *)
(* The relay publishes the cut state in the same turn of its loop in which *)
(* it stops forwarding, before it receives anything more (RelayAgrees).    *)
(* From then on what is in the air can only become less; the controller    *)
(* waits for it to be gone before it takes the second offsets, so nothing  *)
(* that came over the cable can get into the second windows                *)
(* (WindowsAreApart).  What the windows hold of a transaction happened to  *)
(* a session that was opened (JourneysHappened), only one has been opened  *)
(* when the evidence is accepted, and what is then recorded needs it       *)
(* (OutcomeNeedsEvidence, RecordsInOrder).                                 *)
(*                                                                         *)
(* DeskInv is inductive, for any number of pages, events and rewrites.     *)
(*                                                                         *)
(* Classification compares a revision with the one before it only.  That a *)
(* page sees its sidecar grow over any number of answers follows since     *)
(* growth is transitive (ExtendsTransitive) and every change that is not   *)
(* growth starts a generation (ChangeTells).  The generations are counted  *)
(* against the rewrites along the way a revision takes: from what was      *)
(* classified last, over what was read, to the sidecar (WithinRewrites).   *)
(***************************************************************************)
EXTENDS MCEnds, SequenceTheorems, TLAPS

(* LineCut. *)

(* The relay forwards, has no fault to report and has published nothing, or  *)
(* none of the three; and only a request changes that.                       *)
RelayAgrees ==
  /\ relay.fault = ack /\ relay.forwarding = ~ack
  /\ ack => request

(* How far the controller is tells whether the cut was asked for and done.   *)
CutInPhases ==
  /\ ctl = "boot" => ~request
  /\ ctl = "session" /\ ~cut => ~request
  /\ ctl \in Ends \cup {"settle"} => ack
  /\ ~request => controls = 0

WindowsAreApart ==
  /\ cut => ack /\ \A e \in Ends : <<"imp", e>> \notin air
  /\ ~cut => window.post = {}
  /\ window.post \cap {"direct", "arrival"} = {}
  /\ leg.asked = "post" => cut

Answered(how) == \E s \in 1..session.opened : <<s, how>> \in story

JourneysHappened ==
  /\ session.open \/ leg.at # "idle" => session.opened >= 1
  /\ mode = "automatic" => session.opened <= 1
  /\ "direct" \in window.pre => Answered("direct")
  /\ "alternate" \in window.post => Answered("alternate")

Stopped == ctl \in {"stopped", "evaluated"}

OutcomeNeedsEvidence ==
  /\ ctl \in {"passed", "interrupted"} => Evidence
  /\ records.outcome = "passed" => Evidence /\ Stopped

RecordsInOrder ==
  /\ relay.stopping => records.controller = "0" /\ Stopped /\ (Formal => records.receiver = "0")
  /\ records.relay # "none" => relay.stopping /\ relay.pc = "over"
  /\ records.verdict = "passed" =>
       /\ records.relay = "0" /\ records.outcome = "passed"
       /\ CutAgrees /\ JourneyAgrees
  /\ records.run = "passed" => records.verdict = "passed" /\ ctl = "evaluated"

CutInv ==
  /\ CutTypeOK /\ RelayAgrees /\ CutInPhases /\ WindowsAreApart
  /\ JourneysHappened /\ OutcomeNeedsEvidence /\ RecordsInOrder

------------------------------------------------------------------------------
(* A packet of the transaction leaves everything in its type.                *)
LEMMA CarriedTypes ==
  ASSUME CutTypeOK, NEW how \in {"direct", "alternate"}, Carried(how), leg.at # "idle"
  PROVE  /\ leg'.asked \in {"pre", leg.asked}
         /\ leg' \in [at : {"idle", "request", "reply"}, asked : {"pre", "gap", "post"},
                      via : SUBSET {"direct", "alternate"}]
         /\ session' \in [opened : 0..2, open : BOOLEAN]
         /\ console' \subseteq {"pre", "post"}
         /\ story' \subseteq (0..2) \X {"direct", "alternate"}
<1> USE DEF CutTypeOK
<1>1. CASE leg.at = "request"
  <2>1. leg' = [at |-> "reply", asked |-> leg.asked, via |-> leg.via \cup {how}]
    BY <1>1, ZenonT(40) DEF Carried
  <2>2. UNCHANGED <<session, console, story>>
    BY <1>1 DEF Carried
  <2> QED BY <2>1, <2>2
<1>2. CASE leg.at = "reply"
  <2>1. leg' = Idle /\ session' = session /\ console' \subseteq {"pre", "post"}
    BY <1>2 DEF Carried
  <2>2. {<<session.opened, "direct">>, <<session.opened, "alternate">>}
          \subseteq (0..2) \X {"direct", "alternate"}
    OBVIOUS
  <2>3. story' \subseteq story \cup {<<session.opened, "direct">>, <<session.opened, "alternate">>}
    BY <1>2 DEF Carried
  <2> QED BY <2>1, <2>2, <2>3 DEF Idle
<1> QED BY <1>1, <1>2

(* Every step leaves the variables in their types.                          *)
LEMMA TypeOKKept ==
  ASSUME CutInv, [CutNext]_cutVars
  PROVE  CutTypeOK'
<1> USE DEF Ends, link, guest, control, CutInv, CutTypeOK
<1>1. CASE Poll
  <2>1. /\ relay'.pc \in {"poll", "batch", "over"} /\ relay'.forwarding \in BOOLEAN
        /\ relay'.fault \in BOOLEAN /\ relay'.stopping \in BOOLEAN
        /\ relay' \in [pc : {"poll", "batch", "over"}, forwarding : BOOLEAN,
                       fault : BOOLEAN, stopping : BOOLEAN]
    BY <1>1 DEF Poll
  <2>2. ack' \in BOOLEAN
    BY <1>1 DEF Poll
  <2> QED BY <1>1, <2>1, <2>2 DEF Poll
<1>2. ASSUME NEW e \in Ends, Relay(e) \/ Hello(e)
      PROVE  CutTypeOK'
  <2>0. UNCHANGED <<mode, request, ack, relay, line, leg, session, console, ctl, cut,
                    controls, records, window, story>>
    BY <1>2 DEF Relay, Hello
  <2>1. air' \subseteq {"relay", "imp"} \X Ends
    <3>1. {<<"relay", e>>, <<"imp", e>>, <<"relay", Peer(e)>>} \subseteq {"relay", "imp"} \X Ends
      BY DEF Peer
    <3> QED BY <1>2, <3>1 DEF Relay, Hello
  <2>2. dropped' \subseteq Ends
    <3>1. dropped' \in {dropped, dropped \cup {e}}
      BY <1>2 DEF Relay, Hello
    <3> QED BY <3>1
  <2> QED BY <2>0, <2>1, <2>2
<1>3. CASE BatchEnds \/ RelayEnds
  BY <1>3 DEF BatchEnds, RelayEnds
<1>5. ASSUME NEW e \in Ends, LineDies(e)
      PROVE  CutTypeOK'
  BY <1>5 DEF LineDies, Logged
<1>6. ASSUME NEW e \in Ends, Receive(e)
      PROVE  CutTypeOK'
  <2>1. /\ air' \subseteq {"relay", "imp"} \X Ends
        /\ line' \in [Ends -> {"up", "dead"}]
    BY <1>6 DEF Receive
  <2>2. /\ window' \in [pre : SUBSET {"direct", "alternate", "arrival", "dead"},
                        post : SUBSET {"direct", "alternate", "arrival", "dead"}]
    <3>1. Whole("direct") \subseteq {"direct", "alternate", "arrival", "dead"}
      BY DEF Whole
    <3> QED BY <1>6, <3>1 DEF Receive, Logged
  <2>3. CASE UNCHANGED <<guest, story>>
    BY <1>6, <2>1, <2>2, <2>3 DEF Receive
  <2>4. CASE leg.at # "idle" /\ Carried("direct")
    BY <1>6, <2>1, <2>2, <2>4, CarriedTypes DEF Receive
  <2> QED BY <1>6, <2>3, <2>4 DEF Receive
<1>7. CASE Detour
  <2>1. /\ window' \in [pre : SUBSET {"direct", "alternate", "arrival", "dead"},
                        post : SUBSET {"direct", "alternate", "arrival", "dead"}]
    <3>1. Whole("alternate") \subseteq {"direct", "alternate", "arrival", "dead"}
      BY DEF Whole
    <3> QED BY <1>7, <3>1 DEF Detour, Logged
  <2> QED BY <1>7, <2>1, CarriedTypes DEF Detour
<1>8. CASE Connect \/ Disconnect
  <2>1. session' \in [opened : 0..2, open : BOOLEAN]
    <3>1. CASE Connect
      <4>1. session.opened + 1 \in 0..2
        BY <3>1 DEF Connect
      <4> QED BY <3>1, <4>1 DEF Connect
    <3>2. CASE Disconnect
      BY <3>2 DEF Disconnect
    <3> QED BY <1>8, <3>1, <3>2
  <2>2. leg' \in [at : {"idle", "request", "reply"}, asked : {"pre", "gap", "post"},
                  via : SUBSET {"direct", "alternate"}]
    BY <1>8 DEF Connect, Disconnect, Idle
  <2> QED BY <1>8, <2>1, <2>2 DEF Connect, Disconnect
<1>9. CASE AskTime
  <2>1. Open \in {"pre", "gap", "post"}
    BY DEF Open
  <2>2. leg' = [at |-> "request", asked |-> Open, via |-> {}]
    BY <1>9 DEF AskTime, Idle
  <2>3. leg' \in [at : {"idle", "request", "reply"}, asked : {"pre", "gap", "post"},
                  via : SUBSET {"direct", "alternate"}]
    BY <2>1, <2>2
  <2> QED BY <1>9, <2>3 DEF AskTime
<1>10. CASE RoutesSettled
  BY <1>10 DEF RoutesSettled
<1>11. CASE RequestCut
  <2>1. controls' \in 0..1
    BY <1>11 DEF RequestCut, CutInPhases
  <2> QED BY <1>11, <2>1 DEF RequestCut
<1>12. CASE Acknowledged
  BY <1>12 DEF Acknowledged
<1>13. ASSUME NEW e \in Ends, LineDead(e)
      PROVE  CutTypeOK'
  BY <1>13 DEF LineDead
<1>14. CASE Settled
  BY <1>14 DEF Settled
<1>15. CASE FinishSession \/ Fail \/ LateSignal
  BY <1>15, ZenonT(40) DEF FinishSession, Fail, LateSignal
<1>16. CASE Stop
  <2>1. PICK c \in {"0", "1"}, o \in {"passed", "failed", records.outcome} :
          records' = [records EXCEPT !.controller = c, !.outcome = o]
    BY <1>16, ZenonT(40) DEF Stop
  <2>2. records' \in CutRecords
    BY <2>1 DEF CutRecords
  <2> QED BY <1>16, <2>2 DEF Stop
<1>17. CASE TerminateRelay
  <2>1. relay' \in [pc : {"poll", "batch", "over"}, forwarding : BOOLEAN,
                    fault : BOOLEAN, stopping : BOOLEAN]
    BY <1>17 DEF TerminateRelay
  <2> QED BY <1>17, <2>1 DEF TerminateRelay
<1>18. CASE CollectReceiver \/ CollectRelay \/ Evaluate \/ FinishRun
  <2>1. CASE CollectReceiver
    <3>1. ASSUME records' = [records EXCEPT !.receiver = "1"]
          PROVE  records' \in CutRecords
      BY <3>1 DEF CutRecords
    <3>2. ASSUME NEW heard \in SUBSET Reports,
                 records' = [records EXCEPT !.receiver = "0", !.reports = heard]
          PROVE  records' \in CutRecords
      BY <3>2 DEF CutRecords
    <3>3. records' \in CutRecords
      <4>1. \/ records' = [records EXCEPT !.receiver = "1"]
            \/ \E heard \in SUBSET Reports :
                 records' = [records EXCEPT !.receiver = "0", !.reports = heard]
        BY <2>1 DEF CollectReceiver
      <4> QED BY <4>1, <3>1, <3>2
    <3>4. UNCHANGED <<mode, link, guest, ctl, cut, controls, window, story>>
      BY <2>1, Zenon DEF CollectReceiver
    <3> QED BY <3>3, <3>4
  <2>2. CASE CollectRelay \/ Evaluate \/ FinishRun
    <3>1. records' \in CutRecords
      BY <2>2 DEF CollectRelay, RelayStatus, Evaluate, FinishRun, CutRecords
    <3> QED BY <2>2, <3>1 DEF CollectRelay, Evaluate, FinishRun
  <2> QED BY <1>18, <2>1, <2>2
<1>19. CASE UNCHANGED cutVars
  BY <1>19 DEF cutVars
<1> QED
  BY <1>1, <1>2, <1>3, <1>5, <1>6, <1>7, <1>8, <1>9, <1>10, <1>11, <1>12, <1>13,
     <1>14, <1>15, <1>16, <1>17, <1>18, <1>19 DEF CutNext, Controller, Launcher

(* The relay's loop changes its state and the published one in one turn; a  *)
(* request comes before.                                                    *)
LEMMA RelayAgreesKept ==
  ASSUME CutInv, [CutNext]_cutVars
  PROVE  RelayAgrees'
<1> USE DEF Ends, link, guest, control, CutInv, CutTypeOK, RelayAgrees
<1>1. CASE Poll
  BY <1>1 DEF Poll
<1>2. CASE RequestCut
  BY <1>2 DEF RequestCut
<1>3. ASSUME NEW e \in Ends, Relay(e) \/ Hello(e) \/ LineDies(e) \/ Receive(e) \/ LineDead(e)
      PROVE  RelayAgrees'
  BY <1>3 DEF Relay, Hello, LineDies, Receive, LineDead
<1>4. CASE BatchEnds \/ RelayEnds \/ Detour \/ Connect \/ Disconnect \/
           AskTime \/ RoutesSettled \/ Acknowledged \/ Settled \/ FinishSession \/
           Fail \/ LateSignal \/ Stop \/ TerminateRelay \/ CollectReceiver \/ CollectRelay \/
           Evaluate \/ FinishRun \/ UNCHANGED cutVars
  BY <1>4 DEF BatchEnds, RelayEnds, Detour, Connect, Disconnect, AskTime,
             RoutesSettled, Acknowledged, Settled, FinishSession, Fail, LateSignal,
             Stop, TerminateRelay, CollectReceiver, CollectRelay, Evaluate, FinishRun, cutVars
<1> QED
  BY <1>1, <1>2, <1>3, <1>4 DEF CutNext, Controller, Launcher

(* The controller asks for the cut once, and goes on when it is published.  *)
LEMMA CutInPhasesKept ==
  ASSUME CutInv, [CutNext]_cutVars
  PROVE  CutInPhases'
<1> USE DEF Ends, link, guest, control, CutInv, CutTypeOK, CutInPhases, RelayAgrees
<1>1. CASE Poll
  BY <1>1 DEF Poll
<1>2. CASE RoutesSettled
  BY <1>2 DEF RoutesSettled
<1>3. CASE RequestCut
  BY <1>3 DEF RequestCut
<1>4. CASE Acknowledged
  BY <1>4 DEF Acknowledged
<1>5. ASSUME NEW e \in Ends, LineDead(e)
      PROVE  CutInPhases'
  BY <1>5 DEF LineDead
<1>6. CASE Settled
  BY <1>6 DEF Settled
<1>7. ASSUME NEW e \in Ends, Relay(e) \/ Hello(e) \/ LineDies(e) \/ Receive(e)
      PROVE  CutInPhases'
  BY <1>7 DEF Relay, Hello, LineDies, Receive
<1>8. CASE BatchEnds \/ RelayEnds \/ Detour \/ TerminateRelay
  BY <1>8 DEF BatchEnds, RelayEnds, Detour, TerminateRelay
<1>9. CASE Connect \/ Disconnect \/ AskTime \/ FinishSession
  BY <1>9 DEF Connect, Disconnect, AskTime, FinishSession
<1>10. CASE Fail \/ LateSignal \/ Stop
  BY <1>10 DEF Fail, LateSignal, Stop
<1>11. CASE CollectReceiver \/ CollectRelay \/ Evaluate \/ FinishRun \/ UNCHANGED cutVars
  BY <1>11, ZenonT(40) DEF CollectReceiver, CollectRelay, Evaluate, FinishRun, cutVars
<1> QED
  BY <1>1, <1>2, <1>3, <1>4, <1>5, <1>6, <1>7, <1>8, <1>9, <1>10, <1>11 DEF CutNext, Controller, Launcher

(* Once the second windows are open no datagram is on its way to an IMP,    *)
(* and the relay lets no other through: an arrival is logged before, or     *)
(* never.                                                                   *)
LEMMA WindowsAreApartKept ==
  ASSUME CutInv, [CutNext]_cutVars
  PROVE  WindowsAreApart'
<1> USE DEF Ends, link, guest, control, CutInv, CutTypeOK, WindowsAreApart, RelayAgrees
<1>1. ASSUME NEW e \in Ends, Relay(e)
      PROVE  WindowsAreApart'
  BY <1>1 DEF Relay
<1>2. ASSUME NEW e \in Ends, Receive(e)
      PROVE  WindowsAreApart'
  <2>1. ~cut
    BY <1>2 DEF Receive
  <2>2. UNCHANGED <<ack, cut>> /\ window'.post = window.post
    BY <1>2, <2>1 DEF Receive, Logged
  <2>3. leg'.asked = "post" => leg.asked = "post"
    BY <1>2, CarriedTypes DEF Receive
  <2> QED BY <2>1, <2>2, <2>3
<1>3. CASE Detour
  <2>1. UNCHANGED <<ack, cut, air>> /\ window'.post \ window.post \subseteq {"alternate"}
    BY <1>3 DEF Detour, Logged, Whole
  <2>2. ~cut => window'.post = window.post
    BY <1>3 DEF Detour, Logged
  <2>3. leg'.asked = "post" => leg.asked = "post"
    BY <1>3, CarriedTypes DEF Detour
  <2> QED BY <2>1, <2>2, <2>3
<1>4. CASE AskTime
  BY <1>4 DEF AskTime, Idle, Open
<1>5. CASE RoutesSettled
  BY <1>5 DEF RoutesSettled
<1>6. CASE RequestCut
  BY <1>6 DEF RequestCut, Ready
<1>7. CASE Settled
  <2>1. window' = [pre |-> window.pre, post |-> {}] /\ cut' /\ ack'
    BY <1>7 DEF Settled, CutInPhases
  <2>2. UNCHANGED <<air, leg>>
    BY <1>7 DEF Settled
  <2>3. \A e \in Ends : <<"imp", e>> \notin air
    BY <1>7 DEF Settled
  <2> QED BY <2>1, <2>2, <2>3
<1>8. ASSUME NEW e \in Ends, Hello(e) \/ LineDies(e) \/ LineDead(e)
      PROVE  WindowsAreApart'
  BY <1>8 DEF Hello, LineDies, Logged, LineDead
<1>9. CASE Poll \/ BatchEnds \/ RelayEnds \/ Connect \/ Disconnect \/
           Acknowledged \/ FinishSession \/ Fail \/ LateSignal \/ UNCHANGED cutVars
  BY <1>9 DEF Poll, BatchEnds, RelayEnds, Connect, Disconnect, Idle,
             Acknowledged, FinishSession, Fail, LateSignal, cutVars
<1>10. CASE Stop \/ Launcher
  <2>1. /\ UNCHANGED <<ack, air, line, leg, cut, window>>
        /\ relay'.fault = relay.fault /\ relay'.forwarding = relay.forwarding
    BY <1>10 DEF Stop, Launcher, CollectReceiver, TerminateRelay, CollectRelay, Evaluate, FinishRun
  <2> QED BY <2>1
<1> QED
  BY <1>1, <1>2, <1>3, <1>4, <1>5, <1>6, <1>7, <1>8, <1>9, <1>10 DEF CutNext, Controller, Launcher

(* A transaction gets into a window with the reply that ends it, of the     *)
(* session that is open then.                                               *)
LEMMA JourneysHappenedKept ==
  ASSUME CutInv, [CutNext]_cutVars
  PROVE  JourneysHappened'
<1> USE DEF Ends, link, guest, control, CutInv, CutTypeOK, JourneysHappened, RelayAgrees, Answered
<1>1. ASSUME NEW e \in Ends, Receive(e)
      PROVE  JourneysHappened'
  <2>1. ~cut /\ UNCHANGED <<mode, session>> /\ window'.post = window.post
    BY <1>1 DEF Receive, Logged, Carried, WindowsAreApart
  <2>2. story \subseteq story' /\ (leg'.at # "idle" => leg.at # "idle")
    BY <1>1 DEF Receive, Carried, Idle
  <2>3. ASSUME "direct" \in window'.pre, "direct" \notin window.pre
        PROVE  <<session.opened, "direct">> \in story' /\ session.opened \in 1..session.opened
    <3>1. ~request /\ leg.at = "reply" /\ leg.via \cup {"direct"} = {"direct"} /\ Carried("direct")
      BY <1>1, <2>1, <2>3 DEF Receive, Logged, Whole, OneRoute
    <3>2. ~relay.fault
      BY <3>1
    <3> QED BY <3>1, <3>2 DEF Carried
  <2> QED BY <2>1, <2>2, <2>3
<1>2. CASE Detour
  <2>1. UNCHANGED <<mode, session>>
    BY <1>2 DEF Detour, Carried
  <2>2. story \subseteq story' /\ (leg'.at # "idle" => leg.at # "idle")
    BY <1>2 DEF Detour, Carried, Idle
  <2>3. "direct" \in window'.pre => "direct" \in window.pre
    BY <1>2 DEF Detour, Logged, Whole
  <2>4. ASSUME "alternate" \in window'.post, "alternate" \notin window.post
        PROVE  <<session.opened, "alternate">> \in story' /\ session.opened \in 1..session.opened
    <3>1. cut /\ leg.at = "reply" /\ leg.asked = Open
      BY <1>2, <2>4 DEF Detour, Logged, Whole
    <3>2. leg.via \cup {"alternate"} = {"alternate"} /\ Carried("alternate")
      BY <1>2, <2>4 DEF Detour, Logged, Whole, OneRoute
    <3>3. relay.fault /\ leg.asked = "post"
      BY <3>1 DEF Open, WindowsAreApart
    <3> QED BY <3>1, <3>2, <3>3 DEF Carried
  <2> QED BY <2>1, <2>2, <2>3, <2>4
<1>3. CASE Connect \/ Disconnect
  <2>1. CASE Connect
    <3>1. /\ session'.opened = session.opened + 1 /\ UNCHANGED <<mode, leg, window, story>>
          /\ mode = "automatic" => session.opened < 1
      BY <2>1 DEF Connect
    <3>2. \A s \in 1..session.opened : s \in 1..session'.opened
      BY <3>1
    <3> QED BY <3>1, <3>2
  <2>2. CASE Disconnect
    <3>1. session'.opened = session.opened /\ ~session'.open /\ leg'.at = "idle" /\ UNCHANGED <<mode, window, story>>
      BY <2>2 DEF Disconnect, Idle
    <3> QED BY <3>1
  <2> QED BY <1>3, <2>1, <2>2
<1>4. CASE AskTime
  <2>1. session.open /\ UNCHANGED <<mode, session, window, story>>
    BY <1>4 DEF AskTime
  <2> QED BY <2>1
<1>5. CASE RoutesSettled
  BY <1>5 DEF RoutesSettled
<1>6. CASE Settled
  BY <1>6 DEF Settled
<1>7. ASSUME NEW e \in Ends, Relay(e) \/ Hello(e) \/ LineDies(e) \/ LineDead(e)
      PROVE  JourneysHappened'
  <2>1. UNCHANGED <<mode, leg, session, story>>
    BY <1>7 DEF Relay, Hello, LineDies, LineDead
  <2>2. /\ "direct" \in window'.pre => "direct" \in window.pre
        /\ "alternate" \in window'.post => "alternate" \in window.post
    BY <1>7 DEF Relay, Hello, LineDies, LineDead, Logged
  <2> QED BY <2>1, <2>2
<1>8. CASE Poll \/ BatchEnds \/ RelayEnds \/ RequestCut \/ Acknowledged \/
           FinishSession \/ Fail \/ LateSignal \/ Stop \/ TerminateRelay \/
           CollectReceiver \/ CollectRelay \/ Evaluate \/ FinishRun \/ UNCHANGED cutVars
  BY <1>8 DEF Poll, BatchEnds, RelayEnds, RequestCut, Ready, Acknowledged,
             FinishSession, Fail, LateSignal, Stop, TerminateRelay, CollectReceiver, CollectRelay,
             RelayStatus, Evaluate, FinishRun, cutVars
<1> QED
  BY <1>1, <1>2, <1>3, <1>4, <1>5, <1>6, <1>7, <1>8 DEF CutNext, Controller, Launcher

(* What the evidence consists of stays once the session is over.            *)
LEMMA OutcomeNeedsEvidenceKept ==
  ASSUME CutInv, [CutNext]_cutVars
  PROVE  OutcomeNeedsEvidence'
<1> USE DEF Ends, link, guest, control, CutInv, CutTypeOK, CutRecords, OutcomeNeedsEvidence, Evidence, Stopped
<1>1. ASSUME NEW e \in Ends, Receive(e)
      PROVE  OutcomeNeedsEvidence'
  BY <1>1 DEF Receive, Logged, Whole, Open, OneRoute, Carried, Target
<1>2. CASE Detour
  BY <1>2 DEF Detour, Logged, Whole, Open, OneRoute, Carried, Target
<1>3. CASE Connect \/ Disconnect
  BY <1>3 DEF Connect, Disconnect, Idle
<1>4. CASE RoutesSettled
  BY <1>4 DEF RoutesSettled
<1>5. CASE RequestCut
  BY <1>5 DEF RequestCut, Ready
<1>6. CASE Settled
  BY <1>6 DEF Settled
<1>7. CASE FinishSession \/ Fail \/ LateSignal
  BY <1>7 DEF FinishSession, Fail, LateSignal
<1>8. CASE Stop
  BY <1>8 DEF Stop
<1>9. ASSUME NEW e \in Ends, Relay(e) \/ Hello(e) \/ LineDies(e) \/ LineDead(e)
      PROVE  OutcomeNeedsEvidence'
  BY <1>9 DEF Relay, Hello, LineDies, Logged, LineDead
<1>10. CASE Poll \/ BatchEnds \/ RelayEnds \/ AskTime \/ Acknowledged \/
           UNCHANGED cutVars
  BY <1>10 DEF Poll, BatchEnds, RelayEnds, AskTime, Idle, Open, Acknowledged, cutVars
<1>11. CASE Launcher
  <2>1. /\ records'.outcome = records.outcome
        /\ UNCHANGED <<mode, cut, console, session, controls, window>>
        /\ ctl' = ctl \/ (Stopped /\ Stopped')
    <3>1. CASE CollectReceiver
      <4>1. \/ records' = [records EXCEPT !.receiver = "1"]
            \/ \E heard \in SUBSET Reports :
                 records' = [records EXCEPT !.receiver = "0", !.reports = heard]
        BY <3>1 DEF CollectReceiver
      <4>2. UNCHANGED <<mode, link, guest, ctl, cut, controls, window, story>>
        BY <3>1, Zenon DEF CollectReceiver
      <4>3. records'.outcome = records.outcome
        BY <4>1 DEF CutRecords
      <4> QED BY <4>2, <4>3
    <3>2. CASE TerminateRelay
      BY <3>2 DEF TerminateRelay
    <3>3. CASE CollectRelay \/ FinishRun
      BY <3>3 DEF CollectRelay, FinishRun
    <3>4. CASE Evaluate
      BY <3>4 DEF Evaluate
    <3> QED BY <1>11, <3>1, <3>2, <3>3, <3>4 DEF Launcher
  <2> QED BY <2>1
<1> QED
  BY <1>1, <1>2, <1>3, <1>4, <1>5, <1>6, <1>7, <1>8, <1>9, <1>10, <1>11 DEF CutNext,
     Controller, Launcher

(* The launcher stops the relay for a successful controller only, collects  *)
(* its status when it has ended, and evaluates what both have left.         *)
LEMMA RecordsInOrderKept ==
  ASSUME CutInv, [CutNext]_cutVars
  PROVE  RecordsInOrder'
<1> USE DEF Ends, link, guest, control, CutInv, CutTypeOK, RecordsInOrder, Stopped, Formal,
             CutRecords, CutAgrees, JourneyAgrees
<1>1. ASSUME NEW e \in Ends, Relay(e)
      PROVE  RecordsInOrder'
  BY <1>1 DEF Relay
<1>2. CASE BatchEnds \/ RelayEnds
  BY <1>2 DEF BatchEnds, RelayEnds
<1>3. ASSUME NEW e \in Ends, Receive(e)
      PROVE  RecordsInOrder'
  BY <1>3 DEF Receive, Logged, Whole, Open, OneRoute, Carried, Target
<1>4. CASE Detour
  BY <1>4 DEF Detour, Logged, Whole, Open, OneRoute, Carried, Target
<1>5. CASE Stop
  BY <1>5, ZenonT(40) DEF Stop
<1>6. CASE TerminateRelay \/ CollectReceiver \/ CollectRelay
  BY <1>6, ZenonT(40) DEF TerminateRelay, CollectReceiver, CollectRelay, RelayStatus
<1>7. CASE Evaluate
  <2>1. PICK v \in {"passed", "failed"} :
          /\ records' = [records EXCEPT !.verdict = v]
          /\ v = "passed" => ApplicationCrossed
    <3> DEFINE passed == IF mode = "terminal" THEN TerminalVerdict ELSE FormalVerdict
    <3>1. records' = [records EXCEPT !.verdict = IF passed THEN "passed" ELSE "failed"]
      BY <1>7, Zenon DEF Evaluate
    <3>2. passed => ApplicationCrossed
      BY DEF FormalVerdict, TerminalVerdict
    <3>3. (IF passed THEN "passed" ELSE "failed") \in {"passed", "failed"}
      OBVIOUS
    <3>4. (IF passed THEN "passed" ELSE "failed") = "passed" => passed
      OBVIOUS
    <3> HIDE DEF passed
    <3> QED BY <3>1, <3>2, <3>3, <3>4, Zenon
  <2>2. /\ UNCHANGED <<mode, ack, relay, dropped, window>>
        /\ records.relay = "0" /\ ctl = "stopped" /\ ctl' = "evaluated"
    BY <1>7 DEF Evaluate
  <2> QED BY <2>1, <2>2 DEF ApplicationCrossed
<1>8. ASSUME NEW e \in Ends, Hello(e) \/ LineDies(e) \/ LineDead(e)
      PROVE  RecordsInOrder'
  BY <1>8 DEF Hello, LineDies, Logged, LineDead
<1>9. CASE Poll \/ Connect \/ Disconnect \/ AskTime \/ UNCHANGED cutVars
  BY <1>9, ZenonT(40) DEF Poll, Connect, Disconnect, Idle, AskTime, Open, cutVars
<1>11. CASE RoutesSettled \/ RequestCut \/ Acknowledged \/ Settled
  BY <1>11 DEF RoutesSettled, RequestCut, Ready, Acknowledged, Settled
<1>12. CASE FinishSession \/ Fail \/ LateSignal
  BY <1>12 DEF FinishSession, Fail, LateSignal
<1>10. CASE FinishRun
  BY <1>10 DEF FinishRun
<1> QED
  BY <1>1, <1>2, <1>3, <1>4, <1>5, <1>6, <1>7, <1>8, <1>9, <1>10, <1>11, <1>12
     DEF CutNext, Controller, Launcher

------------------------------------------------------------------------------
(* The first state.                                                         *)
LEMMA CutInvStarts == CutInit => CutInv
<1> SUFFICES ASSUME CutInit
             PROVE  CutInv
  OBVIOUS
<1>1. CutTypeOK
  <2>1. /\ mode \in {"automatic", "terminal"} /\ line \in [Ends -> {"up", "dead"}]
        /\ dropped \subseteq Ends /\ air \subseteq {"relay", "imp"} \X Ends
    BY DEF CutInit
  <2>2. /\ leg \in [at : {"idle", "request", "reply"}, asked : {"pre", "gap", "post"},
                    via : SUBSET {"direct", "alternate"}]
        /\ records \in CutRecords
    BY DEF CutInit, Idle, Nothing, CutRecords
  <2>3. /\ relay \in [pc : {"poll", "batch", "over"}, forwarding : BOOLEAN,
                      fault : BOOLEAN, stopping : BOOLEAN]
        /\ session \in [opened : 0..2, open : BOOLEAN]
        /\ window \in [pre : SUBSET {"direct", "alternate", "arrival", "dead"},
                       post : SUBSET {"direct", "alternate", "arrival", "dead"}]
    BY DEF CutInit
  <2>4. /\ request = FALSE /\ ack = FALSE /\ cut = FALSE /\ controls = 0
        /\ ctl = "boot" /\ console = {} /\ story = {}
    BY DEF CutInit
  <2>5. request \in BOOLEAN /\ ack \in BOOLEAN /\ cut \in BOOLEAN
    BY <2>4
  <2>6. /\ controls \in 0..1 /\ console \subseteq {"pre", "post"}
        /\ story \subseteq (0..2) \X {"direct", "alternate"}
    BY <2>4
  <2> QED BY <2>1, <2>2, <2>3, <2>4, <2>5, <2>6 DEF CutTypeOK
<1>2. RelayAgrees /\ CutInPhases /\ WindowsAreApart
  BY DEF CutInit, RelayAgrees, CutInPhases, WindowsAreApart, Idle, Ends
<1>3. JourneysHappened
  BY DEF CutInit, JourneysHappened, Idle
<1>4. OutcomeNeedsEvidence /\ RecordsInOrder
  BY DEF CutInit, OutcomeNeedsEvidence, RecordsInOrder, Nothing
<1> QED BY <1>1, <1>2, <1>3, <1>4 DEF CutInv

LEMMA CutInvKept ==
  CutInv /\ [CutNext]_cutVars => CutInv'
BY TypeOKKept, RelayAgreesKept, CutInPhasesKept, WindowsAreApartKept,
   JourneysHappenedKept, OutcomeNeedsEvidenceKept, RecordsInOrderKept DEF CutInv

(* What the relay, the controller and the launcher rely on holds in every   *)
(* state.                                                                   *)
THEOREM CutIsAgreed == CutSpec => []CutInv
BY CutInvStarts, CutInvKept, PTL DEF CutSpec

(* The variables of a failover run have their types.                         *)
THEOREM CutTypesHold == CutSpec => []CutTypeOK
<1>1. CutInv => CutTypeOK
  BY DEF CutInv
<1> QED BY <1>1, CutIsAgreed, PTL

(* Nothing in the windows after the cut came over the direct line, however   *)
(* the packets in the air, the hellos and the controller's steps interleave. *)
THEOREM SecondWindowsHold == CutSpec => []PostWindowIsAlternate
<1>1. CutInv => PostWindowIsAlternate
  BY DEF CutInv, WindowsAreApart, PostWindowIsAlternate
<1> QED BY <1>1, CutIsAgreed, PTL

(* A recorded success is about one connection that was answered over the     *)
(* cable before the cut and around it afterwards; and the board shows        *)
(* exactly the automatic runs that passed and whose reports are complete:    *)
(* its own look at statuses, cut state, counters and journey refuses none.   *)
THEOREM PassedRunsHold == CutSpec => []PassedRunHolds
<1>1. CutInv => PassedRunHolds
  <2> SUFFICES ASSUME CutInv
               PROVE  PassedRunHolds
    OBVIOUS
  <2>1. PassedRunIsShown
    <3>1. ASSUME Formal, records.run = "passed", StreamComplete
          PROVE  BoardAccepts
      <4>1. records.verdict = "passed" /\ records.relay = "0" /\ records.outcome = "passed"
        BY <3>1 DEF CutInv, RecordsInOrder
      <4>2. records.controller = "0" /\ CutAgrees /\ JourneyAgrees
        BY <4>1 DEF CutInv, RecordsInOrder
      <4> QED BY <3>1, <4>1, <4>2 DEF BoardAccepts, StatusesPassed, VerdictPassed, StreamComplete
    <3>2. BoardAccepts => Formal /\ records.run = "passed" /\ StreamComplete
      BY DEF BoardAccepts, StatusesPassed
    <3> QED BY <3>1, <3>2 DEF PassedRunIsShown
  <2>2. records.verdict = "passed" => records.outcome = "passed"
    BY DEF CutInv, RecordsInOrder
  <2>3. ASSUME records.outcome = "passed"
        PROVE  {<<1, "direct">>, <<1, "alternate">>} \subseteq story
    <3>1. session.opened \in 0..1
      BY <2>3 DEF CutInv, CutTypeOK, OutcomeNeedsEvidence, Evidence, JourneysHappened
    <3>2. Answered("direct") /\ Answered("alternate")
      BY <2>3 DEF CutInv, OutcomeNeedsEvidence, Evidence, JourneysHappened
    <3> QED BY <3>1, <3>2 DEF Answered
  <2> QED BY <2>1, <2>2, <2>3 DEF PassedRunHolds, PassedSessionCrossed
<1> QED BY <1>1, CutIsAgreed, PTL

(* Once the cut is acknowledged the relay sends nothing on, although it may  *)
(* be in the middle of a batch.                                              *)
THEOREM AckIsRespected == CutSpec => AckStopsForwarding
<1>1. CutInv /\ [CutNext]_cutVars =>
        [ack => \A e \in Ends : <<"imp", e>> \in air' => <<"imp", e>> \in air]_cutVars
  <2> SUFFICES ASSUME CutInv, CutNext, ack, NEW e \in Ends, <<"imp", e>> \in air'
               PROVE  <<"imp", e>> \in air
    OBVIOUS
  <2>1. CASE \E f \in Ends : Relay(f) \/ Hello(f) \/ LineDies(f) \/ Receive(f) \/ LineDead(f)
    <3>1. PICK f \in Ends : Relay(f) \/ Hello(f) \/ LineDies(f) \/ Receive(f) \/ LineDead(f)
      BY <2>1
    <3>2. relay.forwarding = FALSE
      BY DEF CutInv, RelayAgrees
    <3>3. CASE Hello(f)
      <4>1. <<"relay", Peer(f)>> # <<"imp", e>>
        OBVIOUS
      <4> QED BY <3>3, <4>1 DEF Hello
    <3> QED BY <3>1, <3>2, <3>3 DEF Relay, LineDies, Receive, LineDead, link
  <2>2. CASE UNCHANGED air
    BY <2>2
  <2>3. \/ \E f \in Ends : Relay(f) \/ Hello(f) \/ LineDies(f) \/ Receive(f) \/ LineDead(f)
        \/ UNCHANGED air
    BY DEF CutNext, Controller, Poll, BatchEnds, RelayEnds, Detour, Connect, Disconnect,
           AskTime, RoutesSettled, RequestCut, Acknowledged, Settled, FinishSession, Fail,
           LateSignal, Stop, TerminateRelay, CollectReceiver, CollectRelay, Evaluate, FinishRun, Launcher, link
  <2> QED BY <2>1, <2>2, <2>3
<1> QED BY <1>1, CutIsAgreed, PTL DEF CutSpec, AckStopsForwarding

------------------------------------------------------------------------------
(* LineDesk. *)

Revisions == [id : Int, run : {"run", "other", "none"}, lines : Seq({"line", "note"})]

Modes == {"none", "live", "completed", "completion-invalid", "completion-mismatch"}

Shown == [revision : Revisions, generation : Nat, mode : Modes]

PageStates ==
  [at : {"idle", "read", "classify", "complete", "summary", "stopped"},
   target : {"snapshot", "completed"}, terminal : BOOLEAN,
   revision : Revisions, shown : Shown]

Changes == {"initial", "same", "appended", "identity-changed", "replaced", "restarted", "truncated"}
Breaks == {"identity-changed", "replaced", "restarted", "truncated"}

Tables ==
  /\ server \in [kind : {"desk", "board"}, open : SUBSET Pages]
  /\ sidecar \in Revisions /\ sidecar.id >= 0
  /\ rewrites \in Nat
  /\ observer \in [previous : Revisions, change : Changes, generation : Nat]
  /\ page \in [Pages -> PageStates]

(* What a page has read, and what it shows, was the sidecar's at some time.  *)
Readings ==
  \A p \in Pages :
    /\ page[p].revision.id <= sidecar.id
    /\ page[p].shown.revision.id <= sidecar.id
    /\ page[p].at \in {"classify", "complete"} => page[p].revision.id >= 0

(* Only a page that was shown the completed run leaves for the summary.      *)
LeavesCompleted ==
  \A p \in Pages : page[p].target = "completed" \/ page[p].at = "summary" =>
    server.kind = "desk" /\ page[p].shown.mode = "completed"

(* What separates two revisions: a rewrite, or only growth.                  *)
Lag(old, r) == IF old = None \/ Extends(r, old) THEN 0 ELSE 1

(* What the observer has yet to see of the rewrites.                         *)
Unseen(p) ==
  IF page[p].at = "classify"
  THEN Lag(observer.previous, page[p].revision) + Lag(page[p].revision, sidecar)
  ELSE Lag(observer.previous, sidecar)

WithinRewrites ==
  /\ observer.generation >= 1
  /\ \A p \in Pages : server.open = {p} => observer.generation + Unseen(p) <= 1 + rewrites

(* With one page, what the observer has classified last is what that page is *)
(* about to be shown, and it has grown out of what the page shows.           *)
Grown ==
  \A p \in Pages : server.open = {p} =>
    /\ page[p].at = "complete" => page[p].revision = observer.previous
    /\ page[p].shown # NothingShown =>
         /\ observer.previous # None
         /\ page[p].shown.generation <= observer.generation
         /\ page[p].shown.generation = observer.generation =>
              Extends(observer.previous, page[p].shown.revision)

DeskInv ==
  Tables /\ Readings /\ LeavesCompleted /\ WithinRewrites /\ Grown /\ CompletedIsTheVerdict

------------------------------------------------------------------------------
(* Growth of a sidecar.                                                      *)

LEMMA ExtendsPointwise ==
  ASSUME NEW r \in Revisions, NEW old \in Revisions
  PROVE  Extends(r, old) <=>
           /\ r.id = old.id /\ r.run = old.run /\ Len(old.lines) <= Len(r.lines)
           /\ \A i \in 1..Len(old.lines) : r.lines[i] = old.lines[i]
<1> DEFINE Lines == {"line", "note"}
<1>1. r.lines \in Seq(Lines) /\ old.lines \in Seq(Lines)
  BY DEF Revisions
<1>2. Len(old.lines) \in Nat /\ Len(r.lines) \in Nat
  BY <1>1
<1>3. ASSUME Len(old.lines) <= Len(r.lines)
      PROVE  SubSeq(r.lines, 1, Len(old.lines)) = old.lines
               <=> \A i \in 1..Len(old.lines) : r.lines[i] = old.lines[i]
  <2>1. \A i \in 1..Len(old.lines) : r.lines[i] \in Lines
    BY <1>1, <1>2, <1>3
  <2>2. /\ SubSeq(r.lines, 1, Len(old.lines)) \in Seq(Lines)
        /\ Len(SubSeq(r.lines, 1, Len(old.lines))) = Len(old.lines)
        /\ \A i \in 1..Len(old.lines) : SubSeq(r.lines, 1, Len(old.lines))[i] = r.lines[i]
    BY <1>2, <2>1, SubSeqProperties
  <2> QED BY <1>1, <2>2, SeqEqual
<1> QED BY <1>3 DEF Extends

LEMMA ExtendsItself ==
  ASSUME NEW r \in Revisions
  PROVE  Extends(r, r)
<1>1. Len(r.lines) \in Nat
  BY DEF Revisions
<1> QED BY <1>1, ExtendsPointwise

LEMMA ExtendsTransitive ==
  ASSUME NEW r \in Revisions, NEW s \in Revisions, NEW t \in Revisions,
         Extends(s, r), Extends(t, s)
  PROVE  Extends(t, r)
<1>1. Len(r.lines) \in Nat /\ Len(s.lines) \in Nat /\ Len(t.lines) \in Nat
  BY DEF Revisions
<1> QED BY <1>1, ExtendsPointwise

LEMMA ExtendsBothWays ==
  ASSUME NEW r \in Revisions, NEW s \in Revisions, Extends(s, r), Extends(r, s)
  PROVE  r = s
<1>1. Len(r.lines) = Len(s.lines) /\ \A i \in 1..Len(r.lines) : r.lines[i] = s.lines[i]
  <2>1. Len(r.lines) \in Nat /\ Len(s.lines) \in Nat
    BY DEF Revisions
  <2> QED BY <2>1, ExtendsPointwise
<1>2. r.lines = s.lines
  BY <1>1, SeqEqual DEF Revisions
<1> QED BY <1>2 DEF Extends, Revisions

(* An event makes the sidecar grow.                                          *)
LEMMA AppendExtends ==
  ASSUME NEW r \in Revisions, NEW e \in {"line", "note"},
         NEW s, s = [r EXCEPT !.lines = Append(@, e)]
  PROVE  s \in Revisions /\ s.id = r.id /\ Extends(s, r)
<1>1. r.lines \in Seq({"line", "note"})
  BY DEF Revisions
<1>2. /\ Append(r.lines, e) \in Seq({"line", "note"})
      /\ Len(Append(r.lines, e)) = Len(r.lines) + 1
      /\ \A i \in 1..Len(r.lines) : Append(r.lines, e)[i] = r.lines[i]
      /\ Len(r.lines) \in Nat
  BY <1>1, AppendProperties, LenProperties
<1>3. s = [id |-> r.id, run |-> r.run, lines |-> Append(r.lines, e)]
  BY DEF Revisions
<1>4. s \in Revisions
  BY <1>2, <1>3 DEF Revisions
<1>5. s.id = r.id /\ s.run = r.run /\ s.lines = Append(r.lines, e)
  BY <1>3
<1>6. /\ s.id = r.id /\ s.run = r.run /\ Len(r.lines) <= Len(s.lines)
      /\ \A i \in 1..Len(r.lines) : s.lines[i] = r.lines[i]
  BY <1>2, <1>5
<1>7. Extends(s, r)
  BY <1>4, <1>6, ExtendsPointwise
<1> QED BY <1>4, <1>5, <1>7

LEMMA NoneIsARevision == None \in Revisions /\ None.id = -1
BY EmptySeq DEF None, NothingShown, Revisions

(* A change starts a generation exactly when it is not growth.               *)
LEMMA ChangeTells ==
  ASSUME NEW r \in Revisions, NEW old \in Revisions
  PROVE  /\ Change(r, old) \in Changes
         /\ Change(r, old) \in Breaks => old # None /\ ~Extends(r, old)
         /\ Change(r, old) \notin Breaks => old = None \/ Extends(r, old)
<1>1. old # None /\ r = old => Extends(r, old)
  BY ExtendsItself
<1>2. r # old => ~(Extends(r, old) /\ Extends(old, r))
  BY ExtendsBothWays
<1>3. CASE old = None
  BY <1>3 DEF Change, Changes, Breaks
<1>4. CASE old # None /\ r.run # old.run
  BY <1>4 DEF Change, Changes, Breaks, Extends
<1>5. CASE old # None /\ r.run = old.run /\ r.id # old.id
  BY <1>5 DEF Change, Changes, Breaks, Extends
<1>6. CASE old # None /\ r = old
  BY <1>1, <1>6 DEF Change, Changes, Breaks
<1>7. CASE old # None /\ r.run = old.run /\ r.id = old.id /\ r # old
  BY <1>2, <1>7 DEF Change, Changes, Breaks
<1> QED BY <1>3, <1>4, <1>5, <1>6, <1>7

LEMMA LagFacts ==
  ASSUME NEW x \in Revisions, NEW y \in Revisions, NEW z \in Revisions
  PROVE  /\ Lag(x, y) \in {0, 1}
         /\ Lag(x, x) = 0
         /\ Extends(z, y) => Lag(x, z) <= Lag(x, y)
<1>1. x = None \/ ~Extends(y, x) \/ ~Extends(z, y) \/ Extends(z, x)
  BY ExtendsTransitive
<1> QED BY <1>1, ExtendsItself DEF Lag

------------------------------------------------------------------------------
(* What the steps do.                                                        *)

LEMMA CompletionIsAMode == \A r : Completion(r) \in Modes
BY DEF Completion, Modes

LEMMA ClosedIsAPage == Closed \in PageStates /\ NothingShown \in Shown
BY NoneIsARevision DEF Closed, NothingShown, None, Shown, Modes, PageStates

LEMMA RefusedPage ==
  ASSUME Tables, NEW p \in Pages
  PROVE  /\ Refused(p) \in PageStates
         /\ Refused(p).shown = page[p].shown /\ Refused(p).target = page[p].target
         /\ Refused(p).at \in {"idle", "stopped"} /\ Refused(p).revision = None
<1>1. page[p] \in PageStates
  BY DEF Tables
<1>2. /\ Refused(p).shown = page[p].shown /\ Refused(p).target = page[p].target
      /\ Refused(p).at \in {"idle", "stopped"} /\ Refused(p).revision = None
  BY <1>1 DEF Refused, PageStates
<1>3. Refused(p) \in PageStates
  BY <1>1, NoneIsARevision DEF Refused, PageStates
<1> QED BY <1>2, <1>3

(* An answer leaves what the page shows, or shows what was read for it.      *)
LEMMA ReplyCases ==
  ASSUME Tables, NEW p \in Pages, Reply(p)
  PROVE  \E q \in PageStates :
    /\ page' = [page EXCEPT ![p] = q]
    /\ q.revision = None /\ q.at \in {"idle", "stopped", "summary"}
    /\ \/ q.shown = page[p].shown /\ q.target = page[p].target /\ q.at # "summary"
       \/ q.shown = page[p].shown /\ q.target = "snapshot" /\ page[p].target = "completed"
       \/ /\ q.shown = Snapshot(page[p], Completion(page[p].revision))
          /\ q.at = "idle"
          /\ q.target = "completed" =>
               server.kind = "desk" /\ Completion(page[p].revision) = "completed"
<1> DEFINE answer == Completion(page[p].revision)
           done == answer = "completed"
<1>0. page[p] \in PageStates /\ answer \in Modes
  BY CompletionIsAMode DEF Tables
<1>1. CASE Refuses(page[p], done)
  <2>1. page' = [page EXCEPT ![p] = Refused(p)]
    BY <1>1 DEF Reply, Step, Refuses
  <2> QED BY <2>1, RefusedPage
<1>2. CASE ~Refuses(page[p], done) /\ done /\ page[p].target = "completed"
  <2> DEFINE q == [at |-> "summary", target |-> "snapshot", terminal |-> FALSE,
                   revision |-> None, shown |-> page[p].shown]
  <2>1. page' = [page EXCEPT ![p] = q]
    BY <1>2 DEF Reply, Step, Closed
  <2>2. q \in PageStates
    BY <1>0, NoneIsARevision DEF PageStates
  <2> QED BY <1>2, <2>1, <2>2
<1>3. CASE ~Refuses(page[p], done) /\ ~(done /\ page[p].target = "completed")
  <2> DEFINE q == [at |-> "idle", target |-> NextTarget(done), terminal |-> FALSE,
                   revision |-> None, shown |-> Snapshot(page[p], answer)]
  <2>1. page' = [page EXCEPT ![p] = q]
    BY <1>3 DEF Reply, Step, Closed
  <2>2. Snapshot(page[p], answer) \in Shown
    BY <1>0 DEF Snapshot, Shown, PageStates, Tables
  <2>3. q \in PageStates
    BY <2>2, NoneIsARevision DEF PageStates, NextTarget
  <2> QED BY <1>3, <2>1, <2>3 DEF NextTarget
<1> QED BY <1>1, <1>2, <1>3

(* So does a page that asks, and its reader.                                 *)
LEMMA AskCases ==
  ASSUME Tables, NEW p \in Pages, AskServer(p) \/ ReadStream(p)
  PROVE  \E q \in PageStates :
    /\ page' = [page EXCEPT ![p] = q]
    /\ q.shown = page[p].shown /\ q.target = page[p].target
    /\ \/ q.at = "read" /\ q.revision = page[p].revision
       \/ q.at = "classify" /\ q.revision = sidecar
       \/ q.at \in {"idle", "stopped"} /\ q.revision = None
    /\ page[p].at # "classify"
<1>0. page[p] \in PageStates
  BY DEF Tables
<1>1. CASE AskServer(p)
  <2> DEFINE q == [page[p] EXCEPT !.at = "read", !.terminal = server.kind = "board" /\ TerminalFields]
  <2>1. page' = [page EXCEPT ![p] = q]
    BY <1>1 DEF AskServer, Step
  <2>2. (server.kind = "board" /\ TerminalFields) \in BOOLEAN
    OBVIOUS
  <2>3. /\ q \in PageStates /\ q.shown = page[p].shown /\ q.target = page[p].target
        /\ q.at = "read" /\ q.revision = page[p].revision
    BY <1>0, <2>2 DEF PageStates
  <2>4. page[p].at # "classify"
    BY <1>1 DEF AskServer, At
  <2> QED BY <2>1, <2>3, <2>4
<1>2. CASE ReadStream(p)
  <2> DEFINE q == [page[p] EXCEPT !.at = "classify", !.revision = sidecar]
  <2>1. page' = [page EXCEPT ![p] = q] \/ page' = [page EXCEPT ![p] = Refused(p)]
    BY <1>2 DEF ReadStream, Step
  <2>2. /\ q \in PageStates /\ q.shown = page[p].shown /\ q.target = page[p].target
        /\ q.at = "classify" /\ q.revision = sidecar
    BY <1>0 DEF PageStates, Tables
  <2>3. page[p].at # "classify"
    BY <1>2 DEF ReadStream, At
  <2> QED BY <2>1, <2>2, <2>3, RefusedPage
<1> QED BY <1>1, <1>2

LEMMA ClassifyCases ==
  ASSUME Tables, NEW p \in Pages, Classify(p)
  PROVE  LET r == page[p].revision
             old == observer.previous
         IN  /\ r \in Revisions /\ old \in Revisions
             /\ \E q \in PageStates :
                  /\ page' = [page EXCEPT ![p] = q]
                  /\ q.shown = page[p].shown /\ q.target = page[p].target
                  /\ q.at = "complete" /\ q.revision = r
             /\ observer' \in [previous : Revisions, change : Changes, generation : Nat]
             /\ observer'.previous = r
             /\ \/ observer'.generation = observer.generation + 1 /\ old # None /\ ~Extends(r, old)
                \/ observer'.generation = observer.generation /\ (old = None \/ Extends(r, old))
             /\ observer'.generation = observer.generation + Lag(old, r)
             /\ page[p].at = "classify"
<1> DEFINE r == page[p].revision
           old == observer.previous
           q == [page[p] EXCEPT !.at = "complete"]
<1>1. page[p] \in PageStates /\ r \in Revisions /\ old \in Revisions
  BY DEF Tables, PageStates
<1>2. /\ page' = [page EXCEPT ![p] = q] /\ page[p].at = "classify"
      /\ observer' = [previous |-> r,
             change |-> IF Change(r, old) = "same" THEN observer.change ELSE Change(r, old),
             generation |-> IF Change(r, old) \in Breaks
                            THEN observer.generation + 1 ELSE observer.generation]
  BY DEF Classify, ClassifyRevision, Step, At, Breaks
<1>3. /\ q \in PageStates /\ q.shown = page[p].shown /\ q.target = page[p].target
      /\ q.at = "complete" /\ q.revision = r
  BY <1>1 DEF PageStates
<1>4. observer.change \in Changes /\ observer.generation \in Nat
  BY DEF Tables
<1>5. observer' \in [previous : Revisions, change : Changes, generation : Nat]
  BY <1>1, <1>2, <1>4, ChangeTells
<1>6. \/ observer'.generation = observer.generation + 1 /\ old # None /\ ~Extends(r, old)
      \/ observer'.generation = observer.generation /\ (old = None \/ Extends(r, old))
  BY <1>1, <1>2, ChangeTells
<1>7. observer'.generation = observer.generation + Lag(old, r)
  BY <1>4, <1>6 DEF Lag
<1> QED BY <1>1, <1>2, <1>3, <1>5, <1>6, <1>7

(* The sidecar grows, or is rewritten.                                       *)
LEMMA SidecarMoves ==
  ASSUME Tables, (\E e \in {"line", "note"} : Event(e)) \/ Rewrite
  PROVE  /\ sidecar' \in Revisions /\ sidecar'.id >= sidecar.id
         /\ \/ rewrites' = rewrites /\ Extends(sidecar', sidecar)
            \/ rewrites' = rewrites + 1
         /\ UNCHANGED <<server, observer, page>>
<1>0. sidecar \in Revisions /\ sidecar.id \in Int
  BY DEF Tables, Revisions
<1>1. ASSUME NEW e \in {"line", "note"}, Event(e)
      PROVE  /\ sidecar' \in Revisions /\ sidecar'.id = sidecar.id
             /\ rewrites' = rewrites /\ Extends(sidecar', sidecar)
  BY <1>0, <1>1, AppendExtends DEF Event
<1>2. CASE Rewrite
  <2>1. SubSeq(sidecar.lines, 1, Len(sidecar.lines) - 1) \in Seq({"line", "note"})
    <3>1. sidecar.lines \in Seq({"line", "note"}) /\ Len(sidecar.lines) \in Nat
      BY <1>0 DEF Revisions
    <3>2. \A i \in 1..Len(sidecar.lines) - 1 : sidecar.lines[i] \in {"line", "note"}
      BY <3>1
    <3> QED BY <3>1, <3>2, SubSeqProperties
  <2>2. << >> \in Seq({"line", "note"})
    BY EmptySeq
  <2>3. sidecar' \in Revisions /\ sidecar'.id >= sidecar.id
    <3>1. sidecar = [id |-> sidecar.id, run |-> sidecar.run, lines |-> sidecar.lines]
      BY <1>0 DEF Revisions
    <3>2. PICK i \in {sidecar.id, sidecar.id + 1}, r \in {sidecar.run, "other"},
               l \in {sidecar.lines, <<>>, SubSeq(sidecar.lines, 1, Len(sidecar.lines) - 1)} :
            sidecar' = [id |-> i, run |-> r, lines |-> l]
      BY <1>2, <3>1 DEF Rewrite
    <3>3. i \in Int /\ i >= sidecar.id /\ r \in {"run", "other", "none"}
      BY <1>0 DEF Revisions
    <3>4. l \in Seq({"line", "note"})
      BY <1>0, <2>1, <2>2 DEF Revisions
    <3>5. sidecar'.id = i
      BY <3>2
    <3> QED BY <3>2, <3>3, <3>4, <3>5 DEF Revisions
  <2> QED BY <1>2, <2>3 DEF Rewrite
<1>3. UNCHANGED <<server, observer, page>>
  BY DEF Event, Rewrite
<1> QED BY <1>0, <1>1, <1>2, <1>3

(* A sidecar only changes in steps that leave the pages and their observer.  *)
LEMMA PagesLeaveTheRun ==
  ASSUME NEW p \in Pages, PageStep(p)
  PROVE  UNCHANGED <<server, sidecar, rewrites, record>> /\ p \in server.open
BY DEF PageStep, AskServer, ReadStream, Classify, Reply, At

------------------------------------------------------------------------------
LEMMA TablesKept ==
  ASSUME Tables, [DeskNext]_deskVars
  PROVE  Tables'
<1>1. CASE (\E e \in {"line", "note"} : Event(e)) \/ Rewrite
  <2>1. sidecar.id \in Int /\ sidecar'.id \in Int
    BY <1>1, SidecarMoves DEF Tables, Revisions
  <2> QED BY <1>1, <2>1, SidecarMoves DEF Tables
<1>2. CASE EvaluateRun \/ FinishRecord
  BY <1>2 DEF EvaluateRun, FinishRecord, Tables
<1>3. ASSUME NEW p \in Pages, PageStep(p)
      PROVE  Tables'
  <2>1. UNCHANGED <<server, sidecar, rewrites>>
    BY <1>3, PagesLeaveTheRun
  <2>2. CASE Classify(p)
    BY <2>1, <2>2, ClassifyCases DEF Tables
  <2>3. CASE ~Classify(p)
    <3>1. UNCHANGED observer
      BY <1>3, <2>3 DEF PageStep, AskServer, ReadStream, Reply
    <3>2. \E q \in PageStates : page' = [page EXCEPT ![p] = q]
      BY <1>3, <2>3, AskCases, ReplyCases DEF PageStep
    <3> QED BY <2>1, <3>1, <3>2 DEF Tables
  <2> QED BY <2>2, <2>3
<1>4. CASE UNCHANGED deskVars
  BY <1>4 DEF deskVars, Tables
<1> QED BY <1>1, <1>2, <1>3, <1>4 DEF DeskNext

LEMMA ReadingsKept ==
  ASSUME Tables, Readings, [DeskNext]_deskVars
  PROVE  Readings'
<1>0. \A p \in Pages : /\ page[p] \in PageStates /\ page[p].revision.id \in Int
                       /\ page[p].shown.revision.id \in Int
  BY DEF Tables, PageStates, Shown, Revisions
<1>1. CASE (\E e \in {"line", "note"} : Event(e)) \/ Rewrite
  <2>1. sidecar.id \in Int /\ sidecar'.id \in Int /\ sidecar'.id >= sidecar.id /\ UNCHANGED page
    BY <1>1, SidecarMoves DEF Tables, Revisions
  <2> QED BY <1>0, <2>1 DEF Readings
<1>2. CASE EvaluateRun \/ FinishRecord \/ UNCHANGED deskVars
  BY <1>2 DEF EvaluateRun, FinishRecord, Readings, deskVars
<1>3. ASSUME NEW p \in Pages, PageStep(p)
      PROVE  Readings'
  <2>0. UNCHANGED sidecar /\ sidecar.id \in Int /\ sidecar.id >= 0 /\ None.id = -1
    BY <1>3, PagesLeaveTheRun, NoneIsARevision DEF Tables, Revisions
  <2>1. PICK q \in PageStates :
          /\ page' = [page EXCEPT ![p] = q]
          /\ q.revision \in {None, sidecar, page[p].revision}
          /\ q.shown.revision \in {page[p].shown.revision, page[p].revision}
          /\ q.at \in {"classify", "complete"} => q.revision = sidecar \/ page[p].at = "classify"
          /\ q.at = "complete" => q.revision = page[p].revision
          /\ q.at = "classify" => q.revision = sidecar
    <3>1. CASE AskServer(p) \/ ReadStream(p)
      BY <3>1, AskCases
    <3>2. CASE Classify(p)
      BY <3>2, ClassifyCases
    <3>3. CASE Reply(p)
      <4>1. \A m : /\ Snapshot(page[p], m).revision = page[p].revision
                   /\ Snapshot(page[p], m).mode = m
        BY DEF Snapshot
      <4> QED BY <3>3, <4>1, ReplyCases
    <3> QED BY <1>3, <3>1, <3>2, <3>3 DEF PageStep
  <2>2. /\ q.revision.id <= sidecar.id /\ q.shown.revision.id <= sidecar.id
        /\ q.at \in {"classify", "complete"} => q.revision.id >= 0
    BY <1>0, <2>0, <2>1 DEF Readings
  <2> QED BY <2>0, <2>1, <2>2 DEF Readings, Tables
<1> QED BY <1>1, <1>2, <1>3 DEF DeskNext

LEMMA LeavesCompletedKept ==
  ASSUME Tables, LeavesCompleted, [DeskNext]_deskVars
  PROVE  LeavesCompleted'
<1>1. CASE (\E e \in {"line", "note"} : Event(e)) \/ Rewrite \/ EvaluateRun \/ FinishRecord \/ UNCHANGED deskVars
  BY <1>1 DEF Event, Rewrite, EvaluateRun, FinishRecord, deskVars, LeavesCompleted
<1>2. ASSUME NEW p \in Pages, PageStep(p)
      PROVE  LeavesCompleted'
  <2>0. UNCHANGED server
    BY <1>2, PagesLeaveTheRun
  <2>1. PICK q \in PageStates :
          /\ page' = [page EXCEPT ![p] = q]
          /\ \/ q.shown = page[p].shown /\ q.target = page[p].target /\ q.at # "summary"
             \/ q.shown = page[p].shown /\ page[p].target = "completed"
             \/ /\ q.at # "summary"
                /\ q.target = "completed" => server.kind = "desk" /\ q.shown.mode = "completed"
    <3>1. CASE AskServer(p) \/ ReadStream(p)
      BY <3>1, AskCases
    <3>2. CASE Classify(p)
      BY <3>2, ClassifyCases
    <3>3. CASE Reply(p)
      <4>1. \A m : /\ Snapshot(page[p], m).revision = page[p].revision
                   /\ Snapshot(page[p], m).mode = m
        BY DEF Snapshot
      <4> QED BY <3>3, <4>1, ReplyCases
    <3> QED BY <1>2, <3>1, <3>2, <3>3 DEF PageStep
  <2> QED BY <2>0, <2>1 DEF LeavesCompleted, Tables
<1> QED BY <1>1, <1>2 DEF DeskNext

(* A completed run's record is not written again, and a page shows a run as  *)
(* completed only when what was read for it supports the verdict.            *)
LEMMA CompletedIsTheVerdictKept ==
  ASSUME Tables, CompletedIsTheVerdict, [DeskNext]_deskVars
  PROVE  CompletedIsTheVerdict'
<1>1. CASE (\E e \in {"line", "note"} : Event(e)) \/ Rewrite \/ EvaluateRun \/ FinishRecord \/ UNCHANGED deskVars
  <2>1. UNCHANGED page /\ (LooksTerminal => UNCHANGED record)
    BY <1>1 DEF Event, Rewrite, EvaluateRun, FinishRecord, deskVars, LooksTerminal
  <2> QED BY <2>1 DEF CompletedIsTheVerdict, LooksTerminal
<1>2. ASSUME NEW p \in Pages, PageStep(p)
      PROVE  CompletedIsTheVerdict'
  <2>0. UNCHANGED record
    BY <1>2, PagesLeaveTheRun
  <2>1. PICK q \in PageStates :
          /\ page' = [page EXCEPT ![p] = q]
          /\ \/ q.shown = page[p].shown
             \/ q.shown = Snapshot(page[p], Completion(page[p].revision))
    <3>1. CASE AskServer(p) \/ ReadStream(p)
      BY <3>1, AskCases
    <3>2. CASE Classify(p)
      BY <3>2, ClassifyCases
    <3>3. CASE Reply(p)
      BY <3>3, ReplyCases
    <3> QED BY <1>2, <3>1, <3>2, <3>3 DEF PageStep
  <2>2. ASSUME q.shown = Snapshot(page[p], Completion(page[p].revision)),
               q.shown.mode = "completed"
        PROVE  /\ LooksTerminal /\ record.passed /\ q.shown.revision.run = "run"
               /\ Conclusion(q.shown.revision.lines) = record.support
    BY <2>2 DEF Snapshot, Completion, SummaryValid
  <2> QED BY <2>0, <2>1, <2>2 DEF CompletedIsTheVerdict, LooksTerminal, Tables
<1> QED BY <1>1, <1>2 DEF DeskNext

(* A rewrite makes at most one revision more than what it follows; reading   *)
(* and classifying only move what is unseen.                                 *)
LEMMA WithinRewritesKept ==
  ASSUME Tables, Readings, WithinRewrites, [DeskNext]_deskVars
  PROVE  WithinRewrites'
<1>0. /\ \A p \in Pages : page[p] \in PageStates /\ page[p].revision \in Revisions
      /\ sidecar \in Revisions /\ observer.previous \in Revisions
      /\ observer.generation \in Nat /\ rewrites \in Nat
  BY DEF Tables, PageStates
<1>1. CASE (\E e \in {"line", "note"} : Event(e)) \/ Rewrite
  <2>1. /\ sidecar' \in Revisions /\ UNCHANGED <<server, observer, page>>
        /\ \/ rewrites' = rewrites /\ Extends(sidecar', sidecar)
           \/ rewrites' = rewrites + 1
    BY <1>1, SidecarMoves
  <2>2. ASSUME NEW x \in Revisions
        PROVE  /\ Lag(x, sidecar) \in {0, 1} /\ Lag(x, sidecar') \in {0, 1}
               /\ rewrites' = rewrites => Lag(x, sidecar') <= Lag(x, sidecar)
    BY <1>0, <2>1, LagFacts
  <2>3. ASSUME NEW p \in Pages, server.open = {p}
        PROVE  observer'.generation + Unseen(p)' <= 1 + rewrites'
    <3>1. CASE page[p].at = "classify"
      <4>1. /\ Unseen(p) = Lag(observer.previous, page[p].revision) + Lag(page[p].revision, sidecar)
            /\ Unseen(p)' = Lag(observer.previous, page[p].revision) + Lag(page[p].revision, sidecar')
        BY <2>1, <3>1 DEF Unseen, Lag
      <4>2. Lag(observer.previous, page[p].revision) \in {0, 1}
        BY <1>0, LagFacts
      <4>3. observer.generation + Unseen(p) <= 1 + rewrites
        BY <2>3 DEF WithinRewrites
      <4> QED BY <1>0, <2>1, <2>2, <4>1, <4>2, <4>3
    <3>2. CASE page[p].at # "classify"
      <4>1. /\ Unseen(p) = Lag(observer.previous, sidecar)
            /\ Unseen(p)' = Lag(observer.previous, sidecar')
        BY <2>1, <3>2 DEF Unseen, Lag
      <4>2. observer.generation + Unseen(p) <= 1 + rewrites
        BY <2>3 DEF WithinRewrites
      <4> QED BY <1>0, <2>1, <2>2, <4>1, <4>2
    <3> QED BY <3>1, <3>2
  <2> QED BY <2>1, <2>3 DEF WithinRewrites
<1>2. CASE EvaluateRun \/ FinishRecord \/ UNCHANGED deskVars
  BY <1>2 DEF EvaluateRun, FinishRecord, deskVars, WithinRewrites, Unseen, Lag
<1>3. ASSUME NEW p \in Pages, PageStep(p)
      PROVE  WithinRewrites'
  <2>0. UNCHANGED <<server, sidecar, rewrites>> /\ p \in server.open
    BY <1>3, PagesLeaveTheRun
  <2>1. CASE AskServer(p) \/ ReadStream(p) \/ Reply(p)
    <3>1. UNCHANGED observer
      BY <2>1 DEF AskServer, ReadStream, Reply
    <3>2. PICK q \in PageStates :
            /\ page' = [page EXCEPT ![p] = q]
            /\ q.at = "classify" => q.revision = sidecar
            /\ page[p].at # "classify"
      <4>1. CASE AskServer(p) \/ ReadStream(p)
        BY <4>1, AskCases
      <4>2. CASE Reply(p)
        <5>1. page[p].at # "classify"
          BY <4>2 DEF Reply, At
        <5> QED BY <4>2, <5>1, ReplyCases
      <4> QED BY <2>1, <4>1, <4>2
    <3>3. ASSUME server.open = {p}
          PROVE  Unseen(p)' = Unseen(p)
      <4>1. page'[p] = q
        BY <3>2 DEF Tables
      <4>2. Lag(sidecar, sidecar) = 0 /\ Lag(observer.previous, sidecar) \in {0, 1}
        BY <1>0, LagFacts
      <4>3. Unseen(p) = Lag(observer.previous, sidecar)
        BY <3>2 DEF Unseen
      <4>4. Unseen(p)' = IF q.at = "classify"
                         THEN Lag(observer.previous, q.revision) + Lag(q.revision, sidecar)
                         ELSE Lag(observer.previous, sidecar)
        BY <2>0, <3>1, <4>1 DEF Unseen, Lag
      <4> QED BY <3>2, <4>2, <4>3, <4>4
    <3> QED BY <2>0, <3>1, <3>3 DEF WithinRewrites
  <2>2. CASE Classify(p)
    <3>1. PICK q \in PageStates : page' = [page EXCEPT ![p] = q] /\ q.at = "complete"
      BY <2>2, ClassifyCases
    <3>2. /\ observer'.previous = page[p].revision
          /\ observer'.generation = observer.generation + Lag(observer.previous, page[p].revision)
          /\ page[p].at = "classify"
      BY <2>2, ClassifyCases
    <3>3. /\ Lag(observer.previous, page[p].revision) \in {0, 1}
          /\ Lag(page[p].revision, sidecar) \in {0, 1}
      BY <1>0, LagFacts
    <3>4. Unseen(p) = Lag(observer.previous, page[p].revision) + Lag(page[p].revision, sidecar)
      BY <3>2 DEF Unseen
    <3>5. Unseen(p)' = Lag(page[p].revision, sidecar)
      <4>1. page'[p] = q
        BY <3>1 DEF Tables
      <4> QED BY <2>0, <3>1, <3>2, <4>1 DEF Unseen, Lag
    <3>6. observer'.generation >= 1
      BY <1>0, <3>2, <3>3 DEF WithinRewrites
    <3>7. ASSUME server.open = {p}
          PROVE  observer'.generation + Unseen(p)' <= 1 + rewrites'
      BY <1>0, <2>0, <3>2, <3>3, <3>4, <3>5, <3>7 DEF WithinRewrites
    <3> QED BY <2>0, <3>6, <3>7 DEF WithinRewrites
  <2> QED BY <1>3, <2>1, <2>2 DEF PageStep
<1> QED BY <1>1, <1>2, <1>3 DEF DeskNext

(* A change that is growth keeps what is shown a prefix; another one starts  *)
(* a generation that nothing shown is of.                                    *)
LEMMA GrownKept ==
  ASSUME Tables, Readings, Grown, [DeskNext]_deskVars
  PROVE  Grown'
<1>0. \A p \in Pages : /\ page[p] \in PageStates /\ page[p].revision \in Revisions
                       /\ page[p].shown.revision \in Revisions /\ page[p].shown.generation \in Nat
  BY DEF Tables, PageStates, Shown
<1>1. CASE (\E e \in {"line", "note"} : Event(e)) \/ Rewrite \/ EvaluateRun \/ FinishRecord \/ UNCHANGED deskVars
  BY <1>1 DEF Event, Rewrite, EvaluateRun, FinishRecord, deskVars, Grown
<1>2. ASSUME NEW p \in Pages, PageStep(p), server.open = {p}
      PROVE  Grown'
  <2>0. UNCHANGED server /\ observer.generation \in Nat /\ observer.previous \in Revisions
    BY <1>2, PagesLeaveTheRun DEF Tables
  <2>1. CASE AskServer(p) \/ ReadStream(p)
    <3>1. UNCHANGED observer
      BY <2>1 DEF AskServer, ReadStream
    <3>2. PICK q \in PageStates : /\ page' = [page EXCEPT ![p] = q]
                                  /\ q.shown = page[p].shown /\ q.at # "complete"
      BY <2>1, AskCases
    <3> QED BY <1>2, <2>0, <3>1, <3>2 DEF Grown, Tables
  <2>2. CASE Classify(p)
    <3>1. PICK q \in PageStates : /\ page' = [page EXCEPT ![p] = q]
                                  /\ q.shown = page[p].shown /\ q.revision = page[p].revision
      BY <2>2, ClassifyCases
    <3>2. /\ observer'.previous = page[p].revision
          /\ \/ observer'.generation = observer.generation + 1
             \/ /\ observer'.generation = observer.generation
                /\ observer.previous = None \/ Extends(page[p].revision, observer.previous)
          /\ page[p].at = "classify"
      BY <2>2, ClassifyCases
    <3>3. page[p].revision # None
      BY <3>2, NoneIsARevision DEF Readings
    <3>4. ASSUME page[p].shown # NothingShown, observer'.generation = page[p].shown.generation
          PROVE  Extends(page[p].revision, page[p].shown.revision)
      <4>1. /\ observer.previous # None /\ page[p].shown.generation = observer.generation
            /\ observer'.generation = observer.generation
        BY <1>0, <1>2, <2>0, <3>2, <3>4 DEF Grown
      <4>2. /\ Extends(observer.previous, page[p].shown.revision)
            /\ Extends(page[p].revision, observer.previous)
        BY <1>2, <2>0, <3>2, <3>4, <4>1 DEF Grown
      <4> QED BY <1>0, <2>0, <4>2, ExtendsTransitive
    <3>5. page[p].shown # NothingShown => page[p].shown.generation <= observer'.generation
      BY <1>0, <1>2, <2>0, <3>2 DEF Grown
    <3>6. page'[p] = q
      BY <3>1 DEF Tables
    <3> QED BY <1>2, <2>0, <3>1, <3>2, <3>3, <3>4, <3>5, <3>6 DEF Grown
  <2>3. CASE Reply(p)
    <3>1. UNCHANGED observer /\ page[p].at = "complete"
      BY <2>3 DEF Reply, At
    <3>2. PICK q \in PageStates :
            /\ page' = [page EXCEPT ![p] = q] /\ q.at # "complete"
            /\ \/ q.shown = page[p].shown
               \/ q.shown = Snapshot(page[p], Completion(page[p].revision))
      BY <2>3, ReplyCases
    <3>3. page[p].revision = observer.previous /\ page[p].revision # None
      BY <1>2, <3>1, NoneIsARevision DEF Grown, Readings
    <3>4. ASSUME q.shown = Snapshot(page[p], Completion(page[p].revision))
          PROVE  /\ q.shown.generation = observer.generation
                 /\ Extends(observer.previous, q.shown.revision)
      <4>1. q.shown.generation = observer.generation /\ q.shown.revision = observer.previous
        BY <3>3, <3>4 DEF Snapshot
      <4> QED BY <2>0, <4>1, ExtendsItself
    <3>5. page'[p] = q
      BY <3>2 DEF Tables
    <3> QED BY <1>2, <2>0, <3>1, <3>2, <3>3, <3>4, <3>5 DEF Grown
  <2> QED BY <1>2, <2>1, <2>2, <2>3 DEF PageStep
<1>3. ASSUME NEW p \in Pages, PageStep(p), server.open # {p}
      PROVE  Grown'
  <2>1. UNCHANGED server /\ p \in server.open
    BY <1>3, PagesLeaveTheRun
  <2>2. \A o \in Pages : server.open # {o}
    BY <1>3, <2>1
  <2> QED BY <2>1, <2>2 DEF Grown
<1> QED BY <1>1, <1>2, <1>3 DEF DeskNext

------------------------------------------------------------------------------
LEMMA DeskInvStarts == DeskInit => DeskInv
<1> SUFFICES ASSUME DeskInit
             PROVE  DeskInv
  OBVIOUS
<1>0. /\ sidecar = [id |-> 0, run |-> "run", lines |-> <<>>] /\ sidecar \in Revisions
      /\ observer = [previous |-> IF server.kind = "desk" THEN sidecar ELSE None,
                     change |-> "initial", generation |-> 1]
      /\ rewrites = 0 /\ None.id = -1 /\ None \in Revisions
  BY EmptySeq, NoneIsARevision DEF DeskInit, Revisions
<1>1. \A p \in Pages : /\ page[p] = Closed /\ page[p].at = "idle" /\ page[p].target = "snapshot"
                       /\ page[p].revision = None /\ page[p].shown = NothingShown
                       /\ page[p].shown.revision = None
  BY DEF DeskInit, Closed, None, NothingShown
<1>2. Tables
  BY <1>0, ClosedIsAPage DEF DeskInit, Tables, Changes
<1>3. Readings /\ LeavesCompleted
  BY <1>0, <1>1 DEF Readings, LeavesCompleted
<1>4. WithinRewrites
  <2>1. Lag(observer.previous, sidecar) = 0
    BY <1>0, LagFacts DEF Lag
  <2> QED BY <1>0, <1>1, <2>1 DEF WithinRewrites, Unseen
<1>5. Grown /\ CompletedIsTheVerdict
  BY <1>1 DEF Grown, CompletedIsTheVerdict
<1> QED BY <1>2, <1>3, <1>4, <1>5 DEF DeskInv

LEMMA DeskInvKept ==
  DeskInv /\ [DeskNext]_deskVars => DeskInv'
BY TablesKept, ReadingsKept, LeavesCompletedKept, WithinRewritesKept, GrownKept,
   CompletedIsTheVerdictKept DEF DeskInv

(* What the observer and the pages know of the sidecar holds in every state. *)
THEOREM DeskIsTracked == DeskSpec => []DeskInv
BY DeskInvStarts, DeskInvKept, PTL DEF DeskSpec

LEMMA DeskInvGivesTypes ==
  ASSUME DeskInv
  PROVE  DeskTypeOK
<1>1. ASSUME NEW p \in Pages, server.open = {p}
      PROVE  observer.generation <= 1 + rewrites
  <2>1. page[p].revision \in Revisions /\ sidecar \in Revisions /\ observer.previous \in Revisions
    BY DEF DeskInv, Tables, PageStates
  <2>2. Unseen(p) \in Nat
    BY <2>1, LagFacts DEF Unseen
  <2>3. observer.generation \in Nat /\ rewrites \in Nat
    BY DEF DeskInv, Tables
  <2> QED BY <1>1, <2>2, <2>3 DEF DeskInv, WithinRewrites
<1> QED BY <1>1 DEF DeskInv, DeskTypeOK, WithinRewrites, Readings, LeavesCompleted

(* A page of its own observer sees no more generations than there were       *)
(* rewrites, and only one that was shown the completed run leaves for the    *)
(* summary.                                                                  *)
THEOREM DeskTypesHold == DeskSpec => []DeskTypeOK
<1>1. DeskInv => DeskTypeOK
  BY DeskInvGivesTypes
<1> QED BY <1>1, DeskIsTracked, PTL

(* What any page shows as completed supports the verdict of the run, however *)
(* the reads, the observer's steps and the rewrites of other files           *)
(* interleave.                                                               *)
THEOREM CompletedIsAlwaysTheVerdict == DeskSpec => []CompletedIsTheVerdict
<1>1. DeskInv => CompletedIsTheVerdict
  BY DEF DeskInv
<1> QED BY <1>1, DeskIsTracked, PTL

(* Two answers of one generation that a page gets one after the other are of *)
(* a sidecar that only grew between them.                                    *)
THEOREM GenerationsOnlyGrow == DeskSpec => GenerationOnlyGrows
<1> DEFINE Grows == \A p \in Pages :
       server.open = {p} /\ page[p].shown # NothingShown /\ page'[p].shown # page[p].shown =>
         \/ page'[p].shown.generation > page[p].shown.generation
         \/ Extends(page'[p].shown.revision, page[p].shown.revision)
<1>1. DeskInv /\ [DeskNext]_deskVars => [Grows]_deskVars
  <2> SUFFICES ASSUME DeskInv, DeskNext, NEW p \in Pages, server.open = {p},
                      page[p].shown # NothingShown, page'[p].shown # page[p].shown
               PROVE  \/ page'[p].shown.generation > page[p].shown.generation
                      \/ Extends(page'[p].shown.revision, page[p].shown.revision)
    OBVIOUS
  <2>0. Tables /\ Grown
    BY DEF DeskInv
  <2>1. Reply(p)
    <3>1. PICK o \in Pages : PageStep(o)
      BY DEF DeskNext, Event, EvaluateRun, FinishRecord, Rewrite
    <3>2. o = p
      BY <3>1, PagesLeaveTheRun
    <3>3. ASSUME AskServer(p) \/ ReadStream(p) \/ Classify(p)
          PROVE  FALSE
      <4>1. PICK q \in PageStates : page' = [page EXCEPT ![p] = q] /\ q.shown = page[p].shown
        BY <2>0, <3>3, AskCases, ClassifyCases
      <4> QED BY <2>0, <4>1 DEF Tables
    <3> QED BY <3>1, <3>2, <3>3 DEF PageStep
  <2>2. page'[p].shown = Snapshot(page[p], Completion(page[p].revision))
    <3>1. PICK q \in PageStates :
            /\ page' = [page EXCEPT ![p] = q]
            /\ \/ q.shown = page[p].shown
               \/ q.shown = Snapshot(page[p], Completion(page[p].revision))
      BY <2>0, <2>1, ReplyCases
    <3> QED BY <2>0, <3>1 DEF Tables
  <2>3. page[p].revision = observer.previous
    BY <2>0, <2>1 DEF Grown, Reply, At
  <2>4. /\ page'[p].shown.generation = observer.generation
        /\ page'[p].shown.revision = observer.previous
    BY <2>2, <2>3 DEF Snapshot
  <2>5. observer.generation \in Nat /\ page[p].shown.generation \in Nat
    BY <2>0 DEF Tables, PageStates, Shown
  <2> QED BY <2>0, <2>4, <2>5 DEF Grown
<1> QED BY <1>1, DeskIsTracked, PTL DEF DeskSpec, GenerationOnlyGrows

------------------------------------------------------------------------------
(* Both. *)

(* Whichever part runs, the variables of the failover run and of the desk    *)
(* hold what they may.                                                       *)
THEOREM EndsTypesHold == MCSpec => []TypesHold
<1>1. MCInit => CutInv /\ DeskInv
  BY CutInvStarts, DeskInvStarts DEF MCInit
<1>2. [MCNext]_<<part, vars, cutVars, deskVars, operatorVars>> =>
        [CutNext]_cutVars /\ [DeskNext]_deskVars
  BY Zenon DEF MCNext
<1>3. CutInv /\ DeskInv => TypesHold
  BY DeskInvGivesTypes DEF TypesHold, CutInv
<1> QED BY <1>1, <1>2, <1>3, CutInvKept, DeskInvKept, PTL DEF MCSpec
=================================================================================
