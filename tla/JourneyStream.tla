----------------------------- MODULE JourneyStream -----------------------------
(***************************************************************************)
(* The record of one message journey: ncc/message_journey.py derives the   *)
(* boundaries a request and its reply must cross from a route and reduces  *)
(* direct observations to a diagnosis, ncc/message_journey_stream.py       *)
(* persists the observations and the diagnosis line by line and reads them *)
(* back, also while they are being written or after the writer was killed. *)
(*                                                                         *)
(* An observation is abstracted to what the reducer distinguishes: who     *)
(* made it, its number there, the boundary it names, and how its message   *)
(* compares with the expected one.                                         *)
(***************************************************************************)
EXTENDS Naturals, Sequences, FiniteSets, SequencesExt

CONSTANTS
  MaxLines  \* observations a recorder accepts

ASSUME MaxLinesAssumption == MaxLines \in Nat

Path == <<"host176", "imp62">>
Legs == <<"request", "reply">>

VARIABLES
  batch,     \* what the producer is about to publish, and has not been written
  accepted,  \* the recorder's observations
  stream,    \* complete lines of the stream after its header
  recorder   \* "open", "terminal", "closed", or "failed" when an exception left it

streamVars == <<batch, accepted, stream, recorder>>

------------------------------------------------------------------------------
(* The route. *)

(* Each crossing has an egress and an ingress; the reply crosses backwards.  *)
Crossings(leg) ==
  LET path == IF leg = "request" THEN Path ELSE Reverse(Path)
  IN [i \in 1 .. Len(path) - 1 |-> <<path[i], path[i + 1]>>]

BoundariesOf(leg) ==
  [k \in 1 .. 2 * Len(Crossings(leg)) |->
     LET crossing == Crossings(leg)[(k + 1) \div 2]
     IN IF k % 2 = 1
        THEN [leg |-> leg, component |-> crossing[1], direction |-> "egress"]
        ELSE [leg |-> leg, component |-> crossing[2], direction |-> "ingress"]]

Boundaries == BoundariesOf("request") \o BoundariesOf("reply")

Position(o) ==
  LET leg == BoundariesOf(o.leg)
  IN CHOOSE p \in DOMAIN leg : leg[p].component = o.component /\ leg[p].direction = o.direction

Names(b, o) == o.leg = b.leg /\ o.component = b.component /\ o.direction = b.direction

------------------------------------------------------------------------------
(* Observations and the reducer. *)

(* A component's interface is watched by the IMP; what the host sends is     *)
(* known from the IMP that received it, under a source of its own.  An "id"  *)
(* is unique to a boundary: "b" is a second observation of the same one.     *)
Compared == {"observed", "contradictory", "ambiguous"}

Observations ==
  {o \in [id : {"a", "b"}, leg : ToSet(Legs), component : ToSet(Path),
          direction : {"ingress", "egress"}, compared : Compared,
          sequence : 1 .. 3, source : {"imp62", "peer"}] :
     /\ \E i \in DOMAIN Boundaries : Names(Boundaries[i], o)
     /\ (o.source = "imp62") = (o.component = "imp62")
     /\ o.compared # "observed" => o.component = "imp62"
     /\ o.compared = "ambiguous" => o.leg = "request"
     /\ (o.id = "b") = (o.sequence = 3)
     /\ o.id = "b" => o.component = "imp62"}

(* No id twice, and within a source the numbers increase and the route is    *)
(* never walked backwards on a leg.  Sources are not compared.               *)
Valid(os) ==
  \A i, j \in DOMAIN os : i < j =>
    /\ <<os[i].id, os[i].leg, os[i].component, os[i].direction>>
         # <<os[j].id, os[j].leg, os[j].component, os[j].direction>>
    /\ os[i].source = os[j].source =>
         /\ os[i].sequence < os[j].sequence
         /\ os[i].leg = os[j].leg => Position(os[i]) <= Position(os[j])

(* The places of the observations that name a boundary.                      *)
Candidates(b, os) == {i \in DOMAIN os : Names(b, os[i])}

(* Mutant: the last candidate of a boundary is taken. *)
AssessLast(b, os) ==
  LET places == Candidates(b, os)
  IN IF places = {} THEN "missing"
     ELSE os[CHOOSE i \in places : \A j \in places : j <= i].compared

Assess(b, os) ==
  LET places == Candidates(b, os)
  IN CASE places = {} -> "missing"
       [] \E i \in places : places = {i} -> os[CHOOSE i \in places : TRUE].compared
       [] OTHER -> "ambiguous"

(* The first boundary, in the order of the route, that is not observed.      *)
Diagnose(os) ==
  LET assessed == [i \in DOMAIN Boundaries |-> Assess(Boundaries[i], os)]
      open == {i \in DOMAIN Boundaries : assessed[i] # "observed"}
      first == CHOOSE i \in open : \A j \in open : i <= j
  IN CASE open = {} -> [state |-> "complete", first |-> 0, boundaries |-> assessed]
       [] open # {} /\ os = <<>> -> [state |-> "unknown", first |-> first, boundaries |-> assessed]
       [] OTHER -> [state |-> assessed[first], first |-> first, boundaries |-> assessed]

------------------------------------------------------------------------------
(* The recorder. *)

Init == batch = <<>> /\ accepted = <<>> /\ stream = <<>> /\ recorder = "open"

(* publish: the whole batch is checked against all that was published, and   *)
(* taken into memory before its first line is written.                       *)
Publish(os) ==
  IF Valid(accepted \o os)
  THEN accepted' = accepted \o os /\ batch' = os /\ UNCHANGED recorder
  ELSE recorder' = "failed" /\ UNCHANGED <<accepted, batch>>

Produce ==
  /\ recorder = "open" /\ batch = <<>>
  /\ \E n \in 1 .. 2 : \E os \in [1 .. n -> Observations] :
       Len(accepted) + n <= MaxLines /\ Publish(os)
  /\ UNCHANGED stream

(* Mutant: a line that could not be written is left out. *)
WriteAnyway ==
  /\ recorder = "open" /\ batch # <<>>
  /\ \/ stream' = Append(stream, [type |-> "observation", is |-> Head(batch)])
     \/ UNCHANGED stream
  /\ batch' = Tail(batch)
  /\ UNCHANGED <<accepted, recorder>>

(* Each line is flushed before the next; a write may fail.                   *)
WriteObservation ==
  /\ recorder = "open" /\ batch # <<>>
  /\ \/ /\ stream' = Append(stream, [type |-> "observation", is |-> Head(batch)])
        /\ batch' = Tail(batch) /\ UNCHANGED recorder
     \/ recorder' = "failed" /\ UNCHANGED <<stream, batch>>
  /\ UNCHANGED accepted

(* Mutant: a stream may be completed once more. *)
CompleteAgain ==
  /\ recorder \in {"open", "terminal"} /\ batch = <<>> /\ Len(stream) <= MaxLines
  /\ stream' = Append(stream, [type |-> "diagnosis", is |-> Diagnose(accepted)])
  /\ recorder' = "terminal"
  /\ UNCHANGED <<batch, accepted>>

Complete ==
  /\ recorder = "open" /\ batch = <<>>
  /\ \/ /\ stream' = Append(stream, [type |-> "diagnosis", is |-> Diagnose(accepted)])
        /\ recorder' = "terminal"
     \/ recorder' = "failed" /\ UNCHANGED stream
  /\ UNCHANGED <<batch, accepted>>

(* finally: the producer closes the recorder whatever happened to it; a kill *)
(* does the same to the file.                                                *)
Close ==
  /\ recorder # "closed" /\ recorder' = "closed"
  /\ UNCHANGED <<batch, accepted, stream>>

Next == Produce \/ WriteObservation \/ Complete \/ Close

Spec == Init /\ [][Next]_streamVars

------------------------------------------------------------------------------
(* The reader. *)

Terminal(lines) == lines # <<>> /\ Last(lines).type = "diagnosis"

(* A line after the diagnosis is refused, so they are all before it.         *)
ObservationsOf(lines) ==
  [i \in 1 .. (IF Terminal(lines) THEN Len(lines) - 1 ELSE Len(lines)) |-> lines[i].is]

(* Every observation is reduced with those before it, nothing follows the    *)
(* diagnosis, and the diagnosis is that of the reducer.                      *)
Readable(lines) ==
  LET os == ObservationsOf(lines)
  IN /\ \A i \in DOMAIN lines : lines[i].type = "diagnosis" => i = Len(lines)
     /\ \A n \in DOMAIN os : Valid(SubSeq(os, 1, n))
     /\ Terminal(lines) => Last(lines).is = Diagnose(os)

------------------------------------------------------------------------------
TypeOK ==
  /\ accepted \in Seq(Observations) /\ Len(accepted) <= MaxLines
  /\ recorder \in {"open", "terminal", "closed", "failed"}
  /\ recorder = "open" => ObservationsOf(stream) \o batch = accepted

(* Whenever the stream is read - while it is written, after a failed write   *)
(* or a kill - the reader accepts what is there, and finds a beginning of    *)
(* what the recorder accepted; all of it once there is a diagnosis.          *)
ReadableAtAnyTime ==
  /\ Readable(stream)
  /\ LET os == ObservationsOf(stream)
     IN /\ os = SubSeq(accepted, 1, Len(os))
        /\ Terminal(stream) => os = accepted

Exactly(b, S, c) == \E o \in S : Names(b, o) /\ o.compared = c
                                 /\ \A p \in S : Names(b, p) => p = o

(* The diagnosis depends on what was observed and not on the order in which  *)
(* the sources were recorded: it is complete just when each boundary has one *)
(* observation, and that one matches; otherwise it names the first boundary  *)
(* that has not, and calls it missing only if nobody saw anything there.     *)
DiagnosisIgnoresOrder ==
  LET d == Diagnose(accepted)
      S == ToSet(accepted)
  IN /\ (d.state = "complete") <=> \A i \in DOMAIN Boundaries : Exactly(Boundaries[i], S, "observed")
     /\ d.state # "complete" =>
          /\ \A i \in 1 .. d.first - 1 : Exactly(Boundaries[i], S, "observed")
          /\ ~Exactly(Boundaries[d.first], S, "observed")
          /\ d.state = "missing" =>
               S # {} /\ ~\E o \in S : Names(Boundaries[d.first], o)
          /\ d.state = "contradictory" => Exactly(Boundaries[d.first], S, "contradictory")
================================================================================
