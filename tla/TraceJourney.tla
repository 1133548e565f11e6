------------------------------ MODULE TraceJourney ------------------------------
(***************************************************************************)
(* The formal message journey: scripts/pdp11-its-controller.py opens       *)
(* windows on the traces of two IMPs and two hosts, lets Network UNIX open *)
(* a connection, closes the windows, and has ncc/pdp11_its_journey.py find *)
(* one request and its reply in them.                                      *)
(*                                                                         *)
(* A trace is what is logged while its window is open.  An IMP logs a      *)
(* message as it passes: from its host ("in"), to the line ("out"), from   *)
(* the line ("arrived") and to its host ("up").  A packet on the line      *)
(* carries the message in an envelope that may differ from one             *)
(* transmission to the next.  A host logs the start and the end of the     *)
(* input of a message.  Records are compared by their contents.            *)
(***************************************************************************)
EXTENDS Naturals, Sequences, FiniteSets, SequencesExt

CONSTANTS
  MaxRetransmissions  \* over the line, of all messages

ASSUME TraceAssumption == MaxRetransmissions \in Nat

(* The host that is called also sends a control message of its own.          *)
Messages == {"open", "other", "ack"}
TracedImps == {"imp6", "imp62"}
Guests == {"host106", "host176"}

Source(m) == IF m = "open" THEN "imp62" ELSE "imp6"
Destination(m) == IF m = "open" THEN "imp6" ELSE "imp62"
Host(m) == IF m = "open" THEN "host106" ELSE "host176"

VARIABLES
  equal,    \* whether the two messages of host 106 have equal contents
  place,    \* how far each message has come
  again,    \* retransmissions so far
  wire,     \* packets on the line to each IMP, in order
  reading,  \* the message a host is reading
  span,     \* the windows: none is open, those of the IMPs are, all are, the hosts'
            \* are closed, or all are
  trace     \* what the windows hold

journeyVars == <<equal, place, again, wire, reading, span, trace>>

Places == <<"none", "in", "out", "arrived", "up", "start", "read">>
Reached(m, p) == \E i, j \in DOMAIN Places : i <= j /\ Places[i] = p /\ Places[j] = place[m]

TraceInit ==
  /\ equal \in BOOLEAN
  /\ place = [m \in Messages |-> "none"]
  /\ again = 0
  /\ wire = [i \in TracedImps |-> <<>>]
  /\ reading = [h \in Guests |-> "none"]
  /\ span = "none"
  /\ trace = [t \in TracedImps \cup Guests |-> <<>>]

(* The windows of the IMPs enclose those of the hosts.                       *)
IsOpen(t) == span = "all" \/ (t \in TracedImps /\ span \in {"imps", "imps again"})

Log(t, is, m, env) ==
  trace' = IF IsOpen(t) THEN [trace EXCEPT ![t] = Append(@, [is |-> is, m |-> m, env |-> env])]
                        ELSE trace

------------------------------------------------------------------------------
(* The messages. *)

(* The connection is opened when all windows are open; a host answers what   *)
(* it has read.                                                              *)
MaySubmit(m) ==
  CASE m = "open" -> span = "all"
    [] m = "other" -> TRUE
    [] m = "ack" -> place["open"] = "read"

Submit(m) ==
  /\ place[m] = "none" /\ MaySubmit(m)
  /\ place' = [place EXCEPT ![m] = "in"]
  /\ Log(Source(m), "in", m, 0)
  /\ UNCHANGED <<equal, again, wire, reading, span>>

Transmit(m) ==
  /\ place[m] = "in" /\ place' = [place EXCEPT ![m] = "out"]
  /\ wire' = [wire EXCEPT ![Destination(m)] = Append(@, [m |-> m, env |-> 0])]
  /\ Log(Source(m), "out", m, 0)
  /\ UNCHANGED <<equal, again, reading, span>>

(* A packet is sent again until the IMP has heard that it arrived, and may   *)
(* look different then.                                                      *)
Retransmit(m, env) ==
  /\ Reached(m, "out") /\ again < MaxRetransmissions
  /\ again' = again + 1
  /\ wire' = [wire EXCEPT ![Destination(m)] = Append(@, [m |-> m, env |-> env])]
  /\ Log(Source(m), "out", m, env)
  /\ UNCHANGED <<equal, place, reading, span>>

Lose(i) ==
  /\ wire[i] # <<>> /\ wire' = [wire EXCEPT ![i] = Tail(@)]
  /\ UNCHANGED <<equal, place, again, reading, span, trace>>

Arrive(i) ==
  /\ wire[i] # <<>> /\ wire' = [wire EXCEPT ![i] = Tail(@)]
  /\ LET p == Head(wire[i])
     IN /\ place' = [place EXCEPT ![p.m] = IF @ = "out" THEN "arrived" ELSE @]
        /\ Log(i, "arrived", p.m, p.env)
  /\ UNCHANGED <<equal, again, reading, span>>

(* An IMP hands its host one message at a time.                              *)
HandUp(m) ==
  /\ \A n \in Messages : Host(n) = Host(m) => place[n] # "up"
  /\ place[m] = "arrived" /\ place' = [place EXCEPT ![m] = "up"]
  /\ Log(Destination(m), "up", m, 0)
  /\ UNCHANGED <<equal, again, wire, reading, span>>

(* Mutant: a message may begin inside another one. *)
StartInside(m) ==
  /\ place[m] = "up"
  /\ place' = [place EXCEPT ![m] = "start"]
  /\ reading' = [reading EXCEPT ![Host(m)] = m]
  /\ Log(Host(m), "start", m, 0)
  /\ UNCHANGED <<equal, again, wire, span>>

(* A host reads one message at a time.                                       *)
Start(m) ==
  /\ place[m] = "up" /\ reading[Host(m)] = "none"
  /\ place' = [place EXCEPT ![m] = "start"]
  /\ reading' = [reading EXCEPT ![Host(m)] = m]
  /\ Log(Host(m), "start", m, 0)
  /\ UNCHANGED <<equal, again, wire, span>>

Finish(m) ==
  /\ place[m] = "start" /\ place' = [place EXCEPT ![m] = "read"]
  /\ reading' = [reading EXCEPT ![Host(m)] = "none"]
  /\ Log(Host(m), "end", m, 0)
  /\ UNCHANGED <<equal, again, wire, span>>

------------------------------------------------------------------------------
(* The windows. *)

(* First the IMPs' offsets are taken, then those of the consoles.            *)
OpenWindow ==
  /\ span \in {"none", "imps"}
  /\ span' = IF span = "none" THEN "imps" ELSE "all"
  /\ UNCHANGED <<equal, place, again, wire, reading, trace>>

(* Mutant: the IMPs' traces end with the request. *)
CloseEarly ==
  /\ place["open"] = "read"
  /\ span \in {"all", "imps again"}
  /\ span' = IF span = "all" THEN "imps again" ELSE "done"
  /\ UNCHANGED <<equal, place, again, wire, reading, trace>>

(* The session has answered at the PDP-11 before any of the windows closes,  *)
(* the consoles' before the IMPs'.                                           *)
CloseWindow ==
  /\ place["ack"] = "read"
  /\ span \in {"all", "imps again"}
  /\ span' = IF span = "all" THEN "imps again" ELSE "done"
  /\ UNCHANGED <<equal, place, again, wire, reading, trace>>

TraceNext ==
  \/ \E m \in Messages :
       \/ Submit(m) \/ Transmit(m) \/ HandUp(m) \/ Start(m) \/ Finish(m)
       \/ \E env \in 0 .. 1 : Retransmit(m, env)
  \/ \E i \in TracedImps : Arrive(i) \/ Lose(i)
  \/ OpenWindow \/ CloseWindow

TraceSpec == TraceInit /\ [][TraceNext]_journeyVars

------------------------------------------------------------------------------
(* The extraction. *)

Alike(m, n) == m = n \/ (equal /\ "open" \notin {m, n})

(* The places in a trace, after one, of a kind of record of a message.       *)
Records(t, after, kind, m) ==
  {i \in DOMAIN trace[t] : i > after /\ trace[t][i].is = kind /\ Alike(trace[t][i].m, m)}
Least(S) == IF S = {} THEN 0 ELSE CHOOSE i \in S : \A j \in S : i <= j

(* From a message that the host handed in, the first packet after it that    *)
(* contains it, the first arrival equal to that packet, the first message    *)
(* handed up after it that matches; each 0 when there is none.               *)
PathFrom(from, to, hi) ==
  LET m == trace[from][hi].m
      mi == Least(Records(from, hi, "out", m))
      arrived == IF mi = 0 THEN 0
                 ELSE Least({i \in Records(to, 0, "arrived", m) :
                               trace[to][i].env = trace[from][mi].env})
      up == IF arrived = 0 THEN 0
            ELSE Least(Records(to, arrived, "up", m))
  IN [hi |-> hi, mi |-> mi, arrived |-> arrived, up |-> up]

NoPath == [hi |-> 0, mi |-> 0, arrived |-> 0, up |-> 0]

(* The first request, or nothing.                                            *)
RequestPath ==
  LET hi == Least(Records("imp62", 0, "in", "open"))
  IN IF hi = 0 THEN NoPath ELSE PathFrom("imp62", "imp6", hi)

(* Mutant: any control message in the window will do. *)
AnyReplyPath(request) ==
  LET whole == {i \in DOMAIN trace["imp6"] :
                  trace["imp6"][i].is = "in" /\ PathFrom("imp6", "imp62", i).up # 0}
  IN IF whole = {} THEN NoPath ELSE PathFrom("imp6", "imp62", Least(whole))

(* The first control message after the request was handed up whose path is   *)
(* whole.                                                                    *)
ReplyPath(request) ==
  LET whole == {i \in DOMAIN trace["imp6"] :
                  /\ i > request.up /\ trace["imp6"][i].is = "in"
                  /\ PathFrom("imp6", "imp62", i).up # 0}
  IN IF whole = {} THEN NoPath ELSE PathFrom("imp6", "imp62", Least(whole))

(* The parsers take whole groups only.                                       *)
Whole(h) ==
  /\ \A i \in DOMAIN trace[h] : trace[h][i].is = IF i % 2 = 1 THEN "start" ELSE "end"
  /\ Len(trace[h]) % 2 = 0

(* Mutant: the first candidate is taken. *)
FirstRead(h, m) == Records(h, 0, "end", m) # {}

(* Exactly one message the host has read equals the one handed up to it.     *)
ReadOnce(h, m) == Cardinality(Records(h, 0, "end", m)) = 1

Extraction ==
  LET request == RequestPath
      reply == ReplyPath(request)
  IN [complete |-> /\ request.up # 0 /\ reply.up # 0
                   /\ \A h \in Guests : Whole(h)
                   /\ ReadOnce("host106", trace["imp6"][request.up].m)
                   /\ ReadOnce("host176", trace["imp62"][reply.up].m),
      request |-> request, reply |-> reply]

------------------------------------------------------------------------------
(* Every variable has its type, and a host is reading the message that has   *)
(* begun and not ended.                                                      *)
TraceTypeOK ==
  /\ place \in [Messages -> ToSet(Places)]
  /\ again \in 0 .. MaxRetransmissions
  /\ \A i \in TracedImps : \A p \in ToSet(wire[i]) : Destination(p.m) = i /\ Reached(p.m, "out")
  /\ span \in {"none", "imps", "all", "imps again", "done"}
  /\ \A h \in Guests, m \in Messages : reading[h] = m <=> place[m] = "start" /\ Host(m) = h

Done == span = "done"

(* A complete journey was one: the four transfers of the request are of the  *)
(* connection that was opened, those of the reply are of one message, the    *)
(* called host sent it after its IMP had handed it the request, and both     *)
(* hosts read what their IMPs handed them. (extract_pdp11_its_journey)       *)
CompleteIsOneJourney ==
  (Done /\ ~equal /\ Extraction.complete) =>
    LET q == Extraction.request
        p == Extraction.reply
        reply == trace["imp6"][p.hi].m
    IN /\ {trace["imp62"][q.hi].m, trace["imp62"][q.mi].m,
           trace["imp6"][q.arrived].m, trace["imp6"][q.up].m} = {"open"}
       /\ {trace["imp6"][p.mi].m, trace["imp62"][p.arrived].m, trace["imp62"][p.up].m} = {reply}
       /\ q.up < p.hi
       /\ place[reply] = "read" /\ place["open"] = "read"

(* When the host read two messages with the contents of the reply inside the *)
(* window, no journey is reported: nothing chooses between them (ADR 0017).  *)
DoubtIsRefused ==
  (Done /\ equal /\ \A m \in {"other", "ack"} : \E r \in ToSet(trace["host176"]) : r.is = "end" /\ r.m = m)
    => ~Extraction.complete

(* Over a line that had to repeat nothing, a session that answered gives a   *)
(* complete journey, unless the hosts' windows cut a message, or closed      *)
(* before one that IMP 62 had handed up was read.                            *)
GoodLineExtracts ==
  (Done /\ again = 0 /\ ~equal /\ (\A h \in Guests : Whole(h))
        /\ \A r \in ToSet(trace["imp62"]) : r.is = "up" =>
             \E e \in ToSet(trace["host176"]) : e.is = "end" /\ e.m = r.m)
    => Extraction.complete

(* What is extracted is a journey that took place and the only candidate,    *)
(* and a line without retransmissions always yields one.                     *)
(* (extract_pdp11_its_journey)                                               *)
ExtractionIsTrue == CompleteIsOneJourney /\ DoubtIsRefused /\ GoodLineExtracts
==============================================================================
