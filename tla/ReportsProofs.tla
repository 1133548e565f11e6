----------------------------- MODULE ReportsProofs -----------------------------
(***************************************************************************)
(* What is concluded from the evidence of a run, with TraceJourney,        *)
(* JourneyStream and LineReports.                                          *)
(*                                                                         *)
(* TraceInv is inductive, for any number of retransmissions: a record is   *)
(* in the trace of the place where it happened and of a message that has   *)
(* come that far (TraceIsTrue), no message is read twice                   *)
(* (ReadIsLoggedOnce), and what the windows must hold of the request and   *)
(* of its answer they do hold, in order (RequestIsLogged, AnswerIsLogged), *)
(* since the windows enclose them (WindowsEnclose).  The extraction takes  *)
(* the first record that fits.  A first one exists (LeastNumber), and so a *)
(* path the extraction calls whole is one of records that are there        *)
(* (WholePath), in an order the invariant forbids for any other message;   *)
(* and over a line that repeated nothing the path that was logged is whole *)
(* (LoggedPathIsWhole).                                                    *)
(*                                                                         *)
(* StreamInv is inductive, for any bound on the observations: what is in   *)
(* the file is a beginning of what the recorder accepted, line by line,    *)
(* and the rest of it waits in the batch for as long as the recorder is    *)
(* open (LinesAreAccepted).  A beginning of a valid list is valid          *)
(* (ValidPrefix), so the reader accepts the stream wherever it ends.  The  *)
(* reducer is a function of the set of observations, since no two of a     *)
(* valid list are equal (CandidatesTell).                                  *)
(*                                                                         *)
(* ReportsInv is inductive, for either cabling, any life of an observation *)
(* and any number of faults.  An IMP notices within the tick what happened *)
(* in it, so once the tick in which something last happened is over every  *)
(* running IMP knows its lines (NoticedWhenQuiet), and what was reported   *)
(* since then is still so (ReportedWhenQuiet).  An observation that has    *)
(* not expired when nothing happened for as long as it lives was reported  *)
(* since then.  Everything decoded while the relay forwards was sent while *)
(* it did, and what is decoded after the tick of the switch was not        *)
(* (SwitchTells).  The summary of a run that passed is put together from   *)
(* the events of the last reports, which are in the order of their times   *)
(* (EventsTell): its topology, observations, derived states and gate are   *)
(* valid one by one, and the report that its events are cut at dates the   *)
(* state before the switch no later than the evaluator does                *)
(* (StateBeforeIsDerivedAgain).                                            *)
(***************************************************************************)
EXTENDS MCReports, ListLemmas

(* TraceJourney. *)

TraceKinds == {"in", "out", "arrived", "up", "start", "end"}
TraceRecords == [is : TraceKinds, m : Messages, env : 0..1]
TracePackets == [m : Messages, env : 0..1]
TracePlaces == {"none", "in", "out", "arrived", "up", "start", "read"}
Logs == TracedImps \cup Guests

(* Where a message is when what is logged of it happens, or past it.         *)
Past(kind) ==
  CASE kind = "in" -> TracePlaces \ {"none"}
    [] kind = "out" -> TracePlaces \ {"none", "in"}
    [] kind = "arrived" -> {"arrived", "up", "start", "read"}
    [] kind = "up" -> {"up", "start", "read"}
    [] kind = "start" -> {"start", "read"}
    [] kind = "end" -> {"read"}

LoggedAt(kind, m) ==
  CASE kind \in {"in", "out"} -> Source(m)
    [] kind \in {"arrived", "up"} -> Destination(m)
    [] kind \in {"start", "end"} -> Host(m)

TraceTables ==
  /\ equal \in BOOLEAN
  /\ place \in [Messages -> TracePlaces]
  /\ again \in 0..MaxRetransmissions
  /\ wire \in [TracedImps -> Seq(TracePackets)]
  /\ reading \in [Guests -> Messages \cup {"none"}]
  /\ span \in {"none", "imps", "all", "imps again", "done"}
  /\ trace \in [Logs -> Seq(TraceRecords)]

(* A packet is of a message that was sent to the IMP it is on the way to.    *)
WireIsSent ==
  \A i \in TracedImps : \A k \in 1..Len(wire[i]) :
    /\ Destination(wire[i][k].m) = i /\ place[wire[i][k].m] \in Past("out")
    /\ again = 0 => wire[i][k].env = 0

(* A record is in the trace of the place where it happened, and the message  *)
(* has come that far.                                                        *)
TraceIsTrue ==
  \A t \in Logs : \A k \in 1..Len(trace[t]) :
    LET r == trace[t][k]
    IN /\ t = LoggedAt(r.is, r.m) /\ place[r.m] \in Past(r.is)
       /\ again = 0 => r.env = 0

ReadIsLoggedOnce ==
  \A t \in Logs : \A j, k \in 1..Len(trace[t]) :
    trace[t][j].is = "end" /\ trace[t][k].is = "end" /\ trace[t][j].m = trace[t][k].m => j = k

HostsReadOne ==
  \A h \in Guests, m \in Messages : reading[h] = m <=> place[m] = "start" /\ Host(m) = h

(* The windows were open when the connection was, and until it was answered. *)
WindowsEnclose ==
  /\ place["open"] # "none" => span \in {"all", "imps again", "done"}
  /\ place["ack"] # "none" => place["open"] = "read"
  /\ span \in {"imps again", "done"} => place["ack"] = "read"

IsRecord(t, k, kind, m) == k \in 1..Len(trace[t]) /\ trace[t][k].is = kind /\ trace[t][k].m = m

(* So the request and the answer that was meant are in the traces, in their  *)
(* order.                                                                    *)
RequestIsLogged ==
  /\ place["open"] \in Past("in") => \E i \in Nat : IsRecord("imp62", i, "in", "open")
  /\ place["open"] \in Past("out") =>
       \E i, j \in Nat : i < j /\ IsRecord("imp62", i, "in", "open") /\ IsRecord("imp62", j, "out", "open")
  /\ place["open"] \in Past("arrived") => \E i \in Nat : IsRecord("imp6", i, "arrived", "open")
  /\ place["open"] \in Past("up") =>
       \E i, j \in Nat : i < j /\ IsRecord("imp6", i, "arrived", "open") /\ IsRecord("imp6", j, "up", "open")
  /\ place["open"] = "read" => \E i \in Nat : IsRecord("host106", i, "end", "open")

AnswerIsLogged ==
  /\ place["ack"] \in Past("in") =>
       \E h, i, j \in Nat : /\ h < i /\ IsRecord("imp6", h, "arrived", "open") /\ IsRecord("imp6", i, "up", "open")
                            /\ i < j /\ IsRecord("imp6", j, "in", "ack")
  /\ place["ack"] \in Past("out") =>
       \E h, i, j, k \in Nat : /\ h < i /\ IsRecord("imp6", h, "arrived", "open") /\ IsRecord("imp6", i, "up", "open")
                               /\ i < j /\ IsRecord("imp6", j, "in", "ack")
                               /\ j < k /\ IsRecord("imp6", k, "out", "ack")
  /\ place["ack"] \in Past("arrived") => \E i \in Nat : IsRecord("imp62", i, "arrived", "ack")
  /\ place["ack"] \in Past("up") =>
       \E i, j \in Nat : i < j /\ IsRecord("imp62", i, "arrived", "ack") /\ IsRecord("imp62", j, "up", "ack")

TraceInv ==
  /\ TraceTables /\ WireIsSent /\ TraceIsTrue /\ ReadIsLoggedOnce /\ HostsReadOne
  /\ WindowsEnclose /\ RequestIsLogged /\ AnswerIsLogged

------------------------------------------------------------------------------
(* Places and records. *)

LEMMA ReachedPlaces ==
  ASSUME NEW m
  PROVE  /\ Reached(m, "out") <=> place[m] \in Past("out")
         /\ Reached(m, "up") <=> place[m] \in Past("up")
<1>1. /\ DOMAIN Places = 1..7
      /\ Places[1] = "none" /\ Places[2] = "in" /\ Places[3] = "out" /\ Places[4] = "arrived"
      /\ Places[5] = "up" /\ Places[6] = "start" /\ Places[7] = "read"
  BY DEF Places
<1> HIDE DEF Places
<1> QED BY <1>1 DEF Reached, Past, TracePlaces

LEMMA PastKinds ==
  /\ Past("in") = {"in", "out", "arrived", "up", "start", "read"}
  /\ Past("out") = {"out", "arrived", "up", "start", "read"}
  /\ Past("arrived") = {"arrived", "up", "start", "read"}
  /\ Past("up") = {"up", "start", "read"}
  /\ Past("start") = {"start", "read"}
  /\ Past("end") = {"read"}
BY DEF Past, TracePlaces

LEMMA LogIsWhere ==
  ASSUME NEW m \in Messages
  PROVE  /\ Source(m) \in TracedImps /\ Destination(m) \in TracedImps /\ Host(m) \in Guests
         /\ LoggedAt("in", m) = Source(m) /\ LoggedAt("out", m) = Source(m)
         /\ LoggedAt("arrived", m) = Destination(m) /\ LoggedAt("up", m) = Destination(m)
         /\ LoggedAt("start", m) = Host(m) /\ LoggedAt("end", m) = Host(m)
BY DEF Source, Destination, Host, LoggedAt, TracedImps, Guests

LEMMA TracesAreSequences ==
  ASSUME TraceTables, NEW u \in Logs
  PROVE  /\ trace[u] \in Seq(TraceRecords) /\ Len(trace[u]) \in Nat
         /\ \A k \in 1..Len(trace[u]) : trace[u][k] \in TraceRecords
<1>1. trace[u] \in Seq(TraceRecords)
  BY DEF TraceTables
<1> QED BY <1>1, LenProperties, ElementOfSeq

(* The traces keep what they hold, and r, at most, is added to that of t.    *)
Grows(t, r) ==
  /\ \A u \in Logs : \A k \in 1..Len(trace[u]) : k \in 1..Len(trace'[u]) /\ trace'[u][k] = trace[u][k]
  /\ \A u \in Logs : \A k \in 1..Len(trace'[u]) :
       k \in 1..Len(trace[u]) \/ (u = t /\ k \notin 1..Len(trace[u]) /\ k = Len(trace[u]) + 1 /\ trace'[u][k] = r)

LEMMA LogGrows ==
  ASSUME TraceTables, NEW t \in Logs, NEW is \in TraceKinds, NEW m \in Messages, NEW env \in 0..1,
         Log(t, is, m, env), NEW r, r = [is |-> is, m |-> m, env |-> env]
  PROVE  /\ trace' \in [Logs -> Seq(TraceRecords)]
         /\ Grows(t, r)
         /\ IsOpen(t) => /\ Len(trace[t]) + 1 \in Nat /\ Len(trace[t]) + 1 \in 1..Len(trace'[t])
                         /\ trace'[t][Len(trace[t]) + 1] = r
                         /\ \A k \in 1..Len(trace[t]) : k < Len(trace[t]) + 1
<1>1. r \in TraceRecords
  BY DEF TraceRecords
<1>2. \A u \in Logs : trace[u] \in Seq(TraceRecords) /\ Len(trace[u]) \in Nat
  BY TracesAreSequences
<1>3. CASE IsOpen(t)
  <2>1. trace' = [trace EXCEPT ![t] = Append(trace[t], r)]
    BY <1>3 DEF Log
  <2>2. /\ Append(trace[t], r) \in Seq(TraceRecords)
        /\ Len(Append(trace[t], r)) = Len(trace[t]) + 1
        /\ \A k \in 1..Len(trace[t]) : Append(trace[t], r)[k] = trace[t][k]
        /\ Append(trace[t], r)[Len(trace[t]) + 1] = r
    BY <1>1, <1>2, AppendProperties
  <2>3. trace'[t] = Append(trace[t], r) /\ \A u \in Logs : u # t => trace'[u] = trace[u]
    BY <2>1 DEF TraceTables
  <2>4. trace' \in [Logs -> Seq(TraceRecords)]
    BY <2>1, <2>2 DEF TraceTables
  <2> HIDE DEF Grows
  <2>5. \A u \in Logs : \A k \in 1..Len(trace[u]) : k \in 1..Len(trace'[u]) /\ trace'[u][k] = trace[u][k]
    BY <1>2, <2>2, <2>3
  <2>6. \A u \in Logs : \A k \in 1..Len(trace'[u]) :
          k \in 1..Len(trace[u]) \/ (u = t /\ k \notin 1..Len(trace[u]) /\ k = Len(trace[u]) + 1 /\ trace'[u][k] = r)
    BY <1>2, <2>2, <2>3
  <2>7. Grows(t, r)
    BY <2>5, <2>6 DEF Grows
  <2> QED BY <1>2, <2>2, <2>3, <2>4, <2>7
<1>4. CASE ~IsOpen(t)
  <2>1. trace' = trace
    BY <1>4 DEF Log
  <2> QED BY <1>4, <2>1 DEF TraceTables, Grows
<1> QED BY <1>3, <1>4

(* The messages go on.                                                       *)
Onward == \A n \in Messages, kind \in TraceKinds : place[n] \in Past(kind) => place'[n] \in Past(kind)

LEMMA RecordStays ==
  ASSUME NEW t \in Logs, NEW r, NEW u \in Logs, Grows(t, r), NEW k, NEW kind, NEW m,
         IsRecord(u, k, kind, m)
  PROVE  IsRecord(u, k, kind, m)'
BY DEF Grows, IsRecord

LEMMA RecordsStayTrue ==
  ASSUME TraceInv, NEW t \in Logs, NEW r \in TraceRecords, Grows(t, r), Onward,
         trace' \in [Logs -> Seq(TraceRecords)],
         again' = 0 => again = 0,
         t = LoggedAt(r.is, r.m), place'[r.m] \in Past(r.is), again' = 0 => r.env = 0
  PROVE  TraceIsTrue'
<1> SUFFICES ASSUME NEW u \in Logs, NEW k \in 1..Len(trace'[u])
             PROVE  /\ u = LoggedAt(trace'[u][k].is, trace'[u][k].m)
                    /\ place'[trace'[u][k].m] \in Past(trace'[u][k].is)
                    /\ again' = 0 => trace'[u][k].env = 0
  BY DEF TraceIsTrue
<1>1. CASE k \in 1..Len(trace[u])
  <2>1. trace'[u][k] = trace[u][k] /\ trace[u][k] \in TraceRecords
    BY <1>1, TracesAreSequences DEF Grows, TraceInv
  <2>2. trace[u][k].m \in Messages /\ trace[u][k].is \in TraceKinds
    BY <2>1 DEF TraceRecords
  <2>3. /\ u = LoggedAt(trace[u][k].is, trace[u][k].m) /\ place[trace[u][k].m] \in Past(trace[u][k].is)
        /\ again = 0 => trace[u][k].env = 0
    BY <1>1 DEF TraceInv, TraceIsTrue
  <2> QED BY <2>1, <2>2, <2>3 DEF Onward
<1>2. CASE u = t /\ trace'[u][k] = r
  BY <1>2
<1> QED BY <1>1, <1>2 DEF Grows

LEMMA ReadsStayLogged ==
  ASSUME TraceInv, NEW t \in Logs, NEW r \in TraceRecords, Grows(t, r),
         r.is = "end" => place[r.m] # "read"
  PROVE  ReadIsLoggedOnce'
<1> SUFFICES ASSUME NEW u \in Logs, NEW j \in 1..Len(trace'[u]), NEW k \in 1..Len(trace'[u]),
                    trace'[u][j].is = "end", trace'[u][k].is = "end", trace'[u][j].m = trace'[u][k].m
             PROVE  j = k
  BY DEF ReadIsLoggedOnce
<1>1. ASSUME NEW i \in 1..Len(trace[u]), trace'[u][i].is = "end", trace'[u][i].m = r.m, r.is = "end"
      PROVE  FALSE
  <2>1. trace'[u][i] = trace[u][i]
    BY DEF Grows
  <2>2. place[r.m] \in Past("end")
    BY <1>1, <2>1 DEF TraceInv, TraceIsTrue
  <2> QED BY <1>1, <2>2, PastKinds
<1>2. CASE j \in 1..Len(trace[u]) /\ k \in 1..Len(trace[u])
  BY <1>2 DEF Grows, TraceInv, ReadIsLoggedOnce
<1>3. CASE j \notin 1..Len(trace[u]) \/ k \notin 1..Len(trace[u])
  BY <1>1, <1>3, SMTT(30) DEF Grows
<1> QED BY <1>2, <1>3

LEMMA RequestStays ==
  ASSUME TraceInv, NEW t \in Logs, NEW r, Grows(t, r), place'["open"] = place["open"]
  PROVE  RequestIsLogged'
<1>1. \A u \in Logs : \A k, kind, m : IsRecord(u, k, kind, m) => IsRecord(u, k, kind, m)'
  BY RecordStays
<1>2. "imp6" \in Logs /\ "imp62" \in Logs /\ "host106" \in Logs
  BY DEF Logs, TracedImps, Guests
<1> QED BY <1>1, <1>2 DEF TraceInv, RequestIsLogged

LEMMA AnswerStays ==
  ASSUME TraceInv, NEW t \in Logs, NEW r, Grows(t, r), place'["ack"] = place["ack"]
  PROVE  AnswerIsLogged'
<1>1. \A u \in Logs : \A k, kind, m : IsRecord(u, k, kind, m) => IsRecord(u, k, kind, m)'
  BY RecordStays
<1>2. "imp6" \in Logs /\ "imp62" \in Logs
  BY DEF Logs, TracedImps, Guests
<1> QED BY <1>1, <1>2 DEF TraceInv, AnswerIsLogged

------------------------------------------------------------------------------
(* The steps. *)

LEMMA TraceStart == TraceInit => TraceInv
<1> SUFFICES ASSUME TraceInit PROVE TraceInv
  OBVIOUS
<1>1. /\ \A m \in Messages : place[m] = "none"
      /\ \A i \in TracedImps : wire[i] = <<>>
      /\ \A h \in Guests : reading[h] = "none"
      /\ \A t \in Logs : trace[t] = <<>>
      /\ span = "none" /\ again = 0
  BY DEF TraceInit, Logs
<1>2. TraceTables
  BY TraceAssumption DEF TraceInit, TraceTables, TracePlaces, Logs
<1>3. "open" \in Messages /\ "ack" \in Messages /\ \A m \in Messages : m # "none"
  BY DEF Messages
<1>4. WireIsSent /\ TraceIsTrue /\ ReadIsLoggedOnce
  BY <1>1 DEF WireIsSent, TraceIsTrue, ReadIsLoggedOnce
<1>5. HostsReadOne /\ WindowsEnclose
  BY <1>1, <1>3 DEF HostsReadOne, WindowsEnclose
<1>6. RequestIsLogged /\ AnswerIsLogged
  BY <1>1, <1>3, PastKinds DEF RequestIsLogged, AnswerIsLogged
<1> QED BY <1>2, <1>4, <1>5, <1>6 DEF TraceInv

(* A message goes on to another place, and that is logged.                   *)
MovesTo(m, to, kind) ==
  /\ place' = [place EXCEPT ![m] = to]
  /\ to \in Past(kind) /\ \A k \in TraceKinds : place[m] \in Past(k) => to \in Past(k)
  /\ kind = "end" => place[m] # "read"

LEMMA MovesAreLogged ==
  ASSUME TraceInv, NEW m \in Messages, NEW to \in TracePlaces, NEW kind \in TraceKinds,
         NEW env \in 0..1, MovesTo(m, to, kind),
         NEW t, t = LoggedAt(kind, m), Log(t, kind, m, env),
         again' = 0 => again = 0 /\ env = 0
  PROVE  /\ Onward /\ place' \in [Messages -> TracePlaces]
         /\ place'[m] = to /\ \A n \in Messages : n # m => place'[n] = place[n]
         /\ trace' \in [Logs -> Seq(TraceRecords)]
         /\ TraceIsTrue' /\ ReadIsLoggedOnce'
         /\ m # "open" => RequestIsLogged'
         /\ m # "ack" => AnswerIsLogged'
         /\ \A u \in Logs : \A k, i, n : IsRecord(u, k, i, n) => IsRecord(u, k, i, n)'
         /\ IsOpen(t) => \E k \in Nat : /\ IsRecord(t, k, kind, m)'
                                       /\ \A j, i, n : IsRecord(t, j, i, n) => j < k
<1> DEFINE r == [is |-> kind, m |-> m, env |-> env]
<1>1. /\ place'[m] = to /\ \A n \in Messages : n # m => place'[n] = place[n]
      /\ place' \in [Messages -> TracePlaces]
  BY DEF MovesTo, TraceInv, TraceTables
<1>2. Onward
  BY <1>1 DEF MovesTo, Onward
<1>3. /\ t \in Logs
      /\ r \in TraceRecords /\ r.is = kind /\ r.m = m /\ r.env = env
  BY LogIsWhere DEF TraceKinds, Logs, TraceRecords
<1>4. /\ trace' \in [Logs -> Seq(TraceRecords)]
      /\ Grows(t, r)
      /\ IsOpen(t) => /\ Len(trace[t]) + 1 \in Nat /\ Len(trace[t]) + 1 \in 1..Len(trace'[t])
                      /\ trace'[t][Len(trace[t]) + 1] = r
                      /\ \A k \in 1..Len(trace[t]) : k < Len(trace[t]) + 1
  BY <1>3, LogGrows DEF TraceInv
<1> HIDE DEF r
<1>5. TraceIsTrue'
  BY <1>1, <1>2, <1>3, <1>4, RecordsStayTrue DEF MovesTo
<1>6. ReadIsLoggedOnce'
  BY <1>3, <1>4, ReadsStayLogged DEF MovesTo
<1>7. m # "open" => RequestIsLogged'
  BY <1>1, <1>3, <1>4, RequestStays DEF Messages
<1>8. m # "ack" => AnswerIsLogged'
  BY <1>1, <1>3, <1>4, AnswerStays DEF Messages
<1>9. \A u \in Logs : \A k, i, n : IsRecord(u, k, i, n) => IsRecord(u, k, i, n)'
  BY <1>3, <1>4, RecordStays
<1>10. IsOpen(t) => \E k \in Nat : /\ IsRecord(t, k, kind, m)'
                                  /\ \A j, i, n : IsRecord(t, j, i, n) => j < k
  BY <1>3, <1>4 DEF IsRecord
<1> QED BY <1>1, <1>2, <1>4, <1>5, <1>6, <1>7, <1>8, <1>9, <1>10

LEMMA SentStays ==
  ASSUME TraceInv, Onward, UNCHANGED wire, again' = 0 => again = 0
  PROVE  WireIsSent'
<1> SUFFICES ASSUME NEW i \in TracedImps, NEW k \in 1..Len(wire[i])
             PROVE  /\ Destination(wire[i][k].m) = i /\ place'[wire[i][k].m] \in Past("out")
                    /\ again' = 0 => wire[i][k].env = 0
  BY DEF WireIsSent
<1>1. wire[i][k] \in TracePackets
  BY ElementOfSeq DEF TraceInv, TraceTables
<1>2. /\ Destination(wire[i][k].m) = i /\ place[wire[i][k].m] \in Past("out")
      /\ again = 0 => wire[i][k].env = 0
  BY DEF TraceInv, WireIsSent
<1>3. wire[i][k].m \in Messages /\ "out" \in TraceKinds
  BY <1>1 DEF TracePackets, TraceKinds
<1> QED BY <1>2, <1>3 DEF Onward

LEMMA PacketIsSent ==
  ASSUME TraceInv, Onward, NEW m \in Messages, NEW env \in 0..1,
         wire' = [wire EXCEPT ![Destination(m)] = Append(@, [m |-> m, env |-> env])],
         place'[m] \in Past("out"), again' = 0 => again = 0 /\ env = 0
  PROVE  wire' \in [TracedImps -> Seq(TracePackets)] /\ WireIsSent'
<1> DEFINE p == [m |-> m, env |-> env]
           d == Destination(m)
<1>1. /\ p \in TracePackets /\ p.m = m /\ p.env = env /\ d \in TracedImps
      /\ wire \in [TracedImps -> Seq(TracePackets)] /\ wire[d] \in Seq(TracePackets)
  BY LogIsWhere DEF TracePackets, TraceInv, TraceTables
<1>2. wire' = [wire EXCEPT ![d] = Append(wire[d], p)]
  OBVIOUS
<1> HIDE DEF p
<1>3. /\ Append(wire[d], p) \in Seq(TracePackets)
      /\ Len(Append(wire[d], p)) = Len(wire[d]) + 1 /\ Len(wire[d]) \in Nat
      /\ \A k \in 1..Len(wire[d]) : Append(wire[d], p)[k] = wire[d][k]
      /\ Append(wire[d], p)[Len(wire[d]) + 1] = p
  BY <1>1, AppendProperties, LenProperties
<1> HIDE DEF d
<1>4. wire' \in [TracedImps -> Seq(TracePackets)]
  BY <1>1, <1>2, <1>3
<1>5. ASSUME NEW i \in TracedImps, NEW k \in 1..Len(wire'[i])
      PROVE  /\ Destination(wire'[i][k].m) = i /\ place'[wire'[i][k].m] \in Past("out")
             /\ again' = 0 => wire'[i][k].env = 0
  <2>1. CASE i = d /\ k = Len(wire[d]) + 1
    BY <1>1, <1>2, <1>3, <2>1 DEF d
  <2>2. CASE k \in 1..Len(wire[i]) /\ wire'[i][k] = wire[i][k]
    <3>1. wire[i][k] \in TracePackets
      BY <1>1, <2>2, ElementOfSeq
    <3>2. /\ Destination(wire[i][k].m) = i /\ place[wire[i][k].m] \in Past("out")
          /\ again = 0 => wire[i][k].env = 0
      BY <2>2 DEF TraceInv, WireIsSent
    <3>3. wire[i][k].m \in Messages /\ "out" \in TraceKinds
      BY <3>1 DEF TracePackets, TraceKinds
    <3> QED BY <2>2, <3>2, <3>3 DEF Onward
  <2> QED BY <1>1, <1>2, <1>3, <2>1, <2>2
<1> QED BY <1>4, <1>5 DEF WireIsSent

LEMMA WindowsAreOpen ==
  ASSUME TraceInv, NEW m \in {"open", "ack"}, place[m] # "read",
         place[m] # "none" \/ MaySubmit(m), NEW t \in Logs
  PROVE  IsOpen(t) /\ span = "all"
<1>1. span = "all"
  BY DEF TraceInv, WindowsEnclose, MaySubmit
<1> QED BY <1>1 DEF IsOpen

LEMMA SubmitKeeps ==
  ASSUME TraceInv, NEW m \in Messages, Submit(m)
  PROVE  TraceInv'
<1>1. /\ MovesTo(m, "in", "in") /\ "in" \in TracePlaces /\ "in" \in TraceKinds /\ 0 \in 0..1
      /\ Source(m) = LoggedAt("in", m) /\ Log(Source(m), "in", m, 0)
      /\ UNCHANGED <<equal, again, wire, reading, span>> /\ MaySubmit(m) /\ place[m] = "none"
  BY PastKinds, LogIsWhere DEF Submit, MovesTo, TracePlaces, TraceKinds
<1>2. /\ Onward /\ place' \in [Messages -> TracePlaces]
      /\ place'[m] = "in" /\ \A n \in Messages : n # m => place'[n] = place[n]
      /\ trace' \in [Logs -> Seq(TraceRecords)]
      /\ TraceIsTrue' /\ ReadIsLoggedOnce'
      /\ m # "open" => RequestIsLogged'
      /\ m # "ack" => AnswerIsLogged'
      /\ \A u \in Logs : \A k, i, n : IsRecord(u, k, i, n) => IsRecord(u, k, i, n)'
      /\ IsOpen(Source(m)) => \E k \in Nat : /\ IsRecord(Source(m), k, "in", m)'
                                            /\ \A j, i, n : IsRecord(Source(m), j, i, n) => j < k
  BY <1>1, MovesAreLogged
<1>3. TraceTables'
  BY <1>1, <1>2 DEF TraceInv, TraceTables
<1>4. WireIsSent'
  BY <1>1, <1>2, SentStays
<1>5. HostsReadOne'
  BY <1>1, <1>2 DEF TraceInv, HostsReadOne
<1>6. WindowsEnclose'
  BY <1>1, <1>2 DEF TraceInv, WindowsEnclose, MaySubmit, Messages
<1>7. CASE m = "open"
  <2>1. \E k \in Nat : IsRecord("imp62", k, "in", "open")'
    BY <1>1, <1>2, <1>7, WindowsAreOpen DEF Source, Logs, TracedImps
  <2>2. RequestIsLogged'
    BY <1>2, <1>7, <2>1, PastKinds DEF RequestIsLogged
  <2> QED BY <1>2, <1>3, <1>4, <1>5, <1>6, <1>7, <2>2 DEF TraceInv
<1>8. CASE m = "ack"
  <2>1. "imp6" \in Logs /\ Source(m) = "imp6"
    BY <1>8 DEF Source, Logs, TracedImps
  <2>2. PICK k \in Nat : /\ IsRecord("imp6", k, "in", "ack")'
                        /\ \A j, i, n : IsRecord("imp6", j, i, n) => j < k
    BY <1>1, <1>2, <1>8, <2>1, WindowsAreOpen
  <2>3. place["open"] \in Past("up")
    BY <1>1, <1>8, PastKinds DEF MaySubmit
  <2>4. PICK h, j \in Nat : /\ h < j /\ IsRecord("imp6", h, "arrived", "open")
                           /\ IsRecord("imp6", j, "up", "open")
    BY <2>3 DEF TraceInv, RequestIsLogged
  <2>5. AnswerIsLogged'
    BY <1>2, <1>8, <2>1, <2>2, <2>4, PastKinds DEF AnswerIsLogged
  <2> QED BY <1>2, <1>3, <1>4, <1>5, <1>6, <1>8, <2>5 DEF TraceInv
<1>9. CASE m = "other"
  BY <1>2, <1>3, <1>4, <1>5, <1>6, <1>9 DEF TraceInv
<1> QED BY <1>7, <1>8, <1>9 DEF Messages

LEMMA TransmitKeeps ==
  ASSUME TraceInv, NEW m \in Messages, Transmit(m)
  PROVE  TraceInv'
<1>1. /\ MovesTo(m, "out", "out") /\ "out" \in TracePlaces /\ "out" \in TraceKinds /\ 0 \in 0..1
      /\ Source(m) = LoggedAt("out", m) /\ Log(Source(m), "out", m, 0)
      /\ UNCHANGED <<equal, again, reading, span>> /\ place[m] = "in"
      /\ wire' = [wire EXCEPT ![Destination(m)] = Append(@, [m |-> m, env |-> 0])]
  BY PastKinds, LogIsWhere DEF Transmit, MovesTo, TracePlaces, TraceKinds
<1>2. /\ Onward /\ place' \in [Messages -> TracePlaces]
      /\ place'[m] = "out" /\ \A n \in Messages : n # m => place'[n] = place[n]
      /\ trace' \in [Logs -> Seq(TraceRecords)]
      /\ TraceIsTrue' /\ ReadIsLoggedOnce'
      /\ m # "open" => RequestIsLogged'
      /\ m # "ack" => AnswerIsLogged'
      /\ \A u \in Logs : \A k, i, n : IsRecord(u, k, i, n) => IsRecord(u, k, i, n)'
      /\ IsOpen(Source(m)) => \E k \in Nat : /\ IsRecord(Source(m), k, "out", m)'
                                            /\ \A j, i, n : IsRecord(Source(m), j, i, n) => j < k
  BY <1>1, MovesAreLogged
<1>3. wire' \in [TracedImps -> Seq(TracePackets)] /\ WireIsSent'
  BY <1>1, <1>2, PacketIsSent, PastKinds
<1>4. TraceTables'
  BY <1>1, <1>2, <1>3 DEF TraceInv, TraceTables
<1>5. HostsReadOne'
  BY <1>1, <1>2 DEF TraceInv, HostsReadOne
<1>6. WindowsEnclose'
  BY <1>1, <1>2 DEF TraceInv, WindowsEnclose, Messages
<1>7. CASE m = "open"
  <2>1. "imp62" \in Logs /\ Source(m) = "imp62"
    BY <1>7 DEF Source, Logs, TracedImps
  <2>2. PICK k \in Nat : /\ IsRecord("imp62", k, "out", "open")'
                        /\ \A j, i, n : IsRecord("imp62", j, i, n) => j < k
    BY <1>1, <1>2, <1>7, <2>1, WindowsAreOpen
  <2>3. PICK j \in Nat : IsRecord("imp62", j, "in", "open")
    BY <1>1, <1>7, PastKinds DEF TraceInv, RequestIsLogged
  <2>4. RequestIsLogged'
    BY <1>2, <1>7, <2>1, <2>2, <2>3, PastKinds DEF RequestIsLogged
  <2> QED BY <1>2, <1>3, <1>4, <1>5, <1>6, <1>7, <2>4 DEF TraceInv
<1>8. CASE m = "ack"
  <2>1. "imp6" \in Logs /\ Source(m) = "imp6"
    BY <1>8 DEF Source, Logs, TracedImps
  <2>2. PICK k \in Nat : /\ IsRecord("imp6", k, "out", "ack")'
                        /\ \A j, i, n : IsRecord("imp6", j, i, n) => j < k
    BY <1>1, <1>2, <1>8, <2>1, WindowsAreOpen
  <2>3. PICK h, i, j \in Nat :
               /\ h < i /\ IsRecord("imp6", h, "arrived", "open") /\ IsRecord("imp6", i, "up", "open")
               /\ i < j /\ IsRecord("imp6", j, "in", "ack")
    BY <1>1, <1>8, PastKinds DEF TraceInv, AnswerIsLogged
  <2>4. AnswerIsLogged'
    BY <1>2, <1>8, <2>1, <2>2, <2>3, PastKinds DEF AnswerIsLogged
  <2> QED BY <1>2, <1>3, <1>4, <1>5, <1>6, <1>8, <2>4 DEF TraceInv
<1>9. CASE m = "other"
  BY <1>2, <1>3, <1>4, <1>5, <1>6, <1>9 DEF TraceInv
<1> QED BY <1>7, <1>8, <1>9 DEF Messages

LEMMA RetransmitKeeps ==
  ASSUME TraceInv, NEW m \in Messages, NEW env \in 0..1, Retransmit(m, env)
  PROVE  TraceInv'
<1>1. /\ place[m] \in Past("out") /\ place[m] \in TracePlaces /\ "out" \in TraceKinds
      /\ Source(m) = LoggedAt("out", m) /\ Log(Source(m), "out", m, env)
      /\ UNCHANGED <<equal, place, reading, span>>
      /\ again \in 0..MaxRetransmissions /\ again < MaxRetransmissions /\ again' = again + 1
      /\ wire' = [wire EXCEPT ![Destination(m)] = Append(@, [m |-> m, env |-> env])]
  BY ReachedPlaces, LogIsWhere DEF Retransmit, TraceInv, TraceTables, TraceKinds
<1>2. again' \in 0..MaxRetransmissions /\ again' # 0
  BY <1>1, TraceAssumption
<1>3. MovesTo(m, place[m], "out")
  BY <1>1, PastKinds DEF MovesTo, TraceInv, TraceTables
<1>4. /\ Onward /\ place' \in [Messages -> TracePlaces]
      /\ trace' \in [Logs -> Seq(TraceRecords)]
      /\ TraceIsTrue' /\ ReadIsLoggedOnce'
      /\ \A u \in Logs : \A k, i, n : IsRecord(u, k, i, n) => IsRecord(u, k, i, n)'
  BY <1>1, <1>2, <1>3, MovesAreLogged
<1>5. wire' \in [TracedImps -> Seq(TracePackets)] /\ WireIsSent'
  BY <1>1, <1>2, <1>4, PacketIsSent
<1>6. TraceTables'
  BY <1>1, <1>2, <1>4, <1>5 DEF TraceInv, TraceTables
<1>7. HostsReadOne' /\ WindowsEnclose'
  BY <1>1, ZenonT(40) DEF TraceInv, HostsReadOne, WindowsEnclose
<1>8. "imp6" \in Logs /\ "imp62" \in Logs /\ "host106" \in Logs
  BY DEF Logs, TracedImps, Guests
<1>9. RequestIsLogged' /\ AnswerIsLogged'
  BY <1>1, <1>4, <1>8 DEF TraceInv, RequestIsLogged, AnswerIsLogged
<1> QED BY <1>4, <1>5, <1>6, <1>7, <1>9 DEF TraceInv

LEMMA PacketGone ==
  ASSUME TraceInv, Onward, UNCHANGED again, NEW i \in TracedImps, wire[i] # <<>>,
         wire' = [wire EXCEPT ![i] = Tail(@)]
  PROVE  wire' \in [TracedImps -> Seq(TracePackets)] /\ WireIsSent'
<1>1. /\ wire \in [TracedImps -> Seq(TracePackets)] /\ wire[i] \in Seq(TracePackets)
  BY DEF TraceInv, TraceTables
<1>2. /\ Tail(wire[i]) \in Seq(TracePackets) /\ Len(Tail(wire[i])) = Len(wire[i]) - 1
      /\ \A k \in 1..Len(Tail(wire[i])) : Tail(wire[i])[k] = wire[i][k + 1]
      /\ Len(wire[i]) \in Nat
  BY <1>1, HeadTailProperties, LenProperties
<1>3. wire' \in [TracedImps -> Seq(TracePackets)]
  BY <1>1, <1>2
<1>4. ASSUME NEW j \in TracedImps, NEW k \in 1..Len(wire'[j])
      PROVE  /\ Destination(wire'[j][k].m) = j /\ place'[wire'[j][k].m] \in Past("out")
             /\ again' = 0 => wire'[j][k].env = 0
  <2>1. PICK n \in 1..Len(wire[j]) : wire'[j][k] = wire[j][n]
    <3>1. CASE j = i
      <4>1. wire'[j] = Tail(wire[i])
        BY <1>1, <3>1
      <4>2. k + 1 \in 1..Len(wire[j]) /\ wire'[j][k] = wire[j][k + 1]
        <5>1. k \in 1..Len(Tail(wire[i])) /\ wire'[j][k] = Tail(wire[i])[k]
          BY <4>1
        <5>2. Tail(wire[i])[k] = wire[i][k + 1]
          BY <1>2, <5>1
        <5>3. k + 1 \in 1..Len(wire[i])
          BY <1>2, <5>1
        <5> QED BY <3>1, <5>1, <5>2, <5>3
      <4> QED BY <4>2
    <3>2. CASE j # i
      BY <1>1, <3>2
    <3> QED BY <3>1, <3>2
  <2>2. wire[j][n] \in TracePackets
    BY <1>1, ElementOfSeq
  <2>3. /\ Destination(wire[j][n].m) = j /\ place[wire[j][n].m] \in Past("out")
        /\ again = 0 => wire[j][n].env = 0
    BY DEF TraceInv, WireIsSent
  <2>4. wire[j][n].m \in Messages /\ "out" \in TraceKinds
    BY <2>2 DEF TracePackets, TraceKinds
  <2> QED BY <2>1, <2>3, <2>4 DEF Onward
<1> QED BY <1>3, <1>4 DEF WireIsSent

LEMMA LoseKeeps ==
  ASSUME TraceInv, NEW i \in TracedImps, Lose(i)
  PROVE  TraceInv'
<1>1. /\ wire[i] # <<>> /\ wire' = [wire EXCEPT ![i] = Tail(@)] /\ Onward
      /\ UNCHANGED <<equal, place, again, reading, span, trace>>
  BY DEF Lose, Onward
<1>2. wire' \in [TracedImps -> Seq(TracePackets)] /\ WireIsSent'
  BY <1>1, PacketGone
<1>3. TraceTables'
  BY <1>1, <1>2 DEF TraceInv, TraceTables
<1>4. TraceIsTrue' /\ ReadIsLoggedOnce'
  BY <1>1 DEF TraceInv, TraceIsTrue, ReadIsLoggedOnce
<1>5. HostsReadOne' /\ WindowsEnclose'
  BY <1>1 DEF TraceInv, HostsReadOne, WindowsEnclose
<1>6. RequestIsLogged' /\ AnswerIsLogged'
  <2>1. \A u, k, kind, n : IsRecord(u, k, kind, n)' <=> IsRecord(u, k, kind, n)
    BY <1>1 DEF IsRecord
  <2> QED BY <1>1, <2>1 DEF TraceInv, RequestIsLogged, AnswerIsLogged
<1> QED BY <1>2, <1>3, <1>4, <1>5, <1>6 DEF TraceInv

LEMMA ArriveKeeps ==
  ASSUME TraceInv, NEW d \in TracedImps, Arrive(d)
  PROVE  TraceInv'
<1> DEFINE p == Head(wire[d])
<1>1. /\ wire[d] # <<>> /\ wire' = [wire EXCEPT ![d] = Tail(@)]
      /\ place' = [place EXCEPT ![p.m] = IF @ = "out" THEN "arrived" ELSE @]
      /\ Log(d, "arrived", p.m, p.env)
      /\ UNCHANGED <<equal, again, reading, span>>
  BY DEF Arrive
<1>2. /\ p \in TracePackets /\ Destination(p.m) = d /\ place[p.m] \in Past("out")
      /\ again = 0 => p.env = 0
  <2>1. wire[d] \in Seq(TracePackets)
    BY DEF TraceInv, TraceTables
  <2>2. Len(wire[d]) \in Nat /\ Len(wire[d]) # 0 /\ p = wire[d][1]
    BY <1>1, <2>1, EmptySeq, LenProperties
  <2>3. 1 \in 1..Len(wire[d])
    BY <2>2
  <2> QED BY <2>1, <2>2, <2>3, ElementOfSeq DEF TraceInv, WireIsSent
<1> HIDE DEF p
<1>3. PICK m \in Messages, env \in 0..1, to \in TracePlaces :
        m = p.m /\ env = p.env /\ to = IF place[m] = "out" THEN "arrived" ELSE place[m]
  <2>1. p.m \in Messages /\ p.env \in 0..1
    BY <1>2 DEF TracePackets
  <2>2. place[p.m] \in TracePlaces
    BY <2>1 DEF TraceInv, TraceTables
  <2>3. (IF place[p.m] = "out" THEN "arrived" ELSE place[p.m]) \in TracePlaces
    BY <2>2 DEF TracePlaces
  <2> QED BY <2>1, <2>3
<1>4. /\ MovesTo(m, to, "arrived") /\ "arrived" \in TraceKinds /\ to \in TracePlaces
      /\ d = LoggedAt("arrived", m)
  <2>1. place' = [place EXCEPT ![m] = to]
    BY <1>1, <1>3
  <2>2. place[m] \in TracePlaces
    BY DEF TraceInv, TraceTables
  <2> QED BY <1>2, <1>3, <2>1, <2>2, PastKinds, LogIsWhere DEF MovesTo, TraceKinds, TracePlaces
<1>5. /\ Onward /\ place' \in [Messages -> TracePlaces]
      /\ place'[m] = to /\ \A n \in Messages : n # m => place'[n] = place[n]
      /\ trace' \in [Logs -> Seq(TraceRecords)]
      /\ TraceIsTrue' /\ ReadIsLoggedOnce'
      /\ m # "open" => RequestIsLogged'
      /\ m # "ack" => AnswerIsLogged'
      /\ \A u \in Logs : \A k, i, n : IsRecord(u, k, i, n) => IsRecord(u, k, i, n)'
      /\ IsOpen(d) => \E k \in Nat : IsRecord(d, k, "arrived", m)'
  <2>1. Log(d, "arrived", m, env) /\ (again' = 0 => again = 0 /\ env = 0)
    BY <1>1, <1>2, <1>3
  <2> QED BY <1>4, <2>1, MovesAreLogged
<1>6. wire' \in [TracedImps -> Seq(TracePackets)] /\ WireIsSent'
  BY <1>1, <1>5, PacketGone
<1>7. TraceTables'
  BY <1>1, <1>5, <1>6 DEF TraceInv, TraceTables
<1>8. HostsReadOne'
  BY <1>1, <1>2, <1>3, <1>5, PastKinds DEF TraceInv, HostsReadOne
<1>9. WindowsEnclose'
  BY <1>1, <1>2, <1>3, <1>5, PastKinds DEF TraceInv, WindowsEnclose, Messages
<1>10. CASE m = "open"
  <2>1. "imp6" \in Logs /\ d = "imp6" /\ "imp62" \in Logs /\ "host106" \in Logs
    BY <1>2, <1>3, <1>10 DEF Destination, Logs, TracedImps, Guests
  <2>2. CASE place[m] = "out"
    <3>1. \E k \in Nat : IsRecord("imp6", k, "arrived", "open")'
      BY <1>5, <1>10, <2>1, <2>2, WindowsAreOpen
    <3>2. RequestIsLogged'
      BY <1>3, <1>5, <1>10, <2>1, <2>2, <3>1, PastKinds DEF RequestIsLogged, TraceInv
    <3> QED BY <1>5, <1>6, <1>7, <1>8, <1>9, <1>10, <3>2 DEF TraceInv
  <2>3. CASE place[m] # "out"
    <3>1. RequestIsLogged'
      BY <1>3, <1>5, <1>10, <2>1, <2>3 DEF RequestIsLogged, TraceInv
    <3> QED BY <1>5, <1>6, <1>7, <1>8, <1>9, <1>10, <3>1 DEF TraceInv
  <2> QED BY <2>2, <2>3
<1>11. CASE m = "ack"
  <2>1. "imp62" \in Logs /\ d = "imp62" /\ "imp6" \in Logs
    BY <1>2, <1>3, <1>11 DEF Destination, Logs, TracedImps
  <2>2. CASE place[m] = "out"
    <3>1. \E k \in Nat : IsRecord("imp62", k, "arrived", "ack")'
      BY <1>5, <1>11, <2>1, <2>2, WindowsAreOpen
    <3>2. AnswerIsLogged'
      BY <1>3, <1>5, <1>11, <2>1, <2>2, <3>1, PastKinds DEF AnswerIsLogged, TraceInv
    <3> QED BY <1>5, <1>6, <1>7, <1>8, <1>9, <1>11, <3>2 DEF TraceInv
  <2>3. CASE place[m] # "out"
    <3>1. AnswerIsLogged'
      BY <1>3, <1>5, <1>11, <2>1, <2>3 DEF AnswerIsLogged, TraceInv
    <3> QED BY <1>5, <1>6, <1>7, <1>8, <1>9, <1>11, <3>1 DEF TraceInv
  <2> QED BY <2>2, <2>3
<1>12. CASE m = "other"
  BY <1>5, <1>6, <1>7, <1>8, <1>9, <1>12 DEF TraceInv
<1> QED BY <1>10, <1>11, <1>12 DEF Messages

LEMMA HandUpKeeps ==
  ASSUME TraceInv, NEW m \in Messages, HandUp(m)
  PROVE  TraceInv'
<1> DEFINE d == Destination(m)
<1>1. /\ MovesTo(m, "up", "up") /\ "up" \in TracePlaces /\ "up" \in TraceKinds /\ 0 \in 0..1
      /\ d = LoggedAt("up", m) /\ Log(d, "up", m, 0)
      /\ UNCHANGED <<equal, again, wire, reading, span>> /\ place[m] = "arrived"
  BY PastKinds, LogIsWhere DEF HandUp, MovesTo, TracePlaces, TraceKinds
<1> HIDE DEF d
<1>2. /\ Onward /\ place' \in [Messages -> TracePlaces]
      /\ place'[m] = "up" /\ \A n \in Messages : n # m => place'[n] = place[n]
      /\ trace' \in [Logs -> Seq(TraceRecords)]
      /\ TraceIsTrue' /\ ReadIsLoggedOnce'
      /\ m # "open" => RequestIsLogged'
      /\ m # "ack" => AnswerIsLogged'
      /\ \A u \in Logs : \A k, i, n : IsRecord(u, k, i, n) => IsRecord(u, k, i, n)'
      /\ IsOpen(d) => \E k \in Nat : /\ IsRecord(d, k, "up", m)'
                                    /\ \A j, i, n : IsRecord(d, j, i, n) => j < k
  BY <1>1, MovesAreLogged
<1>3. TraceTables'
  BY <1>1, <1>2 DEF TraceInv, TraceTables
<1>4. WireIsSent'
  BY <1>1, <1>2, SentStays
<1>5. HostsReadOne'
  BY <1>1, <1>2 DEF TraceInv, HostsReadOne
<1>6. WindowsEnclose'
  BY <1>1, <1>2 DEF TraceInv, WindowsEnclose, Messages
<1>7. CASE m = "open"
  <2>1. "imp6" \in Logs /\ d = "imp6" /\ "imp62" \in Logs /\ "host106" \in Logs
    BY <1>7 DEF Destination, Logs, TracedImps, Guests, d
  <2>2. PICK k \in Nat : /\ IsRecord("imp6", k, "up", "open")'
                        /\ \A j, i, n : IsRecord("imp6", j, i, n) => j < k
    BY <1>1, <1>2, <1>7, <2>1, WindowsAreOpen
  <2>3. PICK j \in Nat : IsRecord("imp6", j, "arrived", "open")
    BY <1>1, <1>7, PastKinds DEF TraceInv, RequestIsLogged
  <2>4. RequestIsLogged'
    BY <1>1, <1>2, <1>7, <2>1, <2>2, <2>3, PastKinds DEF TraceInv, RequestIsLogged
  <2> QED BY <1>2, <1>3, <1>4, <1>5, <1>6, <1>7, <2>4 DEF TraceInv
<1>8. CASE m = "ack"
  <2>1. "imp62" \in Logs /\ d = "imp62" /\ "imp6" \in Logs
    BY <1>8 DEF Destination, Logs, TracedImps, d
  <2>2. PICK k \in Nat : /\ IsRecord("imp62", k, "up", "ack")'
                        /\ \A j, i, n : IsRecord("imp62", j, i, n) => j < k
    BY <1>1, <1>2, <1>8, <2>1, WindowsAreOpen
  <2>3. PICK j \in Nat : IsRecord("imp62", j, "arrived", "ack")
    BY <1>1, <1>8, PastKinds DEF TraceInv, AnswerIsLogged
  <2>4. AnswerIsLogged'
    BY <1>1, <1>2, <1>8, <2>1, <2>2, <2>3, PastKinds DEF TraceInv, AnswerIsLogged
  <2> QED BY <1>2, <1>3, <1>4, <1>5, <1>6, <1>8, <2>4 DEF TraceInv
<1>9. CASE m = "other"
  BY <1>2, <1>3, <1>4, <1>5, <1>6, <1>9 DEF TraceInv
<1> QED BY <1>7, <1>8, <1>9 DEF Messages

LEMMA StartKeeps ==
  ASSUME TraceInv, NEW m \in Messages, Start(m)
  PROVE  TraceInv'
<1> DEFINE h == Host(m)
<1>1. /\ MovesTo(m, "start", "start") /\ "start" \in TracePlaces /\ "start" \in TraceKinds /\ 0 \in 0..1
      /\ h \in Guests /\ h = LoggedAt("start", m) /\ Log(h, "start", m, 0)
      /\ reading[h] = "none" /\ reading' = [reading EXCEPT ![h] = m]
      /\ UNCHANGED <<equal, again, wire, span>> /\ place[m] = "up"
  BY PastKinds, LogIsWhere DEF Start, MovesTo, TracePlaces, TraceKinds
<1>2. h = Host(m)
  OBVIOUS
<1> HIDE DEF h
<1>3. /\ Onward /\ place' \in [Messages -> TracePlaces]
      /\ place'[m] = "start" /\ \A n \in Messages : n # m => place'[n] = place[n]
      /\ trace' \in [Logs -> Seq(TraceRecords)]
      /\ TraceIsTrue' /\ ReadIsLoggedOnce'
      /\ m # "open" => RequestIsLogged'
      /\ m # "ack" => AnswerIsLogged'
      /\ \A u \in Logs : \A k, i, n : IsRecord(u, k, i, n) => IsRecord(u, k, i, n)'
  BY <1>1, MovesAreLogged
<1>4. reading' \in [Guests -> Messages \cup {"none"}]
  BY <1>1 DEF TraceInv, TraceTables
<1>5. TraceTables'
  BY <1>1, <1>3, <1>4 DEF TraceInv, TraceTables
<1>6. WireIsSent'
  BY <1>1, <1>3, SentStays
<1>7. \A n \in Messages : n # "none"
  BY DEF Messages
<1>8. HostsReadOne'
  <2>1. \A g \in Guests : reading'[g] = IF g = h THEN m ELSE reading[g]
    BY <1>1 DEF TraceInv, TraceTables
  <2>2. \A g \in Guests, n \in Messages : reading[g] = n <=> place[n] = "start" /\ Host(n) = g
    BY DEF TraceInv, HostsReadOne
  <2> QED BY <1>1, <1>2, <1>3, <1>7, <2>1, <2>2 DEF HostsReadOne
<1>9. WindowsEnclose'
  BY <1>1, <1>3 DEF TraceInv, WindowsEnclose, Messages
<1>10. "imp6" \in Logs /\ "imp62" \in Logs /\ "host106" \in Logs
  BY DEF Logs, TracedImps, Guests
<1>11. RequestIsLogged' /\ AnswerIsLogged'
  <2>1. CASE m = "open"
    <3>1. RequestIsLogged'
      BY <1>1, <1>3, <1>10, <2>1, PastKinds DEF TraceInv, RequestIsLogged
    <3> QED BY <1>3, <2>1, <3>1
  <2>2. CASE m = "ack"
    <3>1. AnswerIsLogged'
      BY <1>1, <1>3, <1>10, <2>2, PastKinds DEF TraceInv, AnswerIsLogged
    <3> QED BY <1>3, <2>2, <3>1
  <2>3. CASE m = "other"
    BY <1>3, <2>3
  <2> QED BY <2>1, <2>2, <2>3 DEF Messages
<1> QED BY <1>3, <1>5, <1>6, <1>8, <1>9, <1>11 DEF TraceInv

LEMMA FinishKeeps ==
  ASSUME TraceInv, NEW m \in Messages, Finish(m)
  PROVE  TraceInv'
<1> DEFINE h == Host(m)
<1>1. /\ MovesTo(m, "read", "end") /\ "read" \in TracePlaces /\ "end" \in TraceKinds /\ 0 \in 0..1
      /\ h \in Guests /\ h = LoggedAt("end", m) /\ Log(h, "end", m, 0)
      /\ reading' = [reading EXCEPT ![h] = "none"]
      /\ UNCHANGED <<equal, again, wire, span>> /\ place[m] = "start"
  BY PastKinds, LogIsWhere DEF Finish, MovesTo, TracePlaces, TraceKinds
<1>2. h = Host(m)
  OBVIOUS
<1> HIDE DEF h
<1>3. /\ Onward /\ place' \in [Messages -> TracePlaces]
      /\ place'[m] = "read" /\ \A n \in Messages : n # m => place'[n] = place[n]
      /\ trace' \in [Logs -> Seq(TraceRecords)]
      /\ TraceIsTrue' /\ ReadIsLoggedOnce'
      /\ m # "open" => RequestIsLogged'
      /\ m # "ack" => AnswerIsLogged'
      /\ \A u \in Logs : \A k, i, n : IsRecord(u, k, i, n) => IsRecord(u, k, i, n)'
      /\ IsOpen(h) => \E k \in Nat : IsRecord(h, k, "end", m)'
  BY <1>1, MovesAreLogged
<1>4. reading' \in [Guests -> Messages \cup {"none"}]
  BY <1>1 DEF TraceInv, TraceTables
<1>5. TraceTables'
  BY <1>1, <1>3, <1>4 DEF TraceInv, TraceTables
<1>6. WireIsSent'
  BY <1>1, <1>3, SentStays
<1>7. \A n \in Messages : n # "none"
  BY DEF Messages
<1>8. HostsReadOne'
  <2>1. \A g \in Guests : reading'[g] = IF g = h THEN "none" ELSE reading[g]
    BY <1>1 DEF TraceInv, TraceTables
  <2>2. \A g \in Guests, n \in Messages : reading[g] = n <=> place[n] = "start" /\ Host(n) = g
    BY DEF TraceInv, HostsReadOne
  <2> QED BY <1>1, <1>2, <1>3, <1>7, <2>1, <2>2 DEF HostsReadOne
<1>9. WindowsEnclose'
  BY <1>1, <1>3 DEF TraceInv, WindowsEnclose, Messages
<1>10. "imp6" \in Logs /\ "imp62" \in Logs /\ "host106" \in Logs
  BY DEF Logs, TracedImps, Guests
<1>11. RequestIsLogged' /\ AnswerIsLogged'
  <2>1. CASE m = "open"
    <3>1. h = "host106"
      BY <1>2, <2>1 DEF Host
    <3>2. \E k \in Nat : IsRecord("host106", k, "end", "open")'
      BY <1>1, <1>3, <1>10, <2>1, <3>1, WindowsAreOpen
    <3>3. RequestIsLogged'
      BY <1>1, <1>3, <1>10, <2>1, <3>2, PastKinds DEF TraceInv, RequestIsLogged
    <3> QED BY <1>3, <2>1, <3>3
  <2>2. CASE m = "ack"
    <3>1. AnswerIsLogged'
      BY <1>1, <1>3, <1>10, <2>2, PastKinds DEF TraceInv, AnswerIsLogged
    <3> QED BY <1>3, <2>2, <3>1
  <2>3. CASE m = "other"
    BY <1>3, <2>3
  <2> QED BY <2>1, <2>2, <2>3 DEF Messages
<1> QED BY <1>3, <1>5, <1>6, <1>8, <1>9, <1>11 DEF TraceInv

LEMMA WindowsKeep ==
  ASSUME TraceInv, OpenWindow \/ CloseWindow
  PROVE  TraceInv'
<1>1. UNCHANGED <<equal, place, again, wire, reading, trace>>
  BY DEF OpenWindow, CloseWindow
<1>2. TraceTables'
  BY <1>1 DEF TraceInv, TraceTables, OpenWindow, CloseWindow
<1>3. WireIsSent' /\ TraceIsTrue' /\ ReadIsLoggedOnce' /\ HostsReadOne'
  BY <1>1 DEF TraceInv, WireIsSent, TraceIsTrue, ReadIsLoggedOnce, HostsReadOne
<1>4. WindowsEnclose'
  BY <1>1 DEF TraceInv, WindowsEnclose, OpenWindow, CloseWindow
<1>5. RequestIsLogged' /\ AnswerIsLogged'
  <2>1. \A u, k, i, n : IsRecord(u, k, i, n)' <=> IsRecord(u, k, i, n)
    BY <1>1 DEF IsRecord
  <2> QED BY <1>1, <2>1 DEF TraceInv, RequestIsLogged, AnswerIsLogged
<1> QED BY <1>2, <1>3, <1>4, <1>5 DEF TraceInv

LEMMA TraceKept == TraceInv /\ [TraceNext]_journeyVars => TraceInv'
<1> SUFFICES ASSUME TraceInv, [TraceNext]_journeyVars PROVE TraceInv'
  OBVIOUS
<1>1. CASE TraceNext
  BY <1>1, SubmitKeeps, TransmitKeeps, RetransmitKeeps, LoseKeeps, ArriveKeeps, HandUpKeeps,
     StartKeeps, FinishKeeps, WindowsKeep DEF TraceNext
<1>2. CASE UNCHANGED journeyVars
  <2>1. UNCHANGED <<equal, place, again, wire, reading, span, trace>>
    BY <1>2 DEF journeyVars
  <2>2. TraceTables' /\ WireIsSent' /\ TraceIsTrue'
    BY <2>1 DEF TraceInv, TraceTables, WireIsSent, TraceIsTrue
  <2>3. HostsReadOne' /\ WindowsEnclose'
    BY <2>1, ZenonT(40) DEF TraceInv, HostsReadOne, WindowsEnclose
  <2>4. \A u, k, i, n : IsRecord(u, k, i, n)' <=> IsRecord(u, k, i, n)
    BY <2>1 DEF IsRecord
  <2>5. ReadIsLoggedOnce'
    BY <2>1 DEF TraceInv, ReadIsLoggedOnce
  <2>6. RequestIsLogged' /\ AnswerIsLogged'
    BY <2>1, <2>4 DEF TraceInv, RequestIsLogged, AnswerIsLogged
  <2> QED BY <2>2, <2>3, <2>5, <2>6 DEF TraceInv
<1> QED BY <1>1, <1>2

(* In every reachable state the windows hold what happened, and all that     *)
(* happened of the request and its answer while they were open.              *)
THEOREM TracesAreOfTheJourney == TraceSpec => []TraceInv
BY TraceStart, TraceKept, PTL DEF TraceSpec

LEMMA TraceInvGivesTypes ==
  ASSUME TraceInv
  PROVE  TraceTypeOK
<1>1. place \in [Messages -> ToSet(Places)]
  <2>1. TracePlaces = ToSet(Places)
    BY DEF TracePlaces, Places, ToSet
  <2> QED BY <2>1 DEF TraceInv, TraceTables
<1>2. ASSUME NEW i \in TracedImps, NEW p \in ToSet(wire[i])
      PROVE  Destination(p.m) = i /\ Reached(p.m, "out")
  <2>1. wire[i] \in Seq(TracePackets)
    BY DEF TraceInv, TraceTables
  <2>2. PICK k \in 1..Len(wire[i]) : p = wire[i][k]
    BY <2>1, LenProperties DEF ToSet
  <2>3. Destination(p.m) = i /\ place[p.m] \in Past("out")
    BY <2>2 DEF TraceInv, WireIsSent
  <2> QED BY <2>3, ReachedPlaces
<1> QED BY <1>1, <1>2 DEF TraceTypeOK, TraceInv, TraceTables, HostsReadOne

(* Every variable has its type; what is on the line is on its way to its     *)
(* destination, and a host reads the one message that began and has not      *)
(* ended.                                                                    *)
THEOREM TraceTypesHold == TraceSpec => []TraceTypeOK
<1>1. TraceInv => TraceTypeOK
  BY TraceInvGivesTypes
<1> QED BY TracesAreOfTheJourney, <1>1, PTL

------------------------------------------------------------------------------
(* The extraction. *)

LEMMA LeastOfPlaces ==
  ASSUME NEW S \in SUBSET (Nat \ {0})
  PROVE  /\ S = {} => Least(S) = 0
         /\ S # {} => Least(S) \in S /\ Least(S) # 0 /\ \A j \in S : Least(S) <= j
<1>1. CASE S = {}
  BY <1>1 DEF Least
<1>2. CASE S # {}
  <2>1. \E i \in S : \A j \in S : i <= j
    BY <1>2, LeastNumber
  <2> QED BY <1>2, <2>1 DEF Least
<1> QED BY <1>1, <1>2

LEMMA FirstPlace ==
  ASSUME NEW S \in SUBSET (Nat \ {0}), NEW k \in S, NEW n, n = Least(S)
  PROVE  n # 0 /\ n \in S /\ n \in Nat /\ n <= k
BY LeastOfPlaces

LEMMA RecordsArePlaces ==
  ASSUME TraceInv, NEW t \in Logs, NEW after \in Nat, NEW kind, NEW m
  PROVE  /\ Records(t, after, kind, m) \in SUBSET (Nat \ {0})
         /\ \A i \in Records(t, after, kind, m) :
              /\ i \in 1..Len(trace[t]) /\ i > after
              /\ trace[t][i].is = kind /\ Alike(trace[t][i].m, m)
         /\ \A i \in Nat : i > after /\ IsRecord(t, i, kind, m) => i \in Records(t, after, kind, m)
<1>1. DOMAIN trace[t] = 1..Len(trace[t]) /\ Len(trace[t]) \in Nat
  <2>1. trace[t] \in Seq(TraceRecords)
    BY TracesAreSequences DEF TraceInv
  <2> QED BY <2>1, LenProperties
<1>2. Alike(m, m)
  BY DEF Alike
<1> QED BY <1>1, <1>2 DEF Records, IsRecord

(* A path that is whole.                                                     *)
LEMMA WholePath ==
  ASSUME TraceInv, NEW from \in Logs, NEW to \in Logs, NEW hi \in Nat,
         NEW p, p = PathFrom(from, to, hi), NEW m, m = trace[from][hi].m, p.up # 0
  PROVE  /\ p.hi = hi
         /\ p.mi \in Records(from, hi, "out", m)
         /\ p.arrived \in Records(to, 0, "arrived", m)
         /\ p.arrived \in Nat /\ p.up \in Records(to, p.arrived, "up", m)
<1> DEFINE S == {i \in Records(to, 0, "arrived", m) : trace[to][i].env = trace[from][p.mi].env}
<1>1. /\ p.hi = hi /\ p.mi = Least(Records(from, hi, "out", m))
      /\ p.arrived = IF p.mi = 0 THEN 0 ELSE Least(S)
      /\ p.up = IF p.arrived = 0 THEN 0 ELSE Least(Records(to, p.arrived, "up", m))
  BY DEF PathFrom
<1>2. p.mi # 0 /\ p.arrived # 0
  BY <1>1
<1>3. Records(from, hi, "out", m) # {} /\ p.mi \in Records(from, hi, "out", m)
  BY <1>1, <1>2, RecordsArePlaces, LeastOfPlaces, SMTT(30)
<1>4. S \in SUBSET (Nat \ {0}) /\ S \subseteq Records(to, 0, "arrived", m)
  <2>1. S \subseteq Records(to, 0, "arrived", m)
    OBVIOUS
  <2>2. Records(to, 0, "arrived", m) \in SUBSET (Nat \ {0})
    BY RecordsArePlaces
  <2> HIDE DEF S
  <2> QED BY <2>1, <2>2
<1>5. p.arrived \in S /\ p.arrived \in Nat
  <2>1. p.arrived = Least(S)
    BY <1>1, <1>2
  <2> HIDE DEF S
  <2>2. S # {}
    BY <1>2, <1>4, <2>1, LeastOfPlaces
  <2>3. Least(S) \in S
    BY <1>4, <2>2, LeastOfPlaces
  <2> QED BY <1>4, <2>1, <2>3
<1>6. p.up \in Records(to, p.arrived, "up", m)
  <2> DEFINE U == Records(to, p.arrived, "up", m)
  <2>1. U \in SUBSET (Nat \ {0})
    BY <1>5, RecordsArePlaces
  <2>2. p.up = Least(U)
    BY <1>1, <1>2
  <2> HIDE DEF U
  <2>3. p.up \in U
    BY <2>1, <2>2, LeastOfPlaces
  <2> QED BY <2>3 DEF U
<1> QED BY <1>1, <1>3, <1>4, <1>5, <1>6

LEMMA WholeRequest ==
  ASSUME TraceInv, RequestPath.up # 0
  PROVE  /\ RequestPath = PathFrom("imp62", "imp6", RequestPath.hi)
         /\ RequestPath.hi \in Records("imp62", 0, "in", "open") /\ RequestPath.hi \in Nat
<1> DEFINE hi == Least(Records("imp62", 0, "in", "open"))
<1>1. RequestPath = IF hi = 0 THEN NoPath ELSE PathFrom("imp62", "imp6", hi)
  BY DEF RequestPath
<1>2. NoPath.up = 0
  BY DEF NoPath
<1>3. hi # 0 /\ RequestPath = PathFrom("imp62", "imp6", hi)
  BY <1>1, <1>2
<1>4. Records("imp62", 0, "in", "open") \in SUBSET (Nat \ {0})
  BY RecordsArePlaces DEF Logs, TracedImps
<1>5. hi \in Records("imp62", 0, "in", "open") /\ hi \in Nat
  BY <1>3, <1>4, LeastOfPlaces
<1>6. PathFrom("imp62", "imp6", hi).hi = hi
  BY DEF PathFrom
<1> QED BY <1>3, <1>5, <1>6

(* The places from which a path of an answer is whole.                       *)
WholeAnswers(request) ==
  {i \in DOMAIN trace["imp6"] :
     /\ i > request.up /\ trace["imp6"][i].is = "in"
     /\ PathFrom("imp6", "imp62", i).up # 0}

LEMMA WholeReply ==
  ASSUME TraceInv, NEW request, ReplyPath(request).up # 0
  PROVE  /\ ReplyPath(request) = PathFrom("imp6", "imp62", ReplyPath(request).hi)
         /\ ReplyPath(request).hi \in WholeAnswers(request)
         /\ ReplyPath(request).hi \in Nat
<1> DEFINE S == WholeAnswers(request)
<1>1. ReplyPath(request) = IF S = {} THEN NoPath ELSE PathFrom("imp6", "imp62", Least(S))
  BY DEF ReplyPath, WholeAnswers
<1>2. NoPath.up = 0
  BY DEF NoPath
<1>3. S # {} /\ ReplyPath(request) = PathFrom("imp6", "imp62", Least(S))
  BY <1>1, <1>2
<1>4. S \in SUBSET (Nat \ {0})
  <2>1. trace["imp6"] \in Seq(TraceRecords)
    BY TracesAreSequences DEF TraceInv, Logs, TracedImps
  <2>2. DOMAIN trace["imp6"] = 1..Len(trace["imp6"]) /\ Len(trace["imp6"]) \in Nat
    BY <2>1, LenProperties
  <2> QED BY <2>2 DEF WholeAnswers
<1> HIDE DEF S
<1>5. Least(S) \in S /\ Least(S) \in Nat
  BY <1>3, <1>4, LeastOfPlaces
<1>6. PathFrom("imp6", "imp62", Least(S)).hi = Least(S)
  BY DEF PathFrom
<1> QED BY <1>3, <1>5, <1>6 DEF S

LEMMA ExtractionParts ==
  /\ Extraction.request = RequestPath /\ Extraction.reply = ReplyPath(RequestPath)
  /\ Extraction.complete <=>
       /\ RequestPath.up # 0 /\ ReplyPath(RequestPath).up # 0
       /\ \A h \in Guests : Whole(h)
       /\ ReadOnce("host106", trace["imp6"][RequestPath.up].m)
       /\ ReadOnce("host176", trace["imp62"][ReplyPath(RequestPath).up].m)
BY DEF Extraction

LEMMA JourneyLogs ==
  "imp6" \in Logs /\ "imp62" \in Logs /\ "host106" \in Logs /\ "host176" \in Logs
BY DEF Logs, TracedImps, Guests

(* What a host has read once it has read.                                    *)
LEMMA ReadOnceIsRead ==
  ASSUME TraceInv, ~equal, NEW h \in Logs, NEW m, ReadOnce(h, m)
  PROVE  place[m] = "read"
<1>1. Records(h, 0, "end", m) # {}
  BY FS_EmptySet DEF ReadOnce
<1>2. PICK i \in Records(h, 0, "end", m) : TRUE
  BY <1>1
<1>3. i \in 1..Len(trace[h]) /\ trace[h][i].is = "end" /\ Alike(trace[h][i].m, m)
  BY RecordsArePlaces
<1>5. trace[h][i].m = m
  BY <1>3 DEF Alike
<1>4. place[m] \in Past("end")
  BY <1>3, <1>5 DEF TraceInv, TraceIsTrue
<1> QED BY <1>4, PastKinds

LEMMA CompleteJourneys ==
  ASSUME TraceInv
  PROVE  CompleteIsOneJourney
<1> SUFFICES ASSUME ~equal, Extraction.complete,
                    NEW q, q = RequestPath, NEW p, p = ReplyPath(RequestPath),
                    NEW reply, reply = trace["imp6"][p.hi].m
             PROVE  /\ {trace["imp62"][q.hi].m, trace["imp62"][q.mi].m,
                        trace["imp6"][q.arrived].m, trace["imp6"][q.up].m} = {"open"}
                    /\ {trace["imp6"][p.mi].m, trace["imp62"][p.arrived].m, trace["imp62"][p.up].m} = {reply}
                    /\ q.up < p.hi
                    /\ place[reply] = "read" /\ place["open"] = "read"
  BY ExtractionParts DEF CompleteIsOneJourney
<1>1. /\ q.up # 0 /\ p.up # 0
      /\ ReadOnce("host106", trace["imp6"][q.up].m)
      /\ ReadOnce("host176", trace["imp62"][p.up].m)
  BY ExtractionParts
<1>2. \A m, n : Alike(m, n) => m = n
  BY DEF Alike
<1>3. /\ q = PathFrom("imp62", "imp6", q.hi) /\ q.hi \in Nat
      /\ trace["imp62"][q.hi].m = "open"
  BY <1>1, <1>2, WholeRequest, RecordsArePlaces, JourneyLogs
<1>4. /\ trace["imp62"][q.mi].m = "open"
      /\ trace["imp6"][q.arrived].m = "open" /\ trace["imp6"][q.up].m = "open"
      /\ q.up \in Nat
  <2>1. /\ q.mi \in Records("imp62", q.hi, "out", "open")
        /\ q.arrived \in Records("imp6", 0, "arrived", "open")
        /\ q.arrived \in Nat /\ q.up \in Records("imp6", q.arrived, "up", "open")
    BY <1>1, <1>3, WholePath, JourneyLogs
  <2> QED BY <1>2, <1>3, <2>1, RecordsArePlaces, JourneyLogs, SMTT(30)
<1>5. /\ p = PathFrom("imp6", "imp62", p.hi) /\ p.hi \in Nat
      /\ p.hi \in WholeAnswers(q) /\ p.hi > q.up
  BY <1>1, WholeReply DEF WholeAnswers
<1>6. /\ trace["imp6"][p.mi].m = reply
      /\ trace["imp62"][p.arrived].m = reply /\ trace["imp62"][p.up].m = reply
  <2>1. /\ p.mi \in Records("imp6", p.hi, "out", reply)
        /\ p.arrived \in Records("imp62", 0, "arrived", reply)
        /\ p.arrived \in Nat /\ p.up \in Records("imp62", p.arrived, "up", reply)
    BY <1>1, <1>5, WholePath, JourneyLogs
  <2> QED BY <1>2, <1>5, <2>1, RecordsArePlaces, JourneyLogs
<1>7. place["open"] = "read" /\ place[reply] = "read"
  BY <1>1, <1>4, <1>6, ReadOnceIsRead, JourneyLogs
<1> QED BY <1>3, <1>4, <1>5, <1>6, <1>7

LEMMA DoubtfulJourneys ==
  ASSUME TraceInv
  PROVE  DoubtIsRefused
<1> SUFFICES ASSUME equal, Extraction.complete,
                    \A m \in {"other", "ack"} :
                      \E r \in ToSet(trace["host176"]) : r.is = "end" /\ r.m = m
             PROVE  FALSE
  BY DEF DoubtIsRefused
<1> DEFINE p == ReplyPath(RequestPath)
           m == trace["imp62"][p.up].m
           S == Records("host176", 0, "end", m)
<1>1. p.up # 0 /\ Cardinality(S) = 1
  BY ExtractionParts DEF ReadOnce
<1>2. trace["imp62"][p.up].is = "up" /\ p.up \in 1..Len(trace["imp62"])
  <2>1. /\ p = PathFrom("imp6", "imp62", p.hi) /\ p.hi \in Nat
    BY <1>1, WholeReply
  <2>2. p.arrived \in Nat /\ p.up \in Records("imp62", p.arrived, "up", trace["imp6"][p.hi].m)
    BY <1>1, <2>1, WholePath, JourneyLogs
  <2> QED BY <2>2, RecordsArePlaces, JourneyLogs
<1>3. m \in {"other", "ack"}
  <2>1. "imp62" = LoggedAt("up", m)
    BY <1>2, JourneyLogs DEF TraceInv, TraceIsTrue
  <2>2. m \in Messages
    <3>1. trace["imp62"][p.up] \in TraceRecords
      BY <1>2, TracesAreSequences, JourneyLogs DEF TraceInv
    <3> QED BY <3>1 DEF TraceRecords
  <2>3. Destination(m) = "imp62"
    BY <2>1, <2>2, LogIsWhere
  <2> QED BY <2>2, <2>3 DEF Destination, Messages
<1> HIDE DEF p, m
<1>4. ASSUME NEW n \in {"other", "ack"}
      PROVE  \E i \in S : trace["host176"][i].m = n
  <2>1. trace["host176"] \in Seq(TraceRecords)
    BY TracesAreSequences, JourneyLogs DEF TraceInv
  <2>2. PICK i \in 1..Len(trace["host176"]) : trace["host176"][i].is = "end" /\ trace["host176"][i].m = n
    BY <2>1, LenProperties DEF ToSet
  <2>3. Alike(trace["host176"][i].m, m)
    BY <1>3, <2>2 DEF Alike
  <2>4. i \in DOMAIN trace["host176"] /\ i > 0
    BY <2>1, LenProperties
  <2> QED BY <2>2, <2>3, <2>4 DEF Records
<1>5. IsFiniteSet(S)
  <2>1. trace["host176"] \in Seq(TraceRecords) /\ Len(trace["host176"]) \in Nat
    BY TracesAreSequences, JourneyLogs DEF TraceInv
  <2>2. IsFiniteSet(1..Len(trace["host176"]))
    BY <2>1, FS_Interval
  <2>3. S \in SUBSET (1..Len(trace["host176"]))
    BY RecordsArePlaces, JourneyLogs
  <2> QED BY <2>2, <2>3, FS_Subset
<1> HIDE DEF S
<1>6. PICK i : S = {i}
  BY <1>1, <1>5, FS_Singleton
<1> QED BY <1>4, <1>6

(* Over a line that repeated nothing every packet looks the same, so what    *)
(* was logged in its order makes a path.                                     *)
LEMMA LoggedPathIsWhole ==
  ASSUME TraceInv, again = 0, NEW from \in Logs, NEW to \in Logs, NEW hi \in Nat,
         NEW m, m = trace[from][hi].m,
         NEW j \in Nat, hi < j, IsRecord(from, j, "out", m),
         NEW k \in Nat, NEW l \in Nat, k < l, IsRecord(to, k, "arrived", m), IsRecord(to, l, "up", m)
  PROVE  PathFrom(from, to, hi).up # 0 /\ PathFrom(from, to, hi).up <= l
<1> DEFINE p == PathFrom(from, to, hi)
           O == Records(from, hi, "out", m)
           S == {i \in Records(to, 0, "arrived", m) : trace[to][i].env = trace[from][p.mi].env}
           U == Records(to, p.arrived, "up", m)
<1>1. /\ p.hi = hi /\ p.mi = Least(O)
      /\ p.arrived = IF p.mi = 0 THEN 0 ELSE Least(S)
      /\ p.up = IF p.arrived = 0 THEN 0 ELSE Least(U)
  BY DEF PathFrom
<1>2. O \in SUBSET (Nat \ {0}) /\ j \in O /\ O \subseteq 1..Len(trace[from])
  BY RecordsArePlaces
<1>3. p.mi \in O /\ p.mi # 0
  <2>1. p.mi = Least(O)
    BY <1>1
  <2>2. O \in SUBSET (Nat \ {0}) /\ O # {}
    BY <1>2
  <2> HIDE DEF O, p
  <2> QED BY <2>1, <2>2, LeastOfPlaces
<1>4. trace[from][p.mi].env = 0
  BY <1>2, <1>3 DEF TraceInv, TraceIsTrue
<1>5. k \in Records(to, 0, "arrived", m) /\ trace[to][k].env = 0
  <2>1. k \in 1..Len(trace[to])
    BY DEF IsRecord
  <2>2. k > 0
    BY <2>1
  <2>3. k \in Records(to, 0, "arrived", m)
    BY <2>2, RecordsArePlaces
  <2> QED BY <2>1, <2>3 DEF TraceInv, TraceIsTrue
<1>6. S \in SUBSET (Nat \ {0}) /\ k \in S
  BY <1>4, <1>5, RecordsArePlaces
<1>7. p.arrived # 0 /\ p.arrived \in Nat /\ p.arrived <= k
  <2>1. p.arrived = Least(S)
    BY <1>1, <1>3
  <2>2. S \in SUBSET (Nat \ {0}) /\ k \in S
    BY <1>6
  <2>3. PICK n, T : n = p.arrived /\ T = S
    OBVIOUS
  <2> HIDE DEF S, p
  <2>4. T \in SUBSET (Nat \ {0}) /\ k \in T /\ n = Least(T)
    BY <2>1, <2>2, <2>3
  <2>5. n # 0 /\ n \in Nat /\ n <= k
    BY <2>4, FirstPlace
  <2> QED BY <2>3, <2>5
<1>8. U \in SUBSET (Nat \ {0}) /\ l \in U
  <2>1. p.arrived \in Nat /\ l > p.arrived
    BY <1>7
  <2> HIDE DEF p
  <2> QED BY <2>1, RecordsArePlaces
<1>9. p.up = Least(U)
  BY <1>1, <1>7
<1>10. p.up # 0 /\ p.up <= l
  <2>1. U \in SUBSET (Nat \ {0}) /\ l \in U /\ p.up = Least(U)
    BY <1>8, <1>9
  <2>2. PICK n, T : n = p.up /\ T = U
    OBVIOUS
  <2> HIDE DEF U, p
  <2>3. T \in SUBSET (Nat \ {0}) /\ l \in T /\ n = Least(T)
    BY <2>1, <2>2
  <2>4. n # 0 /\ n <= l
    BY <2>3, FirstPlace
  <2> QED BY <2>2, <2>4
<1> QED BY <1>10

LEMMA ReadIsReadOnce ==
  ASSUME TraceInv, ~equal, NEW h \in Logs, NEW m, NEW i \in Nat, IsRecord(h, i, "end", m)
  PROVE  ReadOnce(h, m)
<1> DEFINE S == Records(h, 0, "end", m)
<1>1. i \in S
  <2>1. i > 0
    BY DEF IsRecord
  <2> QED BY <2>1, RecordsArePlaces
<1>2. ASSUME NEW j \in S PROVE j = i
  <2>1. j \in 1..Len(trace[h]) /\ trace[h][j].is = "end" /\ trace[h][j].m = m
    BY RecordsArePlaces DEF Alike
  <2> QED BY <2>1 DEF TraceInv, ReadIsLoggedOnce, IsRecord
<1>3. S = {i}
  BY <1>1, <1>2
<1>4. Cardinality({i}) = 1
  BY FS_Singleton
<1> QED BY <1>3, <1>4 DEF ReadOnce

LEMMA GoodLines ==
  ASSUME TraceInv
  PROVE  GoodLineExtracts
<1> SUFFICES ASSUME Done, again = 0, ~equal, \A h \in Guests : Whole(h),
                    \A r \in ToSet(trace["imp62"]) : r.is = "up" =>
                      \E e \in ToSet(trace["host176"]) : e.is = "end" /\ e.m = r.m
             PROVE  Extraction.complete
  BY DEF GoodLineExtracts
<1> DEFINE q == RequestPath
           p == ReplyPath(q)
           S == WholeAnswers(q)
<1>1. \A m, n : Alike(m, n) => m = n
  BY DEF Alike
<1>2. place["ack"] = "read" /\ place["open"] = "read"
  BY DEF TraceInv, WindowsEnclose, Done
<1>3. PICK i1, j1 \in Nat : i1 < j1 /\ IsRecord("imp62", i1, "in", "open") /\ IsRecord("imp62", j1, "out", "open")
  BY <1>2, PastKinds DEF TraceInv, RequestIsLogged
<1>4. PICK h2, i2, j2, k2 \in Nat :
             /\ h2 < i2 /\ IsRecord("imp6", h2, "arrived", "open") /\ IsRecord("imp6", i2, "up", "open")
             /\ i2 < j2 /\ IsRecord("imp6", j2, "in", "ack")
             /\ j2 < k2 /\ IsRecord("imp6", k2, "out", "ack")
  BY <1>2, PastKinds DEF TraceInv, AnswerIsLogged
<1>5. PICK i3, j3 \in Nat : i3 < j3 /\ IsRecord("imp62", i3, "arrived", "ack") /\ IsRecord("imp62", j3, "up", "ack")
  BY <1>2, PastKinds DEF TraceInv, AnswerIsLogged
<1>6. q.up # 0 /\ q.up <= i2
  <2> DEFINE O == Records("imp62", 0, "in", "open")
             hi == Least(O)
  <2>1. i1 \in O /\ O \in SUBSET (Nat \ {0})
    <3>1. i1 > 0
      BY <1>3 DEF IsRecord
    <3>2. "imp62" \in Logs /\ 0 \in Nat
      BY JourneyLogs
    <3> QED BY <1>3, <3>1, <3>2, RecordsArePlaces
  <2>2. hi \in O /\ hi # 0 /\ hi <= i1 /\ hi \in Nat
    <3> HIDE DEF O
    <3> QED BY <2>1, LeastOfPlaces
  <2>3. trace["imp62"][hi].m = "open"
    BY <1>1, <2>2, RecordsArePlaces, JourneyLogs
  <2>4. q = PathFrom("imp62", "imp6", hi)
    BY <2>2 DEF RequestPath
  <2> HIDE DEF hi
  <2>5. hi < j1
    BY <1>3, <2>2
  <2> QED BY <1>3, <1>4, <2>2, <2>3, <2>4, <2>5, LoggedPathIsWhole, JourneyLogs
<1>7. trace["imp6"][q.up].m = "open"
  <2>1. /\ q = PathFrom("imp62", "imp6", q.hi) /\ q.hi \in Nat
        /\ trace["imp62"][q.hi].m = "open"
    BY <1>1, <1>6, WholeRequest, RecordsArePlaces, JourneyLogs
  <2>2. q.arrived \in Nat /\ q.up \in Records("imp6", q.arrived, "up", "open")
    BY <1>6, <2>1, WholePath, JourneyLogs
  <2> QED BY <1>1, <2>2, RecordsArePlaces, JourneyLogs
<1>8. q.up \in Nat
  <2>1. q.up \in Records("imp6", q.arrived, "up", trace["imp62"][q.hi].m) /\ q.arrived \in Nat
    BY <1>6, WholeRequest, WholePath, JourneyLogs
  <2> QED BY <2>1, RecordsArePlaces, JourneyLogs
<1>9. j2 \in S
  <2>1. /\ j2 \in 1..Len(trace["imp6"]) /\ trace["imp6"][j2].is = "in" /\ trace["imp6"][j2].m = "ack"
        /\ j2 > q.up
    BY <1>4, <1>6, <1>8 DEF IsRecord
  <2>2. PathFrom("imp6", "imp62", j2).up # 0
    BY <1>4, <1>5, <2>1, LoggedPathIsWhole, JourneyLogs
  <2>3. DOMAIN trace["imp6"] = 1..Len(trace["imp6"])
    <3>1. trace["imp6"] \in Seq(TraceRecords)
      BY TracesAreSequences, JourneyLogs DEF TraceInv
    <3> QED BY <3>1, LenProperties
  <2> QED BY <2>1, <2>2, <2>3 DEF WholeAnswers
<1>10. p.up # 0
  <2>1. S \in SUBSET (Nat \ {0})
    <3>1. trace["imp6"] \in Seq(TraceRecords)
      BY TracesAreSequences, JourneyLogs DEF TraceInv
    <3>2. DOMAIN trace["imp6"] = 1..Len(trace["imp6"]) /\ Len(trace["imp6"]) \in Nat
      BY <3>1, LenProperties
    <3> QED BY <3>2 DEF WholeAnswers
  <2>2. p = PathFrom("imp6", "imp62", Least(S))
    BY <1>9 DEF ReplyPath, WholeAnswers
  <2>3. Least(S) \in S
    <3> HIDE DEF S
    <3> QED BY <1>9, <2>1, LeastOfPlaces
  <2> QED BY <2>2, <2>3 DEF WholeAnswers
<1>11. ReadOnce("host106", trace["imp6"][q.up].m)
  <2>1. PICK i \in Nat : IsRecord("host106", i, "end", "open")
    BY <1>2 DEF TraceInv, RequestIsLogged
  <2> QED BY <1>7, <2>1, ReadIsReadOnce, JourneyLogs
<1>12. ReadOnce("host176", trace["imp62"][p.up].m)
  <2>1. p.arrived \in Nat /\ p.up \in Records("imp62", p.arrived, "up", trace["imp6"][p.hi].m)
    BY <1>10, WholeReply, WholePath, JourneyLogs
  <2>2. p.up \in 1..Len(trace["imp62"]) /\ trace["imp62"][p.up].is = "up"
    BY <2>1, RecordsArePlaces, JourneyLogs
  <2> HIDE DEF p
  <2>3. trace["imp62"] \in Seq(TraceRecords) /\ trace["host176"] \in Seq(TraceRecords)
    BY TracesAreSequences, JourneyLogs DEF TraceInv
  <2>4. trace["imp62"][p.up] \in ToSet(trace["imp62"])
    BY <2>2, <2>3, LenProperties DEF ToSet
  <2>5. PICK e \in ToSet(trace["host176"]) : e.is = "end" /\ e.m = trace["imp62"][p.up].m
    BY <2>2, <2>4
  <2>6. PICK i \in 1..Len(trace["host176"]) : e = trace["host176"][i]
    BY <2>3, LenProperties DEF ToSet
  <2>7. IsRecord("host176", i, "end", trace["imp62"][p.up].m) /\ i \in Nat
    BY <2>5, <2>6 DEF IsRecord
  <2> QED BY <2>7, ReadIsReadOnce, JourneyLogs
<1> QED BY <1>6, <1>10, <1>11, <1>12, ExtractionParts

(* What is extracted is always a journey that took place and the only        *)
(* candidate, and a line without retransmissions always yields one.          *)
THEOREM ExtractionIsAlwaysTrue == TraceSpec => []ExtractionIsTrue
<1>1. TraceInv => ExtractionIsTrue
  BY CompleteJourneys, DoubtfulJourneys, GoodLines DEF ExtractionIsTrue
<1> QED BY TracesAreOfTheJourney, <1>1, PTL

(* JourneyStream. *)

ObservationLine(o) == [type |-> "observation", is |-> o]
DiagnosisLine(d) == [type |-> "diagnosis", is |-> d]

StreamLines ==
  {ObservationLine(o) : o \in Observations} \cup
  {DiagnosisLine(Diagnose(os)) : os \in Seq(Observations)}

StreamTables ==
  /\ accepted \in Seq(Observations) /\ batch \in Seq(Observations)
  /\ Len(accepted) <= MaxLines
  /\ stream \in Seq(StreamLines)
  /\ recorder \in {"open", "terminal", "closed", "failed"}

(* The lines before a diagnosis are those of the first observations.         *)
Written(n) ==
  /\ n <= Len(accepted)
  /\ \A i \in 1..n : stream[i] = ObservationLine(accepted[i])

(* While the recorder is open, the rest of them is in the batch.             *)
Pending(n) ==
  recorder = "open" =>
    /\ Len(batch) = Len(accepted) - n
    /\ \A i \in 1..Len(batch) : batch[i] = accepted[n + i]

LinesAreAccepted ==
  \/ Written(Len(stream)) /\ Pending(Len(stream)) /\ recorder # "terminal"
  \/ /\ Len(stream) = Len(accepted) + 1 /\ Written(Len(accepted))
     /\ stream[Len(stream)] = DiagnosisLine(Diagnose(accepted))
     /\ recorder \in {"terminal", "closed"}

StreamInv == StreamTables /\ Valid(accepted) /\ LinesAreAccepted

------------------------------------------------------------------------------
(* The lists the stream is made of.                                          *)

LEMMA ValidPrefix ==
  ASSUME NEW os \in Seq(Observations), Valid(os), NEW n \in 0..Len(os)
  PROVE  Valid(SubSeq(os, 1, n))
<1>1. Len(os) \in Nat
  OBVIOUS
<1>2. \A i \in 1..n : os[i] \in Observations
  BY <1>1
<1>3. /\ Len(SubSeq(os, 1, n)) = n
      /\ \A i \in 1..n : SubSeq(os, 1, n)[i] = os[i]
      /\ SubSeq(os, 1, n) \in Seq(Observations)
  BY <1>1, <1>2, SubSeqProperties
<1>4. DOMAIN SubSeq(os, 1, n) = 1..n /\ DOMAIN os = 1..Len(os)
  BY <1>3
<1> QED BY <1>1, <1>3, <1>4 DEF Valid

LEMMA WrittenLine ==
  ASSUME NEW o
  PROVE  ObservationLine(o).type = "observation" /\ ObservationLine(o).is = o
BY DEF ObservationLine

(* How many observations a reader finds in the stream.                       *)
ReadLines == IF Terminal(stream) THEN Len(stream) - 1 ELSE Len(stream)

LEMMA TerminalStream ==
  ASSUME StreamInv
  PROVE  /\ Terminal(stream) <=> Len(stream) = Len(accepted) + 1
         /\ Terminal(stream) => stream[Len(stream)] = DiagnosisLine(Diagnose(accepted))
         /\ ReadLines \in 0..Len(accepted) /\ Written(ReadLines)
<1>0. /\ Len(accepted) \in Nat /\ Len(stream) \in Nat
      /\ stream = <<>> <=> Len(stream) = 0
  BY EmptySeq DEF StreamInv, StreamTables
<1>1. CASE Written(Len(stream))
  <2>1. Len(stream) <= Len(accepted)
    BY <1>1 DEF Written
  <2>2. ~Terminal(stream)
    <3>1. ASSUME stream # <<>>
          PROVE  stream[Len(stream)].type = "observation"
      <4>1. Len(stream) \in 1..Len(stream)
        BY <1>0, <3>1
      <4> QED BY <1>1, <4>1, WrittenLine DEF Written
    <3> QED BY <3>1 DEF Terminal, Last
  <2> QED BY <1>0, <1>1, <2>1, <2>2 DEF ReadLines
<1>2. CASE /\ Len(stream) = Len(accepted) + 1 /\ Written(Len(accepted))
           /\ stream[Len(stream)] = DiagnosisLine(Diagnose(accepted))
  <2>1. Terminal(stream)
    BY <1>0, <1>2 DEF Terminal, Last, DiagnosisLine
  <2> QED BY <1>0, <1>2, <2>1 DEF ReadLines
<1> QED BY <1>1, <1>2 DEF StreamInv, LinesAreAccepted

LEMMA ReadBack ==
  ASSUME StreamInv
  PROVE  /\ ObservationsOf(stream) = SubSeq(accepted, 1, ReadLines)
         /\ Len(ObservationsOf(stream)) = ReadLines
         /\ ObservationsOf(stream) \in Seq(Observations)
<1>0. /\ accepted \in Seq(Observations) /\ Len(accepted) \in Nat
      /\ ReadLines \in 0..Len(accepted)
  BY TerminalStream DEF StreamInv, StreamTables
<1>1. ObservationsOf(stream) = [i \in 1..ReadLines |-> stream[i].is]
  BY DEF ObservationsOf, ReadLines
<1>2. \A i \in 1..ReadLines : stream[i].is = accepted[i] /\ accepted[i] \in Observations
  BY <1>0, TerminalStream, WrittenLine DEF Written
<1>3. /\ ObservationsOf(stream) \in Seq(Observations)
      /\ Len(ObservationsOf(stream)) = ReadLines
      /\ \A i \in 1..ReadLines : ObservationsOf(stream)[i] = accepted[i]
  BY <1>0, <1>1, <1>2
<1>4. /\ SubSeq(accepted, 1, ReadLines) \in Seq(Observations)
      /\ Len(SubSeq(accepted, 1, ReadLines)) = ReadLines
      /\ \A i \in 1..ReadLines : SubSeq(accepted, 1, ReadLines)[i] = accepted[i]
  BY <1>0, <1>2, SubSeqProperties
<1> QED BY <1>3, <1>4, SeqEqual

------------------------------------------------------------------------------
(* The steps of the recorder.                                                *)

LEMMA StreamTablesKept ==
  ASSUME StreamTables, Next
  PROVE  StreamTables'
<1>1. CASE Produce
  <2>0. PICK n \in 1..2 : \E os \in [1..n -> Observations] :
          Len(accepted) + n <= MaxLines /\ Publish(os)
    BY <1>1 DEF Produce
  <2>1. PICK os \in [1..n -> Observations] : Len(accepted) + n <= MaxLines /\ Publish(os)
    BY <2>0
  <2>2. os \in Seq(Observations) /\ Len(os) = n
    OBVIOUS
  <2>3. accepted \o os \in Seq(Observations) /\ Len(accepted \o os) <= MaxLines
    BY <2>1, <2>2, ConcatProperties DEF StreamTables
  <2> QED BY <1>1, <2>1, <2>2, <2>3 DEF Produce, Publish, StreamTables
<1>2. CASE WriteObservation
  <2>1. Head(batch) \in Observations /\ Tail(batch) \in Seq(Observations)
    BY <1>2, HeadTailProperties DEF WriteObservation, StreamTables
  <2>2. Append(stream, ObservationLine(Head(batch))) \in Seq(StreamLines)
    BY <2>1 DEF StreamTables, StreamLines
  <2> QED BY <1>2, <2>1, <2>2 DEF WriteObservation, StreamTables, ObservationLine
<1>3. CASE Complete
  <2>1. Append(stream, DiagnosisLine(Diagnose(accepted))) \in Seq(StreamLines)
    BY DEF StreamTables, StreamLines
  <2> QED BY <1>3, <2>1 DEF Complete, StreamTables, DiagnosisLine
<1>4. CASE Close
  BY <1>4 DEF Close, StreamTables
<1> QED BY <1>1, <1>2, <1>3, <1>4 DEF Next

(* What is in the file does not depend on what is accepted later.            *)
LEMMA WrittenStays ==
  ASSUME StreamTables, NEW os \in Seq(Observations), NEW n \in Nat, Written(n),
         accepted' = accepted \o os, UNCHANGED stream
  PROVE  Written(n)'
<1>1. /\ Len(accepted \o os) = Len(accepted) + Len(os) /\ Len(accepted) \in Nat /\ Len(os) \in Nat
      /\ \A i \in 1..Len(accepted) : (accepted \o os)[i] = accepted[i]
  BY ConcatProperties DEF StreamTables
<1> QED BY <1>1 DEF Written

LEMMA LinesAreAcceptedKept ==
  ASSUME StreamInv, Next
  PROVE  LinesAreAccepted' /\ Valid(accepted)'
<1>0. /\ accepted \in Seq(Observations) /\ batch \in Seq(Observations) /\ stream \in Seq(StreamLines)
      /\ Len(accepted) \in Nat /\ Len(batch) \in Nat /\ Len(stream) \in Nat
  BY DEF StreamInv, StreamTables
<1>1. ASSUME recorder = "open"
      PROVE  /\ Written(Len(stream)) /\ Pending(Len(stream))
             /\ Len(stream) <= Len(accepted)
  BY <1>1 DEF StreamInv, LinesAreAccepted, Written
<1>2. CASE Produce
  <2>0. PICK n \in 1..2 : \E os \in [1..n -> Observations] : Publish(os)
    BY <1>2 DEF Produce
  <2>1. PICK os \in [1..n -> Observations] : Publish(os)
    BY <2>0
  <2>2. os \in Seq(Observations) /\ UNCHANGED stream /\ recorder = "open" /\ batch = <<>>
    BY <1>2 DEF Produce
  <2>3. CASE Valid(accepted \o os)
    <3>1. accepted' = accepted \o os /\ batch' = os /\ UNCHANGED recorder
      BY <2>1, <2>3 DEF Publish
    <3>2. /\ Len(accepted') = Len(accepted) + Len(os) /\ Len(os) \in Nat
          /\ \A i \in 1..Len(os) : accepted'[Len(accepted) + i] = os[i]
      BY <1>0, <2>2, <3>1, ConcatProperties
    <3>3. Len(stream) = Len(accepted)
      BY <1>0, <1>1, <2>2 DEF Pending
    <3>4. Written(Len(stream))'
      BY <1>0, <1>1, <2>2, <3>1, WrittenStays DEF StreamInv
    <3>5. Pending(Len(stream))'
      BY <1>0, <2>2, <3>1, <3>2, <3>3 DEF Pending
    <3> QED BY <2>2, <2>3, <3>1, <3>4, <3>5 DEF LinesAreAccepted
  <2>4. CASE ~Valid(accepted \o os)
    BY <1>1, <2>1, <2>2, <2>4 DEF Publish, LinesAreAccepted, Written, Pending, StreamInv
  <2> QED BY <2>3, <2>4
<1>3. CASE WriteObservation
  <2>0. recorder = "open" /\ batch # <<>> /\ UNCHANGED accepted
    BY <1>3 DEF WriteObservation
  <2>1. CASE recorder' = "failed" /\ UNCHANGED <<stream, batch>>
    BY <1>1, <2>0, <2>1 DEF LinesAreAccepted, Written, Pending, StreamInv
  <2>2. CASE stream' = Append(stream, ObservationLine(Head(batch))) /\ batch' = Tail(batch) /\ UNCHANGED recorder
    <3>1. /\ Head(batch) = batch[1] /\ Head(batch) \in Observations /\ Len(batch) >= 1
          /\ Len(batch') = Len(batch) - 1
          /\ \A i \in 1..Len(batch') : batch'[i] = batch[i + 1]
      BY <1>0, <2>0, <2>2, HeadTailProperties, EmptySeq
    <3>2. /\ Len(stream') = Len(stream) + 1
          /\ \A i \in 1..Len(stream) : stream'[i] = stream[i]
          /\ stream'[Len(stream) + 1] = ObservationLine(Head(batch))
      <4>1. ObservationLine(Head(batch)) \in StreamLines
        BY <3>1 DEF StreamLines
      <4> QED BY <1>0, <2>2, <4>1, AppendProperties
    <3>3. /\ Len(batch) = Len(accepted) - Len(stream)
          /\ \A i \in 1..Len(batch) : batch[i] = accepted[Len(stream) + i]
      BY <1>1, <2>0 DEF Pending
    <3>4. Written(Len(stream))'
      BY <1>0, <1>1, <2>0, <3>1, <3>2, <3>3 DEF Written
    <3>5. Pending(Len(stream))'
      BY <1>0, <2>0, <3>1, <3>2, <3>3 DEF Pending
    <3> QED BY <2>0, <2>2, <3>4, <3>5 DEF LinesAreAccepted, StreamInv
  <2> QED BY <1>3, <2>1, <2>2 DEF WriteObservation, ObservationLine
<1>4. CASE Complete
  <2>0. recorder = "open" /\ batch = <<>> /\ UNCHANGED accepted
    BY <1>4 DEF Complete
  <2>1. CASE recorder' = "failed" /\ UNCHANGED stream
    BY <1>1, <1>4, <2>0, <2>1 DEF Complete, LinesAreAccepted, Written, Pending, StreamInv
  <2>2. CASE stream' = Append(stream, DiagnosisLine(Diagnose(accepted))) /\ recorder' = "terminal"
    <3>1. Len(stream) = Len(accepted)
      BY <1>0, <1>1, <2>0 DEF Pending
    <3>2. /\ Len(stream') = Len(stream) + 1
          /\ \A i \in 1..Len(stream) : stream'[i] = stream[i]
          /\ stream'[Len(stream) + 1] = DiagnosisLine(Diagnose(accepted))
      <4>1. DiagnosisLine(Diagnose(accepted)) \in StreamLines
        BY <1>0 DEF StreamLines
      <4> QED BY <1>0, <2>2, <4>1, AppendProperties
    <3>3. Written(Len(accepted))'
      BY <1>0, <1>1, <2>0, <3>1, <3>2 DEF Written
    <3> QED BY <2>0, <2>2, <3>1, <3>2, <3>3 DEF LinesAreAccepted, StreamInv
  <2> QED BY <1>4, <2>1, <2>2 DEF Complete, DiagnosisLine
<1>5. CASE Close
  BY <1>5 DEF Close, LinesAreAccepted, Written, Pending, StreamInv
<1> QED BY <1>2, <1>3, <1>4, <1>5 DEF Next

LEMMA StreamStarts == Init => StreamInv
<1> SUFFICES ASSUME Init PROVE StreamInv
  OBVIOUS
<1>1. Len(accepted) = 0 /\ Len(stream) = 0 /\ Len(batch) = 0
  BY DEF Init
<1>2. DOMAIN accepted = {}
  BY <1>1 DEF Init
<1> QED
  BY <1>1, <1>2, MaxLinesAssumption DEF Init, StreamInv, StreamTables, Valid, LinesAreAccepted, Written, Pending

LEMMA StreamKept == StreamInv /\ [Next]_streamVars => StreamInv'
<1> SUFFICES ASSUME StreamInv, [Next]_streamVars PROVE StreamInv'
  OBVIOUS
<1>1. CASE Next
  BY <1>1, StreamTablesKept, LinesAreAcceptedKept DEF StreamInv
<1>2. CASE UNCHANGED streamVars
  BY <1>2 DEF streamVars, StreamInv, StreamTables, Valid, LinesAreAccepted, Written, Pending
<1> QED BY <1>1, <1>2

(* In every reachable state, for any bound on the observations: the lines    *)
(* are a beginning of what was accepted, followed by its diagnosis or not.   *)
THEOREM StreamIsABeginning == Spec => []StreamInv
BY StreamStarts, StreamKept, PTL DEF Spec

LEMMA StreamIsTyped ==
  ASSUME StreamInv
  PROVE  TypeOK
<1> DEFINE os == ObservationsOf(stream)
<1>1. /\ accepted \in Seq(Observations) /\ Len(accepted) <= MaxLines
      /\ recorder \in {"open", "terminal", "closed", "failed"}
  BY DEF StreamInv, StreamTables
<1>2. ASSUME recorder = "open"
      PROVE  os \o batch = accepted
  <2>1. /\ Written(Len(stream)) /\ Pending(Len(stream)) /\ Len(stream) <= Len(accepted)
        /\ Len(accepted) \in Nat /\ Len(stream) \in Nat /\ batch \in Seq(Observations)
    BY <1>2 DEF StreamInv, StreamTables, LinesAreAccepted, Written
  <2>2. ReadLines = Len(stream)
    BY <2>1, TerminalStream DEF ReadLines
  <2>3. /\ os \in Seq(Observations) /\ Len(os) = Len(stream)
        /\ \A i \in 1..Len(stream) : os[i] = accepted[i]
    <3>1. \A i \in 1..Len(stream) : accepted[i] \in Observations
      BY <1>1, <2>1
    <3> QED BY <1>1, <2>1, <2>2, <3>1, ReadBack, SubSeqProperties
  <2> HIDE DEF os
  <2>4. /\ os \o batch \in Seq(Observations) /\ Len(os \o batch) = Len(accepted)
        /\ \A i \in 1..Len(accepted) :
             (os \o batch)[i] = IF i <= Len(os) THEN os[i] ELSE batch[i - Len(os)]
    <3>1. Len(batch) \in Nat /\ Len(os) \in Nat /\ Len(os) + Len(batch) = Len(accepted)
      BY <1>2, <2>1, <2>3 DEF Pending
    <3>2. /\ os \o batch \in Seq(Observations) /\ Len(os \o batch) = Len(os) + Len(batch)
          /\ \A i \in 1..Len(os) + Len(batch) :
               (os \o batch)[i] = IF i <= Len(os) THEN os[i] ELSE batch[i - Len(os)]
      BY <2>1, <2>3, ConcatProperties
    <3> QED BY <3>1, <3>2
  <2>5. \A i \in 1..Len(accepted) : (os \o batch)[i] = accepted[i]
    <3>1. ASSUME NEW i \in 1..Len(accepted)
          PROVE  (os \o batch)[i] = accepted[i]
      <4>1. CASE i <= Len(os)
        BY <2>1, <2>3, <2>4, <4>1
      <4>2. CASE ~(i <= Len(os))
        <5>1. i - Len(os) \in 1..Len(batch) /\ Len(stream) + (i - Len(os)) = i
          BY <1>2, <2>1, <2>3, <4>2 DEF Pending
        <5>2. batch[i - Len(os)] = accepted[i]
          BY <1>2, <2>1, <5>1 DEF Pending
        <5> QED BY <2>4, <4>2, <5>2
      <4> QED BY <4>1, <4>2
    <3> QED BY <3>1
  <2> QED BY <1>1, <2>4, <2>5, SeqEqual
<1> QED BY <1>1, <1>2 DEF TypeOK

(* The recorder holds observations, no more than it may, and as long as it   *)
(* is open each of them is in the file or waits to be written, in order.     *)
THEOREM StreamTypesHold == Spec => []TypeOK
<1>1. StreamInv => TypeOK
  BY StreamIsTyped
<1> QED BY StreamIsABeginning, <1>1, PTL

------------------------------------------------------------------------------
(* The reader. *)

LEMMA OnlyTheLastIsADiagnosis ==
  ASSUME StreamInv, NEW i \in DOMAIN stream, stream[i].type = "diagnosis"
  PROVE  i = Len(stream)
<1>0. /\ Len(accepted) \in Nat /\ Len(stream) \in Nat /\ i \in 1..Len(stream)
  BY DEF StreamInv, StreamTables
<1>1. CASE i \in 1..ReadLines
  BY <1>1, TerminalStream, WrittenLine DEF Written
<1>2. CASE i \notin 1..ReadLines
  BY <1>0, <1>2 DEF ReadLines
<1> QED BY <1>1, <1>2

LEMMA StreamIsReadable ==
  ASSUME StreamInv
  PROVE  ReadableAtAnyTime
<1> DEFINE os == ObservationsOf(stream)
<1>0. /\ accepted \in Seq(Observations) /\ Len(accepted) \in Nat
      /\ stream \in Seq(StreamLines) /\ Len(stream) \in Nat /\ Valid(accepted)
  BY DEF StreamInv, StreamTables
<1>1. /\ os = SubSeq(accepted, 1, ReadLines) /\ Len(os) = ReadLines
      /\ os \in Seq(Observations) /\ ReadLines \in 0..Len(accepted)
  BY ReadBack, TerminalStream
<1>2. Valid(os)
  BY <1>0, <1>1, ValidPrefix
<1>3. ASSUME NEW n \in DOMAIN os
      PROVE  Valid(SubSeq(os, 1, n))
  <2> HIDE DEF os
  <2>1. n \in 0..Len(os)
    BY <1>1
  <2> QED BY <1>1, <1>2, <2>1, ValidPrefix
<1>4. ASSUME Terminal(stream)
      PROVE  os = accepted /\ Last(stream).is = Diagnose(accepted)
  <2>1. ReadLines = Len(accepted)
    BY <1>0, <1>4, TerminalStream DEF ReadLines
  <2>2. os = accepted
    <3>1. \A i \in 1..Len(accepted) : accepted[i] \in Observations
      BY <1>0
    <3>2. \A i \in 1..Len(accepted) : SubSeq(accepted, 1, Len(accepted))[i] = accepted[i]
      BY <1>0, <3>1, SubSeqProperties
    <3> QED BY <1>0, <1>1, <2>1, <3>2, SeqEqual
  <2>3. Last(stream).is = Diagnose(accepted)
    BY <1>4, TerminalStream DEF Last, DiagnosisLine
  <2> QED BY <2>2, <2>3
<1> QED BY <1>1, <1>3, <1>4, OnlyTheLastIsADiagnosis DEF ReadableAtAnyTime, Readable

(* Whenever the stream is read - while it is written, after a failed write   *)
(* or a kill - the reader accepts it, and finds a beginning of what the      *)
(* recorder accepted.                                                        *)
THEOREM StreamIsAlwaysReadable == Spec => []ReadableAtAnyTime
<1>1. StreamInv => ReadableAtAnyTime
  BY StreamIsReadable
<1> QED BY StreamIsABeginning, <1>1, PTL

------------------------------------------------------------------------------
(* The reducer. *)

LEMMA FourBoundaries == DOMAIN Boundaries = 1..4
<1>1. \A leg \in {"request", "reply"} : Len(Crossings(leg)) = 1
  BY DEF Crossings, Path, Reverse
<1>2. ASSUME NEW leg \in {"request", "reply"}
      PROVE  BoundariesOf(leg) \in Seq({BoundariesOf(leg)[k] : k \in 1..2}) /\ Len(BoundariesOf(leg)) = 2
  <2>1. DOMAIN BoundariesOf(leg) = 1..2 * Len(Crossings(leg))
    BY DEF BoundariesOf
  <2>2. DOMAIN BoundariesOf(leg) = 1..2
    <3>1. Len(Crossings(leg)) = 1
      BY <1>1
    <3>2. 2 * 1 = 2
      OBVIOUS
    <3> QED BY <2>1, <3>1, <3>2, Zenon
  <2>3. BoundariesOf(leg) = [k \in 1..2 |-> BoundariesOf(leg)[k]]
    BY <2>2 DEF BoundariesOf
  <2> QED BY <2>2, <2>3
<1>3. /\ DOMAIN Boundaries = 1..Len(Boundaries)
      /\ Len(Boundaries) = Len(BoundariesOf("request")) + Len(BoundariesOf("reply"))
  <2> DEFINE All == {BoundariesOf("request")[k] : k \in 1..2} \cup {BoundariesOf("reply")[k] : k \in 1..2}
  <2>1. BoundariesOf("request") \in Seq(All) /\ BoundariesOf("reply") \in Seq(All)
    BY <1>2
  <2> HIDE DEF All
  <2> QED BY <2>1, ConcatProperties DEF Boundaries
<1>4. Len(BoundariesOf("request")) = 2 /\ Len(BoundariesOf("reply")) = 2
  BY <1>2
<1>5. Len(Boundaries) = 2 + 2
  BY <1>3, <1>4, Zenon
<1>6. 2 + 2 = 4
  OBVIOUS
<1> QED BY <1>3, <1>5, <1>6, Zenon

LEMMA FirstPosition ==
  ASSUME NEW P \in SUBSET (1..4), P # {}
  PROVE  \E i \in P : \A j \in P : i <= j
<1>1. CASE 1 \in P
  BY <1>1
<1>2. CASE 1 \notin P /\ 2 \in P
  BY <1>2
<1>3. CASE 1 \notin P /\ 2 \notin P /\ 3 \in P
  BY <1>3
<1>4. CASE 1 \notin P /\ 2 \notin P /\ 3 \notin P
  <2>1. \A i \in P : i \in 1..4 /\ i # 1 /\ i # 2 /\ i # 3
    BY <1>4
  <2>2. \A i \in P : i = 4
    BY <2>1
  <2>3. PICK k \in P : k = 4
    BY <2>2
  <2> QED BY <2>2, <2>3
<1> QED BY <1>1, <1>2, <1>3, <1>4

LEMMA ObservationFields ==
  ASSUME NEW o \in Observations
  PROVE  o.compared \in {"observed", "contradictory", "ambiguous"}
BY DEF Observations, Compared

(* No two places of a valid list that name a boundary hold one observation.  *)
LEMMA PlacesDiffer ==
  ASSUME NEW os \in Seq(Observations), Valid(os), NEW b,
         NEW i \in Candidates(b, os), NEW j \in Candidates(b, os), i # j
  PROVE  os[i] # os[j]
<1>1. i \in 1..Len(os) /\ j \in 1..Len(os) /\ DOMAIN os = 1..Len(os) /\ Len(os) \in Nat
  BY DEF Candidates
<1>2. i < j \/ j < i
  BY <1>1
<1> QED BY <1>1, <1>2 DEF Valid

(* What a boundary is assessed as, said of the set of observations.          *)
LEMMA CandidatesTell ==
  ASSUME NEW os \in Seq(Observations), Valid(os), NEW b
  PROVE  /\ Assess(b, os) \in {"missing", "observed", "contradictory", "ambiguous"}
         /\ Assess(b, os) = "missing" => ~\E o \in ToSet(os) : Names(b, o)
         /\ \A c \in {"observed", "contradictory"} :
              Assess(b, os) = c <=> Exactly(b, ToSet(os), c)
<1> DEFINE places == Candidates(b, os)
<1>1. /\ ToSet(os) = {os[i] : i \in DOMAIN os}
      /\ \A i \in places : i \in DOMAIN os /\ Names(b, os[i]) /\ os[i] \in Observations
      /\ \A i \in DOMAIN os : Names(b, os[i]) => i \in places
  BY DEF ToSet, Candidates
<1>2. CASE places = {}
  <2>1. Assess(b, os) = "missing"
    BY <1>2 DEF Assess
  <2>2. ~\E o \in ToSet(os) : Names(b, o)
    BY <1>1, <1>2
  <2> QED BY <2>1, <2>2 DEF Exactly
<1>3. CASE \E i \in places : places = {i}
  <2>1. PICK i \in places : places = {i}
    BY <1>3
  <2>2. Assess(b, os) = os[i].compared
    <3>1. places # {} /\ (CHOOSE k \in places : TRUE) = i
      BY <2>1
    <3> QED BY <1>3, <3>1 DEF Assess
  <2>3. os[i].compared \in {"observed", "contradictory", "ambiguous"}
    BY <1>1, ObservationFields
  <2>4. os[i] \in ToSet(os) /\ Names(b, os[i]) /\ \A p \in ToSet(os) : Names(b, p) => p = os[i]
    BY <1>1, <2>1
  <2>5. \A c : Exactly(b, ToSet(os), c) <=> os[i].compared = c
    BY <2>4 DEF Exactly
  <2> QED BY <2>2, <2>3, <2>5
<1>4. CASE places # {} /\ ~\E i \in places : places = {i}
  <2>1. Assess(b, os) = "ambiguous"
    BY <1>4 DEF Assess
  <2>2. PICK i \in places, j \in places : i # j
    BY <1>4
  <2>3. os[i] # os[j]
    BY <2>2, PlacesDiffer
  <2>4. \A c : ~Exactly(b, ToSet(os), c)
    BY <1>1, <2>3 DEF Exactly
  <2> QED BY <2>1, <2>4
<1> QED BY <1>2, <1>3, <1>4

LEMMA DiagnosisOfValid ==
  ASSUME NEW os \in Seq(Observations), Valid(os),
         NEW Assessed, Assessed = [i \in DOMAIN Boundaries |-> Assess(Boundaries[i], os)],
         NEW Open, Open = {i \in DOMAIN Boundaries : Assessed[i] # "observed"}
  PROVE  \/ Open = {} /\ Diagnose(os).state = "complete"
         \/ \E first \in Open :
              /\ Diagnose(os).first = first /\ \A j \in Open : first <= j
              /\ Diagnose(os).state = IF os = <<>> THEN "unknown" ELSE Assessed[first]
<1>1. CASE Open = {}
  BY <1>1 DEF Diagnose
<1>2. CASE Open # {}
  <2>1. Open \subseteq 1..4
    BY FourBoundaries
  <2>2. \E i \in Open : \A j \in Open : i <= j
    BY <1>2, <2>1, FirstPosition
  <2>3. PICK first : first = CHOOSE i \in Open : \A j \in Open : i <= j
    OBVIOUS
  <2>4. first \in Open /\ \A j \in Open : first <= j
    BY <2>2, <2>3
  <2>5. Diagnose(os) = [state |-> IF os = <<>> THEN "unknown" ELSE Assessed[first],
                        first |-> first, boundaries |-> Assessed]
    <3>1. Diagnose(os) =
            CASE Open = {} -> [state |-> "complete", first |-> 0, boundaries |-> Assessed]
              [] Open # {} /\ os = <<>> -> [state |-> "unknown", first |-> first, boundaries |-> Assessed]
              [] OTHER -> [state |-> Assessed[first], first |-> first, boundaries |-> Assessed]
      BY <2>3, Zenon DEF Diagnose
    <3>2. CASE os = <<>>
      BY <1>2, <3>1, <3>2
    <3>3. CASE os # <<>>
      BY <1>2, <3>1, <3>3
    <3> QED BY <3>2, <3>3
  <2> QED BY <2>4, <2>5
<1> QED BY <1>1, <1>2

LEMMA DiagnosisIsOfTheSet ==
  ASSUME StreamInv
  PROVE  DiagnosisIgnoresOrder
<1> DEFINE d == Diagnose(accepted)
           S == ToSet(accepted)
           assessed == [i \in DOMAIN Boundaries |-> Assess(Boundaries[i], accepted)]
           open == {i \in DOMAIN Boundaries : assessed[i] # "observed"}
<1>0. accepted \in Seq(Observations) /\ Valid(accepted)
  BY DEF StreamInv, StreamTables
<1>1. \A i \in DOMAIN Boundaries :
        /\ assessed[i] \in {"missing", "observed", "contradictory", "ambiguous"}
        /\ assessed[i] = "missing" => ~\E o \in S : Names(Boundaries[i], o)
        /\ assessed[i] = "observed" <=> Exactly(Boundaries[i], S, "observed")
        /\ assessed[i] = "contradictory" <=> Exactly(Boundaries[i], S, "contradictory")
  BY <1>0, CandidatesTell
<1>2. \/ open = {} /\ d.state = "complete"
      \/ \E first \in open :
           /\ d.first = first /\ \A j \in open : first <= j
           /\ d.state = IF accepted = <<>> THEN "unknown" ELSE assessed[first]
  BY <1>0, DiagnosisOfValid
<1>3. \A i \in DOMAIN Boundaries : i \notin open <=> Exactly(Boundaries[i], S, "observed")
  BY <1>1
<1>4. CASE open = {} /\ d.state = "complete"
  BY <1>3, <1>4 DEF DiagnosisIgnoresOrder
<1>5. CASE \E first \in open :
             d.first = first /\ (\A j \in open : first <= j)
             /\ d.state = IF accepted = <<>> THEN "unknown" ELSE assessed[first]
  <2>1. PICK first \in open :
          d.first = first /\ (\A j \in open : first <= j)
          /\ d.state = IF accepted = <<>> THEN "unknown" ELSE assessed[first]
    BY <1>5
  <2>2. /\ first \in 1..4 /\ first \in DOMAIN Boundaries
        /\ ~Exactly(Boundaries[first], S, "observed")
        /\ assessed[first] \in {"missing", "contradictory", "ambiguous"}
    BY <1>1, <1>3, FourBoundaries
  <2>3. d.state # "complete"
    BY <2>1, <2>2
  <2>4. \A i \in 1..first - 1 : Exactly(Boundaries[i], S, "observed")
    <3>1. ASSUME NEW i \in 1..first - 1
          PROVE  i \in DOMAIN Boundaries /\ i \notin open
      <4>1. i \in 1..4 /\ i < first
        BY <2>2
      <4>2. i \in DOMAIN Boundaries
        BY <4>1, FourBoundaries
      <4>3. ~(first <= i)
        BY <2>2, <4>1
      <4> HIDE DEF open
      <4> QED BY <2>1, <4>2, <4>3
    <3> QED BY <1>3, <3>1
  <2>5. ASSUME d.state = "missing"
        PROVE  S # {} /\ ~\E o \in S : Names(Boundaries[first], o)
    <3>1. accepted # <<>> /\ assessed[first] = "missing"
      BY <2>1, <2>5
    <3>2. 1 \in DOMAIN accepted
      BY <1>0, <3>1, EmptySeq
    <3> QED BY <1>1, <2>2, <3>1, <3>2 DEF ToSet
  <2>6. d.state = "contradictory" => Exactly(Boundaries[first], S, "contradictory")
    BY <1>1, <2>1, <2>2
  <2> QED BY <2>1, <2>2, <2>3, <2>4, <2>5, <2>6 DEF DiagnosisIgnoresOrder
<1> QED BY <1>2, <1>4, <1>5

(* However the sources were interleaved, the diagnosis is a function of the  *)
(* set of observations: complete just when each boundary has one that        *)
(* matches, and otherwise it names the first boundary that has not.          *)
THEOREM DiagnosisNeverDependsOnOrder == Spec => []DiagnosisIgnoresOrder
<1>1. StreamInv => DiagnosisIgnoresOrder
  BY DiagnosisIsOfTheSet
<1> QED BY StreamIsABeginning, <1>1, PTL

------------------------------------------------------------------------------
(* LineReports. *)

LineStates == {"up", "down", "looped"}

Reports(i) == [at : Nat, lines : [LinesOf(i) -> LineStates], forwarding : BOOLEAN]

Tables ==
  /\ cabling \in {"triangle", "parallel"}
  /\ now \in 0..MaxTime /\ quiet \in 0..now
  /\ alive \in SUBSET Imps /\ mode \in {"forward", "fault", "loopback"}
  /\ switched \in -1..now
  /\ mode = "forward" <=> switched = -1
  /\ sees \in [Imps -> UNION {[LinesOf(i) -> LineStates] : i \in Imps}]
  /\ \A i \in Imps : sees[i] \in [LinesOf(i) -> LineStates]
  /\ DOMAIN heard = Imps /\ DOMAIN before = Imps

(* The receiver's tables: what it had decoded at an earlier time is no newer *)
(* than what it has decoded.                                                 *)
Decoded ==
  \A i \in Imps :
    /\ heard[i] = None \/ (heard[i] \in Reports(i) /\ heard[i].at <= now)
    /\ before[i] = None \/ (before[i] \in Reports(i) /\ before[i].at <= now)
    /\ before[i].at <= heard[i].at

NoticedWhenQuiet ==
  now > quiet => \A i \in alive : sees[i] = View(i)

ReportedWhenQuiet ==
  \A i \in Imps :
    heard[i] # None /\ heard[i].at > quiet => i \in alive /\ heard[i].lines = View(i)

SwitchTells ==
  /\ mode = "forward" => \A i \in Imps : heard[i] # None => heard[i].forwarding
  /\ switched >= 0 =>
       \A i \in Imps : heard[i] # None /\ heard[i].at > switched => ~heard[i].forwarding
  /\ \A i \in Imps : before[i] # None => before[i].forwarding

ReportsInv ==
  /\ Tables /\ Decoded
  /\ NoticedWhenQuiet /\ ReportedWhenQuiet /\ SwitchTells

------------------------------------------------------------------------------
(* Lines and what there is to see of them. *)

LEMMA EndsOfPair ==
  ASSUME NEW a \in Imps, NEW b \in Imps, a < b, NEW l, Ends(l) = {a, b}
  PROVE  MinusEnd(l) = a /\ PlusEnd(l) = b /\ Peer(a, l) = b /\ Peer(b, l) = a
<1>1. a \in Nat /\ b \in Nat /\ a # b
  BY DEF Imps
<1>2. Peer(a, l) = b /\ Peer(b, l) = a
  BY <1>1 DEF Peer
<1>3. MinusEnd(l) = a
  BY <1>1 DEF MinusEnd
<1> QED BY <1>2, <1>3 DEF PlusEnd

LEMMA EndsOfLine ==
  ASSUME cabling \in {"triangle", "parallel"}, NEW l \in Lines
  PROVE  /\ MinusEnd(l) \in Imps /\ PlusEnd(l) \in Imps
         /\ Ends(l) = {MinusEnd(l), PlusEnd(l)}
         /\ Peer(MinusEnd(l), l) = PlusEnd(l) /\ Peer(PlusEnd(l), l) = MinusEnd(l)
         /\ l = "direct" => MinusEnd(l) = 5 /\ PlusEnd(l) = 6
<1>1. CASE l \in {"direct", "spare"}
  <2>1. Ends(l) = {5, 6}
    BY <1>1 DEF Ends
  <2> QED BY <2>1, EndsOfPair DEF Imps
<1>2. CASE l = "west"
  <2>1. Ends(l) = {5, 7}
    BY <1>2 DEF Ends
  <2> QED BY <1>2, <2>1, EndsOfPair DEF Imps
<1>3. CASE l = "east"
  <2>1. Ends(l) = {6, 7}
    BY <1>3 DEF Ends
  <2> QED BY <1>3, <2>1, EndsOfPair DEF Imps
<1> QED BY <1>1, <1>2, <1>3 DEF Lines, Cabled

LEMMA ActualIsAState == \A i, l : Actual(i, l) \in LineStates
BY DEF Actual, LineStates

LEMMA ViewIsTyped == \A i : View(i) \in [LinesOf(i) -> LineStates]
BY ActualIsAState DEF View

(* Both depend on the network only.                                          *)
LEMMA ViewStays ==
  ASSUME UNCHANGED <<cabling, mode, broken, alive>>
  PROVE  \A i : View(i)' = View(i) /\ LinesOf(i)' = LinesOf(i)
<1>1. \A i : LinesOf(i)' = LinesOf(i)
  BY DEF LinesOf, Lines
<1>2. \A i, l : Actual(i, l)' = Actual(i, l)
  BY DEF Actual, Peer, Ends
<1> QED BY <1>1, <1>2 DEF View

LEMMA LinesStay ==
  ASSUME UNCHANGED cabling
  PROVE  \A i : LinesOf(i)' = LinesOf(i) /\ Reports(i)' = Reports(i)
<1>1. \A i : LinesOf(i)' = LinesOf(i)
  BY DEF LinesOf, Lines
<1> QED BY <1>1 DEF Reports

LEMMA NoneIsBefore == None.at = -1 /\ None.at <= None.at
<1>1. None.at = -1
  BY DEF None
<1> QED BY <1>1

LEMMA ReportIsHeard ==
  ASSUME NEW i, NEW r \in Reports(i)
  PROVE  r # None /\ r.at >= 0 /\ r.at \in Nat /\ None.at = -1
BY DEF Reports, None

------------------------------------------------------------------------------
(* The steps. *)

LEMMA ReportsStart == ReportsInit => ReportsInv
<1> SUFFICES ASSUME ReportsInit PROVE ReportsInv
  OBVIOUS
<1>1. /\ \A i \in Imps : heard[i] = None /\ before[i] = None
      /\ DOMAIN heard = Imps /\ DOMAIN before = Imps
  BY DEF ReportsInit
<1>2. \A i \in Imps : sees[i] \in [LinesOf(i) -> LineStates]
  BY DEF ReportsInit, LineStates
<1>3. sees \in [Imps -> UNION {[LinesOf(i) -> LineStates] : i \in Imps}]
  <2>1. sees = [i \in Imps |-> sees[i]]
    BY DEF ReportsInit
  <2> QED BY <1>2, <2>1
<1>4. Tables
  BY <1>1, <1>2, <1>3, ConfigurationAssumption DEF ReportsInit, Tables, Imps
<1>5. Decoded
  <2>1. \A i \in Imps : before[i].at <= heard[i].at
    BY <1>1, NoneIsBefore
  <2> QED BY <1>1, <2>1 DEF Decoded
<1> QED
  BY <1>1, <1>4, <1>5 DEF ReportsInit, ReportsInv, NoticedWhenQuiet, ReportedWhenQuiet, SwitchTells

LEMMA SwitchKeeps ==
  ASSUME ReportsInv, Switch
  PROVE  ReportsInv'
<1>1. /\ \A i : LinesOf(i)' = LinesOf(i) /\ Reports(i)' = Reports(i)
      /\ now \in Nat /\ mode = "forward" /\ mode' \in {"fault", "loopback"} /\ None' = None
      /\ now' = now /\ quiet' = now /\ switched' = now
  BY LinesStay, ConfigurationAssumption DEF Switch, ReportsInv, Tables, None
<1>2. Tables'
  BY <1>1 DEF Switch, ReportsInv, Tables
<1>3. Decoded'
  BY <1>1 DEF Switch, ReportsInv, Decoded
<1>4. \A i \in Imps : heard[i] # None => heard[i].at \in Nat /\ heard[i].at <= now
  BY ReportIsHeard DEF ReportsInv, Decoded
<1>5. NoticedWhenQuiet' /\ ReportedWhenQuiet'
  BY <1>1, <1>4 DEF Switch, NoticedWhenQuiet, ReportedWhenQuiet
<1>6. SwitchTells'
  BY <1>1, <1>4 DEF Switch, ReportsInv, SwitchTells
<1> QED BY <1>2, <1>3, <1>5, <1>6 DEF ReportsInv

LEMMA DisturbKeeps ==
  ASSUME ReportsInv, Disturb
  PROVE  ReportsInv'
<1>1. /\ \A i : LinesOf(i)' = LinesOf(i) /\ Reports(i)' = Reports(i)
      /\ now \in Nat /\ alive' \in SUBSET Imps /\ None' = None
      /\ now' = now /\ quiet' = now /\ UNCHANGED <<cabling, mode, switched, sees, heard, before>>
  BY LinesStay, ConfigurationAssumption DEF Disturb, ReportsInv, Tables, None
<1>2. Tables'
  BY <1>1 DEF ReportsInv, Tables
<1>3. Decoded'
  BY <1>1 DEF ReportsInv, Decoded
<1>4. \A i \in Imps : heard[i] # None => heard[i].at \in Nat /\ heard[i].at <= now
  BY ReportIsHeard DEF ReportsInv, Decoded
<1>5. NoticedWhenQuiet' /\ ReportedWhenQuiet'
  BY <1>1, <1>4 DEF NoticedWhenQuiet, ReportedWhenQuiet
<1>6. SwitchTells'
  BY <1>1 DEF ReportsInv, SwitchTells
<1> QED BY <1>2, <1>3, <1>5, <1>6 DEF ReportsInv

LEMMA TickKeeps ==
  ASSUME ReportsInv, Tick
  PROVE  ReportsInv'
<1>1. /\ \A i : View(i)' = View(i) /\ LinesOf(i)' = LinesOf(i) /\ Reports(i)' = Reports(i)
      /\ now \in Nat /\ now' = now + 1 /\ now' \in 0..MaxTime /\ None' = None
      /\ UNCHANGED <<cabling, alive, mode, switched, broken, quiet, sees, heard>>
      /\ (before' = heard /\ mode = "forward") \/ before' = before
  <2>1. UNCHANGED <<cabling, mode, broken, alive>>
    BY DEF Tick
  <2>2. \A i : View(i)' = View(i) /\ LinesOf(i)' = LinesOf(i) /\ Reports(i)' = Reports(i)
    BY <2>1, ViewStays, LinesStay
  <2> QED BY <2>2, ConfigurationAssumption DEF Tick, ReportsInv, Tables, None
<1>2. Tables'
  BY <1>1 DEF ReportsInv, Tables
<1>3. ASSUME NEW i \in Imps
      PROVE  /\ heard[i] = None \/ (heard[i] \in Reports(i) /\ heard[i].at <= now')
             /\ before[i] = None \/ (before[i] \in Reports(i) /\ before[i].at <= now')
             /\ heard[i].at \in Int /\ heard[i].at <= heard[i].at
  <2>1. /\ heard[i] = None \/ (heard[i] \in Reports(i) /\ heard[i].at <= now)
        /\ before[i] = None \/ (before[i] \in Reports(i) /\ before[i].at <= now)
    BY DEF ReportsInv, Decoded
  <2>2. /\ heard[i] \in Reports(i) => heard[i].at \in Nat
        /\ before[i] \in Reports(i) => before[i].at \in Nat
    BY ReportIsHeard
  <2>3. heard[i].at \in Int
    BY <2>1, <2>2, NoneIsBefore
  <2>4. \A n \in Nat : n <= now => n <= now'
    BY <1>1
  <2>5. \A n \in Int : n <= n
    OBVIOUS
  <2> QED BY <2>1, <2>2, <2>3, <2>4, <2>5, Zenon
<1>4. Decoded'
  <2>1. CASE before' = heard
    BY <1>1, <1>3, <2>1 DEF Decoded
  <2>2. CASE before' = before
    BY <1>1, <1>3, <2>2 DEF ReportsInv, Decoded
  <2> QED BY <1>1, <2>1, <2>2
<1>5. NoticedWhenQuiet'
  BY <1>1 DEF Tick, NoticedWhenQuiet
<1>6. ReportedWhenQuiet'
  BY <1>1 DEF ReportsInv, ReportedWhenQuiet
<1>7. SwitchTells'
  BY <1>1 DEF ReportsInv, SwitchTells
<1> QED BY <1>2, <1>4, <1>5, <1>6, <1>7 DEF ReportsInv

LEMMA NoticeKeeps ==
  ASSUME ReportsInv, NEW k \in Imps, Notice(k)
  PROVE  ReportsInv'
<1>1. /\ \A i : View(i)' = View(i) /\ LinesOf(i)' = LinesOf(i) /\ Reports(i)' = Reports(i)
      /\ None' = None
      /\ UNCHANGED <<cabling, now, alive, mode, switched, broken, quiet, heard, before>>
  <2>1. UNCHANGED <<cabling, mode, broken, alive>>
    BY DEF Notice
  <2>2. \A i : View(i)' = View(i) /\ LinesOf(i)' = LinesOf(i) /\ Reports(i)' = Reports(i)
    BY <2>1, ViewStays, LinesStay
  <2> QED BY <2>2 DEF Notice, None
<1>2. \A i \in Imps : sees'[i] = IF i = k THEN View(k) ELSE sees[i]
  BY DEF Notice, ReportsInv, Tables
<1>3. Tables'
  <2>1. \A i \in Imps : sees'[i] \in [LinesOf(i) -> LineStates]
    BY <1>2, ViewIsTyped DEF ReportsInv, Tables
  <2>2. sees' = [i \in Imps |-> sees'[i]]
    BY DEF Notice, ReportsInv, Tables
  <2>3. sees' \in [Imps -> UNION {[LinesOf(i) -> LineStates] : i \in Imps}]
    BY <2>1, <2>2
  <2> QED BY <1>1, <2>1, <2>3 DEF ReportsInv, Tables
<1>4. Decoded' /\ ReportedWhenQuiet' /\ SwitchTells'
  BY <1>1 DEF ReportsInv, Decoded, ReportedWhenQuiet, SwitchTells
<1>5. NoticedWhenQuiet'
  BY <1>1, <1>2 DEF ReportsInv, Tables, NoticedWhenQuiet
<1> QED BY <1>3, <1>4, <1>5 DEF ReportsInv

LEMMA ReportKeeps ==
  ASSUME ReportsInv, NEW k \in Imps, Report(k)
  PROVE  ReportsInv'
<1> DEFINE r == [at |-> now, lines |-> sees[k], forwarding |-> mode = "forward"]
<1>1. /\ \A i : View(i)' = View(i) /\ LinesOf(i)' = LinesOf(i) /\ Reports(i)' = Reports(i)
      /\ None' = None /\ k \in alive /\ now \in Nat /\ heard[k].at < now
      /\ UNCHANGED <<cabling, now, alive, mode, switched, broken, quiet, sees, before>>
  <2>1. UNCHANGED <<cabling, mode, broken, alive>>
    BY DEF Report
  <2>2. \A i : View(i)' = View(i) /\ LinesOf(i)' = LinesOf(i) /\ Reports(i)' = Reports(i)
    BY <2>1, ViewStays, LinesStay
  <2> QED BY <2>2, ConfigurationAssumption DEF Report, ReportsInv, Tables, None
<1>2. DOMAIN heard' = Imps /\ \A i \in Imps : heard'[i] = IF i = k THEN r ELSE heard[i]
  BY DEF Report, ReportsInv, Tables
<1>3. /\ r \in Reports(k) /\ r.at = now /\ r.lines = sees[k] /\ r.forwarding = (mode = "forward")
      /\ r # None
  <2>1. sees[k] \in [LinesOf(k) -> LineStates]
    BY DEF ReportsInv, Tables
  <2>2. r \in Reports(k)
    BY <1>1, <2>1 DEF Reports
  <2> QED BY <2>2, ReportIsHeard
<1> HIDE DEF r
<1>4. Tables'
  BY <1>1, <1>2 DEF ReportsInv, Tables
<1>5. ASSUME NEW i \in Imps
      PROVE  /\ heard'[i] = None \/ (heard'[i] \in Reports(i) /\ heard'[i].at <= now)
             /\ before[i].at <= heard'[i].at
  <2>1. CASE i = k
    <3>1. before[i].at \in Int /\ before[i].at <= now
      BY <1>1, ReportIsHeard DEF ReportsInv, Decoded, None
    <3> QED BY <1>1, <1>2, <1>3, <2>1, <3>1
  <2>2. CASE i # k
    BY <1>2, <2>2 DEF ReportsInv, Decoded
  <2> QED BY <2>1, <2>2
<1>6. Decoded'
  BY <1>1, <1>5 DEF ReportsInv, Decoded
<1>7. NoticedWhenQuiet'
  BY <1>1 DEF ReportsInv, NoticedWhenQuiet
<1>8. ReportedWhenQuiet'
  BY <1>1, <1>2, <1>3 DEF ReportsInv, NoticedWhenQuiet, ReportedWhenQuiet
<1>9. SwitchTells'
  <2>1. switched >= 0 => mode # "forward"
    BY DEF ReportsInv, Tables
  <2> QED BY <1>1, <1>2, <1>3, <2>1 DEF ReportsInv, SwitchTells
<1> QED BY <1>4, <1>6, <1>7, <1>8, <1>9 DEF ReportsInv

LEMMA ReportsKept == ReportsInv /\ [ReportsNext]_reportVars => ReportsInv'
<1> SUFFICES ASSUME ReportsInv, [ReportsNext]_reportVars PROVE ReportsInv'
  OBVIOUS
<1>1. CASE ReportsNext
  BY <1>1, SwitchKeeps, DisturbKeeps, TickKeeps, NoticeKeeps, ReportKeeps DEF ReportsNext
<1>2. CASE UNCHANGED reportVars
  <2>1. /\ \A i : View(i)' = View(i) /\ LinesOf(i)' = LinesOf(i) /\ Reports(i)' = Reports(i)
        /\ None' = None
    BY <1>2, ViewStays, LinesStay DEF reportVars, None
  <2> QED
    BY <1>2, <2>1 DEF reportVars, ReportsInv, Tables, Decoded, NoticedWhenQuiet,
                      ReportedWhenQuiet, SwitchTells
<1> QED BY <1>1, <1>2

(* In every reachable state: what was reported since the network was last    *)
(* disturbed is so, and the reports tell on which side of the switch they    *)
(* were sent.                                                                *)
THEOREM ReportsAreOfTheNetwork == ReportsSpec => []ReportsInv
BY ReportsStart, ReportsKept, PTL DEF ReportsSpec

LEMMA InvGivesTypes ==
  ASSUME ReportsInv
  PROVE  ReportsTypeOK
<1>1. now \in 0..MaxTime /\ switched \in -1..now /\ quiet \in 0..now
  BY DEF ReportsInv, Tables
<1>2. ASSUME NEW i \in Imps
      PROVE  DOMAIN sees[i] = LinesOf(i)
  BY DEF ReportsInv, Tables
<1>3. ASSUME NEW i \in Imps, NEW o \in {heard[i], before[i]}, o # None
      PROVE  o.at <= now /\ DOMAIN o.lines = LinesOf(i)
  <2>1. o \in Reports(i) /\ o.at <= now
    BY <1>3 DEF ReportsInv, Decoded
  <2> QED BY <2>1 DEF Reports
<1>4. \A i \in Imps : before[i].at <= heard[i].at
  BY DEF ReportsInv, Decoded
<1> QED BY <1>1, <1>2, <1>3, <1>4 DEF ReportsTypeOK

(* The clock, the switch and the last disturbance are in order, and each     *)
(* report, dated no later than now, is of the lines of its own IMP.          *)
THEOREM ReportTypesHold == ReportsSpec => []ReportsTypeOK
<1>1. ReportsInv => ReportsTypeOK
  BY InvGivesTypes
<1> QED BY ReportsAreOfTheNetwork, <1>1, PTL

------------------------------------------------------------------------------
(* What the reconciliation shows. *)

LEMMA EndOfLine ==
  ASSUME ReportsInv, NEW l \in Lines, NEW i \in Ends(l)
  PROVE  i \in Imps /\ l \in LinesOf(i)
BY EndsOfLine DEF ReportsInv, Tables, LinesOf

(* What is neither unknown nor stale is what the last report said.           *)
LEMMA EndStateIsReported ==
  ASSUME ReportsInv, NEW i \in Imps, NEW l \in LinesOf(i),
         NEW h, h \in {heard, before}, NEW t
  PROVE  \/ EndState(i, l, h, t) \in {"unknown", "stale"}
         \/ /\ h[i] # None /\ h[i] \in Reports(i) /\ ~Expired(h[i], t)
            /\ EndState(i, l, h, t) = h[i].lines[l]
            /\ h[i].lines[l] \in LineStates
<1>1. h[i] = None \/ h[i] \in Reports(i)
  BY DEF ReportsInv, Decoded
<1>2. CASE h[i] = None
  BY <1>2 DEF EndState
<1>3. CASE h[i] # None /\ Expired(h[i], t)
  BY <1>3 DEF EndState
<1>4. CASE h[i] # None /\ ~Expired(h[i], t)
  <2>1. EndState(i, l, h, t) = h[i].lines[l]
    BY <1>4 DEF EndState
  <2>2. h[i].lines \in [LinesOf(i) -> LineStates]
    BY <1>1, <1>4 DEF Reports
  <2> QED BY <1>1, <1>4, <2>1, <2>2
<1> QED BY <1>2, <1>3, <1>4

LEMMA SettledEnd ==
  ASSUME ReportsInv, now - quiet > Interval, NEW i \in Imps, NEW l \in LinesOf(i)
  PROVE  \/ EndState(i, l, heard, now) \in {"unknown", "stale"}
         \/ i \in alive /\ EndState(i, l, heard, now) = Actual(i, l)
<1>1. CASE /\ heard[i] # None /\ heard[i] \in Reports(i) /\ ~Expired(heard[i], now)
           /\ EndState(i, l, heard, now) = heard[i].lines[l]
  <2>1. heard[i].at \in Nat /\ now \in Nat /\ quiet \in Nat /\ Interval \in Nat
    BY <1>1, ReportIsHeard, ConfigurationAssumption DEF ReportsInv, Tables
  <2>2. heard[i].at > quiet
    BY <1>1, <2>1 DEF Expired
  <2>3. i \in alive /\ heard[i].lines = View(i)
    BY <1>1, <2>2 DEF ReportsInv, ReportedWhenQuiet
  <2> QED BY <1>1, <2>3 DEF View
<1> QED BY <1>1, EndStateIsReported

(* A line whose state is neither stale nor unknown has two states to pair.   *)
LEMMA LineStateOfEnds ==
  ASSUME NEW l, NEW h, NEW t,
         NEW minus, minus = EndState(MinusEnd(l), l, h, t),
         NEW plus, plus = EndState(PlusEnd(l), l, h, t)
  PROVE  \/ /\ LineState(l, h, t) \in {"stale", "unknown"}
            /\ minus \in {"stale", "unknown"} \/ plus \in {"stale", "unknown"}
         \/ /\ LineState(l, h, t) = Paired(minus, plus)
            /\ minus \notin {"stale", "unknown"} /\ plus \notin {"stale", "unknown"}
<1>1. CASE "stale" \in {minus, plus}
  BY <1>1 DEF LineState
<1>2. CASE "stale" \notin {minus, plus} /\ "unknown" \in {minus, plus}
  BY <1>2 DEF LineState
<1>3. CASE "stale" \notin {minus, plus} /\ "unknown" \notin {minus, plus}
  BY <1>3 DEF LineState
<1> QED BY <1>1, <1>2, <1>3

LEMMA SettledViews ==
  ASSUME ReportsInv
  PROVE  SettledViewIsTrue
<1> SUFFICES ASSUME now - quiet > Interval
             PROVE  /\ \A l \in Lines : Ends(l) \subseteq alive =>
                         LineState(l, heard, now) \in
                           {"stale", "unknown", Paired(Actual(MinusEnd(l), l), Actual(PlusEnd(l), l))}
                    /\ \A l \in Lines : ~(Ends(l) \subseteq alive) =>
                         LineState(l, heard, now) \in {"stale", "unknown"}
                    /\ \A i \in Imps : ImpState(i, heard, now) = "partitioned" =>
                         i \notin alive \/ \A l \in LinesOf(i) : Actual(i, l) # "up"
  BY DEF SettledViewIsTrue
<1>1. ASSUME NEW l \in Lines
      PROVE  \/ LineState(l, heard, now) \in {"stale", "unknown"}
             \/ /\ Ends(l) \subseteq alive
                /\ LineState(l, heard, now) = Paired(Actual(MinusEnd(l), l), Actual(PlusEnd(l), l))
  <2> DEFINE minus == EndState(MinusEnd(l), l, heard, now)
             plus == EndState(PlusEnd(l), l, heard, now)
  <2>1. /\ MinusEnd(l) \in Imps /\ PlusEnd(l) \in Imps /\ Ends(l) = {MinusEnd(l), PlusEnd(l)}
        /\ l \in LinesOf(MinusEnd(l)) /\ l \in LinesOf(PlusEnd(l))
    BY EndsOfLine DEF ReportsInv, Tables, LinesOf
  <2>2. /\ minus \in {"unknown", "stale"} \/ (MinusEnd(l) \in alive /\ minus = Actual(MinusEnd(l), l))
        /\ plus \in {"unknown", "stale"} \/ (PlusEnd(l) \in alive /\ plus = Actual(PlusEnd(l), l))
    BY <2>1, SettledEnd
  <2>3. \/ LineState(l, heard, now) \in {"stale", "unknown"}
        \/ /\ LineState(l, heard, now) = Paired(minus, plus)
           /\ minus \notin {"stale", "unknown"} /\ plus \notin {"stale", "unknown"}
    BY LineStateOfEnds
  <2> QED BY <2>1, <2>2, <2>3
<1>2. ASSUME NEW i \in Imps, ImpState(i, heard, now) = "partitioned", i \in alive,
             NEW l \in LinesOf(i)
      PROVE  Actual(i, l) # "up"
  <2>1. PeerDown(i, heard, now) = LinesOf(i)
    BY <1>2 DEF ImpState
  <2>2. EndState(Peer(i, l), l, heard, now) = "down"
    BY <2>1 DEF PeerDown
  <2>3. /\ l \in Lines /\ i \in Ends(l) /\ Peer(i, l) \in Ends(l) /\ Peer(Peer(i, l), l) = i
    BY EndsOfLine DEF ReportsInv, Tables, LinesOf
  <2>4. Actual(Peer(i, l), l) = "down"
    BY <2>2, <2>3, EndOfLine, SettledEnd
  <2> QED BY <1>2, <2>3, <2>4 DEF Actual
<1> QED BY <1>1, <1>2

(* When nothing has happened to the network for as long as an observation    *)
(* lives, what is shown of a line is so or is shown as stale or unknown, and *)
(* an IMP that is shown as partitioned has no line that works.               *)
THEOREM SettledViewIsAlwaysTrue == ReportsSpec => []SettledViewIsTrue
<1>1. ReportsInv => SettledViewIsTrue
  BY SettledViews
<1> QED BY ReportsAreOfTheNetwork, <1>1, PTL

------------------------------------------------------------------------------
(* The evaluators. *)

LEMMA PairedUp ==
  ASSUME NEW minus \in LineStates, NEW plus \in LineStates, Paired(minus, plus) = "up"
  PROVE  minus = "up" /\ plus = "up"
<1>1. CASE minus = plus
  BY <1>1 DEF Paired
<1>2. CASE minus # plus /\ {minus, plus} = {"down", "looped"}
  BY <1>2 DEF Paired
<1>3. CASE minus # plus /\ minus = "up"
  BY <1>3 DEF Paired, LineStates
<1>4. CASE minus # plus /\ plus = "up"
  BY <1>4 DEF Paired, LineStates
<1> QED BY <1>1, <1>2, <1>3, <1>4 DEF LineStates

(* A line is up before the switch only by reports of both its ends.          *)
LEMMA PreStateIsReported ==
  ASSUME ReportsInv, PreState = "up"
  PROVE  before[5] # None /\ before[6] # None
<1> DEFINE t == LastOf(before, Imps)
           minus == EndState(5, "direct", before, t)
           plus == EndState(6, "direct", before, t)
<1>1. /\ "direct" \in Lines /\ MinusEnd("direct") = 5 /\ PlusEnd("direct") = 6
      /\ 5 \in Imps /\ 6 \in Imps /\ "direct" \in LinesOf(5) /\ "direct" \in LinesOf(6)
  <2>1. "direct" \in Lines
    BY DEF Lines, Cabled
  <2> QED BY <2>1, EndsOfLine DEF ReportsInv, Tables, LinesOf, Imps
<1>2. LineState("direct", before, t) = "up"
  BY DEF PreState
<1>3. /\ Paired(minus, plus) = "up"
      /\ minus \notin {"stale", "unknown"} /\ plus \notin {"stale", "unknown"}
  <2> HIDE DEF t
  <2>1. \/ LineState("direct", before, t) \in {"stale", "unknown"}
        \/ /\ LineState("direct", before, t) = Paired(minus, plus)
           /\ minus \notin {"stale", "unknown"} /\ plus \notin {"stale", "unknown"}
    BY <1>1, LineStateOfEnds
  <2> QED BY <1>2, <2>1
<1> QED BY <1>1, <1>3, EndStateIsReported

LEMMA PassedRunsSawTheSwitch ==
  ASSUME ReportsInv
  PROVE  PassedRunSawTheSwitch
<1> SUFFICES ASSUME RunPassed, NEW i \in {5, 6}
             PROVE  before[i].forwarding /\ ~heard[i].forwarding
  BY DEF PassedRunSawTheSwitch
<1>1. PreState = "up" /\ ReportsCovered /\ switched >= 0
  BY DEF RunPassed, VerdictPassed, CutPassed, LoopPassed, Evaluable
<1>2. /\ before[i] # None /\ heard[i] # None /\ heard[i].at > switched /\ i \in Imps
  BY <1>1, PreStateIsReported DEF ReportsCovered, Imps
<1> QED BY <1>1, <1>2 DEF ReportsInv, SwitchTells

(* A run that passed saw the switch: each end of the line sent the report    *)
(* before it while the relay forwarded, and the last one when it no longer   *)
(* did.                                                                      *)
THEOREM PassedRunAlwaysSawTheSwitch == ReportsSpec => []PassedRunSawTheSwitch
<1>1. ReportsInv => PassedRunSawTheSwitch
  BY PassedRunsSawTheSwitch
<1> QED BY ReportsAreOfTheNetwork, <1>1, PTL

------------------------------------------------------------------------------
(* The events of the last reports. *)

EventRecords == [at : Nat, imp : Imps, line : {"report"} \cup Lines]

LEMMA LastReportsAreDated ==
  ASSUME ReportsInv, NEW i \in Imps
  PROVE  /\ heard[i].at \in Int /\ heard[i].at <= now
         /\ heard[i] # None => heard[i] \in Reports(i) /\ heard[i].at \in Nat
<1>1. now \in Nat
  BY ConfigurationAssumption DEF ReportsInv, Tables
<1>2. heard[i] = None \/ (heard[i] \in Reports(i) /\ heard[i].at <= now)
  BY DEF ReportsInv, Decoded
<1> QED BY <1>1, <1>2, ReportIsHeard, NoneIsBefore

LEMMA DecodingOrderExists ==
  ASSUME ReportsInv
  PROVE  /\ DecodingOrder \in [1 .. 3 -> Imps]
         /\ \A j, k \in 1 .. 3 : j < k =>
              /\ DecodingOrder[j] # DecodingOrder[k]
              /\ heard[DecodingOrder[j]].at <= heard[DecodingOrder[k]].at
<1>1. \E x, y, z \in Imps : /\ x # y /\ x # z /\ y # z
                            /\ heard[x].at <= heard[y].at /\ heard[y].at <= heard[z].at
  <2>1. PICK a \in Int, b \in Int, c \in Int : a = heard[5].at /\ b = heard[6].at /\ c = heard[7].at
    BY LastReportsAreDated DEF Imps
  <2>2. \/ a <= b /\ b <= c
        \/ a <= c /\ c <= b
        \/ b <= a /\ a <= c
        \/ b <= c /\ c <= a
        \/ c <= a /\ a <= b
        \/ c <= b /\ b <= a
    BY <2>1
  <2>3. 5 \in Imps /\ 6 \in Imps /\ 7 \in Imps
    BY DEF Imps
  <2> QED BY <2>1, <2>2, <2>3
<1>2. PICK x \in Imps, y \in Imps, z \in Imps :
        /\ x # y /\ x # z /\ y # z
        /\ heard[x].at <= heard[y].at /\ heard[y].at <= heard[z].at
  BY <1>1
<1>3. heard[x].at \in Int /\ heard[y].at \in Int /\ heard[z].at \in Int
  BY LastReportsAreDated
<1> DEFINE p == [k \in 1 .. 3 |-> IF k = 1 THEN x ELSE IF k = 2 THEN y ELSE z]
<1>4. p \in [1 .. 3 -> Imps] /\ p[1] = x /\ p[2] = y /\ p[3] = z
  OBVIOUS
<1> HIDE DEF p
<1>5. \A j, k \in 1 .. 3 : j < k => p[j] # p[k] /\ heard[p[j]].at <= heard[p[k]].at
  <2> SUFFICES ASSUME NEW j \in 1 .. 3, NEW k \in 1 .. 3, j < k
               PROVE  p[j] # p[k] /\ heard[p[j]].at <= heard[p[k]].at
    OBVIOUS
  <2>1. (j = 1 /\ k = 2) \/ (j = 1 /\ k = 3) \/ (j = 2 /\ k = 3)
    OBVIOUS
  <2> QED BY <1>2, <1>3, <1>4, <2>1
<1> QED BY <1>4, <1>5 DEF DecodingOrder

LEMMA LinesAreFinite ==
  ASSUME ReportsInv, NEW i \in Imps
  PROVE  LinesOf(i) \subseteq Lines /\ IsFiniteSet(LinesOf(i)) /\ "report" \notin Lines
<1>1. LinesOf(i) \subseteq Lines /\ Lines \subseteq {"direct", "west", "east", "spare"}
  BY DEF LinesOf, Lines, Cabled
<1>2. IsFiniteSet({"direct", "west", "east", "spare"})
  <2>1. IsFiniteSet({"direct"})
    BY FS_Singleton
  <2>2. IsFiniteSet({"direct"} \cup {"west"})
    BY <2>1, FS_AddElement
  <2>3. IsFiniteSet({"direct"} \cup {"west"} \cup {"east"})
    BY <2>2, FS_AddElement
  <2>4. IsFiniteSet({"direct"} \cup {"west"} \cup {"east"} \cup {"spare"})
    BY <2>3, FS_AddElement
  <2>5. {"direct", "west", "east", "spare"} = {"direct"} \cup {"west"} \cup {"east"} \cup {"spare"}
    OBVIOUS
  <2> QED BY <2>4, <2>5
<1> QED BY <1>1, <1>2, FS_Subset

(* A report has a part of its own and one for each of its lines.             *)
LEMMA PartsAreAll ==
  ASSUME ReportsInv, NEW i \in Imps
  PROVE  /\ Parts(i) \in Seq({"report"} \cup LinesOf(i))
         /\ \A l \in {"report"} \cup LinesOf(i) : \E n \in 1 .. Len(Parts(i)) : Parts(i)[n] = l
<1>1. PICK S : S = LinesOf(i)
  OBVIOUS
<1>2. IsFiniteSet(S) /\ Cardinality(S) \in Nat
  BY <1>1, LinesAreFinite, FS_CardinalityType
<1>3. PICK m \in Nat : m = Cardinality(S)
  BY <1>2
<1>4. \E f \in [1 .. m -> S] : IsInjective(f)
  <2>1. ExistsBijection(1 .. m, S)
    BY <1>2, <1>3, FS_CardinalityType
  <2>2. PICK f : f \in Bijection(1 .. m, S)
    BY <2>1 DEF ExistsBijection
  <2>3. f \in Injection(1 .. m, S)
    BY <2>2 DEF Bijection
  <2> QED BY <2>3 DEF Injection, IsInjective
<1>5. PICK f \in [1 .. m -> S] : IsInjective(f) /\ SetToSeq(S) = f
  BY <1>3, <1>4 DEF SetToSeq
<1>6. f \in Surjection(1 .. m, S)
  <2>1. f \in Injection(1 .. m, S)
    BY <1>5 DEF IsInjective, Injection
  <2>2. Cardinality(1 .. m) = m
    BY FS_Interval
  <2> QED BY <1>2, <1>3, <2>1, <2>2, FS_Injection
<1>7. f \in Seq(S) /\ Len(f) = m /\ \A l \in S : \E n \in 1 .. m : f[n] = l
  BY <1>5, <1>6 DEF Surjection
<1>8. PICK T : T = {"report"} \cup S
  OBVIOUS
<1>9. f \in Seq(T) /\ <<"report">> \in Seq(T) /\ Parts(i) = <<"report">> \o f
  BY <1>1, <1>5, <1>7, <1>8 DEF Parts
<1>10. /\ Parts(i) \in Seq(T) /\ Len(Parts(i)) = m + 1 /\ Parts(i)[1] = "report"
       /\ \A n \in 1 .. m : Parts(i)[n + 1] = f[n]
  BY <1>7, <1>9
<1>11. ASSUME NEW l \in T PROVE \E n \in 1 .. Len(Parts(i)) : Parts(i)[n] = l
  <2>1. CASE l = "report"
    BY <1>10, <2>1
  <2>2. CASE l \in S
    <3>1. PICK n \in 1 .. m : f[n] = l
      BY <1>7, <2>2
    <3>2. n + 1 \in 1 .. m + 1 /\ Parts(i)[n + 1] = l
      BY <1>10, <3>1
    <3> QED BY <1>10, <3>2
  <2> QED BY <1>8, <2>1, <2>2
<1> QED BY <1>1, <1>8, <1>10, <1>11

LEMMA EventsOfReport ==
  ASSUME ReportsInv, NEW i \in Imps
  PROVE  /\ EventsOf(i) \in Seq(EventRecords)
         /\ \A k \in 1 .. Len(EventsOf(i)) :
              /\ heard[i] # None /\ EventsOf(i)[k].at = heard[i].at /\ EventsOf(i)[k].imp = i
              /\ EventsOf(i)[k].line \in {"report"} \cup LinesOf(i)
         /\ heard[i] # None => \A l \in {"report"} \cup LinesOf(i) : \E k \in 1 .. Len(EventsOf(i)) :
              EventsOf(i)[k] = [at |-> heard[i].at, imp |-> i, line |-> l]
<1>1. CASE heard[i] = None
  <2>1. EventsOf(i) = <<>>
    BY <1>1 DEF EventsOf
  <2>2. EventsOf(i) \in Seq(EventRecords) /\ Len(EventsOf(i)) = 0
    BY <2>1
  <2> QED BY <1>1, <2>2
<1>2. CASE heard[i] # None
  <2>1. PICK p : p = Parts(i)
    OBVIOUS
  <2>2. PICK t \in Nat : t = heard[i].at
    BY <1>2, LastReportsAreDated
  <2>3. PICK T : T = {"report"} \cup LinesOf(i)
    OBVIOUS
  <2>4. p \in Seq(T) /\ \A l \in T : \E n \in 1 .. Len(p) : p[n] = l
    BY <2>1, <2>3, PartsAreAll
  <2>5. EventsOf(i) = [n \in 1 .. Len(p) |-> [at |-> t, imp |-> i, line |-> p[n]]]
    BY <1>2, <2>1, <2>2, <2>4 DEF EventsOf
  <2>6. \A n \in 1 .. Len(p) : p[n] \in T /\ [at |-> t, imp |-> i, line |-> p[n]] \in EventRecords
    BY <2>3, <2>4, LinesAreFinite DEF EventRecords
  <2>7. PICK m \in Nat : m = Len(p)
    BY <2>4
  <2>8. EventsOf(i) \in Seq(EventRecords) /\ Len(EventsOf(i)) = m
    BY <2>5, <2>6, <2>7
  <2>9. \A n \in 1 .. m : EventsOf(i)[n] = [at |-> t, imp |-> i, line |-> p[n]]
    BY <2>5, <2>7
  <2>10. ASSUME NEW k \in 1 .. m
         PROVE  /\ EventsOf(i)[k].at = t /\ EventsOf(i)[k].imp = i
                /\ EventsOf(i)[k].line \in T
    <3>1. EventsOf(i)[k] = [at |-> t, imp |-> i, line |-> p[k]]
      BY <2>9
    <3>2. p[k] \in T
      BY <2>6, <2>7
    <3> QED BY <3>1, <3>2
  <2>11. ASSUME NEW l \in T
         PROVE  \E k \in 1 .. m : EventsOf(i)[k] = [at |-> t, imp |-> i, line |-> l]
    <3>1. PICK n \in 1 .. m : p[n] = l
      BY <2>4, <2>7
    <3> QED BY <2>9, <3>1
  <2> QED BY <1>2, <2>2, <2>3, <2>8, <2>10, <2>11
<1> QED BY <1>1, <1>2

LEMMA ThreeLists ==
  ASSUME NEW S, NEW s \in Seq(S), NEW t \in Seq(S), NEW u \in Seq(S),
         NEW r, r = s \o t \o u
  PROVE  /\ r \in Seq(S) /\ Len(r) = Len(s) + Len(t) + Len(u)
         /\ \A k \in 1 .. Len(s) : r[k] = s[k]
         /\ \A k \in 1 .. Len(t) : r[Len(s) + k] = t[k]
         /\ \A k \in 1 .. Len(u) : r[Len(s) + Len(t) + k] = u[k]
<1>1. PICK a : a = s \o t
  OBVIOUS
<1>2. /\ a \in Seq(S) /\ Len(a) = Len(s) + Len(t)
      /\ \A k \in 1 .. Len(s) : a[k] = s[k]
      /\ \A k \in 1 .. Len(t) : a[Len(s) + k] = t[k]
  BY <1>1
<1>3. /\ r \in Seq(S) /\ Len(r) = Len(a) + Len(u)
      /\ \A k \in 1 .. Len(a) : r[k] = a[k]
      /\ \A k \in 1 .. Len(u) : r[Len(a) + k] = u[k]
  BY <1>1, <1>2
<1>4. Len(s) \in Nat /\ Len(t) \in Nat /\ Len(u) \in Nat
  OBVIOUS
<1> QED BY <1>2, <1>3, <1>4


(* The events are those of the last reports, in the order of their times.    *)
LEMMA EventsTell ==
  ASSUME ReportsInv
  PROVE  /\ Events \in Seq(EventRecords)
         /\ \A k \in 1 .. Len(Events) :
              /\ heard[Events[k].imp] # None /\ Events[k].at = heard[Events[k].imp].at
              /\ Events[k].line \in {"report"} \cup LinesOf(Events[k].imp)
         /\ \A k \in 1 .. Len(Events) : k > 1 => Events[k - 1].at <= Events[k].at
         /\ \A i \in Imps : heard[i] # None => \A l \in {"report"} \cup LinesOf(i) :
              \E k \in 1 .. Len(Events) : Events[k] = [at |-> heard[i].at, imp |-> i, line |-> l]
<1>1. PICK p \in [1 .. 3 -> Imps] :
        /\ p = DecodingOrder
        /\ \A j, k \in 1 .. 3 : j < k => p[j] # p[k] /\ heard[p[j]].at <= heard[p[k]].at
  BY DecodingOrderExists
<1>2. PICK x \in Imps, y \in Imps, z \in Imps : x = p[1] /\ y = p[2] /\ z = p[3]
  OBVIOUS
<1>3. /\ x # y /\ x # z /\ y # z /\ Imps = {x, y, z}
      /\ heard[x].at <= heard[y].at /\ heard[y].at <= heard[z].at
  BY <1>1, <1>2 DEF Imps
<1>4. PICK a \in Int, b \in Int, c \in Int : a = heard[x].at /\ b = heard[y].at /\ c = heard[z].at
  BY LastReportsAreDated
<1>5. PICK s \in Seq(EventRecords) : s = EventsOf(x)
  BY EventsOfReport
<1>6. PICK t \in Seq(EventRecords) : t = EventsOf(y)
  BY EventsOfReport
<1>7. PICK u \in Seq(EventRecords) : u = EventsOf(z)
  BY EventsOfReport
<1>8. PICK r : r = s \o t \o u
  OBVIOUS
<1>9. r = Events
  BY <1>1, <1>2, <1>5, <1>6, <1>7, <1>8 DEF Events
<1>10. /\ r \in Seq(EventRecords) /\ Len(r) = Len(s) + Len(t) + Len(u)
       /\ \A k \in 1 .. Len(s) : r[k] = s[k]
       /\ \A k \in 1 .. Len(t) : r[Len(s) + k] = t[k]
       /\ \A k \in 1 .. Len(u) : r[Len(s) + Len(t) + k] = u[k]
  BY <1>8, ThreeLists
<1>11. PICK m \in Nat, n \in Nat, o \in Nat : m = Len(s) /\ n = Len(t) /\ o = Len(u)
  OBVIOUS
<1>12. /\ \A k \in 1 .. m : s[k].at = a /\ s[k].imp = x
       /\ \A k \in 1 .. n : t[k].at = b /\ t[k].imp = y
       /\ \A k \in 1 .. o : u[k].at = c /\ u[k].imp = z
  BY <1>4, <1>5, <1>6, <1>7, <1>11, EventsOfReport, ZenonT(40)
<1>13. /\ \A k \in 1 .. m : heard[x] # None /\ s[k].line \in {"report"} \cup LinesOf(x)
       /\ \A k \in 1 .. n : heard[y] # None /\ t[k].line \in {"report"} \cup LinesOf(y)
       /\ \A k \in 1 .. o : heard[z] # None /\ u[k].line \in {"report"} \cup LinesOf(z)
  BY <1>5, <1>6, <1>7, <1>11, EventsOfReport
<1>14. /\ Len(r) = m + n + o
       /\ \A k \in 1 .. m : r[k] = s[k]
       /\ \A k \in 1 .. n : r[m + k] = t[k]
       /\ \A k \in 1 .. o : r[m + n + k] = u[k]
  BY <1>10, <1>11
<1>15. ASSUME NEW k \in 1 .. Len(r)
       PROVE  \/ k \in 1 .. m
              \/ \E j \in 1 .. n : k = m + j
              \/ \E j \in 1 .. o : k = m + n + j
  <2>1. CASE k <= m
    BY <1>14, <2>1
  <2>2. CASE m < k /\ k <= m + n
    <3>1. k - m \in 1 .. n /\ k = m + (k - m)
      BY <1>14, <2>2
    <3> QED BY <3>1
  <2>3. CASE m + n < k
    <3>1. k - (m + n) \in 1 .. o /\ k = m + n + (k - (m + n))
      BY <1>14, <2>3
    <3> QED BY <3>1
  <2> QED BY <1>14, <2>1, <2>2, <2>3
<1>16. ASSUME NEW k \in 1 .. Len(r)
       PROVE  /\ heard[r[k].imp] # None /\ r[k].at = heard[r[k].imp].at
              /\ r[k].line \in {"report"} \cup LinesOf(r[k].imp)
  <2>1. CASE k \in 1 .. m
    BY <1>4, <1>12, <1>13, <1>14, <2>1
  <2>2. ASSUME NEW j \in 1 .. n, k = m + j
        PROVE  /\ heard[r[k].imp] # None /\ r[k].at = heard[r[k].imp].at
               /\ r[k].line \in {"report"} \cup LinesOf(r[k].imp)
    BY <1>4, <1>12, <1>13, <1>14, <2>2, ZenonT(40)
  <2>3. ASSUME NEW j \in 1 .. o, k = m + n + j
        PROVE  /\ heard[r[k].imp] # None /\ r[k].at = heard[r[k].imp].at
               /\ r[k].line \in {"report"} \cup LinesOf(r[k].imp)
    BY <1>4, <1>12, <1>13, <1>14, <2>3, ZenonT(40)
  <2> QED BY <1>15, <2>1, <2>2, <2>3
<1>17. ASSUME NEW k \in 1 .. Len(r)
       PROVE  /\ k <= m => r[k].at = a
              /\ m < k /\ k <= m + n => r[k].at = b
              /\ m + n < k => r[k].at = c
  <2>1. CASE k \in 1 .. m
    BY <1>12, <1>14, <2>1, SMTT(30)
  <2>2. ASSUME NEW j \in 1 .. n, k = m + j
        PROVE  r[k].at = b /\ m < k /\ k <= m + n
    <3>1. r[m + j] = t[j] /\ t[j].at = b
      BY <1>12, <1>14
    <3>2. m < m + j /\ m + j <= m + n
      OBVIOUS
    <3> QED BY <2>2, <3>1, <3>2
  <2>3. ASSUME NEW j \in 1 .. o, k = m + n + j
        PROVE  r[k].at = c /\ m + n < k
    <3>1. r[m + n + j] = u[j] /\ u[j].at = c
      BY <1>12, <1>14
    <3>2. m + n < m + n + j
      OBVIOUS
    <3> QED BY <2>3, <3>1, <3>2
  <2> QED BY <1>15, <2>1, <2>2, <2>3
<1>18. ASSUME NEW k \in 1 .. Len(r), k > 1
       PROVE  r[k - 1].at <= r[k].at
  <2>1. a <= b /\ b <= c /\ a <= c
    BY <1>3, <1>4
  <2>2. k - 1 \in 1 .. Len(r)
    BY <1>14, <1>18
  <2>3. /\ k - 1 <= m => r[k - 1].at = a
        /\ m < k - 1 /\ k - 1 <= m + n => r[k - 1].at = b
        /\ m + n < k - 1 => r[k - 1].at = c
    BY <1>17, <2>2
  <2>4. /\ k <= m => r[k].at = a
        /\ m < k /\ k <= m + n => r[k].at = b
        /\ m + n < k => r[k].at = c
    BY <1>17
  <2>5. k \in Int /\ (k - 1 <= m \/ (m < k - 1 /\ k - 1 <= m + n) \/ m + n < k - 1)
    BY <1>14
  <2> QED BY <2>1, <2>3, <2>4, <2>5
<1>19. ASSUME NEW i \in Imps, heard[i] # None, NEW l \in {"report"} \cup LinesOf(i)
       PROVE  \E k \in 1 .. Len(r) : r[k] = [at |-> heard[i].at, imp |-> i, line |-> l]
  <2>1. \E j \in 1 .. Len(EventsOf(i)) : EventsOf(i)[j] = [at |-> heard[i].at, imp |-> i, line |-> l]
    BY <1>19, EventsOfReport
  <2>2. CASE i = x
    <3>1. PICK j \in 1 .. m : s[j] = [at |-> heard[i].at, imp |-> i, line |-> l]
      BY <1>5, <1>11, <2>1, <2>2
    <3>2. j \in 1 .. Len(r) /\ r[j] = s[j]
      BY <1>14
    <3> QED BY <3>1, <3>2
  <2>3. CASE i = y
    <3>1. PICK j \in 1 .. n : t[j] = [at |-> heard[i].at, imp |-> i, line |-> l]
      BY <1>6, <1>11, <2>1, <2>3
    <3>2. m + j \in 1 .. Len(r) /\ r[m + j] = t[j]
      BY <1>14
    <3> QED BY <3>1, <3>2
  <2>4. CASE i = z
    <3>1. PICK j \in 1 .. o : u[j] = [at |-> heard[i].at, imp |-> i, line |-> l]
      BY <1>7, <1>11, <2>1, <2>4
    <3>2. m + n + j \in 1 .. Len(r) /\ r[m + n + j] = u[j]
      BY <1>14
    <3> QED BY <3>1, <3>2
  <2> QED BY <1>3, <2>2, <2>3, <2>4
<1> QED BY <1>9, <1>10, <1>16, <1>18, <1>19

------------------------------------------------------------------------------
(* The states that are derived. *)

LEMMA PairedIsAState ==
  ASSUME NEW minus \in LineStates, NEW plus \in LineStates
  PROVE  Paired(minus, plus) \in DerivedStates(2)
<1>1. CASE minus = plus
  <2>1. Paired(minus, plus) = minus
    BY <1>1 DEF Paired
  <2> QED BY <2>1 DEF LineStates, DerivedStates
<1>2. CASE minus # plus /\ {minus, plus} = {"down", "looped"}
  <2>1. Paired(minus, plus) = "contradictory"
    BY <1>2 DEF Paired
  <2> QED BY <2>1 DEF DerivedStates
<1>3. CASE minus # plus /\ minus = "up"
  <2>1. (plus = "down" /\ Paired(minus, plus) = "plus-down") \/ (plus = "looped" /\ Paired(minus, plus) = "plus-looped")
    BY <1>3 DEF Paired, LineStates
  <2> QED BY <2>1 DEF DerivedStates
<1>4. CASE minus # plus /\ plus = "up"
  <2>1. (minus = "down" /\ Paired(minus, plus) = "minus-down") \/ (minus = "looped" /\ Paired(minus, plus) = "minus-looped")
    BY <1>4 DEF Paired, LineStates
  <2> QED BY <2>1 DEF DerivedStates
<1> QED BY <1>1, <1>2, <1>3, <1>4 DEF LineStates

LEMMA LineStateIsAState ==
  ASSUME ReportsInv, NEW l \in Lines, NEW t
  PROVE  LineState(l, heard, t) \in DerivedStates(2)
<1> DEFINE minus == EndState(MinusEnd(l), l, heard, t)
           plus == EndState(PlusEnd(l), l, heard, t)
<1>1. /\ MinusEnd(l) \in Imps /\ PlusEnd(l) \in Imps
      /\ l \in LinesOf(MinusEnd(l)) /\ l \in LinesOf(PlusEnd(l))
  BY EndsOfLine DEF ReportsInv, Tables, LinesOf
<1>2. /\ minus \in {"unknown", "stale"} \/ minus \in LineStates
      /\ plus \in {"unknown", "stale"} \/ plus \in LineStates
  BY <1>1, EndStateIsReported
<1>3. \/ LineState(l, heard, t) \in {"stale", "unknown"}
      \/ /\ LineState(l, heard, t) = Paired(minus, plus)
         /\ minus \notin {"stale", "unknown"} /\ plus \notin {"stale", "unknown"}
  BY LineStateOfEnds
<1>4. {"stale", "unknown"} \subseteq DerivedStates(2)
  BY DEF DerivedStates
<1> HIDE DEF minus, plus
<1> QED BY <1>2, <1>3, <1>4, PairedIsAState

LEMMA ImpStateIsAState ==
  ASSUME NEW i, NEW t
  PROVE  ImpState(i, heard, t) \in DerivedStates(2)
<1>1. ImpState(i, heard, t) \in {"up", "unknown", "partitioned", "stale"}
  BY DEF ImpState
<1> QED BY <1>1 DEF DerivedStates

------------------------------------------------------------------------------
(* The state before the switch. *)

LEMMA LaterOfTwo ==
  ASSUME NEW a \in Int, NEW b \in Int
  PROVE  \E t \in {a, b} : a <= t /\ b <= t
<1>1. a <= b \/ b <= a
  OBVIOUS
<1> QED BY <1>1

LEMMA LastOfTheEnds ==
  ASSUME ReportsInv
  PROVE  /\ LastOf(before, {5, 6}) \in Int /\ LastOf(before, Imps) \in Int
         /\ before[5].at <= LastOf(before, {5, 6}) /\ before[6].at <= LastOf(before, {5, 6})
         /\ LastOf(before, {5, 6}) <= LastOf(before, Imps)
<1>1. \A i \in Imps : before[i].at \in Int
  <2> SUFFICES ASSUME NEW i \in Imps PROVE before[i].at \in Int
    OBVIOUS
  <2>1. before[i] = None \/ before[i] \in Reports(i)
    BY DEF ReportsInv, Decoded
  <2> QED BY <2>1, ReportIsHeard, NoneIsBefore
<1>2. PICK a \in Int, b \in Int, c \in Int : a = before[5].at /\ b = before[6].at /\ c = before[7].at
  BY <1>1 DEF Imps
<1>3. {before[i].at : i \in {5, 6}} = {a, b} /\ {before[i].at : i \in Imps} = {a, b, c}
  BY <1>2 DEF Imps
<1>4. LastOf(before, {5, 6}) = CHOOSE t \in {a, b} : \A u \in {a, b} : u <= t
  BY <1>3 DEF LastOf
<1>5. LastOf(before, Imps) = CHOOSE t \in {a, b, c} : \A u \in {a, b, c} : u <= t
  BY <1>3 DEF LastOf
<1>6. PICK s \in {a, b} : a <= s /\ b <= s
  BY LaterOfTwo
<1>7. \E t \in {s, c} : s <= t /\ c <= t
  BY <1>6, LaterOfTwo
<1>8. \E t \in {a, b, c} : \A u \in {a, b, c} : u <= t
  BY <1>6, <1>7
<1>9. \E t \in {a, b} : \A u \in {a, b} : u <= t
  BY <1>6
<1>10. PICK p : p = LastOf(before, {5, 6})
  OBVIOUS
<1>11. p \in {a, b} /\ \A u \in {a, b} : u <= p
  BY <1>4, <1>9, <1>10
<1>12. PICK q : q = LastOf(before, Imps)
  OBVIOUS
<1>13. q \in {a, b, c} /\ \A u \in {a, b, c} : u <= q
  BY <1>5, <1>8, <1>12
<1> QED BY <1>2, <1>10, <1>11, <1>12, <1>13

(* The state before the switch is derived again, from the reports up to the  *)
(* last one of an end of the line and at its time.                           *)
LEMMA StateBeforeIsDerivedAgain ==
  ASSUME ReportsInv, PreState = "up"
  PROVE  LineState("direct", PreEvents, LastOf(before, {5, 6})) = "up"
<1>1. /\ "direct" \in Lines /\ MinusEnd("direct") = 5 /\ PlusEnd("direct") = 6
      /\ 5 \in Imps /\ 6 \in Imps /\ "direct" \in LinesOf(5) /\ "direct" \in LinesOf(6)
  <2>1. "direct" \in Lines
    BY DEF Lines, Cabled
  <2> QED BY <2>1, EndsOfLine DEF ReportsInv, Tables, LinesOf, Imps
<1>2. PICK t, u : t = LastOf(before, Imps) /\ u = LastOf(before, {5, 6})
  OBVIOUS
<1>3. /\ t \in Int /\ u \in Int /\ u <= t
      /\ before[5].at <= u /\ before[6].at <= u
  BY <1>2, LastOfTheEnds
<1> DEFINE minus == EndState(5, "direct", before, t)
           plus == EndState(6, "direct", before, t)
<1>4. LineState("direct", before, t) = "up"
  BY <1>2 DEF PreState
<1>5. /\ Paired(minus, plus) = "up"
      /\ minus \notin {"stale", "unknown"} /\ plus \notin {"stale", "unknown"}
  <2>1. \/ LineState("direct", before, t) \in {"stale", "unknown"}
        \/ /\ LineState("direct", before, t) = Paired(minus, plus)
           /\ minus \notin {"stale", "unknown"} /\ plus \notin {"stale", "unknown"}
    BY <1>1, LineStateOfEnds
  <2> QED BY <1>4, <2>1
<1>6. minus \in LineStates /\ plus \in LineStates
  BY <1>1, <1>5, EndStateIsReported
<1>7. minus = "up" /\ plus = "up"
  <2> HIDE DEF minus, plus
  <2> QED BY <1>5, <1>6, PairedUp
<1>8. ASSUME NEW i \in {5, 6}
      PROVE  EndState(i, "direct", PreEvents, u) = "up"
  <2>1. i \in Imps /\ "direct" \in LinesOf(i) /\ EndState(i, "direct", before, t) = "up"
    BY <1>1, <1>7
  <2>2. /\ before[i] # None /\ before[i] \in Reports(i) /\ ~Expired(before[i], t)
        /\ before[i].lines["direct"] = "up"
    BY <2>1, EndStateIsReported
  <2>3. before[i].at \in Nat /\ before[i].at <= u /\ Interval \in Int
    BY <1>3, <2>1, <2>2, ReportIsHeard, ConfigurationAssumption
  <2>4. PreEvents[i] = before[i]
    BY <1>2, <2>1, <2>3 DEF PreEvents
  <2>5. ~Expired(before[i], u)
    BY <1>3, <2>2, <2>3 DEF Expired
  <2> QED BY <2>2, <2>4, <2>5 DEF EndState
<1>9. EndState(5, "direct", PreEvents, u) = "up" /\ EndState(6, "direct", PreEvents, u) = "up"
  BY <1>8
<1>10. \/ LineState("direct", PreEvents, u) = Paired("up", "up")
  BY <1>1, <1>9 DEF LineState
<1> QED BY <1>2, <1>10 DEF Paired

------------------------------------------------------------------------------
(* The topology of the summary. *)

(* IMP 7 is of the triangle only.                                            *)
SeventhIsOfTheTriangle == 7 \in alive => cabling = "triangle"

LEMMA SeventhStarts == ReportsInit => SeventhIsOfTheTriangle
<1> SUFFICES ASSUME ReportsInit, cabling # "triangle" PROVE 7 \notin alive
  BY DEF SeventhIsOfTheTriangle
<1>1. alive = {5, 6}
  BY DEF ReportsInit
<1> QED BY <1>1

LEMMA SeventhKept ==
  SeventhIsOfTheTriangle /\ [ReportsNext]_reportVars => SeventhIsOfTheTriangle'
<1> SUFFICES ASSUME [ReportsNext]_reportVars PROVE alive' \subseteq alive /\ cabling' = cabling
  BY DEF SeventhIsOfTheTriangle
<1>1. CASE Switch
  BY <1>1 DEF Switch
<1>2. CASE Disturb
  BY <1>2 DEF Disturb
<1>3. CASE Tick
  BY <1>3 DEF Tick
<1>4. ASSUME NEW i \in Imps, Notice(i)
      PROVE  alive' \subseteq alive /\ cabling' = cabling
  BY <1>4 DEF Notice
<1>5. ASSUME NEW i \in Imps, Report(i)
      PROVE  alive' \subseteq alive /\ cabling' = cabling
  BY <1>5 DEF Report
<1>6. CASE UNCHANGED reportVars
  BY <1>6 DEF reportVars
<1> QED BY <1>1, <1>2, <1>3, <1>4, <1>5, <1>6 DEF ReportsNext

LEMMA EachHasALine ==
  ASSUME cabling = "triangle", NEW i \in Imps
  PROVE  \E l \in Lines : i \in Ends(l)
<1>1. Lines = {"direct", "west", "east"}
  BY DEF Lines, Cabled
<1>2. Ends("direct") = {5, 6} /\ Ends("west") = {5, 7}
  BY DEF Ends
<1> QED BY <1>1, <1>2 DEF Imps

LEMMA TopologyNames ==
  ASSUME ReportsInv
  PROVE  /\ \A e : e \in DOMAIN SharedTopology.endpoints <=>
                     \E l \in Lines : \E i \in Ends(l) : e = <<"end", l, i>>
         /\ \A l \in Lines : \A i \in Ends(l) : SharedTopology.endpoints[<<"end", l, i>>] = <<"imp", i>>
         /\ SharedTopology.components = {<<"imp", i>> : i \in UNION {Ends(l) : l \in Lines}}
         /\ DOMAIN SharedTopology.links = {<<"line", l>> : l \in Lines}
         /\ \A l \in Lines : SharedTopology.links[<<"line", l>>] = {<<"end", l, i>> : i \in Ends(l)}
         /\ SharedTopology.routes = <<>> /\ DOMAIN SharedTopology.routes = {}
<1>1. \A l \in Lines : Ends(l) \subseteq Imps
  BY EndOfLine
<1> DEFINE D == {<<"end", l, i>> : l \in Lines, i \in Imps} \cap
                  UNION {{<<"end", l, i>> : i \in Ends(l)} : l \in Lines}
           K == {<<"line", l>> : l \in Lines}
<1>2. \A e : e \in D <=> \E l \in Lines : \E i \in Ends(l) : e = <<"end", l, i>>
  BY <1>1
<1>3. /\ SharedTopology.endpoints = [e \in D |-> <<"imp", e[3]>>]
      /\ SharedTopology.links = [k \in K |-> {<<"end", k[2], i>> : i \in Ends(k[2])}]
      /\ SharedTopology.routes = <<>>
      /\ SharedTopology.components = {<<"imp", i>> : i \in UNION {Ends(l) : l \in Lines}}
  BY DEF SharedTopology
<1> HIDE DEF D
<1>4. ASSUME NEW l \in Lines, NEW i \in Ends(l)
      PROVE  SharedTopology.endpoints[<<"end", l, i>>] = <<"imp", i>>
  <2>1. <<"end", l, i>> \in D /\ <<"end", l, i>>[3] = i
    BY <1>2
  <2> QED BY <1>3, <2>1
<1>5. ASSUME NEW l \in Lines
      PROVE  SharedTopology.links[<<"line", l>>] = {<<"end", l, i>> : i \in Ends(l)}
  <2>1. <<"line", l>> \in K /\ <<"line", l>>[2] = l
    OBVIOUS
  <2> QED BY <1>3, <2>1
<1> QED BY <1>2, <1>3, <1>4, <1>5

LEMMA TwoIdentifiersOfALine ==
  ASSUME ReportsInv, NEW l \in Lines
  PROVE  Cardinality({<<"end", l, i>> : i \in Ends(l)}) = 2
<1>1. PICK a \in Imps, b \in Imps : Ends(l) = {a, b} /\ a # b
  <2>1. \A a \in Imps, b \in Imps : a < b /\ Ends(l) = {a, b} => a # b
    BY DEF Imps
  <2>2. Ends(l) = {5, 6} \/ Ends(l) = {5, 7} \/ Ends(l) = {6, 7}
    BY DEF Ends, Lines, Cabled
  <2> QED BY <2>2 DEF Imps
<1>2. {<<"end", l, i>> : i \in Ends(l)} = {<<"end", l, a>>, <<"end", l, b>>}
  BY <1>1
<1>3. <<"end", l, a>> # <<"end", l, b>>
  BY <1>1
<1>4. Cardinality({<<"end", l, a>>, <<"end", l, b>>}) = 2
  BY <1>3, PairIsTwo
<1> QED BY <1>2, <1>4

(* The topology of a summary of a line experiment is one.                    *)
LEMMA SharedTopologyIsValid ==
  ASSUME ReportsInv
  PROVE  ValidTopology(SharedTopology)
<1> DEFINE t == SharedTopology
<1>0. t = SharedTopology
  OBVIOUS
<1> HIDE DEF t
<1>1. /\ \A e : e \in DOMAIN t.endpoints <=> \E l \in Lines : \E i \in Ends(l) : e = <<"end", l, i>>
      /\ \A l \in Lines : \A i \in Ends(l) : t.endpoints[<<"end", l, i>>] = <<"imp", i>>
      /\ t.components = {<<"imp", i>> : i \in UNION {Ends(l) : l \in Lines}}
      /\ DOMAIN t.links = {<<"line", l>> : l \in Lines}
      /\ \A l \in Lines : t.links[<<"line", l>>] = {<<"end", l, i>> : i \in Ends(l)}
      /\ DOMAIN t.routes = {}
  BY <1>0, TopologyNames
<1>2. t.components # {}
  <2>1. "direct" \in Lines /\ 5 \in Ends("direct")
    BY DEF Lines, Cabled, Ends
  <2>2. 5 \in UNION {Ends(l) : l \in Lines}
    BY <2>1
  <2>3. <<"imp", 5>> \in t.components
    BY <1>1, <2>2
  <2> QED BY <2>3
<1>3. \A c \in t.components : \E e \in DOMAIN t.endpoints : t.endpoints[e] = c
  <2> SUFFICES ASSUME NEW c \in t.components PROVE \E e \in DOMAIN t.endpoints : t.endpoints[e] = c
    OBVIOUS
  <2>1. PICK l \in Lines : \E i \in Ends(l) : c = <<"imp", i>>
    BY <1>1
  <2>2. PICK i \in Ends(l) : c = <<"imp", i>>
    BY <2>1
  <2>3. <<"end", l, i>> \in DOMAIN t.endpoints /\ t.endpoints[<<"end", l, i>>] = c
    BY <1>1, <2>2
  <2> QED BY <2>3
<1>4. \A k \in DOMAIN t.links : Cardinality(t.links[k]) = 2 /\ t.links[k] \subseteq DOMAIN t.endpoints
  <2> SUFFICES ASSUME NEW l \in Lines
               PROVE  /\ Cardinality(t.links[<<"line", l>>]) = 2
                      /\ t.links[<<"line", l>>] \subseteq DOMAIN t.endpoints
    BY <1>1
  <2>1. t.links[<<"line", l>>] = {<<"end", l, i>> : i \in Ends(l)}
    BY <1>1
  <2>2. {<<"end", l, i>> : i \in Ends(l)} \subseteq DOMAIN t.endpoints
    BY <1>1
  <2> QED BY <2>1, <2>2, TwoIdentifiersOfALine
<1>5. t.components \cap DOMAIN t.endpoints = {}
  <2> SUFFICES ASSUME NEW l \in Lines, NEW i \in Ends(l), NEW j PROVE <<"imp", j>> # <<"end", l, i>>
    BY <1>1
  <2> QED OBVIOUS
<1>6. t.components \cap DOMAIN t.links = {}
  <2> SUFFICES ASSUME NEW l, NEW j PROVE <<"imp", j>> # <<"line", l>>
    BY <1>1
  <2>1. <<"imp", j>>[1] = "imp" /\ <<"line", l>>[1] = "line"
    OBVIOUS
  <2> QED BY <2>1
<1>7. DOMAIN t.endpoints \cap DOMAIN t.links = {}
  <2> SUFFICES ASSUME NEW l, NEW k, NEW i PROVE <<"end", k, i>> # <<"line", l>>
    BY <1>1
  <2> QED OBVIOUS
<1>8. \A j, k \in 1 .. 4 : j < k => TopologyIds(t)[j] \cap TopologyIds(t)[k] = {}
  BY <1>1, <1>5, <1>6, <1>7 DEF TopologyIds
<1> QED BY <1>0, <1>1, <1>2, <1>3, <1>4, <1>8 DEF ValidTopology

LEMMA SubjectsOfTheTriangle ==
  ASSUME ReportsInv, cabling = "triangle"
  PROVE  /\ \A i \in Imps : <<"imp", i>> \in Subjects(SharedTopology)
         /\ \A i \in Imps : \A l \in LinesOf(i) : <<"end", l, i>> \in Subjects(SharedTopology)
         /\ \A l \in Lines : <<"line", l>> \in Subjects(SharedTopology)
<1> DEFINE t == SharedTopology
<1>0. t = SharedTopology
  OBVIOUS
<1> HIDE DEF t
<1>1. /\ \A e : e \in DOMAIN t.endpoints <=> \E l \in Lines : \E i \in Ends(l) : e = <<"end", l, i>>
      /\ t.components = {<<"imp", i>> : i \in UNION {Ends(l) : l \in Lines}}
      /\ DOMAIN t.links = {<<"line", l>> : l \in Lines}
  BY <1>0, TopologyNames
<1>2. \A i \in Imps : <<"imp", i>> \in t.components
  BY <1>1, EachHasALine
<1>3. \A i \in Imps : \A l \in LinesOf(i) : <<"end", l, i>> \in DOMAIN t.endpoints
  BY <1>1 DEF LinesOf
<1>4. t.components \cup DOMAIN t.endpoints \cup DOMAIN t.links \subseteq Subjects(t)
  <2>1. /\ TopologyIds(t)[1] = t.components /\ TopologyIds(t)[2] = DOMAIN t.endpoints
        /\ TopologyIds(t)[3] = DOMAIN t.links
    BY DEF TopologyIds
  <2>2. \A k \in 1 .. 4 : TopologyIds(t)[k] \subseteq Subjects(t)
    BY DEF Subjects
  <2>3. 1 \in 1 .. 4 /\ 2 \in 1 .. 4 /\ 3 \in 1 .. 4
    OBVIOUS
  <2> QED BY <2>1, <2>2, <2>3
<1> QED BY <1>0, <1>1, <1>2, <1>3, <1>4

------------------------------------------------------------------------------
(* The summary. *)

LEMMA ListAndLast ==
  ASSUME NEW S, NEW s \in Seq(S), NEW x \in S, NEW r, r = s \o <<x>>
  PROVE  /\ r \in Seq(S) /\ Len(r) = Len(s) + 1 /\ DOMAIN r = 1 .. Len(s) + 1 /\ Len(s) \in Nat
         /\ \A k \in 1 .. Len(s) : r[k] = s[k]
         /\ r[Len(s) + 1] = x
OBVIOUS

(* One observation for each event, and the verdict.                          *)
LEMMA ObservationsTell ==
  ASSUME ReportsInv
  PROVE  /\ Len(Events) \in Nat /\ Len(SummaryObservations) = Len(Events) + 1
         /\ DOMAIN SummaryObservations = 1 .. Len(Events) + 1
         /\ \A k \in 1 .. Len(Events) :
              /\ SummaryObservations[k].sequence = k
              /\ SummaryObservations[k].at = Events[k].at
              /\ SummaryObservations[k].category = "historical-network"
              /\ SummaryObservations[k].subject =
                   IF Events[k].line = "report" THEN <<"imp", Events[k].imp>>
                   ELSE <<"end", Events[k].line, Events[k].imp>>
         /\ SummaryObservations[Len(Events) + 1] =
              [sequence |-> Len(Events) + 1, at |-> now, category |-> "harness",
               subject |-> <<"line", "direct">>, state |-> "passed"]
<1>1. PICK ev \in Seq(EventRecords) : ev = Events
  BY EventsTell
<1>2. PICK m \in Nat : m = Len(ev)
  BY <1>1
<1> DEFINE Observation(k) ==
             [sequence |-> k, at |-> ev[k].at, category |-> "historical-network",
              subject |-> IF ev[k].line = "report" THEN <<"imp", ev[k].imp>>
                          ELSE <<"end", ev[k].line, ev[k].imp>>,
              state |-> IF ev[k].line = "report" THEN "reported" ELSE heard[ev[k].imp].lines[ev[k].line]]
           last == [sequence |-> m + 1, at |-> now, category |-> "harness",
                    subject |-> <<"line", "direct">>, state |-> "passed"]
           s == [k \in 1 .. m |-> Observation(k)]
           S == {Observation(k) : k \in 1 .. m} \cup {last}
<1>3. DOMAIN ev = 1 .. m
  BY <1>1, <1>2
<1>4. SummaryObservations = s \o <<last>>
  BY <1>1, <1>2, <1>3 DEF SummaryObservations
<1>5. /\ \A k \in 1 .. m : /\ Observation(k).sequence = k /\ Observation(k).at = ev[k].at
                           /\ Observation(k).category = "historical-network"
                           /\ Observation(k).subject = IF ev[k].line = "report" THEN <<"imp", ev[k].imp>>
                                                       ELSE <<"end", ev[k].line, ev[k].imp>>
                           /\ Observation(k) \in S
      /\ last \in S
  OBVIOUS
<1> HIDE DEF Observation, last, S
<1>6. s \in Seq(S) /\ Len(s) = m /\ \A k \in 1 .. m : s[k] = Observation(k)
  <2>1. \A k \in 1 .. m : Observation(k) \in S
    BY <1>5
  <2>2. s \in [1 .. m -> S]
    BY <2>1
  <2> QED BY <2>2
<1> HIDE DEF s
<1>7. /\ Len(SummaryObservations) = m + 1 /\ DOMAIN SummaryObservations = 1 .. m + 1
      /\ \A k \in 1 .. m : SummaryObservations[k] = s[k]
      /\ SummaryObservations[m + 1] = last
  BY <1>4, <1>5, <1>6, ListAndLast
<1>8. SummaryObservations[m + 1] =
        [sequence |-> m + 1, at |-> now, category |-> "harness",
         subject |-> <<"line", "direct">>, state |-> "passed"]
  BY <1>7 DEF last
<1> QED BY <1>1, <1>2, <1>5, <1>6, <1>7, <1>8

LEMMA SummaryObservationsAreValid ==
  ASSUME ReportsInv, cabling = "triangle"
  PROVE  ValidObservations(SummaryObservations, Subjects(SharedTopology), 0, now)
<1>1. PICK obs, ev : obs = SummaryObservations /\ ev = Events
  OBVIOUS
<1>2. PICK S : S = Subjects(SharedTopology)
  OBVIOUS
<1>3. PICK m \in Nat : m = Len(ev)
  BY <1>1, ObservationsTell
<1>4. now \in Nat
  BY ConfigurationAssumption DEF ReportsInv, Tables
<1>5. /\ ev \in Seq(EventRecords)
      /\ \A k \in 1 .. m : /\ heard[ev[k].imp] # None /\ ev[k].at = heard[ev[k].imp].at
                           /\ ev[k].line \in {"report"} \cup LinesOf(ev[k].imp)
      /\ \A k \in 1 .. m : k > 1 => ev[k - 1].at <= ev[k].at
  BY <1>1, <1>3, EventsTell
<1>6. ASSUME NEW k \in 1 .. m
      PROVE  ev[k].at \in Nat /\ ev[k].at <= now /\ ev[k].imp \in Imps
  <2>1. ev[k] \in EventRecords
    BY <1>3, <1>5
  <2>2. ev[k].imp \in Imps /\ ev[k].at \in Nat
    BY <2>1 DEF EventRecords
  <2> QED BY <1>5, <2>2, LastReportsAreDated
<1>7. /\ DOMAIN obs = 1 .. m + 1 /\ Len(obs) = m + 1
      /\ \A k \in 1 .. m :
           /\ obs[k].sequence = k /\ obs[k].at = ev[k].at /\ obs[k].category = "historical-network"
           /\ obs[k].subject = IF ev[k].line = "report" THEN <<"imp", ev[k].imp>>
                               ELSE <<"end", ev[k].line, ev[k].imp>>
  BY <1>1, <1>3, ObservationsTell
<1>8. /\ obs[m + 1].sequence = m + 1 /\ obs[m + 1].at = now /\ obs[m + 1].category = "harness"
      /\ obs[m + 1].subject = <<"line", "direct">>
  <2>1. obs[m + 1] = [sequence |-> m + 1, at |-> now, category |-> "harness",
                      subject |-> <<"line", "direct">>, state |-> "passed"]
    BY <1>1, <1>3, ObservationsTell
  <2> QED BY <2>1
<1>9. obs # <<>>
  BY <1>3, <1>7
<1>10. ASSUME NEW k \in 1 .. m
       PROVE  obs[k].subject \in S
  <2>1. CASE ev[k].line = "report"
    BY <1>2, <1>6, <1>7, <2>1, SubjectsOfTheTriangle
  <2>2. CASE ev[k].line # "report"
    <3>1. ev[k].line \in LinesOf(ev[k].imp)
      BY <1>5, <2>2
    <3>2. obs[k].subject = <<"end", ev[k].line, ev[k].imp>>
      BY <1>7, <2>2
    <3> QED BY <1>2, <1>6, <3>1, <3>2, SubjectsOfTheTriangle
  <2> QED BY <2>1, <2>2
<1>11. <<"line", "direct">> \in S
  <2>1. "direct" \in Lines
    BY DEF Lines, Cabled
  <2> QED BY <1>2, <2>1, SubjectsOfTheTriangle
<1>12. ASSUME NEW k \in 1 .. m
       PROVE  /\ obs[k].sequence = k /\ 0 <= obs[k].at /\ obs[k].at <= now
              /\ k > 1 => obs[k - 1].at <= obs[k].at
              /\ obs[k].category \in Categories /\ obs[k].subject \in S
  <2>1. obs[k].sequence = k /\ 0 <= obs[k].at /\ obs[k].at <= now
    <3>1. obs[k].sequence = k /\ obs[k].at = ev[k].at
      BY <1>7
    <3>2. ev[k].at \in Nat /\ ev[k].at <= now
      BY <1>6
    <3> QED BY <3>1, <3>2
  <2>2. ASSUME k > 1 PROVE obs[k - 1].at <= obs[k].at
    <3>1. k - 1 \in 1 .. m
      BY <1>3, <2>2
    <3> QED BY <1>5, <1>7, <2>2, <3>1
  <2> QED BY <1>7, <1>10, <2>1, <2>2 DEF Categories
<1>13. /\ m + 1 > 1 => obs[m + 1 - 1].at <= obs[m + 1].at
       /\ obs[m + 1].category \in Categories /\ obs[m + 1].subject \in S
       /\ 0 <= obs[m + 1].at /\ obs[m + 1].at <= now
  <2>1. ASSUME m + 1 > 1 PROVE obs[m + 1 - 1].at <= obs[m + 1].at
    <3>1. m \in 1 .. m /\ m + 1 - 1 = m
      BY <1>3, <2>1
    <3> QED BY <1>6, <1>7, <1>8, <3>1
  <2> QED BY <1>4, <1>8, <1>11, <2>1 DEF Categories
<1>14. ASSUME NEW k \in DOMAIN obs
       PROVE  /\ obs[k].sequence = k /\ 0 <= obs[k].at /\ obs[k].at <= now
              /\ k > 1 => obs[k - 1].at <= obs[k].at
              /\ obs[k].category \in Categories /\ obs[k].subject \in S
  <2>1. k \in 1 .. m \/ k = m + 1
    BY <1>3, <1>7
  <2>2. CASE k \in 1 .. m
    BY <1>12, <2>2
  <2>3. CASE k = m + 1
    BY <1>8, <1>13, <2>3
  <2> QED BY <2>1, <2>2, <2>3
<1>15. ValidObservations(obs, S, 0, now)
  BY <1>9, <1>14 DEF ValidObservations
<1> QED BY <1>1, <1>2, <1>15

(* A derived state is of a line or of an IMP, and has support.               *)
LEMMA DerivedTells ==
  /\ \A l \in Lines : LineSupport(l) # {} =>
       /\ <<"line", l>> \in DOMAIN Derived
       /\ Derived[<<"line", l>>] =
            [subject |-> <<"line", l>>, state |-> LineState(l, heard, LastOf(heard, Imps)),
             basis |-> "inference", support |-> LineSupport(l)]
  /\ \A i \in alive : ImpSupport(i) # {} =>
       LET state == ImpState(i, heard, LastOf(heard, Imps)) IN
       Derived[<<"imp", i>>] =
         [subject |-> <<"imp", i>>, state |-> state,
          basis |-> IF state = "up" THEN "direct" ELSE "inference", support |-> ImpSupport(i)]
  /\ \A d \in DOMAIN Derived :
       \/ \E l \in Lines : d = <<"line", l>> /\ LineSupport(l) # {}
       \/ \E i \in alive : d = <<"imp", i>> /\ ImpSupport(i) # {}
<1> DEFINE supported == {<<"line", l>> : l \in {m \in Lines : LineSupport(m) # {}}} \cup
                        {<<"imp", i>> : i \in {j \in alive : ImpSupport(j) # {}}}
           State(d) == IF d[1] = "line" THEN LineState(d[2], heard, LastOf(heard, Imps))
                       ELSE ImpState(d[2], heard, LastOf(heard, Imps))
           Of(d) == [subject |-> d, state |-> State(d),
                     basis |-> IF d[1] = "imp" /\ State(d) = "up" THEN "direct" ELSE "inference",
                     support |-> IF d[1] = "line" THEN LineSupport(d[2]) ELSE ImpSupport(d[2])]
<1>1. Derived = [d \in supported |-> Of(d)]
  BY DEF Derived
<1>2. ASSUME NEW l \in Lines, LineSupport(l) # {}
      PROVE  /\ <<"line", l>> \in supported
             /\ Of(<<"line", l>>) =
                  [subject |-> <<"line", l>>, state |-> LineState(l, heard, LastOf(heard, Imps)),
                   basis |-> "inference", support |-> LineSupport(l)]
  <2>1. <<"line", l>>[1] = "line" /\ <<"line", l>>[2] = l /\ "line" # "imp"
    OBVIOUS
  <2> QED BY <1>2, <2>1
<1>3. ASSUME NEW i \in alive, ImpSupport(i) # {},
             NEW state, state = ImpState(i, heard, LastOf(heard, Imps))
      PROVE  /\ <<"imp", i>> \in supported
             /\ Of(<<"imp", i>>) =
                  [subject |-> <<"imp", i>>, state |-> state,
                   basis |-> IF state = "up" THEN "direct" ELSE "inference", support |-> ImpSupport(i)]
  <2>1. <<"imp", i>>[1] = "imp" /\ <<"imp", i>>[2] = i /\ "line" # "imp"
    OBVIOUS
  <2> QED BY <1>3, <2>1
<1>4. \A d \in supported : \/ \E l \in Lines : d = <<"line", l>> /\ LineSupport(l) # {}
                           \/ \E i \in alive : d = <<"imp", i>> /\ ImpSupport(i) # {}
  OBVIOUS
<1> HIDE DEF supported, Of
<1> QED BY <1>1, <1>2, <1>3, <1>4

LEMMA DerivedIsValid ==
  ASSUME ReportsInv, cabling = "triangle"
  PROVE  ValidDerived(Derived, 2, Subjects(SharedTopology), SummaryObservations)
<1>1. PICK obs, S, D : obs = SummaryObservations /\ S = Subjects(SharedTopology) /\ D = Derived
  OBVIOUS
<1>2. DOMAIN Events \subseteq DOMAIN obs
  <2>1. /\ Len(Events) \in Nat /\ DOMAIN obs = 1 .. Len(Events) + 1
    BY <1>1, ObservationsTell
  <2>2. DOMAIN Events = 1 .. Len(Events)
    BY EventsTell
  <2> QED BY <2>1, <2>2
<1>3. ASSUME NEW l \in Lines, LineSupport(l) # {}, NEW d, d = <<"line", l>>
      PROVE  /\ D[d].subject \in S /\ D[d].state \in DerivedStates(2)
             /\ D[d].support # {} /\ D[d].support \subseteq DOMAIN obs
             /\ D[d].state \in {"contradictory", "partitioned"} => D[d].basis = "inference"
  <2>1. PICK state : state = LineState(l, heard, LastOf(heard, Imps))
    OBVIOUS
  <2>2. D[d] = [subject |-> d, state |-> state, basis |-> "inference", support |-> LineSupport(l)]
    BY <1>1, <1>3, <2>1, DerivedTells
  <2>3. state \in DerivedStates(2) /\ d \in S /\ LineSupport(l) \subseteq DOMAIN obs
    BY <1>1, <1>2, <1>3, <2>1, LineStateIsAState, SubjectsOfTheTriangle DEF LineSupport
  <2>4. D[d].subject = d /\ D[d].state = state /\ D[d].basis = "inference" /\ D[d].support = LineSupport(l)
    BY <2>2
  <2> QED BY <1>3, <2>3, <2>4
<1>4. ASSUME NEW i \in alive, ImpSupport(i) # {}, NEW d, d = <<"imp", i>>
      PROVE  /\ D[d].subject \in S /\ D[d].state \in DerivedStates(2)
             /\ D[d].support # {} /\ D[d].support \subseteq DOMAIN obs
             /\ D[d].state \in {"contradictory", "partitioned"} => D[d].basis = "inference"
  <2>1. PICK state : state = ImpState(i, heard, LastOf(heard, Imps))
    OBVIOUS
  <2>2. PICK basis : basis = IF state = "up" THEN "direct" ELSE "inference"
    OBVIOUS
  <2>3. D[d] = [subject |-> d, state |-> state, basis |-> basis, support |-> ImpSupport(i)]
    BY <1>1, <1>4, <2>1, <2>2, DerivedTells
  <2>4. i \in Imps
    BY DEF ReportsInv, Tables
  <2>5. state \in DerivedStates(2) /\ d \in S /\ ImpSupport(i) \subseteq DOMAIN obs
    BY <1>1, <1>2, <1>4, <2>1, <2>4, ImpStateIsAState, SubjectsOfTheTriangle DEF ImpSupport
  <2>6. D[d].subject = d /\ D[d].state = state /\ D[d].basis = basis /\ D[d].support = ImpSupport(i)
    BY <2>3
  <2> QED BY <1>4, <2>2, <2>5, <2>6
<1>5. \A d \in DOMAIN D : \/ \E l \in Lines : d = <<"line", l>> /\ LineSupport(l) # {}
                          \/ \E i \in alive : d = <<"imp", i>> /\ ImpSupport(i) # {}
  BY <1>1, DerivedTells
<1>6. ValidDerived(D, 2, S, obs)
  BY <1>3, <1>4, <1>5 DEF ValidDerived
<1> QED BY <1>1, <1>6

(* The state of the direct line rests on what its two IMPs reported.         *)
LEMMA DirectIsSupported ==
  ASSUME ReportsInv, heard[5] # None, heard[6] # None
  PROVE  /\ {Events[k].imp : k \in LineSupport("direct")} = {5, 6}
         /\ LineSupport("direct") # {} /\ LineSupport("direct") \subseteq 1 .. Len(Events)
<1>1. /\ "direct" \in Lines /\ Ends("direct") = {5, 6} /\ 5 \in Imps /\ 6 \in Imps
      /\ "direct" \in LinesOf(5) /\ "direct" \in LinesOf(6)
  BY DEF Lines, Cabled, Ends, Imps, LinesOf
<1>2. PICK ev : ev = Events
  OBVIOUS
<1>3. /\ DOMAIN ev = 1 .. Len(ev)
      /\ \A k \in 1 .. Len(ev) : ev[k].line \in {"report"} \cup LinesOf(ev[k].imp)
  BY <1>2, EventsTell
<1>4. ASSUME NEW i \in {5, 6}
      PROVE  \E k \in 1 .. Len(ev) : ev[k].line = "direct" /\ ev[k].imp = i
  <2>1. PICK k \in 1 .. Len(ev) : ev[k] = [at |-> heard[i].at, imp |-> i, line |-> "direct"]
    BY <1>1, <1>2, EventsTell
  <2> QED BY <2>1
<1>5. \A k \in 1 .. Len(ev) : ev[k].line = "direct" => ev[k].imp \in {5, 6}
  BY <1>1, <1>3 DEF LinesOf
<1>6. LineSupport("direct") = {k \in 1 .. Len(ev) : ev[k].line = "direct"}
  BY <1>2, <1>3 DEF LineSupport
<1> QED BY <1>2, <1>4, <1>5, <1>6

LEMMA SummaryGatesAreValid ==
  ASSUME ReportsInv, heard[5] # None, heard[6] # None
  PROVE  ValidGates(SummaryDocument.gates, Derived, SummaryObservations)
<1>1. PICK obs, D, m, support : /\ obs = SummaryObservations /\ D = Derived /\ m = Len(Events)
                                /\ support = LineSupport("direct")
  OBVIOUS
<1>2. support # {} /\ support \subseteq 1 .. m /\ m \in Nat /\ DOMAIN obs = 1 .. m + 1 /\ Len(obs) = m + 1
  BY <1>1, DirectIsSupported, ObservationsTell
<1>3. /\ <<"line", "direct">> \in DOMAIN D
      /\ D[<<"line", "direct">>].basis = "inference" /\ D[<<"line", "direct">>].support = support
  <2>1. "direct" \in Lines
    BY DEF Lines, Cabled
  <2>2. PICK state : state = LineState("direct", heard, LastOf(heard, Imps))
    OBVIOUS
  <2>3. <<"line", "direct">> \in DOMAIN D
    BY <1>1, <1>2, <2>1, DerivedTells
  <2>4. D[<<"line", "direct">>] = [subject |-> <<"line", "direct">>, state |-> state,
                                   basis |-> "inference", support |-> support]
    BY <1>1, <1>2, <2>1, <2>2, DerivedTells
  <2> QED BY <2>3, <2>4
<1>4. PICK evidence, states : evidence = support \cup {m + 1} /\ states = {<<"line", "direct">>}
  OBVIOUS
<1>5. PICK gate : gate = [kind |-> "network-behavior", verdict |-> "passed",
                          evidence |-> evidence, states |-> states]
  OBVIOUS
<1>6. SummaryDocument.gates = {gate}
  BY <1>1, <1>2, <1>4, <1>5 DEF SummaryDocument
<1>7. /\ gate.kind = "network-behavior" /\ gate.verdict = "passed"
      /\ gate.evidence = evidence /\ gate.states = states
  BY <1>5
<1>8. obs[m + 1].category = "harness" /\ obs[m + 1].state = "passed"
  <2>1. obs[m + 1] = [sequence |-> m + 1, at |-> now, category |-> "harness",
                      subject |-> <<"line", "direct">>, state |-> "passed"]
    BY <1>1, ObservationsTell
  <2> QED BY <2>1
<1>9. \A k \in support : obs[k].category = "historical-network"
  BY <1>1, <1>2, ObservationsTell
<1>10. NetworkGate(gate, D, obs)
  BY <1>3, <1>4, <1>7, <1>8, <1>9 DEF NetworkGate
<1>11. evidence # {} /\ evidence \subseteq DOMAIN obs /\ states \subseteq DOMAIN D
  BY <1>2, <1>3, <1>4
<1>12. ValidGates({gate}, D, obs)
  BY <1>7, <1>10, <1>11 DEF ValidGates
<1> QED BY <1>1, <1>6, <1>12

LEMMA SummaryDocumentIsValid ==
  ASSUME ReportsInv, cabling = "triangle", heard[5] # None, heard[6] # None
  PROVE  ValidSummary(SummaryDocument)
<1>1. PICK s : s = SummaryDocument
  OBVIOUS
<1>2. /\ s.version = 2 /\ s.started = 0 /\ s.finished = now /\ s.outcome = "passed"
      /\ s.topology = SharedTopology /\ s.observations = SummaryObservations /\ s.derived = Derived
      /\ \A gate \in s.gates : gate.verdict = "passed"
  BY <1>1 DEF SummaryDocument
<1>3. ValidTopology(s.topology)
  BY <1>2, SharedTopologyIsValid
<1>4. ValidObservations(s.observations, Subjects(s.topology), s.started, s.finished)
  BY <1>2, SummaryObservationsAreValid
<1>5. ValidDerived(s.derived, s.version, Subjects(s.topology), s.observations)
  BY <1>2, DerivedIsValid
<1>6. ValidGates(s.gates, s.derived, s.observations)
  BY <1>1, <1>2, SummaryGatesAreValid
<1>7. s.started <= s.finished
  BY <1>2, ConfigurationAssumption DEF ReportsInv, Tables
<1>8. s.outcome # "failed"
  BY <1>2
<1> QED BY <1>1, <1>2, <1>3, <1>4, <1>5, <1>6, <1>7, <1>8 DEF ValidSummary

LEMMA PassedRunsAreSummarized ==
  ASSUME ReportsInv, SeventhIsOfTheTriangle
  PROVE  PassedRunIsSummarized
<1> SUFFICES ASSUME RunPassed PROVE Summarizes
  BY PassedRunsSawTheSwitch DEF PassedRunIsSummarized
<1>1. PreState = "up" /\ ReportsCovered /\ switched >= 0 /\ VerdictPassed /\ alive = Imps
  BY DEF RunPassed, VerdictPassed, CutPassed, LoopPassed, Evaluable
<1>2. mode \in {"fault", "loopback"}
  BY <1>1 DEF ReportsInv, Tables
<1>3. FinalState = Target
  BY <1>1, <1>2 DEF VerdictPassed, CutPassed, LoopPassed, Target
<1>4. before[5] # None /\ heard[5] # None /\ heard[6] # None
  BY <1>1, PreStateIsReported DEF ReportsCovered, Imps
<1>5. cabling = "triangle"
  BY <1>1 DEF SeventhIsOfTheTriangle, Imps
<1>6. VerdictAccepted
  BY <1>1, <1>3, <1>4 DEF VerdictAccepted
<1>7. LineState("direct", PreEvents, LastOf(before, {5, 6})) = "up"
  BY <1>1, StateBeforeIsDerivedAgain
<1>8. LineState("direct", heard, LastOf(heard, Imps)) = FinalState
  BY DEF FinalState
<1>9. {Events[k].imp : k \in LineSupport("direct")} = {5, 6}
  BY <1>4, DirectIsSupported
<1>10. ValidSummary(SummaryDocument)
  BY <1>4, <1>5, SummaryDocumentIsValid
<1> QED BY <1>6, <1>7, <1>8, <1>9, <1>10 DEF Summarizes

(* A run that passed saw the switch, and its summary is valid and derives    *)
(* the same states of the direct line from the same events, though it cuts   *)
(* them at another report.                                                   *)
THEOREM PassedRunIsAlwaysSummarized == ReportsSpec => []PassedRunIsSummarized
<1>1. ReportsSpec => []SeventhIsOfTheTriangle
  BY SeventhStarts, SeventhKept, PTL DEF ReportsSpec
<1>2. ReportsInv /\ SeventhIsOfTheTriangle => PassedRunIsSummarized
  BY PassedRunsAreSummarized
<1> QED BY ReportsAreOfTheNetwork, <1>1, <1>2, PTL

------------------------------------------------------------------------------
(* All three parts. *)

LEMMA EachPartRuns ==
  MCSpec => Spec /\ ReportsSpec /\ TraceSpec
<1>1. MCInit => Init /\ ReportsInit /\ TraceInit
  BY DEF MCInit
<1>2. [MCNext]_<<part, streamVars, reportVars, journeyVars>> =>
        [Next]_streamVars /\ [ReportsNext]_reportVars /\ [TraceNext]_journeyVars
  BY Zenon DEF MCNext
<1> QED BY <1>1, <1>2, PTL DEF MCSpec, Spec, ReportsSpec, TraceSpec

(* Whichever part runs, the variables of all three hold what they may: the   *)
(* stream's, the reports' and the traces'.                                   *)
THEOREM ReportsTypesHold == MCSpec => []TypesHold
<1>1. TypeOK /\ ReportsTypeOK /\ TraceTypeOK => TypesHold
  BY DEF TypesHold
<1> QED BY <1>1, EachPartRuns, StreamTypesHold, ReportTypesHold, TraceTypesHold, PTL
================================================================================
