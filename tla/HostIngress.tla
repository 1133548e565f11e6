------------------------------ MODULE HostIngress ------------------------------
(***************************************************************************)
(* The passive receiver at an IMP's host interface:                        *)
(* ncc/host_interface.py reassembles what the IMP sends over UDP,          *)
(* ncc/imp_to_host.py and the report decoders tell reports from the rest,  *)
(* scripts/ncc-host-interface-proof.py runs them until its deadline and    *)
(* ncc/historical_events.py records the events of the reports.             *)
(*                                                                         *)
(* The wire loses datagrams, repeats them and lets them overtake each      *)
(* other, and the IMP starts its numbering at zero again when its host     *)
(* interface restarts.  A datagram carries a single word, named by where   *)
(* it comes from.  The 16-bit checksum of a report is taken to be perfect. *)
(***************************************************************************)
EXTENDS Naturals, Sequences, SequencesExt

CONSTANTS
  MaxPackets,    \* datagrams the IMP sends
  MaxLives,      \* lives of its interface
  MaxWireFaults  \* datagrams lost or delivered once more

ASSUME IngressAssumption ==
  MaxPackets \in Nat /\ MaxLives \in Nat \ {0} /\ MaxWireFaults \in Nat

(* A damaged report has a bad checksum or leader; a foreign one comes from   *)
(* an IMP that is not in the topology.                                       *)
Kinds == {"trouble", "throughput", "chatter", "damaged", "foreign"}

(* A trouble report takes two datagrams.                                     *)
Parts(kind) == IF kind = "trouble" THEN 2 ELSE 1

VARIABLES
  imp,         \* the IMP: life of its interface, next sequence number, datagrams sent
  wireFaults,  \* what the wire has done so far
  rx,          \* PassiveHostIngress: last sequence number (0 when none, else one more), words
  messages,    \* the messages of the proof, in order of arrival
  events,      \* direct events of the reports
  record,      \* lines of the event record after its header
  proof        \* where the proof is: listening, decoded, recorded, or how it ended

ingressVars == <<imp, wireFaults, rx, messages, events, record, proof>>

IngressInit ==
  /\ imp = [life |-> 1, next |-> 0, sent |-> <<>>]
  /\ wireFaults = 0
  /\ rx = [last |-> 0, words |-> <<>>]
  /\ messages = <<>> /\ events = <<>> /\ record = <<>>
  /\ proof = "listening"

------------------------------------------------------------------------------
(* PassiveHostIngress. *)

(* Mutant: a gap leaves the words that came before it. *)
KeptOverGap(w) == w.seq # 0

Kept(w) == w.seq # 0 /\ w.seq <= rx.last

(* Mutant: off by one, a datagram that follows the last is rejected. *)
TakenPast(w) == w.seq = 0 \/ w.seq > rx.last

(* Number zero restarts the numbering; any other must be past the last.      *)
Taken(w) == w.seq = 0 \/ w.seq >= rx.last

(* Mutant: datagrams are counted. *)
CountedNumber(w) == rx.last + 1

Numbered(w) == w.seq + 1

EndsMessage(w) == w.part = Parts(w.kind)

(* What is left of the message under way, with the words of w.               *)
Assembled(w) == (IF Kept(w) THEN rx.words ELSE <<>>)
                \o IF w.kind = "ready" THEN <<>> ELSE <<w>>

(* A flag-only datagram ends no message.                                     *)
Completes(w) == w.kind # "ready" /\ EndsMessage(w)

(* A datagram has arrived.  A message is stamped with the clock of the host, *)
(* which may be set back between two messages.                               *)
Receive(w) ==
  \/ ~Taken(w) /\ proof' = "rejected" /\ UNCHANGED <<rx, messages>>
  \/ /\ Taken(w) /\ ~Completes(w)
     /\ rx' = [last |-> Numbered(w), words |-> Assembled(w)]
     /\ UNCHANGED <<messages, proof>>
  \/ /\ Taken(w) /\ Completes(w)
     /\ rx' = [last |-> Numbered(w), words |-> <<>>]
     /\ \E at \in 1 .. 2 : messages' = Append(messages, [words |-> Assembled(w), at |-> at])
     /\ UNCHANGED proof

------------------------------------------------------------------------------
(* The IMP and the wire. *)

(* The part of a message that is sent next; "ready" is a datagram of flags.  *)
Unfinished == imp.next > 0 /\ ~EndsMessage(Last(imp.sent))

Emitted ==
  {[life |-> imp.life, seq |-> imp.next, kind |-> k, part |-> p] :
     k \in IF Unfinished THEN {"trouble"} ELSE Kinds \cup {"ready"},
     p \in IF Unfinished THEN {2} ELSE {1}}

SendDatagram ==
  /\ proof = "listening" /\ Len(imp.sent) < MaxPackets
  /\ \E w \in Emitted :
       /\ imp' = [imp EXCEPT !.next = @ + 1, !.sent = Append(@, w)]
       /\ \/ Receive(w) /\ UNCHANGED wireFaults
          \/ wireFaults < MaxWireFaults /\ wireFaults' = wireFaults + 1 /\ UNCHANGED <<rx, messages, proof>>
  /\ UNCHANGED <<events, record>>

(* A datagram arrives late, or once more.                                    *)
Repeat ==
  /\ proof = "listening" /\ wireFaults < MaxWireFaults
  /\ \E i \in DOMAIN imp.sent : Receive(imp.sent[i])
  /\ wireFaults' = wireFaults + 1
  /\ UNCHANGED <<imp, events, record>>

Restart ==
  /\ proof = "listening" /\ imp.life < MaxLives /\ imp.next > 0
  /\ imp' = [imp EXCEPT !.life = @ + 1, !.next = 0]
  /\ UNCHANGED <<wireFaults, rx, messages, events, record, proof>>

------------------------------------------------------------------------------
(* The proof. *)

(* All the parts of one message, in their order.                             *)
WholeMessage(words) ==
  /\ Head(words).part = 1 /\ EndsMessage(Last(words)) /\ Len(words) = Last(words).part
  /\ \A i \in DOMAIN words : /\ words[i].life = Head(words).life
                             /\ words[i].kind = Head(words).kind
                             /\ words[i].seq = Head(words).seq + i - 1

(* What the first body word says.  Without the beginning of its message it   *)
(* is any word: it passes for a report or it does not.                       *)
Code(words, guess) ==
  IF Head(words).part = 1 THEN Head(words).kind ELSE guess

Unusable(m, guess) ==
  /\ Code(m.words, guess) # "chatter"
  /\ ~WholeMessage(m.words) \/ Head(m.words).kind = "damaged"

(* A trouble report is one event and one for each host and line; here two.   *)
EventsOf(m) == IF Head(m.words).kind \in {"trouble", "foreign"} THEN <<m, m>> ELSE <<m>>

(* The pass over the messages, in their order: the events of the reports     *)
(* among them, numbered as they come.                                        *)
Reported(ms, guess) ==
  FlattenSeq([i \in DOMAIN ms |->
    IF Code(ms[i].words, guess) = "chatter" THEN <<>> ELSE EventsOf(ms[i])])
AllEvents(ms, guess) ==
  [k \in DOMAIN Reported(ms, guess) |-> [seq |-> k, of |-> Reported(ms, guess)[k]]]

(* The deadline is over.                                                     *)
Decode ==
  /\ proof = "listening"
  /\ \E guess \in {"chatter", "damaged"} :
       IF \E i \in DOMAIN messages : Unusable(messages[i], guess)
       THEN proof' = "rejected" /\ UNCHANGED events
       ELSE proof' = "decoded" /\ events' = AllEvents(messages, guess)
  /\ UNCHANGED <<imp, wireFaults, rx, messages, record>>

(* Mutant: the batch is written as it comes. *)
AnyEvents(es) == TRUE

(* _validate_event_records, which the reader runs again.                     *)
ValidEvents(es) ==
  \A i \in DOMAIN es : /\ es[i].seq = i
                       /\ Head(es[i].of.words).kind # "foreign"
                       /\ i > 1 => es[i].of.at >= es[i - 1].of.at

(* HistoricalEventRecorder.append checks the batch before its first line.    *)
WriteEvent ==
  /\ proof = "decoded"
  /\ IF ~ValidEvents(events)
     THEN proof' = "unrecorded" /\ UNCHANGED record
     ELSE IF Len(record) < Len(events)
     THEN record' = Append(record, events[Len(record) + 1]) /\ UNCHANGED proof
     ELSE proof' = "recorded" /\ UNCHANGED record
  /\ UNCHANGED <<imp, wireFaults, rx, messages, events>>

(* The result is written, then the requirements of the proof are looked at.  *)
Finish ==
  /\ proof = "recorded"
  /\ proof' = IF rx.last = 0 \/ messages = <<>> THEN "failed" ELSE "passed"
  /\ UNCHANGED <<imp, wireFaults, rx, messages, events, record>>

KillProof ==
  /\ proof \in {"listening", "decoded", "recorded"}
  /\ proof' = "killed"
  /\ UNCHANGED <<imp, wireFaults, rx, messages, events, record>>

IngressNext ==
  \/ SendDatagram \/ Repeat \/ Restart \/ Decode \/ WriteEvent \/ Finish \/ KillProof

IngressSpec == IngressInit /\ [][IngressNext]_ingressVars

------------------------------------------------------------------------------
IngressTypeOK ==
  /\ imp.life \in 1 .. MaxLives /\ imp.next \in 0 .. MaxPackets
  /\ wireFaults \in 0 .. MaxWireFaults
  /\ rx.last \in 0 .. MaxPackets /\ Len(rx.words) <= MaxPackets
  /\ \A i \in DOMAIN messages : messages[i].words # <<>> /\ messages[i].at \in 1 .. 2
  /\ Len(record) <= Len(events)
  /\ proof \in {"listening", "decoded", "recorded", "unrecorded",
                "rejected", "failed", "passed", "killed"}

(* A number for which no datagram carried words: it was one of flags only.   *)
FlagsOnly(n) == \E i \in DOMAIN imp.sent : imp.sent[i].kind = "ready" /\ imp.sent[i].seq = n

(* A message the receiver hands over is an unbroken run of datagrams: where  *)
(* a number is missing, what came before it is never joined to what came     *)
(* after, unless a datagram without words took the number; and an interface  *)
(* that never restarted sends none of these inside a message.                *)
MessagesSpanNoGap ==
  \A i \in DOMAIN messages :
    LET words == messages[i].words
    IN \A j \in 1 .. Len(words) - 1 :
         /\ words[j].seq < words[j + 1].seq
         /\ \A n \in words[j].seq + 1 .. words[j + 1].seq - 1 : FlagsOnly(n)
         /\ imp.life = 1 => words[j + 1].seq = words[j].seq + 1
         /\ ~EndsMessage(words[j])

(* On a wire that misbehaved in nothing the receiver rejects no datagram and *)
(* hands over what an interface that did not restart has sent: every message *)
(* that is finished, once, in order and whole.                               *)
GoodWireDelivers ==
  (wireFaults = 0 /\ imp.life = 1) =>
    /\ proof = "rejected" => \E i \in DOMAIN messages : messages[i].words[1].kind = "damaged"
    /\ FlattenSeq([i \in DOMAIN messages |-> messages[i].words]) \o rx.words
         = FlattenSeq([i \in DOMAIN imp.sent |->
                         IF imp.sent[i].kind = "ready" THEN <<>> ELSE <<imp.sent[i]>>])

(* Every event is of a report that arrived whole; whenever the receiver is   *)
(* killed, what stands in the record is a numbered beginning of the events   *)
(* that the strict reader accepts, and nothing of a run that was rejected.   *)
RecordReadsBack ==
  /\ \A i \in DOMAIN events : WholeMessage(events[i].of.words)
  /\ record = SubSeq(events, 1, Len(record))
  /\ \A i \in DOMAIN record : /\ record[i].seq = i
                              /\ Head(record[i].of.words).kind \in {"trouble", "throughput"}
                              /\ i > 1 => record[i].of.at >= record[i - 1].of.at
  /\ proof \in {"rejected", "unrecorded"} => record = <<>>

(* The receiver joins nothing across a gap, loses nothing that arrived in    *)
(* order, and leaves a record that its reader accepts.                       *)
(* (HostInterfaceReceiver.receive, write_events)                             *)
IngressIsFaithful == MessagesSpanNoGap /\ GoodWireDelivers /\ RecordReadsBack
================================================================================
