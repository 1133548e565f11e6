---------------------------- MODULE HostIngressProofs ----------------------------
(***************************************************************************)
(* IngressInv is inductive, for any number of datagrams, of lives of the   *)
(* interface and of faults of the wire.  The words of a message under way  *)
(* are an unbroken run that ends where the receiver is (UnderWay): a       *)
(* number between two of them is of a datagram of flags only, which an     *)
(* interface in its first life does not send inside a message              *)
(* (PartsInOrder, NextOfFirstLife).  Over a wire without faults the        *)
(* receiver is as far as the interface (KeptUp), so a datagram more is the *)
(* next of what is under way, or ends it (GoodWireReceives).  What is      *)
(* decoded is of whole messages and the record is a beginning of it        *)
(* (DecodedInOrder).                                                       *)
(***************************************************************************)
EXTENDS HostIngress, ListLemmas

Datagrams == [life : Nat, seq : Nat, kind : Kinds \cup {"ready"}, part : {1, 2}]
Carrying == {w \in Datagrams : w.kind # "ready"}
Joined == [words : Seq(Carrying), at : 1..2]
ReportEvents == [seq : Nat, of : Joined]

IngressTables ==
  /\ imp \in [life : 1..MaxLives, next : Nat, sent : Seq(Datagrams)]
  /\ wireFaults \in 0..MaxWireFaults
  /\ rx \in [last : Nat, words : Seq(Carrying)]
  /\ messages \in Seq(Joined)
  /\ events \in Seq(ReportEvents) /\ record \in Seq(ReportEvents)
  /\ proof \in {"listening", "decoded", "recorded", "unrecorded",
                "rejected", "failed", "passed", "killed"}

(* The numbers of the datagrams; those of the first life count them.         *)
SentInOrder ==
  /\ Len(imp.sent) <= MaxPackets /\ imp.next <= Len(imp.sent)
  /\ \A i \in 1..Len(imp.sent) : /\ imp.sent[i].seq < Len(imp.sent)
                                 /\ imp.sent[i].part = 2 => imp.sent[i].kind = "trouble"
  /\ imp.life = 1 => /\ imp.next = Len(imp.sent)
                     /\ \A i \in 1..Len(imp.sent) : imp.sent[i].seq = i - 1 /\ imp.sent[i].life = 1

(* A message is ds without another datagram between its parts.             *)
Parted(v, w) ==
  IF EndsMessage(v) THEN w.part = 1
  ELSE w.part = 2 /\ w.kind = "trouble"
PartsInOrder ==
  imp.life = 1 => /\ \A i \in 1..Len(imp.sent) - 1 : Parted(imp.sent[i], imp.sent[i + 1])
                  /\ imp.sent # <<>> => imp.sent[1].part = 1

RunsOn(v, w) ==
  /\ v.seq < w.seq /\ \A n \in v.seq + 1 .. w.seq - 1 : FlagsOnly(n)
  /\ imp.life = 1 => w.seq = v.seq + 1
  /\ ~EndsMessage(v)

Unbroken(words) == \A j \in 1..Len(words) - 1 : RunsOn(words[j], words[j + 1])

(* What has been received of a message that has not ended.                   *)
UnderWay ==
  /\ rx.last <= Len(imp.sent) /\ Len(rx.words) <= rx.last
  /\ Unbroken(rx.words)
  /\ \A k \in 1..Len(rx.words) : \E i \in 1..Len(imp.sent) : rx.words[k] = imp.sent[i]
  /\ rx.words # <<>> =>
       LET v == rx.words[Len(rx.words)]
       IN /\ v.seq < rx.last /\ ~EndsMessage(v)
          /\ \A n \in v.seq + 1 .. rx.last - 1 : FlagsOnly(n)

MessagesUnbroken ==
  \A i \in 1..Len(messages) : messages[i].words # <<>> /\ Unbroken(messages[i].words)

(* Over a good wire the receiver is as far as the interface.                 *)
KeptUp ==
  wireFaults = 0 /\ imp.life = 1 =>
    /\ rx.last = Len(imp.sent)
    /\ rx.words = IF imp.sent = <<>> \/ EndsMessage(imp.sent[Len(imp.sent)]) THEN <<>>
                  ELSE <<imp.sent[Len(imp.sent)]>>
    /\ \A i \in 1..Len(messages) : WholeMessage(messages[i].words)

(* What is decoded and recorded.                                             *)
DecodedInOrder ==
  /\ \A i \in 1..Len(events) : /\ WholeMessage(events[i].of.words)
                               /\ Head(events[i].of.words).kind \in {"trouble", "throughput", "foreign"}
  /\ Len(record) <= Len(events) /\ \A i \in 1..Len(record) : record[i] = events[i]
  /\ record # <<>> => ValidEvents(events) /\ proof \notin {"rejected", "unrecorded"}
  /\ proof = "listening" => events = <<>>

IngressInv ==
  /\ IngressTables /\ SentInOrder /\ PartsInOrder /\ UnderWay /\ MessagesUnbroken
  /\ KeptUp /\ GoodWireDelivers /\ DecodedInOrder

------------------------------------------------------------------------------
LEMMA EndsByKind ==
  ASSUME NEW w \in Datagrams, w.part = 2 => w.kind = "trouble"
  PROVE  EndsMessage(w) <=> w.kind # "trouble" \/ w.part = 2
BY DEF EndsMessage, Parts, Datagrams

(* What has been ds stays, and lives only go on.                           *)
SentStays ==
  /\ imp.life <= imp'.life
  /\ Len(imp.sent) <= Len(imp'.sent)
  /\ \A i \in 1..Len(imp.sent) : imp'.sent[i] = imp.sent[i]

LEMMA RunsOnStays ==
  ASSUME IngressTables, imp' \in [life : 1..MaxLives, next : Nat, sent : Seq(Datagrams)], SentStays
  PROVE  /\ \A n : FlagsOnly(n) => FlagsOnly(n)'
         /\ \A v, w : RunsOn(v, w) => RunsOn(v, w)'
<1>1. /\ imp.sent \in Seq(Datagrams) /\ imp'.sent \in Seq(Datagrams)
      /\ imp.life \in 1..MaxLives /\ imp'.life \in 1..MaxLives
  BY DEF IngressTables
<1>2. DOMAIN imp.sent = 1..Len(imp.sent) /\ DOMAIN imp'.sent = 1..Len(imp'.sent)
      /\ Len(imp.sent) \in Nat /\ Len(imp'.sent) \in Nat
  BY <1>1, LenProperties
<1>3. ASSUME NEW n, FlagsOnly(n) PROVE FlagsOnly(n)'
  <2>1. PICK i \in 1..Len(imp.sent) : imp.sent[i].kind = "ready" /\ imp.sent[i].seq = n
    BY <1>2, <1>3 DEF FlagsOnly
  <2>2. i \in 1..Len(imp'.sent) /\ imp'.sent[i] = imp.sent[i]
    BY <1>2 DEF SentStays
  <2> QED BY <1>2, <2>1, <2>2 DEF FlagsOnly
<1>4. imp'.life = 1 => imp.life = 1
  BY <1>1, IngressAssumption DEF SentStays
<1>5. ASSUME NEW v, NEW w, RunsOn(v, w) PROVE RunsOn(v, w)'
  BY <1>3, <1>4, <1>5 DEF RunsOn
<1> QED BY <1>3, <1>5

(* The words of a datagram, and those it is put to.                          *)
Spoken(w) == IF w.kind = "ready" THEN <<>> ELSE <<w>>
KeptWords(w) == IF Kept(w) THEN rx.words ELSE <<>>

LEMMA AssembledWords ==
  ASSUME IngressTables, NEW w \in Datagrams
  PROVE  /\ Assembled(w) = KeptWords(w) \o Spoken(w)
         /\ KeptWords(w) \in Seq(Carrying) /\ Spoken(w) \in Seq(Carrying)
         /\ Assembled(w) \in Seq(Carrying)
         /\ w.kind = "ready" => Assembled(w) = KeptWords(w)
         /\ w.kind # "ready" => w \in Carrying /\ Assembled(w) = Append(KeptWords(w), w)
<1>1. rx.words \in Seq(Carrying) /\ <<>> \in Seq(Carrying)
  BY EmptySeq DEF IngressTables
<1>2. KeptWords(w) \in Seq(Carrying)
  BY <1>1 DEF KeptWords
<1>3. Assembled(w) = KeptWords(w) \o Spoken(w)
  BY DEF Assembled, KeptWords, Spoken
<1>4. CASE w.kind = "ready"
  <2>1. Spoken(w) = <<>>
    BY <1>4 DEF Spoken
  <2> QED BY <1>1, <1>2, <1>3, <1>4, <2>1, ConcatEmptySeq
<1>5. CASE w.kind # "ready"
  <2>1. w \in Carrying /\ Spoken(w) = <<w>>
    BY <1>5 DEF Carrying, Spoken
  <2>2. Append(<<>>, w) = <<w>> /\ Append(<<>>, w) \in Seq(Carrying)
    BY <1>1, <2>1, AppendProperties
  <2>3. Append(KeptWords(w), w) = KeptWords(w) \o <<w>> /\ Append(KeptWords(w), w) \in Seq(Carrying)
    BY <1>2, <2>1, AppendProperties, AppendIsConcat
  <2> QED BY <1>2, <1>3, <1>5, <2>1, <2>2, <2>3
<1> QED BY <1>4, <1>5

(* The receiver in the state of the interface after a step.                  *)
Received(w) ==
  /\ imp' \in [life : 1..MaxLives, next : Nat, sent : Seq(Datagrams)]
  /\ SentStays /\ SentInOrder' /\ PartsInOrder'
  /\ \E i \in 1..Len(imp'.sent) : imp'.sent[i] = w
  /\ Receive(w)

(* In the first life nothing is ds inside a message: what has been         *)
(* received of one goes on with the next number.                             *)
LEMMA NextOfFirstLife ==
  ASSUME IngressTables, UnderWay, NEW w \in Datagrams, Received(w), imp'.life = 1,
         rx.words # <<>>, w.seq = rx.last
  PROVE  w.seq = rx.words[Len(rx.words)].seq + 1
<1> DEFINE ds == imp'.sent
<1>1. /\ ds \in Seq(Datagrams) /\ Len(ds) \in Nat /\ rx.words \in Seq(Carrying)
      /\ Len(rx.words) \in Nat \ {0} /\ imp.sent \in Seq(Datagrams)
      /\ DOMAIN ds = 1..Len(ds) /\ rx.last \in Nat
  BY EmptySeq, LenProperties DEF IngressTables, Received
<1>2. PICK v \in Carrying : v = rx.words[Len(rx.words)]
  BY <1>1
<1>3. /\ v.seq < rx.last /\ ~EndsMessage(v) /\ \A n \in v.seq + 1 .. rx.last - 1 : FlagsOnly(n)'
  BY <1>2, RunsOnStays DEF UnderWay, Received
<1>4. PICK i \in 1..Len(ds) : v = ds[i]
  <2>1. PICK i \in 1..Len(imp.sent) : v = imp.sent[i]
    BY <1>1, <1>2 DEF UnderWay
  <2>2. Len(imp.sent) \in Nat
    BY <1>1
  <2> QED BY <1>1, <2>1, <2>2 DEF Received, SentStays
<1>5. PICK k \in 1..Len(ds) : w = ds[k]
  BY DEF Received
<1>6. /\ \A j \in 1..Len(ds) : ds[j].seq = j - 1
      /\ \A j \in 1..Len(ds) - 1 : Parted(ds[j], ds[j + 1])
  BY DEF Received, SentInOrder, PartsInOrder
<1>7. v.seq = i - 1 /\ rx.last = k - 1 /\ w.seq = k - 1
  BY <1>4, <1>5, <1>6
<1>8. CASE k = i + 1
  BY <1>2, <1>7, <1>8
<1>9. CASE k # i + 1
  <2>1. i < k /\ i + 1 < k /\ i \in 1..Len(ds) - 1 /\ i + 1 \in 1..Len(ds)
    BY <1>1, <1>3, <1>7, <1>9
  <2>2. ds[i + 1].kind = "trouble"
    BY <1>3, <1>4, <1>6, <2>1 DEF Parted
  <2>3. FlagsOnly(i)'
    BY <1>1, <1>3, <1>7, <2>1
  <2>4. PICK j \in 1..Len(ds) : ds[j].kind = "ready" /\ ds[j].seq = i
    BY <1>1, <2>3 DEF FlagsOnly
  <2>5. j = i + 1
    BY <1>6, <2>4
  <2> QED BY <2>2, <2>4, <2>5
<1> QED BY <1>8, <1>9

LEMMA RunGoesOn ==
  ASSUME NEW K \in Seq(Carrying), NEW w \in Carrying, Unbroken(K)',
         K # <<>> => RunsOn(K[Len(K)], w)'
  PROVE  Unbroken(Append(K, w))'
<1>1. PICK A : A = Append(K, w)
  OBVIOUS
<1>2. /\ A \in Seq(Carrying) /\ Len(A) = Len(K) + 1 /\ A[Len(K) + 1] = w /\ Len(K) \in Nat
      /\ \A j \in 1..Len(K) : A[j] = K[j]
  BY <1>1, AppendProperties
<1>3. ASSUME NEW j \in 1..Len(A) - 1 PROVE RunsOn(A[j], A[j + 1])'
  <2>1. CASE j = Len(K)
    <3>1. K # <<>> /\ A[j] = K[Len(K)] /\ A[j + 1] = w
      BY <1>2, <2>1
    <3> QED BY <3>1
  <2>2. CASE j # Len(K)
    <3>1. j \in 1..Len(K) - 1 /\ A[j] = K[j] /\ A[j + 1] = K[j + 1]
      BY <1>2, <2>2
    <3>2. RunsOn(K[j], K[j + 1])'
      BY <3>1 DEF Unbroken
    <3> QED BY <3>1, <3>2
  <2> QED BY <2>1, <2>2
<1>4. Unbroken(A)'
  BY <1>3 DEF Unbroken
<1> QED BY <1>1, <1>4

(* What is kept runs on to the datagram that comes.                          *)
LEMMA KeptRunsOn ==
  ASSUME IngressTables, UnderWay, NEW w \in Datagrams, Received(w), Taken(w),
         NEW K, K = KeptWords(w)
  PROVE  /\ Unbroken(K)' /\ Len(K) \in Nat /\ Len(K) <= w.seq
         /\ \A k \in 1..Len(K) : \E i \in 1..Len(imp'.sent) : K[k] = imp'.sent[i]
         /\ K # <<>> => RunsOn(K[Len(K)], w)'
<1>0. w.seq \in Nat
  BY DEF Datagrams
<1>1. /\ rx.words \in Seq(Carrying) /\ rx.last \in Nat /\ w.seq \in Nat
      /\ imp.sent \in Seq(Datagrams) /\ imp'.sent \in Seq(Datagrams)
      /\ Len(imp.sent) \in Nat /\ Len(imp'.sent) \in Nat
  BY <1>0 DEF IngressTables, Received
<1>2. CASE K = <<>>
  <2>1. Len(K) = 0
    BY <1>2
  <2> QED BY <1>1, <1>2, <2>1 DEF Unbroken
<1>3. CASE K # <<>>
  <2>1. K = rx.words /\ Kept(w)
    BY <1>3 DEF KeptWords
  <2>2. w.seq = rx.last
    BY <1>1, <2>1 DEF Kept, Taken
  <2>3. Unbroken(K)'
    <3>1. Unbroken(K)
      BY <2>1 DEF UnderWay
    <3>2. \A v, u : RunsOn(v, u) => RunsOn(v, u)'
      BY RunsOnStays DEF Received
    <3> QED BY <3>1, <3>2 DEF Unbroken
  <2>4. ASSUME NEW k \in 1..Len(K) PROVE \E i \in 1..Len(imp'.sent) : K[k] = imp'.sent[i]
    <3>1. PICK i \in 1..Len(imp.sent) : K[k] = imp.sent[i]
      BY <2>1 DEF UnderWay
    <3>2. i \in 1..Len(imp'.sent) /\ imp'.sent[i] = imp.sent[i]
      BY <1>1 DEF Received, SentStays
    <3> QED BY <3>1, <3>2
  <2>5. RunsOn(K[Len(K)], w)'
    <3>1. PICK v : v = K[Len(K)]
      OBVIOUS
    <3>2. /\ v.seq < rx.last /\ ~EndsMessage(v) /\ \A n \in v.seq + 1 .. rx.last - 1 : FlagsOnly(n)
      BY <1>3, <2>1, <3>1 DEF UnderWay
    <3>3. \A n \in v.seq + 1 .. w.seq - 1 : FlagsOnly(n)'
      BY <2>2, <3>2, RunsOnStays DEF Received
    <3>4. imp'.life = 1 => w.seq = v.seq + 1
      BY <1>3, <2>1, <2>2, <3>1, NextOfFirstLife
    <3>5. RunsOn(v, w)'
      BY <2>2, <3>2, <3>3, <3>4 DEF RunsOn
    <3> QED BY <3>1, <3>5
  <2>6. Len(K) \in Nat /\ Len(K) <= w.seq
    BY <1>1, <2>1, <2>2 DEF UnderWay
  <2> QED BY <2>3, <2>4, <2>5, <2>6
<1> QED BY <1>2, <1>3

(* A step in which nothing is received.                                      *)
LEMMA QuietKeeps ==
  ASSUME IngressTables, UnderWay, MessagesUnbroken,
         imp' \in [life : 1..MaxLives, next : Nat, sent : Seq(Datagrams)], SentStays,
         rx' = rx, messages' = messages
  PROVE  UnderWay' /\ MessagesUnbroken'
<1>1. /\ imp.sent \in Seq(Datagrams) /\ imp'.sent \in Seq(Datagrams)
      /\ Len(imp.sent) \in Nat /\ Len(imp'.sent) \in Nat /\ Len(imp.sent) <= Len(imp'.sent)
      /\ rx.last \in Nat
  BY DEF IngressTables, SentStays
<1>2. /\ \A n : FlagsOnly(n) => FlagsOnly(n)'
      /\ \A v, u : RunsOn(v, u) => RunsOn(v, u)'
  BY RunsOnStays
<1>3. ASSUME NEW K, Unbroken(K) PROVE Unbroken(K)'
  BY <1>2, <1>3 DEF Unbroken
<1>4. MessagesUnbroken'
  BY <1>3 DEF MessagesUnbroken
<1>5. PICK R : R = rx.words
  OBVIOUS
<1>6. Unbroken(R)'
  BY <1>3, <1>5 DEF UnderWay
<1>7. \A k \in 1..Len(R) : \E i \in 1..Len(imp'.sent) : R[k] = imp'.sent[i]
  <2>1. ASSUME NEW k \in 1..Len(R)
        PROVE  \E i \in 1..Len(imp'.sent) : R[k] = imp'.sent[i]
    <3>1. PICK i \in 1..Len(imp.sent) : R[k] = imp.sent[i]
      BY <1>5 DEF UnderWay
    <3>2. i \in 1..Len(imp'.sent) /\ imp'.sent[i] = imp.sent[i]
      BY <1>1 DEF SentStays
    <3> QED BY <3>1, <3>2
  <2> QED BY <2>1
<1>8. ASSUME R # <<>>, NEW v, v = R[Len(R)]
      PROVE  v.seq < rx.last /\ ~EndsMessage(v) /\ \A n \in v.seq + 1 .. rx.last - 1 : FlagsOnly(n)'
  <2>1. v.seq < rx.last /\ ~EndsMessage(v) /\ \A n \in v.seq + 1 .. rx.last - 1 : FlagsOnly(n)
    BY <1>5, <1>8 DEF UnderWay
  <2> QED BY <1>2, <2>1
<1>9. rx.last <= Len(imp'.sent) /\ Len(R) <= rx.last
  BY <1>1, <1>5 DEF UnderWay
<1>10. rx'.words = R /\ rx'.last = rx.last
  BY <1>5
<1>11. UnderWay'
  BY <1>6, <1>7, <1>8, <1>9, <1>10 DEF UnderWay
<1> QED BY <1>4, <1>11

(* A datagram leaves what is under way and what is handed over unbroken.     *)
LEMMA ReceiveKeeps ==
  ASSUME IngressTables, UnderWay, MessagesUnbroken, NEW w \in Datagrams, Received(w)
  PROVE  /\ rx' \in [last : Nat, words : Seq(Carrying)] /\ messages' \in Seq(Joined)
         /\ proof' \in {proof, "rejected"}
         /\ UnderWay' /\ MessagesUnbroken'
<1>0. w.seq \in Nat
  BY DEF Datagrams
<1>1. /\ rx \in [last : Nat, words : Seq(Carrying)] /\ messages \in Seq(Joined) /\ w.seq \in Nat
      /\ imp.sent \in Seq(Datagrams) /\ imp'.sent \in Seq(Datagrams)
      /\ Len(imp.sent) \in Nat /\ Len(imp'.sent) \in Nat /\ Len(imp.sent) <= Len(imp'.sent)
  BY <1>0 DEF IngressTables, Received, SentStays
<1>2. /\ \A n : FlagsOnly(n) => FlagsOnly(n)'
      /\ \A v, u : RunsOn(v, u) => RunsOn(v, u)'
  BY RunsOnStays DEF Received
<1>3. ASSUME NEW K, Unbroken(K) PROVE Unbroken(K)'
  BY <1>2, <1>3 DEF Unbroken
<1>4. ASSUME messages' = messages PROVE MessagesUnbroken'
  BY <1>3, <1>4 DEF MessagesUnbroken
<1>5. CASE ~Taken(w)
  <2>1. rx' = rx /\ messages' = messages /\ proof' = "rejected"
    BY <1>5 DEF Received, Receive
  <2>2. UnderWay' /\ MessagesUnbroken'
    BY <2>1, QuietKeeps DEF Received
  <2> QED BY <1>1, <2>1, <2>2
<1>6. CASE Taken(w)
  <2>1. PICK K, A : K = KeptWords(w) /\ A = Assembled(w)
    OBVIOUS
  <2>2. /\ K \in Seq(Carrying) /\ A \in Seq(Carrying)
        /\ w.kind = "ready" => A = K
        /\ w.kind # "ready" => w \in Carrying /\ A = Append(K, w)
    BY <2>1, AssembledWords
  <2>3. /\ Unbroken(K)' /\ Len(K) \in Nat /\ Len(K) <= w.seq
        /\ \A k \in 1..Len(K) : \E i \in 1..Len(imp'.sent) : K[k] = imp'.sent[i]
        /\ K # <<>> => RunsOn(K[Len(K)], w)'
    BY <1>6, <2>1, KeptRunsOn
  <2>4. w.kind # "ready" => Len(A) = Len(K) + 1 /\ A[Len(K) + 1] = w /\ A # <<>>
                           /\ \A j \in 1..Len(K) : A[j] = K[j]
    BY <2>2, AppendProperties
  <2>5. Unbroken(A)'
    <3>1. CASE w.kind = "ready"
      <4>1. A = K
        BY <2>2, <3>1
      <4> QED BY <2>3, <4>1
    <3>2. CASE w.kind # "ready"
      <4>1. w \in Carrying /\ A = Append(K, w)
        BY <2>2, <3>2
      <4>2. Unbroken(Append(K, w))'
        BY <2>2, <2>3, <4>1, RunGoesOn
      <4> QED BY <4>1, <4>2
    <3> QED BY <3>1, <3>2
  <2>6. PICK s \in 1..Len(imp'.sent) : imp'.sent[s] = w
    BY DEF Received
  <2>7. w.seq < Len(imp'.sent)
    BY <2>6 DEF Received, SentInOrder
  <2>8. CASE ~Completes(w)
    <3>1. rx' = [last |-> w.seq + 1, words |-> A] /\ messages' = messages /\ proof' = proof
      BY <1>6, <2>1, <2>8 DEF Received, Receive, Numbered
    <3>2. rx'.last = w.seq + 1 /\ rx'.words = A
      BY <3>1
    <3>3. Len(A) \in Nat /\ Len(A) <= w.seq + 1
      BY <1>1, <2>2, <2>3, <2>4
    <3>4. \A k \in 1..Len(A) : \E i \in 1..Len(imp'.sent) : A[k] = imp'.sent[i]
      <4>1. CASE w.kind = "ready"
        BY <2>2, <2>3, <4>1
      <4>2. CASE w.kind # "ready"
        BY <2>3, <2>4, <2>6, <4>2
      <4> QED BY <4>1, <4>2
    <3>5. ASSUME A # <<>>, NEW v, v = A[Len(A)]
          PROVE  v.seq < w.seq + 1 /\ ~EndsMessage(v)' /\ \A n \in v.seq + 1 .. w.seq : FlagsOnly(n)'
      <4>1. CASE w.kind = "ready"
        <5>1. A = K
          BY <2>2, <4>1
        <5>2. RunsOn(v, w)'
          BY <2>3, <3>5, <5>1
        <5>3. v \in Carrying /\ v.seq \in Nat
          BY <2>2, <2>3, <3>5, <5>1 DEF Carrying, Datagrams
        <5>4. v.seq < w.seq /\ ~EndsMessage(v)' /\ \A n \in v.seq + 1 .. w.seq - 1 : FlagsOnly(n)'
          BY <5>2 DEF RunsOn
        <5>5. FlagsOnly(w.seq)'
          BY <1>1, <2>6, <4>1, LenProperties DEF FlagsOnly
        <5>6. ASSUME NEW n \in v.seq + 1 .. w.seq PROVE FlagsOnly(n)'
          BY <1>1, <5>3, <5>4, <5>5
        <5> QED BY <1>1, <5>3, <5>4, <5>6
      <4>2. CASE w.kind # "ready"
        <5>1. v = w
          BY <2>3, <2>4, <3>5, <4>2
        <5>2. ~EndsMessage(w)
          BY <2>8, <4>2 DEF Completes
        <5>3. ~EndsMessage(w)'
          BY <5>2 DEF EndsMessage, Parts
        <5>4. w.seq + 1 .. w.seq = {}
          BY <1>1
        <5> QED BY <1>1, <5>1, <5>3, <5>4
      <4> QED BY <4>1, <4>2
    <3>6. rx'.last - 1 = w.seq
      BY <1>1, <3>2
    <3>7. UnderWay'
      BY <1>1, <2>5, <2>7, <3>2, <3>3, <3>4, <3>5, <3>6 DEF UnderWay
    <3>8. rx' \in [last : Nat, words : Seq(Carrying)]
      BY <1>1, <2>2, <3>1
    <3> QED BY <1>1, <1>4, <3>1, <3>7, <3>8
  <2>9. CASE Completes(w)
    <3>1. w.kind # "ready"
      BY <2>9 DEF Completes
    <3>2. PICK at \in 1..2 : messages' = Append(messages, [words |-> A, at |-> at])
      BY <1>6, <2>1, <2>9 DEF Received, Receive
    <3>3. rx' = [last |-> w.seq + 1, words |-> <<>>] /\ proof' = proof
      BY <1>6, <2>9 DEF Received, Receive, Numbered
    <3>4. PICK m : m = [words |-> A, at |-> at]
      OBVIOUS
    <3>5. m \in Joined /\ m.words = A /\ A # <<>>
      BY <2>2, <2>4, <3>1, <3>4 DEF Joined
    <3>6. messages' = Append(messages, m)
      BY <3>2, <3>4
    <3>7. /\ messages' \in Seq(Joined) /\ Len(messages') = Len(messages) + 1
          /\ messages'[Len(messages) + 1] = m /\ Len(messages) \in Nat
          /\ \A i \in 1..Len(messages) : messages'[i] = messages[i]
      BY <1>1, <3>5, <3>6, AppendProperties
    <3>8. ASSUME NEW i \in 1..Len(messages') PROVE (messages[i].words # <<>> /\ Unbroken(messages[i].words))'
      <4>1. CASE i = Len(messages) + 1
        <5>1. messages'[i].words = A
          BY <3>5, <3>7, <4>1
        <5> QED BY <2>5, <3>5, <5>1 DEF Unbroken
      <4>2. CASE i # Len(messages) + 1
        <5>1. i \in 1..Len(messages) /\ messages'[i] = messages[i]
          BY <3>7, <4>2
        <5>2. PICK u : u = messages[i].words
          OBVIOUS
        <5>3. u # <<>> /\ Unbroken(u)
          BY <5>1, <5>2 DEF MessagesUnbroken
        <5>4. Unbroken(u)'
          BY <1>3, <5>3
        <5> QED BY <5>1, <5>2, <5>3, <5>4
      <4> QED BY <4>1, <4>2
    <3>9. MessagesUnbroken'
      BY <3>8 DEF MessagesUnbroken
    <3>10. UnderWay'
      BY <1>1, <2>7, <3>3, EmptySeq DEF UnderWay, Unbroken
    <3>11. rx' \in [last : Nat, words : Seq(Carrying)]
      BY <1>1, <3>3, EmptySeq
    <3> QED BY <3>3, <3>7, <3>9, <3>10, <3>11
  <2> QED BY <2>8, <2>9
<1> QED BY <1>5, <1>6

------------------------------------------------------------------------------
(* What is handed over and what is ds, message by message.                 *)
WordsOf(ms) == [i \in DOMAIN ms |-> ms[i].words]
SpokenBy(ds) == [i \in DOMAIN ds |-> IF ds[i].kind = "ready" THEN <<>> ELSE <<ds[i]>>]

LEMMA SpokenType ==
  ASSUME NEW w \in Datagrams
  PROVE  Spoken(w) \in Seq(Carrying)
<1>1. CASE w.kind = "ready"
  BY <1>1, EmptySeq DEF Spoken
<1>2. CASE w.kind # "ready"
  <2>1. w \in Carrying /\ Spoken(w) = <<w>>
    BY <1>2 DEF Carrying, Spoken
  <2>2. Append(<<>>, w) = <<w>> /\ Append(<<>>, w) \in Seq(Carrying)
    BY <2>1, EmptySeq, AppendProperties
  <2> QED BY <2>1, <2>2
<1> QED BY <1>1, <1>2

LEMMA WordsOfType ==
  ASSUME NEW ms \in Seq(Joined)
  PROVE  WordsOf(ms) \in Seq(Seq(Carrying)) /\ Len(WordsOf(ms)) = Len(ms)
<1>0. DOMAIN ms = 1..Len(ms) /\ Len(ms) \in Nat /\ \A i \in 1..Len(ms) : ms[i] \in Joined
  BY ElementOfSeq, LenProperties
<1>1. \A i \in 1..Len(ms) : ms[i].words \in Seq(Carrying)
  BY <1>0 DEF Joined
<1>2. WordsOf(ms) \in [1..Len(ms) -> Seq(Carrying)]
  BY <1>0, <1>1 DEF WordsOf
<1> QED BY <1>0, <1>2

LEMMA SpokenByType ==
  ASSUME NEW ds \in Seq(Datagrams)
  PROVE  SpokenBy(ds) \in Seq(Seq(Carrying)) /\ Len(SpokenBy(ds)) = Len(ds)
<1>1. DOMAIN ds = 1..Len(ds) /\ Len(ds) \in Nat /\ \A i \in 1..Len(ds) : ds[i] \in Datagrams
  BY ElementOfSeq, LenProperties
<1>2. \A i \in 1..Len(ds) : Spoken(ds[i]) \in Seq(Carrying)
  BY <1>1, SpokenType
<1>3. SpokenBy(ds) = [i \in 1..Len(ds) |-> Spoken(ds[i])]
  BY <1>1 DEF SpokenBy, Spoken
<1>4. SpokenBy(ds) \in [1..Len(ds) -> Seq(Carrying)]
  BY <1>2, <1>3
<1> QED BY <1>1, <1>4

LEMMA OneMoreMessage ==
  ASSUME NEW ms \in Seq(Joined), NEW m \in Joined
  PROVE  /\ WordsOf(Append(ms, m)) = Append(WordsOf(ms), m.words)
         /\ FlattenSeq(WordsOf(Append(ms, m))) = FlattenSeq(WordsOf(ms)) \o m.words
<1>0. PICK n \in Nat : n = Len(ms)
  OBVIOUS
<1>1. PICK tt, ww, aa :
        /\ n = Len(ms) /\ tt = Append(ms, m) /\ ww = WordsOf(tt) /\ aa = Append(WordsOf(ms), m.words)
  BY <1>0
<1>2. /\ tt \in Seq(Joined) /\ Len(tt) = n + 1 /\ tt[n + 1] = m
      /\ \A i \in 1..n : tt[i] = ms[i]
  BY <1>1, AppendProperties
<1>3. m.words \in Seq(Carrying)
  BY DEF Joined
<1>4. WordsOf(ms) \in Seq(Seq(Carrying)) /\ Len(WordsOf(ms)) = n
  BY <1>1, WordsOfType
<1>5. /\ aa \in Seq(Seq(Carrying)) /\ Len(aa) = n + 1 /\ aa[n + 1] = m.words
      /\ \A i \in 1..n : aa[i] = WordsOf(ms)[i]
  BY <1>1, <1>3, <1>4, AppendProperties
<1>6. ww \in Seq(Seq(Carrying)) /\ Len(ww) = n + 1
  BY <1>1, <1>2, WordsOfType
<1>7. ASSUME NEW i \in 1..n + 1 PROVE ww[i] = aa[i]
  <2>1. i \in DOMAIN tt /\ ww[i] = tt[i].words
    BY <1>1, <1>2, LenProperties DEF WordsOf
  <2>2. CASE i = n + 1
    BY <1>2, <1>5, <2>1, <2>2
  <2>3. CASE i # n + 1
    <3>1. i \in 1..n /\ i \in DOMAIN ms
      BY <1>1, <2>3, LenProperties
    <3> QED BY <1>2, <1>5, <2>1, <3>1 DEF WordsOf
  <2> QED BY <2>2, <2>3
<1>8. ww = aa
  BY <1>5, <1>6, <1>7, SeqEqual
<1>9. FlattenSeq(Append(WordsOf(ms), m.words)) = FlattenSeq(WordsOf(ms)) \o m.words
  BY <1>3, <1>4, FlattenAppend
<1> QED BY <1>1, <1>8, <1>9

LEMMA OneMoreSent ==
  ASSUME NEW ds \in Seq(Datagrams), NEW w \in Datagrams
  PROVE  FlattenSeq(SpokenBy(Append(ds, w))) = FlattenSeq(SpokenBy(ds)) \o Spoken(w)
<1>0. PICK n \in Nat : n = Len(ds)
  OBVIOUS
<1>1. PICK tt, ww, aa :
        /\ n = Len(ds) /\ tt = Append(ds, w) /\ ww = SpokenBy(tt)
        /\ aa = Append(SpokenBy(ds), Spoken(w))
  BY <1>0
<1>2. /\ tt \in Seq(Datagrams) /\ Len(tt) = n + 1 /\ tt[n + 1] = w
      /\ \A i \in 1..n : tt[i] = ds[i]
  BY <1>1, AppendProperties
<1>3. Spoken(w) \in Seq(Carrying)
  BY SpokenType
<1>4. SpokenBy(ds) \in Seq(Seq(Carrying)) /\ Len(SpokenBy(ds)) = n
  BY <1>1, SpokenByType
<1>5. /\ aa \in Seq(Seq(Carrying)) /\ Len(aa) = n + 1 /\ aa[n + 1] = Spoken(w)
      /\ \A i \in 1..n : aa[i] = SpokenBy(ds)[i]
  BY <1>1, <1>3, <1>4, AppendProperties
<1>6. ww \in Seq(Seq(Carrying)) /\ Len(ww) = n + 1
  BY <1>1, <1>2, SpokenByType
<1>7. ASSUME NEW i \in 1..n + 1 PROVE ww[i] = aa[i]
  <2>1. i \in DOMAIN tt /\ ww[i] = Spoken(tt[i])
    BY <1>1, <1>2, LenProperties DEF SpokenBy, Spoken
  <2>2. CASE i = n + 1
    BY <1>2, <1>5, <2>1, <2>2
  <2>3. CASE i # n + 1
    <3>1. i \in 1..n /\ i \in DOMAIN ds
      BY <1>1, <2>3, LenProperties
    <3>2. SpokenBy(ds)[i] = Spoken(ds[i])
      BY <3>1 DEF SpokenBy, Spoken
    <3> QED BY <1>2, <1>5, <2>1, <3>1, <3>2
  <2> QED BY <2>2, <2>3
<1>8. ww = aa
  BY <1>5, <1>6, <1>7, SeqEqual
<1>9. FlattenSeq(Append(SpokenBy(ds), Spoken(w))) = FlattenSeq(SpokenBy(ds)) \o Spoken(w)
  BY <1>3, <1>4, FlattenAppend
<1> QED BY <1>1, <1>8, <1>9

LEMMA JoinedInTurn ==
  ASSUME NEW F \in Seq(Carrying), NEW R \in Seq(Carrying), NEW X \in Seq(Carrying)
  PROVE  F \o (R \o X) = (F \o R) \o X
BY ConcatAssociative

LEMMA TwoInTurn ==
  ASSUME NEW v \in Carrying, NEW w \in Carrying
  PROVE  Append(<<v>>, w) = <<v, w>>
<1>1. PICK s, t, a : s = <<v>> /\ t = <<v, w>> /\ a = Append(s, w)
  OBVIOUS
<1>2. s \in Seq(Carrying) /\ Len(s) = 1 /\ s[1] = v
  BY <1>1
<1>3. t \in Seq(Carrying) /\ Len(t) = 2 /\ t[1] = v /\ t[2] = w
  BY <1>1
<1>4. a \in Seq(Carrying) /\ Len(a) = 2 /\ a[1] = v /\ a[2] = w
  BY <1>1, <1>2, AppendProperties
<1>5. \A i \in 1..2 : a[i] = t[i]
  BY <1>3, <1>4
<1>6. a = t
  BY <1>3, <1>4, <1>5, SeqEqual
<1> QED BY <1>1, <1>6

(* Messages of one and of two datagrams.                                     *)
LEMMA WholeOfOne ==
  ASSUME NEW w \in Carrying, EndsMessage(w), w.part = 1
  PROVE  WholeMessage(<<w>>)
<1>1. w.seq \in Nat
  BY DEF Carrying, Datagrams
<1> QED BY <1>1 DEF WholeMessage, Last

LEMMA WholeOfTwo ==
  ASSUME NEW v \in Carrying, NEW w \in Carrying, EndsMessage(w), v.part = 1, w.part = 2,
         v.life = w.life, v.kind = w.kind, w.seq = v.seq + 1
  PROVE  WholeMessage(<<v, w>>)
<1>1. w.seq \in Nat /\ v.seq \in Nat
  BY DEF Carrying, Datagrams
<1>2. PICK u : u = <<v, w>>
  OBVIOUS
<1>3. u[1] = v /\ u[2] = w /\ Len(u) = 2 /\ Head(u) = v /\ Last(u) = w /\ DOMAIN u = 1..2
  BY <1>2 DEF Last
<1>4. ASSUME NEW i \in 1..2
      PROVE  u[i].life = v.life /\ u[i].kind = v.kind /\ u[i].seq = v.seq + i - 1
  <2>1. CASE i = 1
    BY <1>1, <1>3, <2>1
  <2>2. CASE i = 2
    BY <1>1, <1>3, <2>2
  <2> QED BY <2>1, <2>2
<1>5. WholeMessage(u)
  BY <1>3, <1>4 DEF WholeMessage
<1> QED BY <1>2, <1>5

------------------------------------------------------------------------------
(* The next datagram of the interface.                                       *)
LEMMA EmittedNext ==
  ASSUME IngressTables, NEW w \in Emitted
  PROVE  /\ w \in Datagrams /\ w.seq = imp.next /\ w.life = imp.life
         /\ Unfinished => w.part = 2 /\ w.kind = "trouble"
         /\ ~Unfinished => w.part = 1
<1>1. imp.life \in Nat /\ imp.next \in Nat
  BY IngressAssumption DEF IngressTables
<1>2. PICK k \in Kinds \cup {"ready"}, p \in {1, 2} :
        /\ w = [life |-> imp.life, seq |-> imp.next, kind |-> k, part |-> p]
        /\ Unfinished => p = 2 /\ k = "trouble"
        /\ ~Unfinished => p = 1
  <2>1. CASE Unfinished
    BY <2>1 DEF Emitted, Kinds
  <2>2. CASE ~Unfinished
    BY <2>2 DEF Emitted
  <2> QED BY <2>1, <2>2
<1> QED BY <1>1, <1>2 DEF Datagrams

LEMMA SentOneMore ==
  ASSUME IngressTables, SentInOrder, PartsInOrder, Len(imp.sent) < MaxPackets, NEW w \in Emitted,
         imp' = [imp EXCEPT !.next = @ + 1, !.sent = Append(@, w)]
  PROVE  /\ imp' \in [life : 1..MaxLives, next : Nat, sent : Seq(Datagrams)]
         /\ SentStays /\ SentInOrder' /\ PartsInOrder'
         /\ imp'.life = imp.life /\ imp'.sent = Append(imp.sent, w)
         /\ Len(imp'.sent) = Len(imp.sent) + 1 /\ imp'.sent[Len(imp.sent) + 1] = w
<1>1. /\ imp \in [life : 1..MaxLives, next : Nat, sent : Seq(Datagrams)]
      /\ imp.life \in Nat /\ imp.next \in Nat /\ imp.sent \in Seq(Datagrams) /\ Len(imp.sent) \in Nat
      /\ MaxPackets \in Nat
  BY IngressAssumption DEF IngressTables
<1>2. /\ w \in Datagrams /\ w.seq = imp.next /\ w.life = imp.life
      /\ Unfinished => w.part = 2 /\ w.kind = "trouble"
      /\ ~Unfinished => w.part = 1
  BY EmittedNext
<1>3. imp'.life = imp.life /\ imp'.next = imp.next + 1 /\ imp'.sent = Append(imp.sent, w)
  BY <1>1
<1>4. /\ imp'.sent \in Seq(Datagrams) /\ Len(imp'.sent) = Len(imp.sent) + 1
      /\ imp'.sent[Len(imp.sent) + 1] = w
      /\ \A i \in 1..Len(imp.sent) : imp'.sent[i] = imp.sent[i]
  BY <1>1, <1>2, <1>3, AppendProperties
<1>5. imp' \in [life : 1..MaxLives, next : Nat, sent : Seq(Datagrams)]
  <2>1. PICK n, s : n = imp.next + 1 /\ s = Append(imp.sent, w)
    OBVIOUS
  <2>2. n \in Nat /\ s \in Seq(Datagrams)
    BY <1>1, <1>3, <1>4, <2>1
  <2>3. imp' = [imp EXCEPT !.next = n, !.sent = s]
    BY <2>1
  <2> QED BY <1>1, <2>2, <2>3
<1>6. SentStays
  BY <1>1, <1>3, <1>4 DEF SentStays
<1>7. ASSUME NEW i \in 1..Len(imp'.sent)
      PROVE  /\ imp'.sent[i].seq < Len(imp'.sent)
             /\ imp'.sent[i].part = 2 => imp'.sent[i].kind = "trouble"
             /\ imp.life = 1 => imp'.sent[i].seq = i - 1 /\ imp'.sent[i].life = 1
  <2>1. CASE i = Len(imp.sent) + 1
    <3>1. imp'.sent[i] = w
      BY <1>4, <2>1
    <3>2. imp.next <= Len(imp.sent) /\ (imp.life = 1 => imp.next = Len(imp.sent))
      BY DEF SentInOrder
    <3>3. w.part = 2 => w.kind = "trouble"
      BY <1>2
    <3> QED BY <1>1, <1>2, <1>4, <2>1, <3>1, <3>2, <3>3
  <2>2. CASE i # Len(imp.sent) + 1
    <3>1. i \in 1..Len(imp.sent) /\ imp'.sent[i] = imp.sent[i]
      BY <1>1, <1>4, <2>2
    <3>2. /\ imp.sent[i].seq < Len(imp.sent)
          /\ imp.sent[i].part = 2 => imp.sent[i].kind = "trouble"
          /\ imp.life = 1 => imp.sent[i].seq = i - 1 /\ imp.sent[i].life = 1
      BY <3>1 DEF SentInOrder
    <3>3. imp.sent[i].seq \in Nat
      <4>1. imp.sent[i] \in Datagrams
        BY <1>1, <3>1, ElementOfSeq
      <4> QED BY <4>1 DEF Datagrams
    <3> QED BY <1>1, <1>4, <3>1, <3>2, <3>3
  <2> QED BY <2>1, <2>2
<1>8. SentInOrder'
  <2>1. Len(imp'.sent) <= MaxPackets /\ imp'.next <= Len(imp'.sent)
        /\ (imp.life = 1 => imp'.next = Len(imp'.sent))
    BY <1>1, <1>3, <1>4 DEF SentInOrder
  <2> QED BY <1>3, <1>7, <2>1 DEF SentInOrder
<1>9. ASSUME imp.life = 1 PROVE /\ \A i \in 1..Len(imp'.sent) - 1 : Parted(imp'.sent[i], imp'.sent[i + 1])
                                /\ imp'.sent[1].part = 1
  <2>1. imp.next = Len(imp.sent)
    BY <1>9 DEF SentInOrder
  <2>2. ASSUME NEW i \in 1..Len(imp'.sent) - 1 PROVE Parted(imp'.sent[i], imp'.sent[i + 1])
    <3>1. CASE i = Len(imp.sent)
      <4>1. imp'.sent[i] = imp.sent[i] /\ imp'.sent[i + 1] = w /\ i > 0
        BY <1>1, <1>4, <2>2, <3>1
      <4>2. Unfinished <=> ~EndsMessage(imp.sent[i])
        BY <2>1, <3>1, <4>1 DEF Unfinished, Last
      <4> QED BY <1>2, <4>1, <4>2 DEF Parted
    <3>2. CASE i # Len(imp.sent)
      <4>1. i \in 1..Len(imp.sent) - 1 /\ imp'.sent[i] = imp.sent[i] /\ imp'.sent[i + 1] = imp.sent[i + 1]
        BY <1>1, <1>4, <2>2, <3>2
      <4> QED BY <1>9, <4>1 DEF PartsInOrder
    <3> QED BY <3>1, <3>2
  <2>3. imp'.sent[1].part = 1
    <3>1. CASE Len(imp.sent) = 0
      <4>1. ~Unfinished /\ imp'.sent[1] = w
        BY <1>4, <2>1, <3>1 DEF Unfinished
      <4> QED BY <1>2, <4>1
    <3>2. CASE Len(imp.sent) # 0
      <4>1. imp.sent # <<>> /\ imp'.sent[1] = imp.sent[1]
        BY <1>1, <1>4, <3>2
      <4> QED BY <1>9, <4>1 DEF PartsInOrder
    <3> QED BY <3>1, <3>2
  <2> QED BY <2>2, <2>3
<1>10. PartsInOrder'
  <2> QED BY <1>3, <1>9 DEF PartsInOrder
<1> QED BY <1>3, <1>4, <1>5, <1>6, <1>8, <1>10

(* Over a good wire the receiver takes every datagram.                       *)
LEMMA TakenInOrder ==
  ASSUME IngressTables, SentInOrder, KeptUp, wireFaults = 0, imp.life = 1, NEW w \in Emitted
  PROVE  /\ Taken(w) /\ KeptWords(w) = rx.words /\ w.seq = Len(imp.sent)
         /\ rx.words = IF Unfinished THEN <<imp.sent[Len(imp.sent)]>> ELSE <<>>
         /\ Unfinished => Len(imp.sent) > 0 /\ ~EndsMessage(imp.sent[Len(imp.sent)])
<1>1. w.seq = imp.next /\ imp.next = Len(imp.sent) /\ rx.last = Len(imp.sent) /\ Len(imp.sent) \in Nat
  BY EmittedNext DEF SentInOrder, KeptUp, IngressTables
<1>2. Taken(w)
  BY <1>1 DEF Taken
<1>3. imp.sent = <<>> <=> Len(imp.sent) = 0
  BY DEF IngressTables
<1>4. rx.words = IF imp.sent = <<>> \/ EndsMessage(imp.sent[Len(imp.sent)]) THEN <<>>
                 ELSE <<imp.sent[Len(imp.sent)]>>
  BY DEF KeptUp
<1>5. Unfinished <=> Len(imp.sent) > 0 /\ ~EndsMessage(imp.sent[Len(imp.sent)])
  BY <1>1 DEF Unfinished, Last
<1>6. rx.words = IF Unfinished THEN <<imp.sent[Len(imp.sent)]>> ELSE <<>>
  BY <1>1, <1>3, <1>4, <1>5
<1>7. KeptWords(w) = rx.words
  <2>1. CASE w.seq = 0
    BY <1>1, <1>5, <1>6, <2>1 DEF KeptWords
  <2>2. CASE w.seq # 0
    BY <1>1, <2>2 DEF KeptWords, Kept
  <2> QED BY <2>1, <2>2
<1> QED BY <1>1, <1>2, <1>5, <1>6, <1>7

LEMMA GoodWireReceives ==
  ASSUME IngressTables, SentInOrder, PartsInOrder, KeptUp, GoodWireDelivers,
         proof = "listening", wireFaults = 0, imp.life = 1, Len(imp.sent) < MaxPackets,
         NEW w \in Emitted,
         imp' = [imp EXCEPT !.next = @ + 1, !.sent = Append(@, w)], Receive(w)
  PROVE  KeptUp' /\ GoodWireDelivers'
<1>1. /\ messages \in Seq(Joined) /\ rx \in [last : Nat, words : Seq(Carrying)]
      /\ imp.sent \in Seq(Datagrams) /\ Len(imp.sent) \in Nat
  BY DEF IngressTables
<1>2. /\ w \in Datagrams /\ w.life = 1
      /\ Unfinished => w.part = 2 /\ w.kind = "trouble"
      /\ ~Unfinished => w.part = 1
  BY EmittedNext
<1>3. /\ imp'.sent = Append(imp.sent, w) /\ imp'.sent \in Seq(Datagrams)
      /\ Len(imp'.sent) = Len(imp.sent) + 1 /\ imp'.sent[Len(imp.sent) + 1] = w
  BY SentOneMore
<1>4. /\ Taken(w) /\ KeptWords(w) = rx.words /\ w.seq = Len(imp.sent)
      /\ rx.words = IF Unfinished THEN <<imp.sent[Len(imp.sent)]>> ELSE <<>>
      /\ Unfinished => Len(imp.sent) > 0 /\ ~EndsMessage(imp.sent[Len(imp.sent)])
  BY TakenInOrder
<1>5. PICK A : A = Assembled(w)
  OBVIOUS
<1>6. /\ A = rx.words \o Spoken(w) /\ A \in Seq(Carrying) /\ Spoken(w) \in Seq(Carrying)
      /\ w.kind = "ready" => A = rx.words
      /\ w.kind # "ready" => w \in Carrying /\ A = Append(rx.words, w)
  BY <1>2, <1>4, <1>5, AssembledWords
<1>7. EndsMessage(w) <=> w.kind # "trouble" \/ w.part = 2
  BY <1>2, EndsByKind
<1>8. /\ proof' = proof
      /\ rx' = [last |-> Len(imp.sent) + 1, words |-> IF Completes(w) THEN <<>> ELSE A]
      /\ ~Completes(w) => messages' = messages
      /\ Completes(w) => \E at \in 1 .. 2 : messages' = Append(messages, [words |-> A, at |-> at])
  BY <1>4, <1>5 DEF Receive, Numbered
<1>9. rx'.words = IF EndsMessage(w) THEN <<>> ELSE <<w>>
  <2>1. CASE w.kind = "ready"
    <3>1. ~Completes(w) /\ ~Unfinished /\ EndsMessage(w)
      BY <1>2, <1>7, <2>1 DEF Completes
    <3> QED BY <1>4, <1>6, <1>8, <2>1, <3>1
  <2>2. CASE w.kind # "ready" /\ ~EndsMessage(w)
    <3>1. ~Completes(w) /\ ~Unfinished
      BY <1>2, <1>7, <2>2 DEF Completes
    <3>2. A = Append(<<>>, w)
      BY <1>4, <1>6, <2>2, <3>1
    <3>3. Append(<<>>, w) = <<w>>
      OBVIOUS
    <3> QED BY <1>8, <2>2, <3>1, <3>2, <3>3
  <2>3. CASE w.kind # "ready" /\ EndsMessage(w)
    BY <1>8, <2>3 DEF Completes
  <2> QED BY <2>1, <2>2, <2>3
<1>10. Completes(w) => WholeMessage(A)
  <2> SUFFICES ASSUME Completes(w) PROVE WholeMessage(A)
    OBVIOUS
  <2>1. w \in Carrying /\ A = Append(rx.words, w) /\ EndsMessage(w)
    BY <1>6 DEF Completes
  <2>2. CASE ~Unfinished
    <3>1. A = <<w>> /\ w.part = 1
      BY <1>2, <1>4, <2>1, <2>2
    <3> QED BY <2>1, <3>1, WholeOfOne
  <2>3. CASE Unfinished
    <3>1. PICK v : v = imp.sent[Len(imp.sent)]
      OBVIOUS
    <3>2. Len(imp.sent) \in 1..Len(imp.sent)
      BY <1>1, <1>4, <2>3
    <3>3. /\ v \in Datagrams /\ ~EndsMessage(v) /\ (v.part = 2 => v.kind = "trouble")
          /\ v.seq = Len(imp.sent) - 1 /\ v.life = 1
      BY <1>1, <1>4, <2>3, <3>1, <3>2 DEF SentInOrder
    <3>4. v.kind = "trouble" /\ v.part = 1
      <4>1. v.kind = "trouble" /\ v.part # 2
        BY <3>3, EndsByKind
      <4>2. v.part \in {1, 2}
        BY <3>3 DEF Datagrams
      <4> QED BY <4>1, <4>2
    <3>5. v \in Carrying
      BY <3>3, <3>4 DEF Carrying
    <3>6. A = <<v, w>>
      <4>1. rx.words = <<v>>
        BY <1>4, <2>3, <3>1
      <4>2. Append(<<v>>, w) = <<v, w>>
        BY <2>1, <3>5, TwoInTurn
      <4> QED BY <2>1, <4>1, <4>2
    <3>7. WholeMessage(<<v, w>>)
      <4>1. w.seq = v.seq + 1
        BY <1>1, <1>4, <3>3
      <4>2. v.life = w.life /\ v.kind = w.kind /\ w.part = 2 /\ v.part = 1
        BY <1>2, <2>3, <3>3, <3>4
      <4> QED BY <2>1, <3>5, <4>1, <4>2, WholeOfTwo
    <3> QED BY <3>6, <3>7
  <2> QED BY <2>2, <2>3
<1>11. \A i \in 1..Len(messages) : WholeMessage(messages[i].words)
  BY DEF KeptUp
<1>12. PICK F, G, X, R : /\ F = FlattenSeq(WordsOf(messages)) /\ G = FlattenSeq(SpokenBy(imp.sent))
                         /\ X = Spoken(w) /\ R = rx.words
  OBVIOUS
<1>13. F \in Seq(Carrying) /\ G \in Seq(Carrying) /\ X \in Seq(Carrying) /\ R \in Seq(Carrying)
  <2>1. WordsOf(messages) \in Seq(Seq(Carrying)) /\ SpokenBy(imp.sent) \in Seq(Seq(Carrying))
    BY <1>1, WordsOfType, SpokenByType
  <2>2. FlattenSeq(WordsOf(messages)) \in Seq(Carrying) /\ FlattenSeq(SpokenBy(imp.sent)) \in Seq(Carrying)
    BY <2>1, FlattenType
  <2> QED BY <1>1, <1>6, <1>12, <2>2
<1>14. F \o R = G
  BY <1>12 DEF GoodWireDelivers, WordsOf, SpokenBy
<1>15. F \o A = G \o X
  <2>1. F \o A = F \o (R \o X)
    BY <1>6, <1>12
  <2>2. F \o (R \o X) = (F \o R) \o X
    BY <1>13, JoinedInTurn
  <2> QED BY <1>14, <2>1, <2>2
<1>16. FlattenSeq(SpokenBy(imp'.sent)) = G \o X
  BY <1>1, <1>2, <1>3, <1>12, OneMoreSent
<1>17. /\ FlattenSeq(WordsOf(messages')) \o rx'.words = F \o A
       /\ \A i \in 1..Len(messages') : WholeMessage(messages'[i].words)
  <2>1. CASE ~Completes(w)
    <3>1. messages' = messages /\ rx'.words = A
      BY <1>8, <2>1
    <3> QED BY <1>11, <1>12, <3>1
  <2>2. CASE Completes(w)
    <3>1. PICK at \in 1..2 : messages' = Append(messages, [words |-> A, at |-> at])
      BY <1>8, <2>2
    <3>2. PICK m : m = [words |-> A, at |-> at]
      OBVIOUS
    <3>3. m \in Joined /\ m.words = A
      BY <1>6, <3>2 DEF Joined
    <3>4. messages' = Append(messages, m)
      BY <3>1, <3>2
    <3>5. FlattenSeq(WordsOf(messages')) = F \o A
      BY <1>1, <1>12, <3>3, <3>4, OneMoreMessage
    <3>6. /\ Len(messages') = Len(messages) + 1 /\ Len(messages) \in Nat
          /\ messages'[Len(messages) + 1] = m
          /\ \A i \in 1..Len(messages) : messages'[i] = messages[i]
      BY <1>1, <3>3, <3>4, AppendProperties
    <3>7. ASSUME NEW i \in 1..Len(messages') PROVE WholeMessage(messages'[i].words)
      <4>1. CASE i = Len(messages) + 1
        BY <1>10, <2>2, <3>3, <3>6, <4>1
      <4>2. CASE i # Len(messages) + 1
        BY <1>11, <3>6, <4>2
      <4> QED BY <4>1, <4>2
    <3>8. rx'.words = <<>>
      BY <1>8, <2>2
    <3>9. F \o A \in Seq(Carrying)
      BY <1>6, <1>13, ConcatProperties
    <3>10. (F \o A) \o <<>> = F \o A
      BY <3>9, ConcatEmptySeq
    <3> QED BY <3>5, <3>7, <3>8, <3>10
  <2> QED BY <2>1, <2>2
<1>18. KeptUp'
  <2>1. rx'.last = Len(imp'.sent)
    BY <1>3, <1>8
  <2>2. imp'.sent # <<>> /\ imp'.sent[Len(imp'.sent)] = w
    <3>1. Len(imp'.sent) # 0
      BY <1>1, <1>3
    <3> QED BY <1>3, <3>1
  <2>3. rx'.words = IF EndsMessage(imp'.sent[Len(imp'.sent)]) THEN <<>> ELSE <<imp'.sent[Len(imp'.sent)]>>
    BY <1>9, <2>2
  <2>4. \A i \in 1..Len(messages') : WholeMessage(messages'[i].words)
    BY <1>17
  <2> QED BY <2>1, <2>2, <2>3, <2>4 DEF KeptUp
<1>19. GoodWireDelivers'
  <2>1. proof' # "rejected"
    BY <1>8
  <2>2. FlattenSeq(WordsOf(messages')) \o rx'.words = FlattenSeq(SpokenBy(imp'.sent))
    BY <1>15, <1>16, <1>17
  <2> QED BY <2>1, <2>2 DEF GoodWireDelivers, WordsOf, SpokenBy
<1> QED BY <1>18, <1>19

------------------------------------------------------------------------------
(* The events of the reports among messages of which none is unusable.       *)
Reports == {m \in Joined : /\ WholeMessage(m.words)
                           /\ Head(m.words).kind \in {"trouble", "throughput", "foreign"}}

LEMMA EventsAreOfReports ==
  ASSUME NEW ms \in Seq(Joined), NEW guess,
         \A i \in 1..Len(ms) : ms[i].words # <<>> /\ ~Unusable(ms[i], guess)
  PROVE  /\ AllEvents(ms, guess) \in Seq(ReportEvents)
         /\ \A i \in 1..Len(AllEvents(ms, guess)) : AllEvents(ms, guess)[i].of \in Reports
<1> DEFINE lists == [i \in DOMAIN ms |-> IF Code(ms[i].words, guess) = "chatter" THEN <<>>
                                         ELSE EventsOf(ms[i])]
<1>1. DOMAIN ms = 1..Len(ms) /\ Len(ms) \in Nat /\ \A i \in 1..Len(ms) : ms[i] \in Joined
  BY ElementOfSeq, LenProperties
<1>2. ASSUME NEW i \in 1..Len(ms), Code(ms[i].words, guess) # "chatter"
      PROVE  ms[i] \in Reports
  <2>1. PICK m \in Joined : m = ms[i]
    BY <1>1
  <2>2. m.words \in Seq(Carrying) /\ m.words # <<>>
    BY <2>1 DEF Joined
  <2>3. Head(m.words) \in Carrying
    BY <2>2, HeadTailProperties
  <2>4. WholeMessage(m.words) /\ Head(m.words).kind # "damaged"
    BY <1>2, <2>1 DEF Unusable
  <2>5. Head(m.words).kind # "chatter"
    BY <1>2, <2>1, <2>4 DEF Code, WholeMessage
  <2>6. Head(m.words).kind \in {"trouble", "throughput", "foreign"}
    BY <2>3, <2>4, <2>5 DEF Carrying, Datagrams, Kinds
  <2> QED BY <2>1, <2>4, <2>6 DEF Reports
<1>3. ASSUME NEW i \in 1..Len(ms) PROVE lists[i] \in Seq(Reports)
  <2>1. CASE Code(ms[i].words, guess) = "chatter"
    BY <1>1, <2>1, EmptySeq
  <2>2. CASE Code(ms[i].words, guess) # "chatter"
    <3>1. PICK m \in Reports : m = ms[i]
      BY <1>2, <2>2
    <3>2. <<m>> \in Seq(Reports) /\ <<m, m>> \in Seq(Reports)
      BY <3>1
    <3> QED BY <1>1, <2>2, <3>1, <3>2 DEF EventsOf
  <2> QED BY <2>1, <2>2
<1>4. lists \in Seq(Seq(Reports))
  <2>1. lists \in [1..Len(ms) -> Seq(Reports)]
    BY <1>1, <1>3
  <2> QED BY <1>1, <2>1
<1>5. Reported(ms, guess) = FlattenSeq(lists)
  BY DEF Reported
<1> HIDE DEF lists
<1>6. PICK es : es = Reported(ms, guess)
  OBVIOUS
<1>7. es \in Seq(Reports)
  BY <1>4, <1>5, <1>6, FlattenType
<1>8. DOMAIN es = 1..Len(es) /\ Len(es) \in Nat /\ \A i \in 1..Len(es) : es[i] \in Reports
  BY <1>7, ElementOfSeq, LenProperties
<1>9. PICK all : all = AllEvents(ms, guess)
  OBVIOUS
<1>10. all = [k \in 1..Len(es) |-> [seq |-> k, of |-> es[k]]]
  BY <1>6, <1>8, <1>9 DEF AllEvents
<1>11. ASSUME NEW k \in 1..Len(es) PROVE all[k] \in ReportEvents /\ all[k].of \in Reports
  <2>1. PICK m \in Reports : m = es[k]
    BY <1>8
  <2>2. m \in Joined /\ k \in Nat
    BY DEF Reports
  <2> QED BY <1>10, <2>1, <2>2 DEF ReportEvents
<1>12. all \in [1..Len(es) -> ReportEvents]
  BY <1>10, <1>11
<1>13. all \in Seq(ReportEvents) /\ Len(all) = Len(es)
  BY <1>8, <1>12
<1> QED BY <1>9, <1>11, <1>13

------------------------------------------------------------------------------
LEMMA IngressInitEstablishes == IngressInit => IngressInv
<1> SUFFICES ASSUME IngressInit PROVE IngressInv
  OBVIOUS
<1> USE DEF IngressInit
<1>0. Len(<<>>) = 0 /\ MaxPackets \in Nat /\ MaxLives \in Nat \ {0} /\ MaxWireFaults \in Nat
  BY IngressAssumption
<1>1. IngressTables
  BY <1>0, EmptySeq DEF IngressTables
<1>2. SentInOrder /\ PartsInOrder
  BY <1>0 DEF SentInOrder, PartsInOrder
<1>3. UnderWay
  BY <1>0 DEF UnderWay, Unbroken
<1>4. MessagesUnbroken /\ KeptUp
  BY <1>0 DEF MessagesUnbroken, KeptUp
<1>5. DecodedInOrder
  BY <1>0 DEF DecodedInOrder
<1>6. GoodWireDelivers
  <2>1. WordsOf(messages) = <<>> /\ SpokenBy(imp.sent) = <<>>
    <3>1. <<>> \in Seq(Joined) /\ <<>> \in Seq(Datagrams)
      BY EmptySeq
    <3>2. /\ Len(WordsOf(<<>>)) = 0 /\ WordsOf(<<>>) \in Seq(Seq(Carrying))
          /\ Len(SpokenBy(<<>>)) = 0 /\ SpokenBy(<<>>) \in Seq(Seq(Carrying))
      BY <1>0, <3>1, WordsOfType, SpokenByType
    <3>3. WordsOf(<<>>) = <<>> /\ SpokenBy(<<>>) = <<>>
      BY <3>2, EmptySeq
    <3> QED BY <3>3
  <2>2. FlattenSeq(WordsOf(messages)) \o rx.words = FlattenSeq(SpokenBy(imp.sent))
    BY <2>1, FlattenEmpty
  <2> QED BY <2>2 DEF GoodWireDelivers, WordsOf, SpokenBy
<1> QED BY <1>1, <1>2, <1>3, <1>4, <1>5, <1>6 DEF IngressInv

(* The receiver is over, or has not heard anything.                          *)
LEMMA NothingReceived ==
  ASSUME IngressInv, UNCHANGED <<imp, rx, messages>>
  PROVE  SentInOrder' /\ PartsInOrder' /\ UnderWay' /\ MessagesUnbroken'
<1>1. IngressTables /\ SentInOrder /\ PartsInOrder /\ UnderWay /\ MessagesUnbroken
  BY DEF IngressInv
<1>2. SentInOrder' /\ PartsInOrder'
  BY <1>1 DEF SentInOrder, PartsInOrder
<1>3. imp' \in [life : 1..MaxLives, next : Nat, sent : Seq(Datagrams)]
  BY <1>1 DEF IngressTables
<1>4. SentStays
  <2>1. imp.life \in Nat /\ Len(imp.sent) \in Nat
    BY <1>1, IngressAssumption DEF IngressTables
  <2> QED BY <2>1 DEF SentStays
<1>5. UnderWay' /\ MessagesUnbroken'
  BY <1>1, <1>3, <1>4, QuietKeeps
<1> QED BY <1>2, <1>5

LEMMA NothingHandedOver ==
  ASSUME IngressInv, UNCHANGED <<imp, wireFaults, rx, messages>>, proof' # "rejected" \/ proof' = proof
  PROVE  KeptUp' /\ GoodWireDelivers'
<1>1. KeptUp'
  BY DEF IngressInv, KeptUp
<1>2. GoodWireDelivers'
  BY DEF IngressInv, GoodWireDelivers
<1> QED BY <1>1, <1>2

LEMMA SendDatagramKeeps == ASSUME IngressInv, SendDatagram PROVE IngressInv'
<1>1. IngressTables /\ SentInOrder /\ PartsInOrder /\ UnderWay /\ MessagesUnbroken /\ DecodedInOrder
      /\ KeptUp /\ GoodWireDelivers
  BY DEF IngressInv
<1>2. PICK w \in Emitted :
        /\ imp' = [imp EXCEPT !.next = @ + 1, !.sent = Append(@, w)]
        /\ \/ Receive(w) /\ UNCHANGED wireFaults
           \/ wireFaults < MaxWireFaults /\ wireFaults' = wireFaults + 1 /\ UNCHANGED <<rx, messages, proof>>
  BY DEF SendDatagram
<1>3. proof = "listening" /\ Len(imp.sent) < MaxPackets /\ UNCHANGED <<events, record>>
  BY DEF SendDatagram
<1>4. /\ imp' \in [life : 1..MaxLives, next : Nat, sent : Seq(Datagrams)]
      /\ SentStays /\ SentInOrder' /\ PartsInOrder'
      /\ imp'.life = imp.life /\ imp'.sent = Append(imp.sent, w)
      /\ Len(imp'.sent) = Len(imp.sent) + 1 /\ imp'.sent[Len(imp.sent) + 1] = w
  BY <1>1, <1>2, <1>3, SentOneMore
<1>5. w \in Datagrams
  BY <1>1, EmittedNext
<1>6. wireFaults \in Nat /\ MaxWireFaults \in Nat /\ Len(imp.sent) \in Nat
  BY <1>1, IngressAssumption DEF IngressTables
<1>7. record = <<>>
  BY <1>1, <1>3 DEF DecodedInOrder, IngressTables
<1>8. CASE Receive(w) /\ UNCHANGED wireFaults
  <2>1. Received(w)
    <3>1. Len(imp.sent) + 1 \in 1..Len(imp'.sent)
      BY <1>4, <1>6
    <3> QED BY <1>4, <1>8, <3>1 DEF Received
  <2>2. /\ rx' \in [last : Nat, words : Seq(Carrying)] /\ messages' \in Seq(Joined)
        /\ proof' \in {proof, "rejected"}
        /\ UnderWay' /\ MessagesUnbroken'
    BY <1>1, <1>5, <2>1, ReceiveKeeps
  <2>3. IngressTables'
    BY <1>1, <1>3, <1>4, <1>8, <2>2 DEF IngressTables
  <2>4. KeptUp' /\ GoodWireDelivers'
    <3>1. CASE wireFaults = 0 /\ imp.life = 1
      BY <1>1, <1>2, <1>3, <1>8, <3>1, GoodWireReceives
    <3>2. CASE ~(wireFaults = 0 /\ imp.life = 1)
      BY <1>4, <1>8, <3>2 DEF KeptUp, GoodWireDelivers
    <3> QED BY <3>1, <3>2
  <2>5. DecodedInOrder'
    BY <1>1, <1>3, <1>7, <2>2 DEF DecodedInOrder
  <2> QED BY <1>4, <2>2, <2>3, <2>4, <2>5 DEF IngressInv
<1>9. CASE wireFaults < MaxWireFaults /\ wireFaults' = wireFaults + 1 /\ UNCHANGED <<rx, messages, proof>>
  <2>1. UnderWay' /\ MessagesUnbroken'
    BY <1>1, <1>4, <1>9, QuietKeeps
  <2>2. wireFaults' \in 0..MaxWireFaults /\ wireFaults' # 0
    BY <1>6, <1>9
  <2>3. IngressTables'
    BY <1>1, <1>3, <1>4, <1>9, <2>2 DEF IngressTables
  <2>4. KeptUp' /\ GoodWireDelivers'
    BY <2>2 DEF KeptUp, GoodWireDelivers
  <2>5. DecodedInOrder'
    BY <1>1, <1>3, <1>9 DEF DecodedInOrder
  <2> QED BY <1>4, <2>1, <2>3, <2>4, <2>5 DEF IngressInv
<1> QED BY <1>2, <1>8, <1>9

LEMMA RepeatKeeps == ASSUME IngressInv, Repeat PROVE IngressInv'
<1>1. IngressTables /\ SentInOrder /\ PartsInOrder /\ UnderWay /\ MessagesUnbroken /\ DecodedInOrder
  BY DEF IngressInv
<1>2. /\ proof = "listening" /\ wireFaults < MaxWireFaults /\ wireFaults' = wireFaults + 1
      /\ UNCHANGED <<imp, events, record>>
  BY DEF Repeat
<1>3. imp.sent \in Seq(Datagrams) /\ DOMAIN imp.sent = 1..Len(imp.sent) /\ imp.life \in Nat
      /\ wireFaults \in Nat /\ MaxWireFaults \in Nat /\ Len(imp.sent) \in Nat
  BY <1>1, IngressAssumption, LenProperties DEF IngressTables
<1>4. PICK i \in 1..Len(imp.sent) : Receive(imp.sent[i])
  BY <1>3 DEF Repeat
<1>5. PICK w \in Datagrams : w = imp.sent[i]
  BY <1>3
<1>6. SentInOrder' /\ PartsInOrder' /\ SentStays
  BY <1>1, <1>2, <1>3 DEF SentInOrder, PartsInOrder, SentStays
<1>7. imp' \in [life : 1..MaxLives, next : Nat, sent : Seq(Datagrams)]
  BY <1>1, <1>2 DEF IngressTables
<1>8. Received(w)
  BY <1>2, <1>4, <1>5, <1>6, <1>7 DEF Received
<1>9. /\ rx' \in [last : Nat, words : Seq(Carrying)] /\ messages' \in Seq(Joined)
      /\ proof' \in {proof, "rejected"}
      /\ UnderWay' /\ MessagesUnbroken'
  BY <1>1, <1>5, <1>8, ReceiveKeeps
<1>10. wireFaults' \in 0..MaxWireFaults /\ wireFaults' # 0
  BY <1>2, <1>3
<1>11. IngressTables'
  BY <1>1, <1>2, <1>7, <1>9, <1>10 DEF IngressTables
<1>12. KeptUp' /\ GoodWireDelivers'
  BY <1>10 DEF KeptUp, GoodWireDelivers
<1>13. record = <<>>
  BY <1>1, <1>2 DEF DecodedInOrder, IngressTables
<1>14. DecodedInOrder'
  BY <1>1, <1>2, <1>9, <1>13 DEF DecodedInOrder
<1> QED BY <1>6, <1>9, <1>11, <1>12, <1>14 DEF IngressInv

LEMMA RestartKeeps == ASSUME IngressInv, Restart PROVE IngressInv'
<1>1. IngressTables /\ SentInOrder /\ UnderWay /\ MessagesUnbroken /\ DecodedInOrder
  BY DEF IngressInv
<1>2. /\ imp.life < MaxLives /\ imp' = [imp EXCEPT !.life = @ + 1, !.next = 0]
      /\ UNCHANGED <<wireFaults, rx, messages, events, record, proof>>
  BY DEF Restart
<1>3. /\ imp \in [life : 1..MaxLives, next : Nat, sent : Seq(Datagrams)] /\ MaxLives \in Nat
      /\ Len(imp.sent) \in Nat
  BY <1>1, IngressAssumption DEF IngressTables
<1>4. imp'.life = imp.life + 1 /\ imp'.next = 0 /\ imp'.sent = imp.sent
  BY <1>2, <1>3
<1>5. imp'.life # 1 /\ imp'.life \in 1..MaxLives /\ imp.life <= imp'.life
  BY <1>2, <1>3, <1>4
<1>6. imp' \in [life : 1..MaxLives, next : Nat, sent : Seq(Datagrams)]
  <2>1. PICK n \in 1..MaxLives : n = imp.life + 1
    BY <1>4, <1>5
  <2>2. imp' = [imp EXCEPT !.life = n, !.next = 0]
    BY <1>2, <2>1
  <2> QED BY <1>3, <2>2
<1>7. SentStays
  BY <1>3, <1>4, <1>5 DEF SentStays
<1>8. SentInOrder' /\ PartsInOrder'
  BY <1>1, <1>3, <1>4, <1>5 DEF SentInOrder, PartsInOrder
<1>9. UnderWay' /\ MessagesUnbroken'
  BY <1>1, <1>2, <1>6, <1>7, QuietKeeps
<1>10. IngressTables' /\ DecodedInOrder'
  BY <1>1, <1>2, <1>6 DEF IngressTables, DecodedInOrder
<1>11. KeptUp' /\ GoodWireDelivers'
  BY <1>5 DEF KeptUp, GoodWireDelivers
<1> QED BY <1>8, <1>9, <1>10, <1>11 DEF IngressInv

LEMMA DecodeKeeps == ASSUME IngressInv, Decode PROVE IngressInv'
<1>1. IngressTables /\ MessagesUnbroken /\ KeptUp /\ GoodWireDelivers /\ DecodedInOrder
  BY DEF IngressInv
<1>2. proof = "listening" /\ UNCHANGED <<imp, wireFaults, rx, messages, record>>
  BY DEF Decode
<1>3. PICK guess \in {"chatter", "damaged"} :
        IF \E i \in DOMAIN messages : Unusable(messages[i], guess)
        THEN proof' = "rejected" /\ UNCHANGED events
        ELSE proof' = "decoded" /\ events' = AllEvents(messages, guess)
  BY DEF Decode
<1>4. SentInOrder' /\ PartsInOrder' /\ UnderWay' /\ MessagesUnbroken'
  BY <1>2, NothingReceived
<1>5. record = <<>>
  BY <1>1, <1>2 DEF DecodedInOrder, IngressTables
<1>6. messages \in Seq(Joined) /\ DOMAIN messages = 1..Len(messages)
  BY <1>1, LenProperties DEF IngressTables
<1>7. KeptUp'
  BY <1>1, <1>2 DEF KeptUp
<1>8. CASE \E i \in DOMAIN messages : Unusable(messages[i], guess)
  <2>1. proof' = "rejected" /\ UNCHANGED events
    BY <1>3, <1>8
  <2>2. IngressTables' /\ DecodedInOrder'
    BY <1>1, <1>2, <1>5, <2>1 DEF IngressTables, DecodedInOrder
  <2>3. ASSUME wireFaults = 0, imp.life = 1
        PROVE  \E i \in DOMAIN messages : messages[i].words[1].kind = "damaged"
    <3>1. PICK i \in DOMAIN messages : Unusable(messages[i], guess)
      BY <1>8
    <3>2. WholeMessage(messages[i].words)
      BY <1>1, <1>6, <2>3 DEF KeptUp
    <3>3. Head(messages[i].words).kind = "damaged"
      BY <3>1, <3>2 DEF Unusable
    <3>4. Head(messages[i].words) = messages[i].words[1]
      OBVIOUS
    <3> QED BY <3>3, <3>4
  <2>4. GoodWireDelivers'
    BY <1>1, <1>2, <2>3 DEF GoodWireDelivers
  <2> QED BY <1>4, <1>7, <2>2, <2>4 DEF IngressInv
<1>9. CASE ~\E i \in DOMAIN messages : Unusable(messages[i], guess)
  <2>1. proof' = "decoded" /\ events' = AllEvents(messages, guess)
    BY <1>3, <1>9
  <2>2. /\ events' \in Seq(ReportEvents)
        /\ \A i \in 1..Len(events') : events'[i].of \in Reports
    BY <1>1, <1>6, <1>9, <2>1, EventsAreOfReports DEF MessagesUnbroken
  <2>3. IngressTables'
    BY <1>1, <1>2, <2>1, <2>2 DEF IngressTables
  <2>4. \A i \in 1..Len(events') :
          /\ WholeMessage(events'[i].of.words)
          /\ Head(events'[i].of.words).kind \in {"trouble", "throughput", "foreign"}
    BY <2>2 DEF Reports
  <2>5. record' = <<>> /\ Len(record') = 0 /\ Len(events') \in Nat
    BY <1>2, <1>5, <2>2
  <2>6. DecodedInOrder'
    BY <2>1, <2>4, <2>5 DEF DecodedInOrder
  <2>7. GoodWireDelivers'
    BY <1>2, <2>1, NothingHandedOver
  <2> QED BY <1>4, <1>7, <2>3, <2>6, <2>7 DEF IngressInv
<1> QED BY <1>8, <1>9

LEMMA WriteEventKeeps == ASSUME IngressInv, WriteEvent PROVE IngressInv'
<1>1. IngressTables /\ DecodedInOrder
  BY DEF IngressInv
<1>2. proof = "decoded" /\ UNCHANGED <<imp, wireFaults, rx, messages, events>>
  BY DEF WriteEvent
<1>3. SentInOrder' /\ PartsInOrder' /\ UnderWay' /\ MessagesUnbroken'
  BY <1>2, NothingReceived
<1>4. proof' \in {"decoded", "unrecorded", "recorded"}
  BY <1>2 DEF WriteEvent
<1>5. KeptUp' /\ GoodWireDelivers'
  BY <1>2, <1>4, NothingHandedOver
<1>6. events \in Seq(ReportEvents) /\ record \in Seq(ReportEvents)
      /\ Len(events) \in Nat /\ Len(record) \in Nat
  BY <1>1 DEF IngressTables
<1>7. CASE UNCHANGED record
  <2>1. IngressTables'
    BY <1>1, <1>2, <1>4, <1>7 DEF IngressTables
  <2>2. record # <<>> => proof' # "unrecorded"
    BY <1>1, <1>2, <1>7 DEF WriteEvent, DecodedInOrder
  <2>3. ValidEvents(events)' <=> ValidEvents(events)
    BY <1>2
  <2>4. DecodedInOrder'
    BY <1>1, <1>2, <1>4, <1>7, <2>2, <2>3 DEF DecodedInOrder
  <2> QED BY <1>3, <1>5, <2>1, <2>4 DEF IngressInv
<1>8. CASE ~UNCHANGED record
  <2>1. /\ ValidEvents(events) /\ Len(record) < Len(events) /\ proof' = proof
        /\ record' = Append(record, events[Len(record) + 1])
    BY <1>8 DEF WriteEvent
  <2>2. PICK n \in Nat : n = Len(record)
    BY <1>6
  <2>3. PICK e : e = events[n + 1]
    OBVIOUS
  <2>4. n + 1 \in 1..Len(events) /\ e \in ReportEvents
    BY <1>6, <2>1, <2>2, <2>3, ElementOfSeq
  <2>5. /\ record' \in Seq(ReportEvents) /\ Len(record') = n + 1 /\ record'[n + 1] = e
        /\ \A i \in 1..n : record'[i] = record[i]
    BY <1>6, <2>1, <2>2, <2>3, <2>4, AppendProperties
  <2>6. IngressTables'
    BY <1>1, <1>2, <2>1, <2>5 DEF IngressTables
  <2>7. ASSUME NEW i \in 1..Len(record') PROVE record'[i] = events[i]
    <3>1. CASE i = n + 1
      BY <2>3, <2>5, <3>1
    <3>2. CASE i # n + 1
      BY <1>1, <2>2, <2>5, <3>2 DEF DecodedInOrder
    <3> QED BY <3>1, <3>2
  <2>8. DecodedInOrder'
    <3>1. Len(record') <= Len(events)
      BY <2>4, <2>5
    <3>2. \A i \in 1..Len(events) : /\ WholeMessage(events[i].of.words)
                                    /\ Head(events[i].of.words).kind \in {"trouble", "throughput", "foreign"}
      BY <1>1 DEF DecodedInOrder
    <3> QED BY <1>2, <2>1, <2>7, <3>1, <3>2 DEF DecodedInOrder
  <2> QED BY <1>3, <1>5, <2>6, <2>8 DEF IngressInv
<1> QED BY <1>7, <1>8

LEMMA ProofEndsKeeps == ASSUME IngressInv, Finish \/ KillProof PROVE IngressInv'
<1>1. IngressTables /\ DecodedInOrder
  BY DEF IngressInv
<1>2. /\ UNCHANGED <<imp, wireFaults, rx, messages, events, record>>
      /\ proof' \in {"failed", "passed", "killed"}
  BY DEF Finish, KillProof
<1>3. SentInOrder' /\ PartsInOrder' /\ UnderWay' /\ MessagesUnbroken'
  BY <1>2, NothingReceived
<1>4. KeptUp' /\ GoodWireDelivers'
  BY <1>2, NothingHandedOver
<1>5. IngressTables'
  BY <1>1, <1>2 DEF IngressTables
<1>6. DecodedInOrder'
  BY <1>1, <1>2 DEF DecodedInOrder
<1> QED BY <1>3, <1>4, <1>5, <1>6 DEF IngressInv

LEMMA IngressStepKeeps == ASSUME IngressInv, [IngressNext]_ingressVars PROVE IngressInv'
<1>1. CASE SendDatagram
  BY <1>1, SendDatagramKeeps
<1>2. CASE Repeat
  BY <1>2, RepeatKeeps
<1>3. CASE Restart
  BY <1>3, RestartKeeps
<1>4. CASE Decode
  BY <1>4, DecodeKeeps
<1>5. CASE WriteEvent
  BY <1>5, WriteEventKeeps
<1>6. CASE Finish \/ KillProof
  BY <1>6, ProofEndsKeeps
<1>7. CASE UNCHANGED ingressVars
  <2>1. SentInOrder' /\ PartsInOrder' /\ UnderWay' /\ MessagesUnbroken'
    BY <1>7, NothingReceived DEF ingressVars
  <2>2. KeptUp' /\ GoodWireDelivers'
    BY <1>7, NothingHandedOver DEF ingressVars
  <2>3. IngressTables' /\ DecodedInOrder'
    BY <1>7 DEF ingressVars, IngressInv, IngressTables, DecodedInOrder
  <2> QED BY <2>1, <2>2, <2>3 DEF IngressInv
<1> QED BY <1>1, <1>2, <1>3, <1>4, <1>5, <1>6, <1>7 DEF IngressNext

LEMMA IngressInvHolds == IngressSpec => []IngressInv
<1>1. IngressInit => IngressInv
  BY IngressInitEstablishes
<1>2. IngressInv /\ [IngressNext]_ingressVars => IngressInv'
  BY IngressStepKeeps
<1> QED BY <1>1, <1>2, PTL DEF IngressSpec

LEMMA IngressInvTypes == ASSUME IngressInv PROVE IngressTypeOK
<1>1. IngressTables /\ SentInOrder /\ UnderWay /\ MessagesUnbroken /\ DecodedInOrder
  BY DEF IngressInv
<1>2. /\ imp.life \in 1..MaxLives /\ imp.next \in Nat /\ rx.last \in Nat /\ Len(rx.words) \in Nat
      /\ wireFaults \in 0..MaxWireFaults /\ MaxPackets \in Nat /\ Len(imp.sent) \in Nat
      /\ messages \in Seq(Joined)
      /\ proof \in {"listening", "decoded", "recorded", "unrecorded",
                    "rejected", "failed", "passed", "killed"}
  BY <1>1, IngressAssumption DEF IngressTables
<1>3. imp.next \in 0..MaxPackets /\ rx.last \in 0..MaxPackets /\ Len(rx.words) <= MaxPackets
  BY <1>1, <1>2 DEF SentInOrder, UnderWay
<1>4. ASSUME NEW i \in DOMAIN messages PROVE messages[i].words # <<>> /\ messages[i].at \in 1..2
  <2>1. i \in 1..Len(messages) /\ messages[i] \in Joined
    BY <1>2, ElementOfSeq, LenProperties
  <2> QED BY <1>1, <2>1 DEF MessagesUnbroken, Joined
<1>5. Len(record) <= Len(events)
  BY <1>1 DEF DecodedInOrder
<1> QED BY <1>2, <1>3, <1>4, <1>5 DEF IngressTypeOK

LEMMA IngressInvFaithful == ASSUME IngressInv PROVE IngressIsFaithful
<1>1. IngressTables /\ MessagesUnbroken /\ GoodWireDelivers /\ DecodedInOrder
  BY DEF IngressInv
<1>2. /\ messages \in Seq(Joined) /\ events \in Seq(ReportEvents) /\ record \in Seq(ReportEvents)
      /\ DOMAIN messages = 1..Len(messages) /\ DOMAIN events = 1..Len(events)
      /\ DOMAIN record = 1..Len(record) /\ Len(events) \in Nat /\ Len(record) \in Nat
  BY <1>1, LenProperties DEF IngressTables
<1>3. MessagesSpanNoGap
  BY <1>1, <1>2 DEF MessagesSpanNoGap, MessagesUnbroken, Unbroken, RunsOn
<1>4. RecordReadsBack
  <2>1. \A i \in DOMAIN events : WholeMessage(events[i].of.words)
    BY <1>1, <1>2 DEF DecodedInOrder
  <2>2. record = SubSeq(events, 1, Len(record))
    <3>1. PICK n \in Nat : n = Len(record)
      BY <1>2
    <3>2. n <= Len(events)
      BY <1>1, <3>1 DEF DecodedInOrder
    <3>3. PICK s : s = SubSeq(events, 1, n)
      OBVIOUS
    <3>4. s \in Seq(ReportEvents) /\ Len(s) = n /\ \A i \in 1..n : s[i] = events[i]
      BY <1>2, <3>1, <3>2, <3>3, SubSeqProperties
    <3>5. \A i \in 1..n : s[i] = record[i]
      BY <1>1, <3>1, <3>4 DEF DecodedInOrder
    <3>6. s = record
      BY <1>2, <3>1, <3>4, <3>5, SeqEqual
    <3> QED BY <3>1, <3>3, <3>6
  <2>3. ASSUME NEW i \in DOMAIN record
        PROVE  /\ record[i].seq = i
               /\ Head(record[i].of.words).kind \in {"trouble", "throughput"}
               /\ i > 1 => record[i].of.at >= record[i - 1].of.at
    <3>1. record # <<>> /\ i \in 1..Len(record) /\ i \in 1..Len(events)
      BY <1>1, <1>2, <2>3 DEF DecodedInOrder
    <3>2. ValidEvents(events) /\ record[i] = events[i]
      BY <1>1, <3>1 DEF DecodedInOrder
    <3>3. /\ events[i].seq = i /\ Head(events[i].of.words).kind # "foreign"
          /\ i > 1 => events[i].of.at >= events[i - 1].of.at
      BY <1>2, <3>1, <3>2 DEF ValidEvents
    <3>4. Head(events[i].of.words).kind \in {"trouble", "throughput", "foreign"}
      BY <1>1, <3>1 DEF DecodedInOrder
    <3>5. i > 1 => record[i - 1] = events[i - 1]
      BY <1>1, <1>2, <3>1 DEF DecodedInOrder
    <3> QED BY <3>2, <3>3, <3>4, <3>5
  <2>4. proof \in {"rejected", "unrecorded"} => record = <<>>
    BY <1>1 DEF DecodedInOrder
  <2> QED BY <2>1, <2>2, <2>3, <2>4 DEF RecordReadsBack
<1> QED BY <1>1, <1>3, <1>4 DEF IngressIsFaithful

(* The lives and numbers stay within what the interface may send, a message  *)
(* has words, and no more is recorded than was decoded, whatever the wire    *)
(* does with the datagrams (PassiveHostIngress, HistoricalEventRecorder).    *)
THEOREM IngressTypesHold == IngressSpec => []IngressTypeOK
BY IngressInvHolds, IngressInvTypes, PTL

(* The receiver joins nothing across a gap, loses nothing that arrived in    *)
(* order, and leaves a record its reader accepts, for any number of          *)
(* datagrams, restarts of the interface and faults of the wire               *)
(* (PassiveHostIngress.receive, HistoricalEventRecorder.append).             *)
THEOREM IngressIsAlwaysFaithful == IngressSpec => []IngressIsFaithful
BY IngressInvHolds, IngressInvFaithful, PTL
=================================================================================
