------------------------ MODULE OperatorSessionProofs -------------------------
(***************************************************************************)
(* OperatorInv is inductive, for any bounds on what is typed, printed and  *)
(* commanded, and wherever the signal and the kill fall.                   *)
(*                                                                         *)
(* What the controller has still to do says how far it is between the      *)
(* program, the transcript and the screen: in a terminal session the bytes *)
(* not recorded, recorded and not shown, recorded and not sent are those   *)
(* of the jobs that wait (TerminalGoesOn); in a dialogue a command is      *)
(* recorded before it is sent, and its result before the next one is       *)
(* (DialogueGoesOn).  As long as no signal has struck between a line and   *)
(* its count, the recorder has counted what the file holds and the strict  *)
(* reader accepts it (RecorderInStep); a clean end is written when nothing *)
(* is under way, and nothing after it is sent or shown (CleanEndsAreTrue,  *)
(* StageGoesOn).  A kill leaves the whole lines of a file and half a line  *)
(* at its end, so that what the reader takes is a file from before it.     *)
(***************************************************************************)
EXTENDS OperatorSession, ListLemmas

(* What the controller may have to do, and the lines of a file.              *)
Ends == CleanEnds \cup {"output-limit", "process-exit", "input-limit", "failed", "interrupted"}
ByteRecords == [do : {"write"}, kind : {"bytes"}, dir : {"in", "out"}, n : Nat \ {0}]
ControlRecords == [do : {"write"}, kind : {"control"}, dir : Controls, n : {1}]
CommandRecords == [do : {"write"}, kind : {"command"}, dir : {"in"}, n : {1}]
ResultRecords == [do : {"write"}, kind : {"result"}, dir : Statuses, n : Nat, framed : BOOLEAN]
EndRecords == [do : {"write"}, kind : {"end"}, dir : Ends, n : {0}]
SessionRecords == ByteRecords \cup ControlRecords \cup CommandRecords \cup ResultRecords \cup EndRecords
Steps == [do : {"relay", "watch", "ask", "noted", "close", "check", "stop"}]
Counts == [do : {"count"}, record : SessionRecords]
Transfers == [do : {"show", "send"}, n : Nat \ {0}]
Endings == [do : {"return", "raise"}, reason : Ends]
Replies == [do : {"reply"}, from : Nat]
Jobs == SessionRecords \cup Steps \cup Counts \cup Transfers \cup Endings \cup Replies
Lines == [kind : {"bytes", "control", "command", "result", "end"},
          dir : {"in", "out"} \cup Controls \cup Statuses \cup Ends,
          n : Nat, seq : Nat, whole : BOOLEAN, framed : BOOLEAN, totals : Seq(Nat)]
Recorders == [next : Nat, input : Nat, output : Nat, data : Nat, control : Nat, commands : Nat,
              completed : Nat, failed : Nat, pending : BOOLEAN, done : BOOLEAN, closed : BOOLEAN]
Stages == {"opening", "session", "ending", "closing", "checking", "finally", "over"}
Runs == [stage : Stages, reason : Ends \cup {"none", "raised", "killed"},
         interrupted : BOOLEAN, transcript : BOOLEAN, outcome : {"none", "passed", "failed"}]

OperatorTables ==
  /\ profile \in {"terminal", "line"} /\ alive \in BOOLEAN
  /\ printed \in Seq({"text", "prompt", "closed"})
  /\ seen \in 0..Len(printed) /\ cursor \in 0..Len(printed) /\ typed \in Nat
  /\ todo \in Seq(Jobs) /\ file \in Seq(Lines) /\ mem \in Recorders
  /\ bridge \in [input : Nat, output : Nat] /\ sent \in Nat
  /\ run \in Runs

Running == run.stage # "over"

(* Only a kill leaves a line that is not whole.                              *)
LinesWhole == Running => \A i \in 1..Len(file) : file[i].whole

(* Between a line and its count the recorder is one record behind.           *)
Counting == todo # <<>> /\ Head(todo).do = "count"
Waiting == IF Counting THEN Tail(todo) ELSE todo

InputOf(f) == Cardinality(BytesOf(f, "in"))
OutputOf(f) == Cardinality(BytesOf(f, "out"))
CommandsOf(f) == RecordsOf(f, "command", {"in"})
CompletedOf(f) == RecordsOf(f, "result", {"complete"})
FailedOf(f) == RecordsOf(f, "result", Statuses \ {"complete"})

(* The recorder m has counted the file f.                                    *)
InStep(m, f) ==
  /\ m.next = Len(f) + 1
  /\ m.input = InputOf(f) /\ m.output = OutputOf(f)
  /\ m.data = RecordsOf(f, "bytes", {"in", "out"}) /\ m.control = RecordsOf(f, "control", Controls)
  /\ m.commands = CommandsOf(f) /\ m.completed = CompletedOf(f) /\ m.failed = FailedOf(f)
  /\ m.commands = m.completed + m.failed + (IF m.pending THEN 1 ELSE 0)
  /\ m.pending <=> f # <<>> /\ f[Len(f)].kind = "command"
  /\ m.done <=> f # <<>> /\ f[Len(f)].kind = "end"
  /\ f # <<>> /\ f[Len(f)].kind = "result" /\ m.failed = 0 => f[Len(f)].dir = "complete"

Reads(f) == IF profile = "terminal" THEN ReadTerminal(f) ELSE ReadDialogue(f)

(* A signal may fall between a line and its count: then a number is given    *)
(* twice.  In a session it falls on a reply only.                            *)
Undisturbed == Running /\ (run.stage \in {"opening", "session"} \/ ~run.interrupted)

RecorderInStep ==
  Undisturbed =>
    /\ Reads(file)
    /\ IF Counting
       THEN \E f \in Seq(Lines) :
              file = Append(f, Line(Head(todo).record)) /\ InStep(mem, f) /\ ~Refused(Head(todo).record)
       ELSE InStep(mem, file)

(* Nothing is under way.                                                     *)
Idle ==
  IF profile = "terminal"
  THEN sent = InputOf(file) /\ seen = OutputOf(file)
  ELSE sent = CommandsOf(file) /\ sent = CompletedOf(file)

ToReturn(reason) == [do |-> "return", reason |-> reason]
Polls == {<<Do("relay"), Do("watch"), Do("ask")>>, <<Do("watch"), Do("ask")>>, <<Do("ask")>>}
LeaveRests == {<<Do("relay"), ToReturn("operator-exit")>>, <<ToReturn("operator-exit")>>}
AfterShow == {<<Do("watch"), Do("ask")>>, <<ToReturn("operator-exit")>>}
AfterCut == {<<Do("relay"), Do("watch"), Do("ask")>>, <<Do("relay"), ToReturn("operator-exit")>>}
AfterSend == AfterCut \cup {<<Control("application-link-cut")>> \o s : s \in AfterCut}

(* What the terminal has still to do, and how far the bytes of it are: to be *)
(* displayed, to be recorded and displayed, to be sent, to be recorded and   *)
(* sent.                                                                     *)
Displays(s) ==
  /\ s # <<>> /\ Head(s).do = "show" /\ Tail(s) \in AfterShow
  /\ sent = InputOf(file) /\ OutputOf(file) = seen + Head(s).n
  /\ seen + Head(s).n <= Len(printed)
Relays(s) ==
  /\ s # <<>> /\ Head(s).do = "write" /\ Head(s).kind = "bytes" /\ Head(s).dir = "out"
  /\ Tail(s) # <<>> /\ Head(Tail(s)).do = "show" /\ Tail(Tail(s)) \in AfterShow
  /\ sent = InputOf(file) /\ OutputOf(file) + Head(s).n = seen + Head(Tail(s)).n
  /\ seen + Head(Tail(s)).n <= Len(printed) /\ seen + Head(Tail(s)).n <= MaxOutput
Sends(s) ==
  /\ s # <<>> /\ Head(s).do = "send" /\ Tail(s) \in AfterSend
  /\ seen = OutputOf(file) /\ InputOf(file) = sent + Head(s).n
Forwards(s) ==
  /\ s # <<>> /\ Head(s).do = "write" /\ Head(s).kind = "bytes" /\ Head(s).dir = "in"
  /\ Tail(s) # <<>> /\ Head(Tail(s)).do = "send" /\ Tail(Tail(s)) \in AfterSend
  /\ seen = OutputOf(file) /\ InputOf(file) + Head(s).n = sent + Head(Tail(s)).n
  /\ sent + Head(Tail(s)).n <= MaxInput
RestPlans == Polls \cup LeaveRests \cup AfterSend \cup {<<ToReturn("input-limit")>>}
AtRest(s) == s \in RestPlans /\ Idle
Blocks(s) ==
  /\ s # <<>> /\ Head(s) = Control("blocked-or-rejected") /\ Idle
  /\ Tail(s) \in AfterSend \cup {<<ToReturn("input-limit")>>} \/ Forwards(Tail(s))

TerminalGoesOn(s) ==
  /\ bridge.input = sent /\ bridge.output = seen /\ FailedOf(file) = 0
  /\ AtRest(s) \/ Displays(s) \/ Relays(s) \/ Sends(s) \/ Forwards(s) \/ Blocks(s)

(* What the dialogue has still to do: ask, record and send a command, wait   *)
(* for the reply, record its result, and raise if it was not complete.       *)
Awaits(s) ==
  s # <<>> /\ Head(s).do = "reply" /\ Head(s).from <= Len(printed) /\ Tail(s) = <<>>
Orders(s) == s # <<>> /\ Head(s) = [do |-> "send", n |-> 1] /\ Awaits(Tail(s))
Raises(s) ==
  s # <<>> /\ Head(s).do = "raise" /\ Head(s).reason \notin CleanEnds /\ Tail(s) = <<>>
Commands(s) == s # <<>> /\ Head(s) = Command /\ Orders(Tail(s))
Answers(s) ==
  /\ s # <<>> /\ Head(s).do = "write" /\ Head(s).kind = "result" /\ Head(s).n <= MaxResponse
  /\ IF Head(s).dir = "complete" THEN Tail(s) = <<Do("ask")>> ELSE Raises(Tail(s))

DialogueGoesOn(s) ==
  \/ s = <<Do("ask")>> /\ Idle /\ FailedOf(file) = 0
  \/ Commands(s) /\ Idle /\ FailedOf(file) = 0 /\ CommandsOf(file) < MaxCommands
  \/ Orders(s) /\ CommandsOf(file) = sent + 1 /\ CompletedOf(file) = sent /\ FailedOf(file) = 0
  \/ /\ Awaits(s) \/ Answers(s)
     /\ CommandsOf(file) = sent /\ sent = CompletedOf(file) + 1 /\ FailedOf(file) = 0
  \/ Raises(s) /\ CommandsOf(file) = sent

(* How the stages follow each other.                                         *)
EndedBy(reason) == file # <<>> /\ file[Len(file)].kind = "end" /\ file[Len(file)].dir = reason

IsOpening ==
  /\ todo = Again /\ file = <<>> /\ sent = 0 /\ seen = 0 /\ run.reason = "none"
  /\ bridge = [input |-> 0, output |-> 0] /\ ~mem.closed
InSession ==
  /\ \E s \in Seq(Jobs) : /\ s = Waiting
                         /\ IF profile = "terminal" THEN TerminalGoesOn(s) ELSE DialogueGoesOn(s)
  /\ \A i \in 1..Len(file) : file[i].kind # "end"
  /\ ~mem.closed /\ ~mem.done /\ run.reason = "none"
IsEnding ==
  /\ ~mem.closed
  /\ \/ /\ todo # <<>> /\ Head(todo) \in EndRecords /\ Tail(todo) = <<Do("noted")>>
        /\ IF Head(todo).dir \in CleanEnds
           THEN Idle /\ FailedOf(file) = 0 /\ run.reason = Head(todo).dir
           ELSE run.reason \notin CleanEnds
     \/ Waiting = <<Do("noted")>> /\ (run.reason \in CleanEnds => EndedBy(run.reason))
IsClosing ==
  /\ todo = <<Do("close")>>
  /\ run.reason \in CleanEnds => run.transcript /\ EndedBy(run.reason)
IsChecking ==
  /\ todo = <<Do("check")>> /\ run.reason \in CleanEnds
  /\ run.transcript /\ EndedBy(run.reason)
IsLeaving ==
  \/ Waiting = <<Do("stop")>>
  \/ /\ todo # <<>> /\ Head(todo) \in EndRecords /\ Head(todo).dir \notin CleanEnds
     /\ Tail(todo) = <<Do("stop")>> /\ run.outcome # "passed"

StageGoesOn ==
  /\ run.stage = "opening" => IsOpening
  /\ run.stage = "session" => InSession
  /\ run.stage = "ending" => IsEnding
  /\ run.stage = "closing" => IsClosing
  /\ run.stage = "checking" => IsChecking
  /\ run.stage = "finally" => IsLeaving
  /\ run.outcome = "passed" => run.stage \in {"finally", "over"} /\ ~Counting
  /\ run.reason = "killed" => run.stage = "over"

(* A clean end is written when nothing was under way.                        *)
CleanEndsAreTrue ==
  (\E i \in 1..Len(Whole(file)) : Whole(file)[i].kind = "end" /\ Whole(file)[i].dir \in CleanEnds)
    => IF profile = "terminal"
       THEN sent = InputOf(Whole(file)) /\ seen = OutputOf(Whole(file))
       ELSE sent = CompletedOf(Whole(file)) /\ FailedOf(Whole(file)) = 0

OperatorInv ==
  /\ OperatorTables /\ LinesWhole /\ RecorderInStep /\ StageGoesOn
  /\ NothingUnrecorded /\ CleanEndsAreTrue /\ PassedIsReadable /\ KilledIsReadable

------------------------------------------------------------------------------
(* Lists of what is to be done. *)
LEMMA FirstThen ==
  ASSUME NEW x \in Jobs, NEW s \in Seq(Jobs)
  PROVE  <<x>> \o s \in Seq(Jobs) /\ <<x>> \o s # <<>> /\ Head(<<x>> \o s) = x /\ Tail(<<x>> \o s) = s
OBVIOUS

LEMMA FirstTwoThen ==
  ASSUME NEW x \in Jobs, NEW y \in Jobs, NEW s \in Seq(Jobs)
  PROVE  <<x, y>> \o s = <<x>> \o (<<y>> \o s)
<1>1. <<x>> \in Seq(Jobs) /\ <<y>> \in Seq(Jobs)
  OBVIOUS
<1>2. <<x>> \o <<y>> = <<x, y>>
  <2>1. PICK a, b : a = <<x>> \o <<y>> /\ b = <<x, y>>
    OBVIOUS
  <2>2. b \in Seq(Jobs) /\ Len(b) = 2 /\ b[1] = x /\ b[2] = y
    BY <2>1
  <2>3. a \in Seq(Jobs) /\ Len(a) = 2 /\ a[1] = x /\ a[2] = y
    BY <1>1, <2>1, ConcatProperties
  <2>4. \A i \in 1..2 : a[i] = b[i]
    BY <2>2, <2>3
  <2> QED BY <2>1, <2>2, <2>3, <2>4, SeqEqual
<1>3. (<<x>> \o <<y>>) \o s = <<x>> \o (<<y>> \o s)
  BY <1>1, ConcatAssociative
<1> QED BY <1>2, <1>3

LEMMA JobKinds ==
  ASSUME NEW j \in Jobs
  PROVE  /\ j.do = "write" => j \in SessionRecords
         /\ j.do = "count" => j.record \in SessionRecords
         /\ j.do \in {"show", "send"} => j.n \in Nat \ {0}
         /\ j.do \in {"return", "raise"} => j.reason \in Ends
         /\ j.do = "reply" => j.from \in Nat
BY DEF Jobs, SessionRecords, ByteRecords, ControlRecords, CommandRecords, ResultRecords, EndRecords,
       Steps, Counts, Transfers, Endings, Replies

LEMMA RecordKinds ==
  ASSUME NEW r \in SessionRecords
  PROVE  /\ r.do = "write" /\ r.n \in Nat
         /\ r.kind \in {"bytes", "control", "command", "result", "end"}
         /\ r.kind = "bytes" => r \in ByteRecords
         /\ r.kind = "control" => r \in ControlRecords
         /\ r.kind = "command" => r \in CommandRecords
         /\ r.kind = "result" => r \in ResultRecords
         /\ r.kind = "end" => r \in EndRecords
         /\ r.dir \in {"in", "out"} \cup Controls \cup Statuses \cup Ends
BY DEF SessionRecords, ByteRecords, ControlRecords, CommandRecords, ResultRecords, EndRecords

LEMMA RecordsAreJobs ==
  /\ \A r \in SessionRecords : r \in Jobs /\ [do |-> "count", record |-> r] \in Jobs
  /\ \A what \in {"relay", "watch", "ask", "noted", "close", "check", "stop"} :
       Do(what) \in Jobs /\ Do(what).do = what
  /\ \A n \in Nat \ {0} : /\ [do |-> "show", n |-> n] \in Jobs /\ [do |-> "send", n |-> n] \in Jobs
                          /\ Bytes("in", n) \in ByteRecords /\ Bytes("out", n) \in ByteRecords
  /\ \A reason \in Ends : /\ [do |-> "return", reason |-> reason] \in Jobs
                          /\ [do |-> "raise", reason |-> reason] \in Jobs
                          /\ EndRecord(reason) \in EndRecords
  /\ \A n \in Nat : [do |-> "reply", from |-> n] \in Jobs
  /\ Command \in CommandRecords
  /\ \A name \in Controls : Control(name) \in ControlRecords
  /\ \A s \in Statuses, n \in Nat, f \in BOOLEAN : Result(s, n, f) \in ResultRecords
<1>1. \A r \in SessionRecords : r \in Jobs /\ [do |-> "count", record |-> r] \in Jobs
  BY DEF Jobs, Counts
<1>2. \A what \in {"relay", "watch", "ask", "noted", "close", "check", "stop"} :
        Do(what) \in Jobs /\ Do(what).do = what
  BY DEF Jobs, Steps, Do
<1>3. \A n \in Nat \ {0} : /\ [do |-> "show", n |-> n] \in Jobs /\ [do |-> "send", n |-> n] \in Jobs
                           /\ Bytes("in", n) \in ByteRecords /\ Bytes("out", n) \in ByteRecords
  BY DEF Jobs, Transfers, Bytes, ByteRecords
<1>4. \A reason \in Ends : /\ [do |-> "return", reason |-> reason] \in Jobs
                           /\ [do |-> "raise", reason |-> reason] \in Jobs
                           /\ EndRecord(reason) \in EndRecords
  BY DEF Jobs, Endings, EndRecord, EndRecords
<1>5. \A n \in Nat : [do |-> "reply", from |-> n] \in Jobs
  BY DEF Jobs, Replies
<1>6. Command \in CommandRecords /\ \A name \in Controls : Control(name) \in ControlRecords
  BY DEF Command, CommandRecords, Control, ControlRecords
<1>7. \A s \in Statuses, n \in Nat, f \in BOOLEAN : Result(s, n, f) \in ResultRecords
  BY DEF Result, ResultRecords
<1> QED BY <1>1, <1>2, <1>3, <1>4, <1>5, <1>6, <1>7

LEMMA KindsOfRecords ==
  /\ ByteRecords \subseteq SessionRecords /\ ControlRecords \subseteq SessionRecords
  /\ CommandRecords \subseteq SessionRecords /\ ResultRecords \subseteq SessionRecords
  /\ EndRecords \subseteq SessionRecords /\ SessionRecords \subseteq Jobs
BY DEF SessionRecords, Jobs

(* One chunk of a record, and what is left of it.                            *)
LEMMA ChunkOfRecord ==
  ASSUME NEW r \in SessionRecords
  PROVE  /\ Chunk(r) \in SessionRecords /\ Chunk(r).kind = r.kind /\ Chunk(r).dir = r.dir
         /\ r.kind # "bytes" => Chunk(r) = r /\ AfterChunk(r) = <<>>
         /\ r.kind = "bytes" =>
              /\ Chunk(r).n \in 1..MaxChunk /\ Chunk(r).n <= r.n
              /\ \/ Chunk(r).n = r.n /\ AfterChunk(r) = <<>>
                 \/ \E q \in ByteRecords : /\ AfterChunk(r) = <<q>> /\ q.dir = r.dir
                                           /\ q.n = r.n - Chunk(r).n
<1>1. MaxChunk \in Nat \ {0}
  BY OperatorAssumption
<1>2. CASE r.kind # "bytes"
  BY <1>2 DEF Chunk, AfterChunk
<1>3. CASE r.kind = "bytes" /\ r.n <= MaxChunk
  <2>1. r \in ByteRecords
    BY <1>3, RecordKinds
  <2>2. r.n \in Nat \ {0}
    BY <2>1 DEF ByteRecords
  <2> QED BY <1>1, <1>3, <2>2 DEF Chunk, AfterChunk
<1>4. CASE r.kind = "bytes" /\ r.n > MaxChunk
  <2>1. r \in ByteRecords
    BY <1>4, RecordKinds
  <2>2. r.n \in Nat \ {0}
    BY <2>1 DEF ByteRecords
  <2>3. Chunk(r) = [r EXCEPT !.n = MaxChunk] /\ AfterChunk(r) = <<[r EXCEPT !.n = @ - MaxChunk]>>
    BY <1>4 DEF Chunk, AfterChunk
  <2>4. Chunk(r) \in ByteRecords /\ Chunk(r).n = MaxChunk /\ Chunk(r).kind = r.kind /\ Chunk(r).dir = r.dir
    BY <1>1, <2>1, <2>3 DEF ByteRecords
  <2>5. PICK q : q = [r EXCEPT !.n = @ - MaxChunk]
    OBVIOUS
  <2>6. PICK m : m = r.n - MaxChunk
    OBVIOUS
  <2>7. m \in Nat \ {0}
    BY <1>1, <1>4, <2>2, <2>6
  <2>8. q \in ByteRecords /\ q.dir = r.dir /\ q.n = m
    BY <2>1, <2>5, <2>6, <2>7 DEF ByteRecords
  <2>9. Chunk(r) \in SessionRecords
    BY <2>4, KindsOfRecords
  <2>10. Chunk(r).n \in 1..MaxChunk /\ Chunk(r).n <= r.n
    BY <1>1, <1>4, <2>2, <2>4
  <2>11. AfterChunk(r) = <<q>> /\ q.dir = r.dir /\ q.n = r.n - Chunk(r).n
    BY <2>3, <2>4, <2>5, <2>6, <2>8
  <2> QED BY <1>4, <2>4, <2>8, <2>9, <2>10, <2>11
<1> QED BY <1>1, <1>2, <1>3, <1>4, RecordKinds

------------------------------------------------------------------------------
(* What is counted in a file with one more line.                             *)
LEMMA FileOfLines ==
  ASSUME NEW f \in Seq(Lines)
  PROVE  /\ Len(f) \in Nat /\ DOMAIN f = 1..Len(f) /\ IsFiniteSet(DOMAIN f)
         /\ \A i \in 1..Len(f) : f[i] \in Lines /\ f[i].n \in Nat
<1>1. Len(f) \in Nat /\ DOMAIN f = 1..Len(f) /\ \A i \in 1..Len(f) : f[i] \in Lines
  BY ElementOfSeq, LenProperties
<1>2. \A i \in 1..Len(f) : f[i].n \in Nat
  BY <1>1 DEF Lines
<1>3. IsFiniteSet(1..Len(f))
  BY <1>1, FS_Interval
<1> QED BY <1>1, <1>2, <1>3

LEMMA RecordsOfMore ==
  ASSUME NEW f \in Seq(Lines), NEW l \in Lines, NEW k, NEW d
  PROVE  /\ RecordsOf(f, k, d) \in Nat
         /\ RecordsOf(Append(f, l), k, d)
              = RecordsOf(f, k, d) + (IF l.kind = k /\ l.dir \in d THEN 1 ELSE 0)
<1>1. PICK g : g = Append(f, l)
  OBVIOUS
<1>2. /\ g \in Seq(Lines) /\ Len(g) = Len(f) + 1 /\ g[Len(f) + 1] = l
      /\ \A i \in 1..Len(f) : g[i] = f[i]
  BY <1>1, AppendProperties
<1>3. Len(f) \in Nat /\ DOMAIN f = 1..Len(f) /\ DOMAIN g = 1..Len(f) + 1 /\ IsFiniteSet(DOMAIN f)
  BY <1>2, FileOfLines
<1> DEFINE F == {i \in DOMAIN f : f[i].kind = k /\ f[i].dir \in d}
           G == {i \in DOMAIN g : g[i].kind = k /\ g[i].dir \in d}
<1>4. IsFiniteSet(F) /\ Cardinality(F) \in Nat /\ Len(f) + 1 \notin F
  <2>1. IsFiniteSet(F)
    BY <1>3, FS_Subset
  <2>2. Len(f) + 1 \notin DOMAIN f
    BY <1>3
  <2> QED BY <2>1, <2>2, FS_CardinalityType
<1>5. G = IF l.kind = k /\ l.dir \in d THEN F \cup {Len(f) + 1} ELSE F
  BY <1>2, <1>3
<1>6. Cardinality(G) = Cardinality(F) + (IF l.kind = k /\ l.dir \in d THEN 1 ELSE 0)
  <2>1. PICK x, B, C : x = Len(f) + 1 /\ B = F /\ C = G
    OBVIOUS
  <2>2. IsFiniteSet(B) /\ Cardinality(B) \in Nat /\ x \notin B
    BY <1>4, <2>1
  <2>3. C = IF l.kind = k /\ l.dir \in d THEN B \cup {x} ELSE B
    BY <1>5, <2>1
  <2>4. Cardinality(B \cup {x}) = Cardinality(B) + 1
    BY <2>2, FS_AddElement
  <2>5. Cardinality(C) = Cardinality(B) + (IF l.kind = k /\ l.dir \in d THEN 1 ELSE 0)
    BY <2>2, <2>3, <2>4
  <2> QED BY <2>1, <2>5
<1> QED BY <1>1, <1>4, <1>6 DEF RecordsOf

(* The bytes of the lines in a set.                                          *)
LEMMA BytesFinite ==
  ASSUME NEW f \in Seq(Lines), NEW d
  PROVE  IsFiniteSet(BytesOf(f, d)) /\ Cardinality(BytesOf(f, d)) \in Nat
<1> DEFINE T == {i \in DOMAIN f : f[i].kind = "bytes" /\ f[i].dir = d}
           U == {{i} \X (1..f[i].n) : i \in T}
<1>1. Len(f) \in Nat /\ DOMAIN f = 1..Len(f) /\ IsFiniteSet(DOMAIN f) /\ \A i \in 1..Len(f) : f[i].n \in Nat
  BY FileOfLines
<1>2. IsFiniteSet(T)
  BY <1>1, FS_Subset
<1>3. IsFiniteSet(U)
  <2>1. PICK h : h = [i \in T |-> {i} \X (1..f[i].n)]
    OBVIOUS
  <2>2. h \in Surjection(T, U)
    BY <2>1 DEF Surjection
  <2> HIDE DEF T, U
  <2> QED BY <1>2, <2>2, FS_Surjection
<1>4. ASSUME NEW x \in U PROVE IsFiniteSet(x)
  <2>1. PICK i \in T : x = {i} \X (1..f[i].n)
    OBVIOUS
  <2>2. IsFiniteSet({i}) /\ IsFiniteSet(1..f[i].n)
    <3>1. f[i].n \in Int /\ 1 \in Int
      BY <1>1
    <3> QED BY <3>1, FS_Singleton, FS_Interval
  <2> QED BY <2>1, <2>2, FS_Product
<1>5. IsFiniteSet(UNION U)
  BY <1>3, <1>4, FS_UNION
<1>6. BytesOf(f, d) = UNION U
  BY DEF BytesOf
<1> QED BY <1>5, <1>6, FS_CardinalityType

LEMMA BytesOfMore ==
  ASSUME NEW f \in Seq(Lines), NEW l \in Lines, NEW d
  PROVE  Cardinality(BytesOf(Append(f, l), d))
           = Cardinality(BytesOf(f, d)) + (IF l.kind = "bytes" /\ l.dir = d THEN l.n ELSE 0)
<1>1. PICK g : g = Append(f, l)
  OBVIOUS
<1>2. /\ g \in Seq(Lines) /\ Len(g) = Len(f) + 1 /\ g[Len(f) + 1] = l
      /\ \A i \in 1..Len(f) : g[i] = f[i]
  BY <1>1, AppendProperties
<1>3. /\ Len(f) \in Nat /\ DOMAIN f = 1..Len(f) /\ DOMAIN g = 1..Len(f) + 1
      /\ l.n \in Nat
  BY <1>2, FileOfLines DEF Lines
<1>4. PICK x : x = Len(f) + 1
  OBVIOUS
<1> DEFINE New == {x} \X (1..l.n)
           B == BytesOf(f, d)
<1>5. IsFiniteSet(B) /\ Cardinality(B) \in Nat
  BY BytesFinite
<1>6. IsFiniteSet(New) /\ Cardinality(New) = l.n
  <2>1. IsFiniteSet({x}) /\ Cardinality({x}) = 1
    BY FS_Singleton
  <2>2. IsFiniteSet(1..l.n) /\ Cardinality(1..l.n) = l.n
    <3>1. PICK m \in Nat : m = l.n
      BY <1>3
    <3>2. IsFiniteSet(1..m) /\ Cardinality(1..m) = IF 1 > m THEN 0 ELSE m - 1 + 1
      BY FS_Interval
    <3>3. Cardinality(1..m) = m
      BY <3>2
    <3> QED BY <3>1, <3>2, <3>3
  <2>3. IsFiniteSet(New) /\ Cardinality(New) = Cardinality({x}) * Cardinality(1..l.n)
    BY <2>1, <2>2, FS_Product
  <2> QED BY <1>3, <2>1, <2>2, <2>3
<1>7. B \cap New = {}
  <2>1. x \notin DOMAIN f
    BY <1>3, <1>4
  <2>2. \A b \in B : b[1] \in DOMAIN f
    BY DEF BytesOf
  <2>3. \A b \in New : b[1] = x
    OBVIOUS
  <2> QED BY <2>1, <2>2, <2>3
<1>8. BytesOf(g, d) = IF l.kind = "bytes" /\ l.dir = d THEN B \cup New ELSE B
  <2> DEFINE T == {i \in DOMAIN f : f[i].kind = "bytes" /\ f[i].dir = d}
             S == {i \in DOMAIN g : g[i].kind = "bytes" /\ g[i].dir = d}
  <2>1. S = IF l.kind = "bytes" /\ l.dir = d THEN T \cup {x} ELSE T
    BY <1>2, <1>3, <1>4
  <2>2. \A i \in T : g[i] = f[i]
    BY <1>2, <1>3
  <2>3. g[x] = l
    BY <1>2, <1>4
  <2>4. BytesOf(g, d) = UNION {{i} \X (1..g[i].n) : i \in S} /\ B = UNION {{i} \X (1..f[i].n) : i \in T}
    BY DEF BytesOf
  <2> HIDE DEF T, S
  <2>5. UNION {{i} \X (1..g[i].n) : i \in T} = B
    BY <2>2, <2>4
  <2>6. UNION {{i} \X (1..g[i].n) : i \in T \cup {x}} = B \cup New
    BY <2>3, <2>5
  <2> QED BY <2>1, <2>4, <2>5, <2>6
<1>9. Cardinality(BytesOf(g, d)) = Cardinality(B) + (IF l.kind = "bytes" /\ l.dir = d THEN l.n ELSE 0)
  <2> HIDE DEF New, B
  <2>1. CASE l.kind = "bytes" /\ l.dir = d
    <3>1. Cardinality(B \cup New) = Cardinality(B) + Cardinality(New) - Cardinality(B \cap New)
      BY <1>5, <1>6, FS_Union
    <3>2. Cardinality(B \cap New) = 0
      BY <1>7, FS_EmptySet
    <3> QED BY <1>3, <1>5, <1>6, <1>8, <2>1, <3>1, <3>2
  <2>2. CASE ~(l.kind = "bytes" /\ l.dir = d)
    BY <1>5, <1>8, <2>2
  <2> QED BY <2>1, <2>2
<1> QED BY <1>1, <1>9

LEMMA CountsAreNumbers ==
  ASSUME NEW f \in Seq(Lines)
  PROVE  /\ InputOf(f) \in Nat /\ OutputOf(f) \in Nat
         /\ \A k, d : RecordsOf(f, k, d) \in Nat
<1>1. \A k, d : RecordsOf(f, k, d) \in Nat
  <2>1. ASSUME NEW k, NEW d PROVE RecordsOf(f, k, d) \in Nat
    <3> DEFINE F == {i \in DOMAIN f : f[i].kind = k /\ f[i].dir \in d}
    <3>1. IsFiniteSet(F)
      BY FileOfLines, FS_Subset
    <3> QED BY <3>1, FS_CardinalityType DEF RecordsOf
  <2> QED BY <2>1
<1> QED BY <1>1, BytesFinite DEF InputOf, OutputOf

(* What one line more adds to the counts.                                    *)
LEMMA OneMoreLine ==
  ASSUME NEW f \in Seq(Lines), NEW l \in Lines, NEW g, g = Append(f, l)
  PROVE  /\ g \in Seq(Lines) /\ Len(g) = Len(f) + 1 /\ g # <<>> /\ g[Len(g)] = l
         /\ Len(f) \in Nat /\ g[Len(f) + 1] = l /\ \A i \in 1..Len(f) : g[i] = f[i]
         /\ InputOf(g) = InputOf(f) + (IF l.kind = "bytes" /\ l.dir = "in" THEN l.n ELSE 0)
         /\ OutputOf(g) = OutputOf(f) + (IF l.kind = "bytes" /\ l.dir = "out" THEN l.n ELSE 0)
         /\ \A k, d : RecordsOf(g, k, d)
              = RecordsOf(f, k, d) + (IF l.kind = k /\ l.dir \in d THEN 1 ELSE 0)
<1>1. g \in Seq(Lines) /\ Len(g) = Len(f) + 1 /\ g[Len(f) + 1] = l /\ \A i \in 1..Len(f) : g[i] = f[i]
  BY AppendProperties
<1>2. Len(f) \in Nat
  BY FileOfLines
<1>3. g # <<>>
  <2>1. Len(g) # 0
    BY <1>1, <1>2
  <2> QED BY <2>1
<1>4. \A k, d : RecordsOf(g, k, d) = RecordsOf(f, k, d) + (IF l.kind = k /\ l.dir \in d THEN 1 ELSE 0)
  BY RecordsOfMore
<1>5. /\ InputOf(g) = InputOf(f) + (IF l.kind = "bytes" /\ l.dir = "in" THEN l.n ELSE 0)
      /\ OutputOf(g) = OutputOf(f) + (IF l.kind = "bytes" /\ l.dir = "out" THEN l.n ELSE 0)
  BY BytesOfMore DEF InputOf, OutputOf
<1> QED BY <1>1, <1>2, <1>3, <1>4, <1>5

LEMMA EmptyFile ==
  /\ <<>> \in Seq(Lines) /\ InputOf(<<>>) = 0 /\ OutputOf(<<>>) = 0
  /\ \A k, d : RecordsOf(<<>>, k, d) = 0
<1>1. \A d : BytesOf(<<>>, d) = {}
  BY DEF BytesOf
<1>2. \A k, d : {i \in DOMAIN <<>> : <<>>[i].kind = k /\ <<>>[i].dir \in d} = {}
  OBVIOUS
<1> QED BY <1>1, <1>2, FS_EmptySet, EmptySeq DEF InputOf, OutputOf, RecordsOf

(* A result is complete or it is not.                                        *)
LEMMA ResultsAdd ==
  ASSUME NEW f \in Seq(Lines)
  PROVE  RecordsOf(f, "result", Statuses) = CompletedOf(f) + FailedOf(f)
<1> DEFINE S == {i \in DOMAIN f : f[i].kind = "result" /\ f[i].dir \in Statuses}
           A == {i \in DOMAIN f : f[i].kind = "result" /\ f[i].dir \in {"complete"}}
           B == {i \in DOMAIN f : f[i].kind = "result" /\ f[i].dir \in Statuses \ {"complete"}}
<1>1. S = A \cup B /\ A \cap B = {}
  BY DEF Statuses
<1>2. IsFiniteSet(A) /\ IsFiniteSet(B)
  BY FileOfLines, FS_Subset
<1>3. RecordsOf(f, "result", Statuses) = Cardinality(S) /\ CompletedOf(f) = Cardinality(A)
      /\ FailedOf(f) = Cardinality(B)
  BY DEF RecordsOf, CompletedOf, FailedOf
<1> HIDE DEF S, A, B
<1>4. Cardinality(A \cup B) = Cardinality(A) + Cardinality(B) - Cardinality(A \cap B)
  BY <1>2, FS_Union
<1>5. Cardinality(A \cap B) = 0 /\ Cardinality(A) \in Nat /\ Cardinality(B) \in Nat
  BY <1>1, <1>2, FS_EmptySet, FS_CardinalityType
<1>6. Cardinality(S) = Cardinality(A) + Cardinality(B)
  BY <1>1, <1>4, <1>5
<1> QED BY <1>3, <1>6

LEMMA TotalsOf ==
  ASSUME NEW f \in Seq(Lines)
  PROVE  /\ Totals(f) \in Seq(Nat)
         /\ Totals(f) = <<InputOf(f), OutputOf(f), RecordsOf(f, "bytes", {"in", "out"}),
                          RecordsOf(f, "control", Controls), CompletedOf(f) + FailedOf(f),
                          CompletedOf(f), FailedOf(f)>>
         /\ Totals(f)[1] = InputOf(f) /\ Totals(f)[2] = OutputOf(f)
         /\ Totals(f)[5] = CompletedOf(f) + FailedOf(f)
         /\ Totals(f)[6] = CompletedOf(f) /\ Totals(f)[7] = FailedOf(f)
<1>1. Totals(f) = <<InputOf(f), OutputOf(f), RecordsOf(f, "bytes", {"in", "out"}),
                    RecordsOf(f, "control", Controls), CompletedOf(f) + FailedOf(f),
                    CompletedOf(f), FailedOf(f)>>
  BY ResultsAdd DEF Totals, InputOf, OutputOf, CompletedOf, FailedOf
<1>2. PICK a, b, c, d, e, x, y :
        /\ a = InputOf(f) /\ b = OutputOf(f) /\ c = RecordsOf(f, "bytes", {"in", "out"})
        /\ d = RecordsOf(f, "control", Controls) /\ x = CompletedOf(f) /\ y = FailedOf(f) /\ e = x + y
  OBVIOUS
<1>3. Totals(f) = <<a, b, c, d, e, x, y>>
  BY <1>1, <1>2
<1>4. a \in Nat /\ b \in Nat /\ c \in Nat /\ d \in Nat /\ x \in Nat /\ y \in Nat
  BY <1>2, CountsAreNumbers DEF CompletedOf, FailedOf
<1>5. e \in Nat
  BY <1>2, <1>4
<1>6. <<a, b, c, d, e, x, y>> \in Seq(Nat)
  BY <1>4, <1>5
<1> QED BY <1>1, <1>2, <1>3, <1>6

------------------------------------------------------------------------------
(* The recorder. *)

LEMMA LineIsLine ==
  ASSUME mem \in Recorders, NEW r \in SessionRecords
  PROVE  /\ Line(r) \in Lines /\ Line(r).kind = r.kind /\ Line(r).dir = r.dir /\ Line(r).n = r.n
         /\ Line(r).seq = mem.next /\ Line(r).whole /\ [Line(r) EXCEPT !.whole = FALSE] \in Lines
         /\ Line(r).totals = IF r.kind # "end" THEN <<>>
                             ELSE <<mem.input, mem.output, mem.data, mem.control,
                                    mem.commands, mem.completed, mem.failed>>
<1>1. r.n \in Nat /\ r.kind \in {"bytes", "control", "command", "result", "end"}
      /\ r.dir \in {"in", "out"} \cup Controls \cup Statuses \cup Ends
  BY RecordKinds
<1>2. /\ mem.next \in Nat /\ mem.input \in Nat /\ mem.output \in Nat /\ mem.data \in Nat
      /\ mem.control \in Nat /\ mem.commands \in Nat /\ mem.completed \in Nat /\ mem.failed \in Nat
  BY DEF Recorders
<1>3. r.kind # "result" \/ r.framed \in BOOLEAN
  <2>1. r.kind = "result" => r \in ResultRecords
    BY RecordKinds
  <2> QED BY <2>1 DEF ResultRecords
<1> DEFINE t == IF r.kind # "end" THEN <<>> ELSE <<mem.input, mem.output, mem.data, mem.control,
                                                   mem.commands, mem.completed, mem.failed>>
<1>4. t \in Seq(Nat)
  <2>1. <<>> \in Seq(Nat)
    BY EmptySeq
  <2>2. <<mem.input, mem.output, mem.data, mem.control, mem.commands, mem.completed, mem.failed>> \in Seq(Nat)
    BY <1>2
  <2> QED BY <2>1, <2>2
<1>5. PICK w \in BOOLEAN : w = (r.kind # "result" \/ r.framed)
  BY <1>3
<1>6. Line(r) = [kind |-> r.kind, dir |-> r.dir, n |-> r.n, seq |-> mem.next, whole |-> TRUE,
                 framed |-> w, totals |-> t]
  BY <1>5 DEF Line
<1> HIDE DEF t
<1>7. Line(r) \in Lines /\ [Line(r) EXCEPT !.whole = FALSE] \in Lines
  <2>1. PICK k, d, n, q : k = r.kind /\ d = r.dir /\ n = r.n /\ q = mem.next
    OBVIOUS
  <2>2. /\ k \in {"bytes", "control", "command", "result", "end"} /\ n \in Nat /\ q \in Nat
        /\ d \in {"in", "out"} \cup Controls \cup Statuses \cup Ends
    BY <1>1, <1>2, <2>1
  <2>3. \A b \in BOOLEAN : [kind |-> k, dir |-> d, n |-> n, seq |-> q, whole |-> b,
                           framed |-> w, totals |-> t] \in Lines
    BY <1>4, <2>2 DEF Lines
  <2>4. Line(r) = [kind |-> k, dir |-> d, n |-> n, seq |-> q, whole |-> TRUE,
                   framed |-> w, totals |-> t]
    BY <1>6, <2>1
  <2>5. PICK l \in Lines : l = Line(r)
    BY <2>3, <2>4
  <2>6. [l EXCEPT !.whole = FALSE] \in Lines
    BY DEF Lines
  <2> QED BY <2>5, <2>6
<1> QED BY <1>6, <1>7 DEF t

(* What may follow in a file of the profile.                                 *)
Fits(r) ==
  /\ profile = "terminal" => r.kind \in {"bytes", "control", "end"}
  /\ profile = "line" => r.kind \in {"command", "result", "end"}
  /\ profile = "terminal" /\ r.kind = "bytes" => r.n <= MaxChunk
  /\ r.kind = "end" /\ r.dir \in {"operator-quit", "input-eof", "max-commands"} => mem.failed = 0

(* A byte or a control follows no command that waits for its result.         *)
LEMMA NoCommandUnderWay ==
  ASSUME NEW f \in Seq(Lines), Reads(f), profile = "terminal", InStep(mem, f)
  PROVE  ~mem.pending
<1>1. Len(f) \in Nat /\ DOMAIN f = 1..Len(f)
  BY FileOfLines
<1>2. CASE f = <<>>
  BY <1>2 DEF InStep
<1>3. CASE f # <<>>
  <2>1. Len(f) \in DOMAIN f
    BY <1>1, <1>3, EmptySeq
  <2>2. f[Len(f)].kind \in {"bytes", "control", "end"}
    BY <2>1 DEF Reads, ReadTerminal
  <2> QED BY <2>2 DEF InStep
<1> QED BY <1>2, <1>3

(* The file g is f with the record r.                                        *)
Grows(f, g, r) ==
  /\ g \in Seq(Lines) /\ g # <<>> /\ Len(g) = Len(f) + 1 /\ Len(f) \in Nat
  /\ g[Len(f) + 1] = Line(r) /\ g[Len(g)].kind = r.kind /\ g[Len(g)].dir = r.dir
  /\ \A i \in 1..Len(f) : g[i] = f[i]
  /\ InputOf(g) = InputOf(f) + (IF r.kind = "bytes" /\ r.dir = "in" THEN r.n ELSE 0)
  /\ OutputOf(g) = OutputOf(f) + (IF r.kind = "bytes" /\ r.dir = "out" THEN r.n ELSE 0)
  /\ \A k, d : RecordsOf(g, k, d) = RecordsOf(f, k, d) + (IF r.kind = k /\ r.dir \in d THEN 1 ELSE 0)

LEMMA RecordGrows ==
  ASSUME mem \in Recorders, NEW f \in Seq(Lines), NEW r \in SessionRecords
  PROVE  Grows(f, Append(f, Line(r)), r)
<1>1. PICK l \in Lines : l = Line(r) /\ l.kind = r.kind /\ l.dir = r.dir /\ l.n = r.n
  BY LineIsLine
<1>2. PICK g : g = Append(f, l)
  OBVIOUS
<1>3. /\ g \in Seq(Lines) /\ Len(g) = Len(f) + 1 /\ g # <<>> /\ g[Len(g)] = l
      /\ Len(f) \in Nat /\ g[Len(f) + 1] = l /\ \A i \in 1..Len(f) : g[i] = f[i]
  BY <1>2, OneMoreLine
<1>4. /\ InputOf(g) = InputOf(f) + (IF l.kind = "bytes" /\ l.dir = "in" THEN l.n ELSE 0)
      /\ OutputOf(g) = OutputOf(f) + (IF l.kind = "bytes" /\ l.dir = "out" THEN l.n ELSE 0)
  BY <1>2, BytesOfMore DEF InputOf, OutputOf
<1>5. \A k, d : RecordsOf(g, k, d) = RecordsOf(f, k, d) + (IF l.kind = k /\ l.dir \in d THEN 1 ELSE 0)
  BY <1>2, RecordsOfMore
<1>6. Grows(f, g, r)
  BY <1>1, <1>3, <1>4, <1>5 DEF Grows
<1> QED BY <1>1, <1>2, <1>6

(* A recorder that counts the line it has written is in step with the file.  *)
LEMMA CountedInStep ==
  ASSUME mem \in Recorders, NEW f \in Seq(Lines), InStep(mem, f), NEW r \in SessionRecords,
         ~Refused(r), r.kind \in {"bytes", "control"} => ~mem.pending,
         NEW g, g = Append(f, Line(r)), NEW m, m = [Counted(r) EXCEPT !.next = @ + 1]
  PROVE  /\ m \in Recorders /\ InStep(m, g) /\ m.closed = mem.closed
         /\ m.done <=> r.kind = "end"
<1>1. Grows(f, g, r)
  BY RecordGrows
<1>2. /\ g # <<>> /\ g[Len(g)].kind = r.kind /\ g[Len(g)].dir = r.dir
      /\ Len(g) = Len(f) + 1 /\ Len(f) \in Nat
      /\ InputOf(g) = InputOf(f) + (IF r.kind = "bytes" /\ r.dir = "in" THEN r.n ELSE 0)
      /\ OutputOf(g) = OutputOf(f) + (IF r.kind = "bytes" /\ r.dir = "out" THEN r.n ELSE 0)
      /\ \A k, d : RecordsOf(g, k, d) = RecordsOf(f, k, d) + (IF r.kind = k /\ r.dir \in d THEN 1 ELSE 0)
  BY <1>1 DEF Grows
<1>3. /\ mem.next = Len(f) + 1 /\ mem.input = InputOf(f) /\ mem.output = OutputOf(f)
      /\ mem.data = RecordsOf(f, "bytes", {"in", "out"}) /\ mem.control = RecordsOf(f, "control", Controls)
      /\ mem.commands = RecordsOf(f, "command", {"in"})
      /\ mem.completed = RecordsOf(f, "result", {"complete"})
      /\ mem.failed = RecordsOf(f, "result", Statuses \ {"complete"})
      /\ mem.commands = mem.completed + mem.failed + (IF mem.pending THEN 1 ELSE 0)
  BY DEF InStep, CommandsOf, CompletedOf, FailedOf
<1>4. ~mem.done /\ ~mem.closed
  BY DEF Refused
<1>5. /\ mem.next \in Nat /\ mem.input \in Nat /\ mem.output \in Nat /\ mem.data \in Nat
      /\ mem.control \in Nat /\ mem.commands \in Nat /\ mem.completed \in Nat /\ mem.failed \in Nat
  BY DEF Recorders
<1>6. PICK a, b, c, d, x, y, z \in Nat :
         /\ a = RecordsOf(g, "bytes", {"in", "out"}) /\ b = RecordsOf(g, "control", Controls)
         /\ c = CommandsOf(g) /\ d = CompletedOf(g) /\ x = FailedOf(g)
         /\ y = InputOf(g) /\ z = OutputOf(g)
  <2>1. g \in Seq(Lines)
    BY <1>1 DEF Grows
  <2> QED BY <2>1, CountsAreNumbers DEF CommandsOf, CompletedOf, FailedOf
<1>7. /\ a = mem.data + (IF r.kind = "bytes" /\ r.dir \in {"in", "out"} THEN 1 ELSE 0)
      /\ b = mem.control + (IF r.kind = "control" /\ r.dir \in Controls THEN 1 ELSE 0)
      /\ c = mem.commands + (IF r.kind = "command" /\ r.dir \in {"in"} THEN 1 ELSE 0)
      /\ d = mem.completed + (IF r.kind = "result" /\ r.dir \in {"complete"} THEN 1 ELSE 0)
      /\ x = mem.failed + (IF r.kind = "result" /\ r.dir \in Statuses \ {"complete"} THEN 1 ELSE 0)
      /\ y = mem.input + (IF r.kind = "bytes" /\ r.dir = "in" THEN r.n ELSE 0)
      /\ z = mem.output + (IF r.kind = "bytes" /\ r.dir = "out" THEN r.n ELSE 0)
  BY <1>2, <1>3, <1>6 DEF CommandsOf, CompletedOf, FailedOf
<1>8. PICK k : k = mem.next + 1
  OBVIOUS
<1>9. k = Len(g) + 1 /\ k \in Nat
  BY <1>2, <1>3, <1>8
<1> DEFINE InStepWith ==
      /\ m \in Recorders /\ m.next = k /\ m.input = y /\ m.output = z /\ m.data = a /\ m.control = b
      /\ m.commands = c /\ m.completed = d /\ m.failed = x /\ m.closed = mem.closed
      /\ m.commands = m.completed + m.failed + (IF m.pending THEN 1 ELSE 0)
      /\ m.pending <=> r.kind = "command"
      /\ m.done <=> r.kind = "end"
      /\ r.kind = "result" /\ m.failed = 0 => r.dir = "complete"
<1>10. ASSUME r.kind = "bytes" PROVE InStepWith
  <2>1. r \in ByteRecords
    BY <1>10, RecordKinds
  <2>2. r.dir \in {"in", "out"} /\ r.n \in Nat
    BY <2>1 DEF ByteRecords
  <2>3. CASE r.dir = "in"
    <3>1. m = [mem EXCEPT !.data = a, !.input = y, !.next = k]
      BY <1>7, <1>8, <1>10, <2>3 DEF Counted, Recorders
    <3>2. b = mem.control /\ c = mem.commands /\ d = mem.completed /\ x = mem.failed /\ z = mem.output
      BY <1>5, <1>7, <1>10, <2>3
    <3> QED BY <1>3, <1>4, <1>9, <1>10, <3>1, <3>2 DEF Recorders
  <2>4. CASE r.dir = "out"
    <3>1. m = [mem EXCEPT !.data = a, !.output = z, !.next = k]
      BY <1>7, <1>8, <1>10, <2>4 DEF Counted, Recorders
    <3>2. b = mem.control /\ c = mem.commands /\ d = mem.completed /\ x = mem.failed /\ y = mem.input
      BY <1>5, <1>7, <1>10, <2>4
    <3> QED BY <1>3, <1>4, <1>9, <1>10, <3>1, <3>2 DEF Recorders
  <2> QED BY <2>2, <2>3, <2>4
<1>11. ASSUME r.kind = "control" PROVE InStepWith
  <2>1. r \in ControlRecords
    BY <1>11, RecordKinds
  <2>2. r.dir \in Controls
    BY <2>1 DEF ControlRecords
  <2>3. m = [mem EXCEPT !.control = b, !.next = k]
    BY <1>7, <1>8, <1>11, <2>2 DEF Counted, Recorders
  <2>4. a = mem.data /\ c = mem.commands /\ d = mem.completed /\ x = mem.failed /\ y = mem.input /\ z = mem.output
    BY <1>5, <1>7, <1>11
  <2> QED BY <1>3, <1>4, <1>9, <1>11, <2>3, <2>4 DEF Recorders
<1>12. ASSUME r.kind = "command" PROVE InStepWith
  <2>1. r \in CommandRecords
    BY <1>12, RecordKinds
  <2>2. r.dir = "in" /\ ~mem.pending
    BY <1>12, <2>1 DEF CommandRecords, Refused, CommandRefused
  <2>3. m = [mem EXCEPT !.commands = c, !.pending = TRUE, !.next = k]
    BY <1>7, <1>8, <1>12, <2>2 DEF Counted, Recorders
  <2>4. a = mem.data /\ b = mem.control /\ d = mem.completed /\ x = mem.failed /\ y = mem.input /\ z = mem.output
        /\ c = mem.commands + 1
    BY <1>5, <1>7, <1>12, <2>2
  <2>5. m \in Recorders
    BY <1>6, <1>9, <2>3 DEF Recorders
  <2>6. /\ m.next = k /\ m.input = mem.input /\ m.output = mem.output /\ m.data = mem.data
        /\ m.control = mem.control /\ m.commands = c /\ m.completed = mem.completed
        /\ m.failed = mem.failed /\ m.closed = mem.closed /\ m.pending = TRUE /\ m.done = mem.done
    BY <2>3 DEF Recorders
  <2>7. c = mem.completed + mem.failed + 1
    BY <1>3, <1>5, <2>2, <2>4
  <2> QED BY <1>4, <1>12, <2>4, <2>5, <2>6, <2>7
<1>13. ASSUME r.kind = "result" PROVE InStepWith
  <2>1. r \in ResultRecords
    BY <1>13, RecordKinds
  <2>2. r.dir \in Statuses /\ mem.pending
    BY <1>13, <2>1 DEF ResultRecords, Refused, ResultRefused
  <2>3. a = mem.data /\ b = mem.control /\ c = mem.commands /\ y = mem.input /\ z = mem.output
    BY <1>5, <1>7, <1>13
  <2>4. CASE r.dir = "complete"
    <3>1. m = [mem EXCEPT !.pending = FALSE, !.completed = d, !.next = k]
      BY <1>7, <1>8, <1>13, <2>4 DEF Counted, Recorders
    <3>2. x = mem.failed /\ d = mem.completed + 1
      BY <1>5, <1>7, <1>13, <2>4
    <3>3. m \in Recorders
      BY <1>6, <1>9, <3>1 DEF Recorders
    <3>4. /\ m.next = k /\ m.input = mem.input /\ m.output = mem.output /\ m.data = mem.data
          /\ m.control = mem.control /\ m.commands = mem.commands /\ m.completed = d
          /\ m.failed = mem.failed /\ m.closed = mem.closed /\ m.pending = FALSE /\ m.done = mem.done
      BY <3>1 DEF Recorders
    <3>5. mem.commands = d + mem.failed
      BY <1>3, <1>5, <2>2, <3>2, SMTT(30)
    <3> QED BY <1>4, <1>5, <1>13, <2>3, <2>4, <3>2, <3>3, <3>4, <3>5
  <2>5. CASE r.dir # "complete"
    <3>1. x = mem.failed + 1 /\ d = mem.completed
      BY <1>5, <1>7, <1>13, <2>2, <2>5
    <3>2. m = [mem EXCEPT !.pending = FALSE, !.failed = x, !.next = k]
      BY <1>8, <1>13, <2>5, <3>1 DEF Counted, Recorders
    <3>3. m \in Recorders
      BY <1>6, <1>9, <3>2 DEF Recorders
    <3>4. /\ m.next = k /\ m.input = mem.input /\ m.output = mem.output /\ m.data = mem.data
          /\ m.control = mem.control /\ m.commands = mem.commands /\ m.completed = mem.completed
          /\ m.failed = x /\ m.closed = mem.closed /\ m.pending = FALSE /\ m.done = mem.done
      BY <3>2 DEF Recorders
    <3>5. mem.commands = mem.completed + x /\ x # 0
      BY <1>3, <1>5, <2>2, <3>1, SMTT(30)
    <3> QED BY <1>4, <1>13, <2>3, <3>1, <3>3, <3>4, <3>5
  <2> QED BY <2>4, <2>5
<1>14. ASSUME r.kind = "end" PROVE InStepWith
  <2>1. ~mem.pending
    BY <1>14 DEF Refused
  <2>2. m = [mem EXCEPT !.done = TRUE, !.next = k]
    BY <1>8, <1>14 DEF Counted, Recorders
  <2>3. a = mem.data /\ b = mem.control /\ c = mem.commands /\ d = mem.completed /\ x = mem.failed
        /\ y = mem.input /\ z = mem.output
    BY <1>5, <1>7, <1>14
  <2> QED BY <1>3, <1>4, <1>9, <1>14, <2>1, <2>2, <2>3 DEF Recorders
<1>15. InStepWith
  <2>1. r.kind \in {"bytes", "control", "command", "result", "end"}
    BY RecordKinds
  <2> HIDE DEF InStepWith
  <2> QED BY <1>10, <1>11, <1>12, <1>13, <1>14, <2>1
<1> QED BY <1>2, <1>6, <1>9, <1>15 DEF InStep

LEMMA NoEndBefore ==
  ASSUME NEW f \in Seq(Lines), InStep(mem, f), EndFits(f), ~mem.done
  PROVE  \A i \in 1..Len(f) : f[i].kind # "end"
<1>1. Len(f) \in Nat /\ DOMAIN f = 1..Len(f)
  BY FileOfLines
<1>2. SUFFICES ASSUME NEW i \in 1..Len(f), f[i].kind = "end" PROVE FALSE
  OBVIOUS
<1>3. i = Len(f)
  BY <1>1, <1>2 DEF EndFits
<1>4. f # <<>>
  BY <1>1, <1>2
<1> QED BY <1>2, <1>3, <1>4 DEF InStep

(* An end record holds the totals of the records before it.                  *)
LEMMA EndOfRecords ==
  ASSUME mem \in Recorders, NEW f \in Seq(Lines), InStep(mem, f), EndFits(f), NEW r \in SessionRecords,
         ~Refused(r), r.kind = "end" /\ r.dir \in {"operator-quit", "input-eof", "max-commands"} => mem.failed = 0,
         NEW g, Grows(f, g, r)
  PROVE  EndFits(g)
<1>1. /\ g \in Seq(Lines) /\ Len(g) = Len(f) + 1 /\ Len(f) \in Nat /\ g[Len(f) + 1] = Line(r)
      /\ \A i \in 1..Len(f) : g[i] = f[i]
  BY DEF Grows
<1>2. DOMAIN g = 1..Len(f) + 1
  BY <1>1, FileOfLines
<1>3. \A i \in 1..Len(f) : g[i].kind # "end"
  BY <1>1, NoEndBefore DEF Refused
<1>4. ASSUME NEW i \in DOMAIN g, g[i].kind = "end"
      PROVE  /\ i = Len(g) /\ g[i].totals = Totals(g)
             /\ g[i].dir \in {"operator-quit", "input-eof", "max-commands"} => Totals(g)[7] = 0
  <2>1. i = Len(f) + 1 /\ g[i] = Line(r)
    BY <1>1, <1>2, <1>3, <1>4
  <2>2. r.kind = "end" /\ Line(r).dir = r.dir
    BY <1>4, <2>1, LineIsLine
  <2>3. Line(r).totals = <<mem.input, mem.output, mem.data, mem.control,
                           mem.commands, mem.completed, mem.failed>>
    BY <2>2, LineIsLine
  <2>4. ~mem.pending
    BY <2>2 DEF Refused
  <2>5. /\ mem.input \in Nat /\ mem.output \in Nat /\ mem.completed \in Nat /\ mem.failed \in Nat
    BY DEF Recorders
  <2>6. /\ mem.input = InputOf(f) /\ mem.output = OutputOf(f)
        /\ mem.data = RecordsOf(f, "bytes", {"in", "out"}) /\ mem.control = RecordsOf(f, "control", Controls)
        /\ mem.completed = RecordsOf(f, "result", {"complete"})
        /\ mem.failed = RecordsOf(f, "result", Statuses \ {"complete"})
        /\ mem.commands = mem.completed + mem.failed
    BY <2>4, <2>5 DEF InStep, CompletedOf, FailedOf
  <2>7. /\ InputOf(g) = InputOf(f) + 0 /\ OutputOf(g) = OutputOf(f) + 0
        /\ \A k, d : k # "end" => RecordsOf(g, k, d) = RecordsOf(f, k, d) + 0
    BY <2>2 DEF Grows
  <2>8. /\ InputOf(g) = mem.input /\ OutputOf(g) = mem.output
        /\ RecordsOf(g, "bytes", {"in", "out"}) = mem.data /\ RecordsOf(g, "control", Controls) = mem.control
        /\ CompletedOf(g) = mem.completed /\ FailedOf(g) = mem.failed
    <3>1. \A k, d : RecordsOf(f, k, d) \in Nat
      BY CountsAreNumbers
    <3>2. \A k, d : k # "end" => RecordsOf(g, k, d) = RecordsOf(f, k, d)
      BY <2>7, <3>1
    <3> QED BY <2>5, <2>6, <2>7, <3>2 DEF CompletedOf, FailedOf
  <2>9. Totals(g) = Line(r).totals /\ Totals(g)[7] = mem.failed
    BY <1>1, <2>3, <2>6, <2>8, TotalsOf
  <2> QED BY <1>1, <2>1, <2>2, <2>9
<1> QED BY <1>4 DEF EndFits

(* What a recorder appends its reader accepts.                               *)
LEMMA TerminalReads ==
  ASSUME mem \in Recorders, NEW f \in Seq(Lines), InStep(mem, f), ReadTerminal(f), NEW r \in SessionRecords,
         ~Refused(r), Fits(r), profile = "terminal", NEW g, Grows(f, g, r)
  PROVE  ReadTerminal(g)
<1>1. /\ g \in Seq(Lines) /\ Len(g) = Len(f) + 1 /\ Len(f) \in Nat /\ g[Len(f) + 1] = Line(r)
      /\ \A i \in 1..Len(f) : g[i] = f[i]
  BY DEF Grows
<1>2. DOMAIN g = 1..Len(f) + 1 /\ DOMAIN f = 1..Len(f)
  BY <1>1, FileOfLines
<1>3. EndFits(g)
  BY EndOfRecords DEF ReadTerminal, Fits
<1>4. ASSUME NEW i \in DOMAIN g
      PROVE  /\ g[i].seq = i
             /\ g[i].kind \in {"bytes", "control", "end"}
             /\ g[i].kind = "control" => g[i].dir \in Controls
             /\ g[i].kind = "bytes" => g[i].n \in 1..TerminalHeader.chunk
  <2>1. CASE i \in 1..Len(f)
    <3>1. i \in DOMAIN f /\ g[i] = f[i]
      BY <1>1, <1>2, <2>1
    <3> QED BY <3>1 DEF ReadTerminal
  <2>2. CASE i = Len(f) + 1
    <3>1. g[i] = Line(r) /\ Line(r).seq = i /\ Line(r).kind = r.kind /\ Line(r).dir = r.dir /\ Line(r).n = r.n
      BY <1>1, <2>2, LineIsLine DEF InStep
    <3>2. r.kind \in {"bytes", "control", "end"}
      BY DEF Fits
    <3>3. r.kind = "control" => r.dir \in Controls
      BY DEF Refused, ControlRefused
    <3>4. r.kind = "bytes" => r.n \in 1..MaxChunk
      <4>1. SUFFICES ASSUME r.kind = "bytes" PROVE r.n \in 1..MaxChunk
        OBVIOUS
      <4>2. r \in ByteRecords
        BY <4>1, RecordKinds
      <4>3. r.n \in Nat \ {0}
        BY <4>2 DEF ByteRecords
      <4> QED BY <4>1, <4>3, OperatorAssumption DEF Fits
    <3> QED BY <3>1, <3>2, <3>3, <3>4 DEF TerminalHeader
  <2> QED BY <1>1, <1>2, <2>1, <2>2
<1>5. Totals(g)[1] <= TerminalHeader.input /\ Totals(g)[2] <= TerminalHeader.output
  <2>1. Totals(g)[1] = InputOf(g) /\ Totals(g)[2] = OutputOf(g)
    BY <1>1, TotalsOf
  <2>2. InputOf(f) <= MaxInput /\ OutputOf(f) <= MaxOutput
    BY TotalsOf DEF ReadTerminal, TerminalHeader
  <2>3. mem.input = InputOf(f) /\ mem.output = OutputOf(f) /\ InputOf(f) \in Nat /\ OutputOf(f) \in Nat
    BY CountsAreNumbers DEF InStep
  <2>4. /\ InputOf(g) = InputOf(f) + (IF r.kind = "bytes" /\ r.dir = "in" THEN r.n ELSE 0)
        /\ OutputOf(g) = OutputOf(f) + (IF r.kind = "bytes" /\ r.dir = "out" THEN r.n ELSE 0)
    BY DEF Grows
  <2>5. r.kind = "bytes" => IF r.dir = "in" THEN mem.input + r.n <= MaxInput ELSE mem.output + r.n <= MaxOutput
    <3>1. SUFFICES ASSUME r.kind = "bytes"
                   PROVE IF r.dir = "in" THEN mem.input + r.n <= MaxInput ELSE mem.output + r.n <= MaxOutput
      OBVIOUS
    <3>2. ~(IF r.dir = "in" THEN mem.input + r.n > MaxInput ELSE mem.output + r.n > MaxOutput)
      BY <3>1 DEF Refused, ChunkRefused
    <3>3. r.n \in Nat
      BY RecordKinds
    <3> QED BY <2>3, <3>2, <3>3, OperatorAssumption
  <2>6. InputOf(g) <= MaxInput /\ OutputOf(g) <= MaxOutput
    BY <2>2, <2>3, <2>4, <2>5
  <2> QED BY <2>1, <2>6 DEF TerminalHeader
<1> QED BY <1>3, <1>4, <1>5 DEF ReadTerminal

LEMMA DialogueReads ==
  ASSUME mem \in Recorders, NEW f \in Seq(Lines), InStep(mem, f), ReadDialogue(f), NEW r \in SessionRecords,
         ~Refused(r), Fits(r), profile = "line", NEW g, Grows(f, g, r)
  PROVE  ReadDialogue(g)
<1>1. /\ g \in Seq(Lines) /\ Len(g) = Len(f) + 1 /\ Len(f) \in Nat /\ g[Len(f) + 1] = Line(r)
      /\ \A i \in 1..Len(f) : g[i] = f[i]
  BY DEF Grows
<1>2. DOMAIN g = 1..Len(f) + 1 /\ DOMAIN f = 1..Len(f)
  BY <1>1, FileOfLines
<1>3. EndFits(g)
  BY EndOfRecords DEF ReadDialogue, Fits
<1>4. PICK k : k = Len(f) + 1
  OBVIOUS
<1>5. /\ g[k] = Line(r) /\ Line(r).seq = k /\ Line(r).kind = r.kind /\ Line(r).dir = r.dir /\ Line(r).n = r.n
  BY <1>1, <1>4, LineIsLine DEF InStep
<1>6. r.kind \in {"command", "result", "end"} /\ ~mem.done
  BY DEF Fits, Refused
<1>7. /\ Before(g, k).kind = (IF mem.pending THEN "command" ELSE "result")
      /\ ~mem.pending /\ mem.failed = 0 => Before(g, k).dir = "complete"
  <2>1. CASE f = <<>>
    <3>1. Len(f) = 0 /\ k = 1
      BY <1>1, <1>4, <2>1
    <3>2. ~mem.pending
      BY <2>1 DEF InStep
    <3> QED BY <3>1, <3>2 DEF Before
  <2>2. CASE f # <<>>
    <3>1. Len(f) # 0 /\ k # 1 /\ k - 1 = Len(f) /\ Len(f) \in DOMAIN f
      BY <1>1, <1>2, <1>4, <2>2, EmptySeq
    <3>2. Before(g, k) = f[Len(f)]
      BY <1>1, <1>2, <3>1 DEF Before
    <3>3. f[Len(f)].kind \in {"command", "result", "end"}
      BY <3>1 DEF ReadDialogue
    <3>4. f[Len(f)].kind # "end" /\ (mem.pending <=> f[Len(f)].kind = "command")
      BY <1>6, <2>2 DEF InStep
    <3>5. f[Len(f)].kind = "result" /\ mem.failed = 0 => f[Len(f)].dir = "complete"
      BY <2>2 DEF InStep
    <3> QED BY <3>2, <3>3, <3>4, <3>5
  <2> QED BY <2>1, <2>2
<1>8. ASSUME NEW i \in DOMAIN g
      PROVE  /\ g[i].seq = i
             /\ g[i].kind \in {"command", "result", "end"}
             /\ Before(g, i).kind = (IF g[i].kind = "result" THEN "command" ELSE "result")
             /\ g[i].kind = "result" => g[i].n <= DialogueHeader.response
             /\ g[i].kind = "command" => Before(g, i).dir = "complete"
  <2>1. CASE i \in 1..Len(f)
    <3>1. i \in DOMAIN f /\ g[i] = f[i]
      BY <1>1, <1>2, <2>1
    <3>2. Before(g, i) = Before(f, i)
      <4>1. CASE i = 1
        BY <4>1 DEF Before
      <4>2. CASE i # 1
        <5>1. i - 1 \in 1..Len(f)
          BY <1>1, <2>1, <4>2
        <5> QED BY <1>1, <4>2, <5>1 DEF Before
      <4> QED BY <4>1, <4>2
    <3> QED BY <3>1, <3>2 DEF ReadDialogue
  <2>2. CASE i = k
    <3>1. r.kind = "result" => mem.pending /\ r.n <= MaxResponse
      <4>1. r.kind = "result" => mem.pending /\ ~(r.n > MaxResponse)
        BY DEF Refused, ResultRefused
      <4>2. r.n \in Nat
        BY RecordKinds
      <4> QED BY <4>1, <4>2, OperatorAssumption
    <3>2. r.kind = "end" => ~mem.pending
      BY DEF Refused
    <3>3. r.kind = "command" => ~mem.pending /\ mem.failed = 0
      <4>1. r.kind = "command" => ~mem.pending /\ ~(mem.failed > 0)
        BY DEF Refused, CommandRefused
      <4>2. mem.failed \in Nat
        BY DEF Recorders
      <4> QED BY <4>1, <4>2
    <3> QED BY <1>5, <1>6, <1>7, <2>2, <3>1, <3>2, <3>3 DEF DialogueHeader
  <2> QED BY <1>1, <1>2, <1>4, <2>1, <2>2
<1>9. RecordsOf(g, "command", {"in"}) <= DialogueHeader.commands
  <2>1. RecordsOf(f, "command", {"in"}) <= MaxCommands /\ RecordsOf(f, "command", {"in"}) \in Nat
    BY CountsAreNumbers DEF ReadDialogue, DialogueHeader
  <2>2. mem.commands = RecordsOf(f, "command", {"in"})
    BY DEF InStep, CommandsOf
  <2>3. RecordsOf(g, "command", {"in"})
          = RecordsOf(f, "command", {"in"}) + (IF r.kind = "command" /\ r.dir \in {"in"} THEN 1 ELSE 0)
    BY DEF Grows
  <2>4. r.kind = "command" => ~(mem.commands >= MaxCommands)
    BY DEF Refused, CommandRefused
  <2>5. RecordsOf(g, "command", {"in"}) <= MaxCommands
    BY <2>1, <2>2, <2>3, <2>4, OperatorAssumption
  <2> QED BY <2>5 DEF DialogueHeader
<1> QED BY <1>3, <1>8, <1>9 DEF ReadDialogue

LEMMA RecorderReads ==
  ASSUME mem \in Recorders, NEW f \in Seq(Lines), InStep(mem, f), Reads(f), NEW r \in SessionRecords,
         ~Refused(r), Fits(r), profile \in {"terminal", "line"}, NEW g, Grows(f, g, r)
  PROVE  Reads(g)
<1>1. CASE profile = "terminal"
  BY <1>1, TerminalReads DEF Reads
<1>2. CASE profile = "line"
  BY <1>2, DialogueReads DEF Reads
<1> QED BY <1>1, <1>2

------------------------------------------------------------------------------
(* A file whose last line is not whole is read without it.                   *)
LEMMA WholeFile ==
  ASSUME NEW f \in Seq(Lines), \A i \in 1..Len(f) : f[i].whole
  PROVE  Whole(f) = f
<1>1. CASE f = <<>>
  BY <1>1 DEF Whole
<1>2. CASE f # <<>>
  <2>1. Len(f) \in 1..Len(f)
    BY <1>2, FileOfLines, EmptySeq
  <2> QED BY <2>1 DEF Whole, Last
<1> QED BY <1>1, <1>2

LEMMA WithoutItsEnd ==
  ASSUME NEW f \in Seq(Lines), NEW l \in Lines, ~l.whole
  PROVE  Whole(Append(f, l)) = f
<1>1. PICK g : g = Append(f, l)
  OBVIOUS
<1>2. g \in Seq(Lines) /\ Len(g) = Len(f) + 1 /\ g[Len(g)] = l /\ Len(f) \in Nat /\ g # <<>>
      /\ \A i \in 1..Len(f) : g[i] = f[i]
  BY <1>1, OneMoreLine
<1>3. Whole(g) = SubSeq(g, 1, Len(g) - 1)
  BY <1>2 DEF Whole, Last, Front
<1>4. PICK n \in Nat : n = Len(f) /\ Len(g) - 1 = n
  BY <1>2
<1>5. PICK h : h = SubSeq(g, 1, n)
  OBVIOUS
<1>6. h \in Seq(Lines) /\ Len(h) = n /\ \A i \in 1..n : h[i] = g[i]
  BY <1>2, <1>4, <1>5, SubSeqProperties
<1>7. \A i \in 1..n : h[i] = f[i]
  BY <1>2, <1>4, <1>6
<1>8. h = f
  BY <1>4, <1>6, <1>7, SeqEqual
<1> QED BY <1>1, <1>3, <1>4, <1>5, <1>8

------------------------------------------------------------------------------
(* What the controller has still to do. *)

LEMMA SingleJobs ==
  /\ \A what \in {"relay", "watch", "ask", "noted", "close", "check", "stop"} :
       /\ <<Do(what)>> \in Seq(Jobs) /\ <<Do(what)>> # <<>>
       /\ Head(<<Do(what)>>).do = what /\ Tail(<<Do(what)>>) = <<>>
  /\ \A reason \in Ends :
       /\ <<ToReturn(reason)>> \in Seq(Jobs) /\ <<ToReturn(reason)>> # <<>>
       /\ Head(<<ToReturn(reason)>>).do = "return" /\ Head(<<ToReturn(reason)>>).reason = reason
<1>1. ASSUME NEW what \in {"relay", "watch", "ask", "noted", "close", "check", "stop"}
      PROVE  /\ <<Do(what)>> \in Seq(Jobs) /\ <<Do(what)>> # <<>>
             /\ Head(<<Do(what)>>).do = what /\ Tail(<<Do(what)>>) = <<>>
  <2>1. PICK x \in Jobs : x = Do(what) /\ x.do = what
    BY RecordsAreJobs
  <2>2. <<x>> \in Seq(Jobs) /\ <<x>> # <<>> /\ Head(<<x>>) = x /\ Tail(<<x>>) = <<>>
    OBVIOUS
  <2> QED BY <2>1, <2>2
<1>2. ASSUME NEW reason \in Ends
      PROVE  /\ <<ToReturn(reason)>> \in Seq(Jobs) /\ <<ToReturn(reason)>> # <<>>
             /\ Head(<<ToReturn(reason)>>).do = "return" /\ Head(<<ToReturn(reason)>>).reason = reason
  <2>1. PICK x \in Jobs : x = ToReturn(reason) /\ x.do = "return" /\ x.reason = reason
    BY RecordsAreJobs DEF ToReturn
  <2>2. <<x>> \in Seq(Jobs) /\ <<x>> # <<>> /\ Head(<<x>>) = x
    OBVIOUS
  <2> QED BY <2>1, <2>2
<1> QED BY <1>1, <1>2

LEMMA EndReasons ==
  /\ CleanEnds \subseteq Ends
  /\ {"output-limit", "process-exit", "input-limit", "failed", "interrupted"} \subseteq Ends
  /\ "none" \notin Ends /\ "raised" \notin Ends /\ "killed" \notin Ends
  /\ {"output-limit", "process-exit", "input-limit", "failed", "interrupted"} \cap CleanEnds = {}
BY DEF Ends, CleanEnds

LEMMA RestShapes ==
  ASSUME NEW s \in RestPlans
  PROVE  /\ s \in Seq(Jobs) /\ s # <<>> /\ Head(s).do \in {"relay", "watch", "ask", "return", "write"}
         /\ Head(s).do = "relay" => Tail(s) \in AfterShow
         /\ Head(s).do = "watch" => Tail(s) = <<Do("ask")>>
         /\ Head(s).do = "ask" => s = <<Do("ask")>>
         /\ Head(s).do = "return" => /\ Head(s).reason \in {"operator-exit", "input-limit"}
                                     /\ Head(s) = ToReturn(Head(s).reason)
         /\ Head(s).do = "write" => Head(s) = Control("application-link-cut") /\ Tail(s) \in AfterCut
<1>1. PICK relay, watch, ask \in Jobs :
         /\ relay = Do("relay") /\ watch = Do("watch") /\ ask = Do("ask")
         /\ relay.do = "relay" /\ watch.do = "watch" /\ ask.do = "ask"
  BY RecordsAreJobs
<1>2. PICK exit, limit \in Jobs :
         /\ exit = ToReturn("operator-exit") /\ limit = ToReturn("input-limit")
         /\ exit.do = "return" /\ exit.reason = "operator-exit"
         /\ limit.do = "return" /\ limit.reason = "input-limit"
  BY RecordsAreJobs DEF ToReturn, Ends, CleanEnds
<1>3. PICK cut \in Jobs : cut = Control("application-link-cut") /\ cut.do = "write"
  BY RecordsAreJobs, KindsOfRecords DEF Control, Controls
<1> DEFINE Plain == {<<relay, watch, ask>>, <<watch, ask>>, <<ask>>, <<relay, exit>>, <<exit>>, <<limit>>}
<1>4. AfterShow = {<<watch, ask>>, <<exit>>} /\ AfterCut = {<<relay, watch, ask>>, <<relay, exit>>}
  BY <1>1, <1>2 DEF AfterShow, AfterCut
<1>5. RestPlans = Plain \cup {<<cut>> \o t : t \in AfterCut}
  BY <1>1, <1>2, <1>3 DEF RestPlans, Polls, LeaveRests, AfterSend, AfterCut
<1>6. CASE s \in Plain
  <2>1. CASE s = <<relay, watch, ask>>
    <3>1. s \in Seq(Jobs) /\ s # <<>> /\ Head(s) = relay /\ Tail(s) = <<watch, ask>>
      BY <2>1
    <3> QED BY <1>1, <1>4, <3>1
  <2>2. CASE s = <<watch, ask>>
    <3>1. s \in Seq(Jobs) /\ s # <<>> /\ Head(s) = watch /\ Tail(s) = <<ask>>
      BY <2>2
    <3> QED BY <1>1, <3>1
  <2>3. CASE s = <<ask>>
    <3>1. s \in Seq(Jobs) /\ s # <<>> /\ Head(s) = ask
      BY <2>3
    <3> QED BY <1>1, <2>3, <3>1
  <2>4. CASE s = <<relay, exit>>
    <3>1. s \in Seq(Jobs) /\ s # <<>> /\ Head(s) = relay /\ Tail(s) = <<exit>>
      BY <2>4
    <3> QED BY <1>1, <1>4, <3>1
  <2>5. CASE s = <<exit>>
    <3>1. s \in Seq(Jobs) /\ s # <<>> /\ Head(s) = exit
      BY <2>5
    <3> QED BY <1>2, <3>1
  <2>6. CASE s = <<limit>>
    <3>1. s \in Seq(Jobs) /\ s # <<>> /\ Head(s) = limit
      BY <2>6
    <3> QED BY <1>2, <3>1
  <2> QED BY <1>6, <2>1, <2>2, <2>3, <2>4, <2>5, <2>6
<1>7. CASE s \notin Plain
  <2>1. PICK t \in AfterCut : s = <<cut>> \o t
    BY <1>5, <1>7
  <2>2. t \in Seq(Jobs)
    <3>1. <<relay, watch, ask>> \in Seq(Jobs) /\ <<relay, exit>> \in Seq(Jobs)
      OBVIOUS
    <3> QED BY <1>4, <2>1, <3>1
  <2>3. s \in Seq(Jobs) /\ s # <<>> /\ Head(s) = cut /\ Tail(s) = t
    BY <2>1, <2>2, FirstThen
  <2> QED BY <1>3, <2>1, <2>3
<1> QED BY <1>6, <1>7

LEMMA RestsFollow ==
  /\ AfterShow \subseteq Polls \cup LeaveRests /\ AfterCut \subseteq Polls \cup LeaveRests
  /\ Polls \cup LeaveRests \subseteq RestPlans /\ AfterSend \subseteq RestPlans /\ AfterCut \subseteq AfterSend
  /\ <<Do("ask")>> \in RestPlans /\ <<ToReturn("input-limit")>> \in RestPlans
  /\ \A t \in AfterCut : <<Control("application-link-cut")>> \o t \in AfterSend
BY DEF AfterShow, AfterCut, Polls, LeaveRests, RestPlans, AfterSend

(* What the controller does next, by the stage it is in.                     *)
LEMMA TerminalHeads ==
  ASSUME NEW s \in Seq(Jobs), TerminalGoesOn(s)
  PROVE  /\ s # <<>> /\ Head(s) \in Jobs /\ Tail(s) \in Seq(Jobs)
         /\ Head(s).do \in {"relay", "watch", "ask", "return", "write", "show", "send"}
         /\ Head(s).do \in {"relay", "watch", "ask", "return"} => AtRest(s)
         /\ Head(s).do = "show" => Displays(s)
         /\ Head(s).do = "send" => Sends(s)
         /\ Head(s).do = "write" => AtRest(s) \/ Relays(s) \/ Forwards(s) \/ Blocks(s)
<1>1. Control("blocked-or-rejected").do = "write"
  BY DEF Control
<1>2. AtRest(s) => s # <<>> /\ Head(s).do \in {"relay", "watch", "ask", "return", "write"}
  BY RestShapes DEF AtRest
<1>3. /\ Displays(s) => s # <<>> /\ Head(s).do = "show"
      /\ Relays(s) => s # <<>> /\ Head(s).do = "write"
      /\ Sends(s) => s # <<>> /\ Head(s).do = "send"
      /\ Forwards(s) => s # <<>> /\ Head(s).do = "write"
      /\ Blocks(s) => s # <<>> /\ Head(s).do = "write"
  BY <1>1 DEF Displays, Relays, Sends, Forwards, Blocks
<1>4. s # <<>> => Head(s) \in Jobs /\ Tail(s) \in Seq(Jobs)
  OBVIOUS
<1> QED BY <1>2, <1>3, <1>4 DEF TerminalGoesOn

LEMMA DialogueHeads ==
  ASSUME NEW s \in Seq(Jobs), DialogueGoesOn(s)
  PROVE  /\ s # <<>> /\ Head(s) \in Jobs /\ Tail(s) \in Seq(Jobs)
         /\ Head(s).do \in {"ask", "write", "send", "reply", "raise"}
         /\ Head(s).do = "ask" => s = <<Do("ask")>> /\ Idle /\ FailedOf(file) = 0
         /\ Head(s).do = "write" =>
              \/ Commands(s) /\ Idle /\ FailedOf(file) = 0 /\ CommandsOf(file) < MaxCommands
              \/ Answers(s) /\ CommandsOf(file) = sent /\ sent = CompletedOf(file) + 1 /\ FailedOf(file) = 0
         /\ Head(s).do = "send" =>
              Orders(s) /\ CommandsOf(file) = sent + 1 /\ CompletedOf(file) = sent /\ FailedOf(file) = 0
         /\ Head(s).do = "reply" =>
              Awaits(s) /\ CommandsOf(file) = sent /\ sent = CompletedOf(file) + 1 /\ FailedOf(file) = 0
         /\ Head(s).do = "raise" => Raises(s) /\ CommandsOf(file) = sent
<1>1. Command.do = "write" /\ [do |-> "send", n |-> 1].do = "send"
  BY DEF Command
<1>2. /\ s = <<Do("ask")>> => s # <<>> /\ Head(s).do = "ask"
      /\ Commands(s) => s # <<>> /\ Head(s).do = "write"
      /\ Orders(s) => s # <<>> /\ Head(s).do = "send"
      /\ Awaits(s) => s # <<>> /\ Head(s).do = "reply"
      /\ Answers(s) => s # <<>> /\ Head(s).do = "write"
      /\ Raises(s) => s # <<>> /\ Head(s).do = "raise"
  BY <1>1, SingleJobs DEF Commands, Orders, Awaits, Answers, Raises
<1>3. s # <<>> => Head(s) \in Jobs /\ Tail(s) \in Seq(Jobs)
  OBVIOUS
<1> QED BY <1>2, <1>3 DEF DialogueGoesOn

LEMMA AgainShape ==
  ASSUME profile \in {"terminal", "line"}
  PROVE  /\ Again \in Seq(Jobs) /\ Again # <<>> /\ Head(Again).do \in {"relay", "ask"}
         /\ profile = "terminal" => Again \in Polls /\ Again \in AfterCut
         /\ profile = "line" => Again = <<Do("ask")>>
<1>1. PICK relay, watch, ask \in Jobs :
         /\ relay = Do("relay") /\ watch = Do("watch") /\ ask = Do("ask")
         /\ relay.do = "relay" /\ ask.do = "ask"
  BY RecordsAreJobs
<1>2. /\ <<relay, watch, ask>> \in Seq(Jobs) /\ <<relay, watch, ask>> # <<>> /\ Head(<<relay, watch, ask>>) = relay
      /\ <<ask>> \in Seq(Jobs) /\ <<ask>> # <<>> /\ Head(<<ask>>) = ask
  OBVIOUS
<1>3. Again = IF profile = "terminal" THEN <<relay, watch, ask>> ELSE <<ask>>
  BY <1>1 DEF Again
<1>4. <<relay, watch, ask>> \in Polls /\ <<relay, watch, ask>> \in AfterCut
  BY <1>1 DEF Polls, AfterCut
<1> QED BY <1>1, <1>2, <1>3, <1>4

(* The stage, by what is done next.                                          *)
LEMMA WhereItIs ==
  ASSUME OperatorTables, StageGoesOn, Running
  PROVE  /\ todo # <<>> /\ Head(todo) \in Jobs /\ Tail(todo) \in Seq(Jobs)
         /\ Head(todo).do \in {"relay", "watch", "ask", "show", "send", "reply", "return", "raise", "write",
                               "count", "noted", "close", "check", "stop"}
         /\ Head(todo).do \in {"show", "send", "reply", "return", "raise"} => run.stage = "session"
         /\ Head(todo).do \in {"relay", "watch", "ask"} => run.stage \in {"opening", "session"}
         /\ Head(todo).do = "write" => run.stage \in {"session", "ending", "finally"}
         /\ Head(todo).do = "count" => run.stage \in {"session", "ending", "finally"}
         /\ Head(todo).do = "noted" => run.stage = "ending"
         /\ Head(todo).do = "close" => run.stage = "closing"
         /\ Head(todo).do = "check" => run.stage = "checking"
         /\ Head(todo).do = "stop" => run.stage = "finally"
         /\ Counting => Tail(todo) # <<>> /\ Head(Tail(todo)).do # "count"
<1>1. todo \in Seq(Jobs) /\ profile \in {"terminal", "line"} /\ run.stage \in Stages
  BY DEF OperatorTables, Runs
<1> DEFINE Heads(hs) == /\ todo # <<>> /\ Head(todo).do \in hs
                        /\ Counting => Tail(todo) # <<>> /\ Head(Tail(todo)).do # "count"
<1>2. ASSUME run.stage = "opening" PROVE Heads({"relay", "ask"})
  BY <1>1, <1>2, AgainShape DEF StageGoesOn, IsOpening, Counting
<1>3. ASSUME run.stage = "session"
      PROVE Heads({"relay", "watch", "ask", "return", "write", "show", "send", "reply", "raise", "count"})
  <2>1. PICK s \in Seq(Jobs) : s = Waiting /\ IF profile = "terminal" THEN TerminalGoesOn(s) ELSE DialogueGoesOn(s)
    BY <1>3 DEF StageGoesOn, InSession
  <2>2. s # <<>> /\ Head(s).do \in {"relay", "watch", "ask", "return", "write", "show", "send", "reply", "raise"}
    <3>1. CASE profile = "terminal"
      BY <2>1, <3>1, TerminalHeads
    <3>2. CASE profile # "terminal"
      BY <2>1, <3>2, DialogueHeads
    <3> QED BY <3>1, <3>2
  <2> QED BY <2>1, <2>2 DEF Waiting, Counting
<1>4. ASSUME run.stage = "ending" PROVE Heads({"write", "noted", "count"})
  <2>1. CASE todo # <<>> /\ Head(todo) \in EndRecords
    <3>1. Head(todo).do = "write"
      BY <2>1 DEF EndRecords
    <3> QED BY <2>1, <3>1 DEF Counting
  <2>2. CASE Waiting = <<Do("noted")>>
    BY <2>2, SingleJobs DEF Waiting, Counting
  <2> QED BY <1>4, <2>1, <2>2 DEF StageGoesOn, IsEnding
<1>5. ASSUME run.stage = "closing" PROVE Heads({"close"})
  BY <1>5, SingleJobs DEF StageGoesOn, IsClosing, Counting
<1>6. ASSUME run.stage = "checking" PROVE Heads({"check"})
  BY <1>6, SingleJobs DEF StageGoesOn, IsChecking, Counting
<1>7. ASSUME run.stage = "finally" PROVE Heads({"write", "stop", "count"})
  <2>1. CASE todo # <<>> /\ Head(todo) \in EndRecords
    <3>1. Head(todo).do = "write"
      BY <2>1 DEF EndRecords
    <3> QED BY <2>1, <3>1 DEF Counting
  <2>2. CASE Waiting = <<Do("stop")>>
    BY <2>2, SingleJobs DEF Waiting, Counting
  <2> QED BY <1>7, <2>1, <2>2 DEF StageGoesOn, IsLeaving
<1>8. run.stage \in {"opening", "session", "ending", "closing", "checking", "finally"}
  BY <1>1 DEF Stages, Running
<1>9. todo # <<>> => Head(todo) \in Jobs /\ Tail(todo) \in Seq(Jobs)
  BY <1>1
<1> QED BY <1>2, <1>3, <1>4, <1>5, <1>6, <1>7, <1>8, <1>9

------------------------------------------------------------------------------
(* Steps that write nothing. *)

LEMMA RunningFile ==
  ASSUME OperatorInv, Running
  PROVE  /\ file \in Seq(Lines) /\ Whole(file) = file
         /\ run.outcome = "passed" => run.stage = "finally" /\ ~Counting
         /\ run.reason # "killed"
<1>1. file \in Seq(Lines) /\ \A i \in 1..Len(file) : file[i].whole
  BY DEF OperatorInv, OperatorTables, LinesWhole
<1>2. Whole(file) = file
  BY <1>1, WholeFile
<1> QED BY <1>1, <1>2 DEF OperatorInv, StageGoesOn, Running

LEMMA FileStays ==
  ASSUME OperatorInv, Running, UNCHANGED <<profile, file>>, ~Counting, ~Counting',
         mem' = mem \/ mem' = [mem EXCEPT !.closed = TRUE],
         OperatorTables', StageGoesOn', NothingUnrecorded', CleanEndsAreTrue',
         Undisturbed' => Undisturbed, run'.outcome # "passed" \/ PassedIsReadable', run'.reason # "killed"
  PROVE  OperatorInv'
<1>1. LinesWhole'
  BY DEF OperatorInv, LinesWhole
<1>2. RecorderInStep'
  <2>1. SUFFICES ASSUME Undisturbed' PROVE Reads(file)' /\ InStep(mem, file)'
    BY DEF RecorderInStep
  <2>2. Reads(file) /\ InStep(mem, file)
    BY <2>1 DEF OperatorInv, RecorderInStep
  <2>3. Reads(file)'
    BY <2>2 DEF Reads
  <2>4. mem \in Recorders
    BY DEF OperatorInv, OperatorTables
  <2>5. InStep(mem, file)'
    <3>1. CASE mem' = mem
      BY <2>2, <3>1 DEF InStep
    <3>2. CASE mem' = [mem EXCEPT !.closed = TRUE]
      <4>1. /\ mem'.next = mem.next /\ mem'.input = mem.input /\ mem'.output = mem.output
            /\ mem'.data = mem.data /\ mem'.control = mem.control /\ mem'.commands = mem.commands
            /\ mem'.completed = mem.completed /\ mem'.failed = mem.failed
            /\ mem'.pending = mem.pending /\ mem'.done = mem.done
        BY <2>4, <3>2 DEF Recorders
      <4> QED BY <2>2, <4>1 DEF InStep
    <3> QED BY <3>1, <3>2
  <2> QED BY <2>3, <2>5
<1>3. PassedIsReadable' /\ KilledIsReadable'
  BY DEF PassedIsReadable, KilledIsReadable
<1> QED BY <1>1, <1>2, <1>3 DEF OperatorInv

(* Nor sends nor shows anything.                                             *)
LEMMA AllStays ==
  ASSUME OperatorInv, Running, UNCHANGED <<profile, file, sent, seen>>, ~Counting, ~Counting',
         mem' = mem \/ mem' = [mem EXCEPT !.closed = TRUE],
         OperatorTables', StageGoesOn',
         Undisturbed' => Undisturbed, run'.outcome # "passed", run'.reason # "killed"
  PROVE  OperatorInv'
<1>1. NothingUnrecorded'
  BY DEF OperatorInv, NothingUnrecorded
<1>2. CleanEndsAreTrue'
  BY DEF OperatorInv, CleanEndsAreTrue
<1> QED BY <1>1, <1>2, FileStays

(* In a session no end has been written.                                     *)
LEMMA SessionStays ==
  ASSUME OperatorInv, run.stage = "session", UNCHANGED <<profile, file>>
  PROVE  CleanEndsAreTrue'
<1>1. Whole(file) = file /\ \A i \in 1..Len(file) : file[i].kind # "end"
  BY RunningFile DEF OperatorInv, StageGoesOn, InSession, Running
<1> QED BY <1>1 DEF CleanEndsAreTrue

LEMMA EndingShape ==
  ASSUME NEW reason \in Ends
  PROVE  /\ Ending(reason) \in Seq(Jobs) /\ Ending(reason) # <<>>
         /\ Head(Ending(reason)) = EndRecord(reason) /\ EndRecord(reason) \in EndRecords
         /\ Head(Ending(reason)).dir = reason /\ Head(Ending(reason)).do = "write"
         /\ Tail(Ending(reason)) = <<Do("noted")>>
<1>1. PICK r \in Jobs : r = EndRecord(reason) /\ r \in EndRecords /\ r.dir = reason /\ r.do = "write"
  BY RecordsAreJobs, KindsOfRecords DEF EndRecord
<1>2. PICK x \in Jobs : x = Do("noted")
  BY RecordsAreJobs
<1>3. <<r, x>> \in Seq(Jobs) /\ <<r, x>> # <<>> /\ Head(<<r, x>>) = r /\ Tail(<<r, x>>) = <<x>>
  OBVIOUS
<1> QED BY <1>1, <1>2, <1>3 DEF Ending

(* A session that is over.                                                   *)
LEMMA LeavesSession ==
  ASSUME OperatorInv, run.stage = "session", NEW reason \in Ends,
         \/ Return(reason) /\ (reason \in CleanEnds => Idle' /\ FailedOf(file)' = 0)
         \/ \E b \in BOOLEAN : Throw(reason, b) /\ reason \notin CleanEnds,
         ~mem'.closed
  PROVE  /\ StageGoesOn' /\ ~Counting' /\ todo' \in Seq(Jobs)
         /\ run' \in Runs
         /\ run'.stage = "ending" /\ run'.outcome # "passed" /\ run'.reason # "killed"
<1>1. /\ run \in Runs
      /\ run.outcome # "passed"
  BY RunningFile DEF OperatorInv, OperatorTables, Running
<1>2. PICK why \in Ends \cup {"raised"}, b \in BOOLEAN :
         /\ run' = [run EXCEPT !.stage = "ending", !.reason = why, !.interrupted = b]
         /\ todo' = Ending(reason)
         /\ IF reason \in CleanEnds THEN why = reason /\ Idle' /\ FailedOf(file)' = 0 ELSE why \notin CleanEnds
  <2>1. CASE Return(reason) /\ (reason \in CleanEnds => Idle' /\ FailedOf(file)' = 0)
    <3>1. run' = [run EXCEPT !.stage = "ending", !.reason = reason] /\ todo' = Ending(reason)
      BY <2>1 DEF Return, Go
    <3>2. run' = [run EXCEPT !.stage = "ending", !.reason = reason, !.interrupted = run.interrupted]
      BY <1>1, <3>1 DEF Runs
    <3>3. run.interrupted \in BOOLEAN
      BY <1>1 DEF Runs
    <3> QED BY <2>1, <3>1, <3>2, <3>3
  <2>2. CASE \E b \in BOOLEAN : Throw(reason, b) /\ reason \notin CleanEnds
    <3>1. PICK b \in BOOLEAN : Throw(reason, b) /\ reason \notin CleanEnds
      BY <2>2
    <3>2. Handler(reason).stage = "ending" /\ Handler(reason).todo = Ending(reason)
      BY DEF Handler
    <3>3. run' = [run EXCEPT !.stage = "ending", !.reason = "raised", !.interrupted = b]
      <4>1. run' = [run EXCEPT !.stage = Handler(reason).stage, !.reason = "raised", !.interrupted = b]
        BY <3>1 DEF Throw
      <4> QED BY <3>2, <4>1
    <3>5. todo' = Ending(reason)
      BY <3>1, <3>2 DEF Throw
    <3>4. "raised" \notin CleanEnds
      BY EndReasons
    <3> QED BY <3>1, <3>3, <3>4, <3>5
  <2> QED BY <2>1, <2>2
<1>3. /\ run' \in Runs
      /\ run'.stage = "ending" /\ run'.outcome = run.outcome /\ run'.reason = why
  BY <1>1, <1>2 DEF Runs, Stages
<1>4. why # "killed"
  BY EndReasons
<1>5. /\ todo' \in Seq(Jobs) /\ todo' # <<>> /\ Head(todo') \in EndRecords /\ Head(todo').dir = reason
      /\ Head(todo').do = "write" /\ Tail(todo') = <<Do("noted")>>
  BY <1>2, EndingShape
<1>6. ~Counting'
  BY <1>5 DEF Counting
<1>7. IsEnding'
  BY <1>2, <1>3, <1>5 DEF IsEnding
<1>8. StageGoesOn'
  BY <1>1, <1>3, <1>4, <1>6, <1>7 DEF StageGoesOn
<1> QED BY <1>1, <1>3, <1>4, <1>5, <1>6, <1>8

------------------------------------------------------------------------------
(* The steps of a terminal session. *)

LEMMA InTheSession ==
  ASSUME OperatorInv, run.stage = "session"
  PROVE  /\ Running /\ Undisturbed /\ ~mem.closed /\ ~mem.done /\ run.reason = "none" /\ run.outcome # "passed"
         /\ run \in Runs /\ Whole(file) = file /\ \A i \in 1..Len(file) : file[i].kind # "end"
         /\ ~Counting => /\ InStep(mem, file)
                         /\ profile = "terminal" => TerminalGoesOn(todo)
                         /\ profile = "line" => DialogueGoesOn(todo)
         /\ todo \in Seq(Jobs) /\ file \in Seq(Lines) /\ mem \in Recorders /\ profile \in {"terminal", "line"}
<1>1. Running /\ Undisturbed
  BY DEF Running, Undisturbed
<1>2. InSession
  BY DEF OperatorInv, StageGoesOn
<1>3. ~Counting => Waiting = todo
  BY DEF Waiting
<1>4. ~Counting => InStep(mem, file)
  BY <1>1 DEF OperatorInv, RecorderInStep
<1>5. /\ ~Counting /\ profile = "terminal" => TerminalGoesOn(todo)
      /\ ~Counting /\ profile = "line" => DialogueGoesOn(todo)
  <2>1. PICK s \in Seq(Jobs) : s = Waiting /\ IF profile = "terminal" THEN TerminalGoesOn(s) ELSE DialogueGoesOn(s)
    BY <1>2 DEF InSession
  <2>2. ASSUME ~Counting, profile = "terminal" PROVE TerminalGoesOn(todo)
    <3>1. s = todo /\ TerminalGoesOn(s)
      BY <1>3, <2>1, <2>2
    <3> QED BY <3>1
  <2>3. ASSUME ~Counting, profile = "line" PROVE DialogueGoesOn(todo)
    <3>1. s = todo /\ DialogueGoesOn(s)
      BY <1>3, <2>1, <2>3
    <3> QED BY <3>1
  <2> QED BY <2>2, <2>3
<1> QED BY <1>1, <1>2, <1>4, <1>5, RunningFile DEF OperatorInv, OperatorTables, InSession

(* A session that goes on.                                                   *)
LEMMA SessionGoesOn ==
  ASSUME OperatorInv, run.stage = "session", UNCHANGED <<profile, file, mem>>,
         run' = run \/ run' = [run EXCEPT !.interrupted = TRUE],
         NEW s \in Seq(Jobs), todo' = s, s # <<>>, Head(s).do # "count",
         IF profile = "terminal" THEN TerminalGoesOn(s)' ELSE DialogueGoesOn(s)'
  PROVE  /\ StageGoesOn' /\ ~Counting' /\ run' \in Runs
         /\ run'.outcome # "passed" /\ run'.reason # "killed" /\ Undisturbed
<1>1. /\ ~mem.closed /\ ~mem.done /\ run.reason = "none" /\ run.outcome # "passed" /\ run \in Runs
      /\ \A i \in 1..Len(file) : file[i].kind # "end"
      /\ Undisturbed
  BY InTheSession
<1>2. /\ run' \in Runs /\ run'.stage = "session" /\ run'.reason = "none" /\ run'.outcome = run.outcome
  BY <1>1 DEF Runs
<1>3. ~Counting' /\ Waiting' = s
  BY DEF Counting, Waiting
<1>4. InSession'
  BY <1>1, <1>2, <1>3 DEF InSession
<1>5. StageGoesOn'
  BY <1>1, <1>2, <1>3, <1>4 DEF StageGoesOn
<1> QED BY <1>1, <1>2, <1>3, <1>5

(* The session is over, or goes on, and nothing else has changed.            *)
LEMMA QuietEnd ==
  ASSUME OperatorInv, run.stage = "session", ~Counting, NEW reason \in Ends,
         \/ Return(reason) /\ (reason \in CleanEnds => Idle /\ FailedOf(file) = 0)
         \/ Raise(reason) /\ reason \notin CleanEnds,
         UNCHANGED <<profile, alive, printed, seen, cursor, typed, file, mem, bridge, sent>>
  PROVE  OperatorInv'
<1>1. OperatorTables /\ ~mem'.closed /\ Undisturbed /\ Running /\ run \in Runs
  BY InTheSession DEF OperatorInv
<1>2. \/ Return(reason) /\ (reason \in CleanEnds => Idle' /\ FailedOf(file)' = 0)
      \/ \E b \in BOOLEAN : Throw(reason, b) /\ reason \notin CleanEnds
  <2>1. Idle => Idle'
    BY DEF Idle
  <2>2. FailedOf(file)' = FailedOf(file) /\ run.interrupted \in BOOLEAN
    BY <1>1 DEF Runs
  <2> QED BY <2>1, <2>2 DEF Raise
<1>3. /\ StageGoesOn' /\ ~Counting' /\ todo' \in Seq(Jobs) /\ run' \in Runs
      /\ run'.outcome # "passed" /\ run'.reason # "killed"
  BY <1>1, <1>2, LeavesSession
<1>4. OperatorTables'
  BY <1>1, <1>3 DEF OperatorTables
<1> QED BY <1>1, <1>3, <1>4, AllStays

LEMMA QuietStep ==
  ASSUME OperatorInv, run.stage = "session", ~Counting,
         UNCHANGED <<profile, alive, printed, seen, file, mem, bridge, sent>>,
         cursor' \in 0..Len(printed), typed' \in Nat,
         run' = run \/ run' = [run EXCEPT !.interrupted = TRUE],
         NEW s \in Seq(Jobs), todo' = s, s # <<>>, Head(s).do # "count",
         IF profile = "terminal" THEN TerminalGoesOn(s) ELSE DialogueGoesOn(s)
  PROVE  OperatorInv'
<1>1. OperatorTables /\ Running
  BY InTheSession DEF OperatorInv
<1>2. IF profile = "terminal" THEN TerminalGoesOn(s)' ELSE DialogueGoesOn(s)'
  <2>1. TerminalGoesOn(s) => TerminalGoesOn(s)'
    BY DEF TerminalGoesOn, AtRest, Displays, Relays, Sends, Forwards, Blocks, Idle
  <2>2. DialogueGoesOn(s) => DialogueGoesOn(s)'
    BY DEF DialogueGoesOn, Commands, Orders, Awaits, Answers, Raises, Idle
  <2> QED BY <2>1, <2>2
<1>3. /\ StageGoesOn' /\ ~Counting' /\ run' \in Runs
      /\ run'.outcome # "passed" /\ run'.reason # "killed" /\ Undisturbed
  BY <1>2, SessionGoesOn
<1>4. OperatorTables'
  BY <1>1, <1>3 DEF OperatorTables
<1> QED BY <1>1, <1>3, <1>4, AllStays

(* What is new is recorded and then shown.                                   *)
LEMMA RelayOutputKeeps == ASSUME OperatorInv, RelayOutput PROVE OperatorInv'
<1>1. /\ run.stage = "session" /\ todo # <<>> /\ Head(todo).do = "relay"
      /\ UNCHANGED <<profile, alive, printed, seen, cursor, typed, file, mem, bridge, sent>>
  BY WhereItIs DEF RelayOutput, Doing, OperatorInv, Running
<1>2. ~Counting
  BY <1>1 DEF Counting
<1>3. profile = "terminal" /\ TerminalGoesOn(todo) /\ AtRest(todo)
  <2>1. profile # "line"
    BY <1>1, <1>2, InTheSession, DialogueHeads
  <2> QED BY <1>1, <1>2, <2>1, InTheSession, TerminalHeads
<1>4. OperatorTables /\ ~mem'.closed
  BY <1>1, InTheSession DEF OperatorInv
<1>5. PICK n : n = Len(printed) - seen
  OBVIOUS
<1>6. n \in Nat /\ seen \in Nat /\ seen + n = Len(printed) /\ Len(printed) \in Nat
  <2>1. Len(printed) \in Nat /\ seen \in 0..Len(printed)
    BY <1>4, LenProperties DEF OperatorTables
  <2> QED BY <1>5, <2>1
<1>7. CASE OverOutput(n)
  <2>1. Return("output-limit")
    BY <1>5, <1>7 DEF RelayOutput
  <2>2. "output-limit" \in Ends /\ "output-limit" \notin CleanEnds
    BY EndReasons
  <2> QED BY <1>1, <1>2, <2>1, <2>2, QuietEnd
<1>8. CASE ~OverOutput(n)
  <2>1. PICK t : t = Tail(todo)
    OBVIOUS
  <2>2. t \in AfterShow /\ t \in RestPlans /\ t \in Seq(Jobs) /\ t # <<>> /\ Head(t).do # "count" /\ Idle
    <3>1. t \in AfterShow /\ Idle
      BY <1>1, <1>3, <2>1, RestShapes DEF AtRest
    <3>2. t \in RestPlans
      BY <3>1, RestsFollow
    <3> QED BY <3>1, <3>2, RestShapes
  <2>3. PICK s \in Seq(Jobs) :
           /\ todo' = s /\ s # <<>> /\ Head(s).do # "count" /\ run' = run
           /\ s = t \/ /\ n \in Nat \ {0} /\ s # <<>> /\ Head(s).do = "write" /\ Head(s).kind = "bytes"
                       /\ Head(s).dir = "out" /\ Head(s).n = n
                       /\ Tail(s) # <<>> /\ Head(Tail(s)).do = "show" /\ Head(Tail(s)).n = n
                       /\ Tail(Tail(s)) = t
    <3>1. /\ todo' = (IF n = 0 THEN <<>> ELSE <<Bytes("out", n), [do |-> "show", n |-> n]>>) \o t
          /\ run' = run
      BY <1>5, <1>8, <2>1 DEF RelayOutput
    <3>2. CASE n = 0
      <4>1. todo' = t
        BY <2>2, <3>1, <3>2, ConcatEmptySeq
      <4> QED BY <2>2, <3>1, <4>1
    <3>3. CASE n # 0
      <4>1. PICK x, y \in Jobs : x = Bytes("out", n) /\ y = [do |-> "show", n |-> n]
        BY <1>6, <3>3, RecordsAreJobs, KindsOfRecords
      <4>2. /\ x.do = "write" /\ x.kind = "bytes" /\ x.dir = "out" /\ x.n = n
            /\ y.do = "show" /\ y.n = n
        BY <4>1 DEF Bytes
      <4>3. PICK u : u = <<y>> \o t
        OBVIOUS
      <4>4. u \in Seq(Jobs) /\ u # <<>> /\ Head(u) = y /\ Tail(u) = t
        BY <2>2, <4>3, FirstThen
      <4>5. PICK s : s = <<x>> \o u
        OBVIOUS
      <4>6. s \in Seq(Jobs) /\ s # <<>> /\ Head(s) = x /\ Tail(s) = u
        BY <4>4, <4>5, FirstThen
      <4>7. todo' = s
        BY <2>2, <3>1, <3>3, <4>1, <4>3, <4>5, FirstTwoThen
      <4> QED BY <1>6, <3>1, <3>3, <4>2, <4>4, <4>6, <4>7
    <3> QED BY <3>2, <3>3
  <2>4. /\ bridge.output = seen /\ bridge.input = sent /\ FailedOf(file) = 0
        /\ sent = InputOf(file) /\ seen = OutputOf(file)
    BY <1>3, <2>2 DEF TerminalGoesOn, Idle
  <2>5. AtRest(s) \/ Relays(s)
    <3>1. CASE s = t
      BY <2>2, <3>1 DEF AtRest
    <3>2. CASE s # t
      <4>1. seen + n <= MaxOutput
        BY <1>6, <1>8, <2>4, OperatorAssumption DEF OverOutput
      <4>2. n \in Nat \ {0} /\ Head(s).n = n /\ Head(Tail(s)).n = n /\ Tail(Tail(s)) \in AfterShow
        BY <2>2, <2>3, <3>2
      <4>3. seen + n <= Len(printed)
        BY <1>6
      <4> QED BY <2>3, <2>4, <3>2, <4>1, <4>2, <4>3 DEF Relays
    <3> QED BY <3>1, <3>2
  <2>6. TerminalGoesOn(s)
    BY <2>4, <2>5 DEF TerminalGoesOn
  <2>7. cursor' \in 0..Len(printed) /\ typed' \in Nat
    BY <1>1, <1>4 DEF OperatorTables
  <2> QED BY <1>1, <1>2, <1>3, <2>3, <2>6, <2>7, QuietStep
<1> QED BY <1>7, <1>8

LEMMA DoesNext ==
  ASSUME OperatorInv, NEW what, Doing(what)
  PROVE  /\ Running /\ todo # <<>> /\ Head(todo).do = what /\ Head(todo) \in Jobs /\ Tail(todo) \in Seq(Jobs)
         /\ what # "count" => ~Counting
         /\ what \in {"show", "send", "reply", "return", "raise"} => run.stage = "session"
         /\ what = "noted" => run.stage = "ending"
         /\ what = "close" => run.stage = "closing"
         /\ what = "check" => run.stage = "checking"
         /\ what = "stop" => run.stage = "finally"
         /\ what \in {"write", "count"} => run.stage \in {"session", "ending", "finally"}
<1>1. Running /\ Head(todo).do = what
  BY DEF Doing, Running
<1>2. /\ todo # <<>> /\ Head(todo) \in Jobs /\ Tail(todo) \in Seq(Jobs)
      /\ what \in {"show", "send", "reply", "return", "raise"} => run.stage = "session"
      /\ what = "noted" => run.stage = "ending"
      /\ what = "close" => run.stage = "closing"
      /\ what = "check" => run.stage = "checking"
      /\ what = "stop" => run.stage = "finally"
      /\ what \in {"write", "count"} => run.stage \in {"session", "ending", "finally"}
  BY <1>1, WhereItIs DEF OperatorInv
<1> QED BY <1>1, <1>2 DEF Counting

(* The terminal asks, or the dialogue does.                                  *)
LEMMA AsksIdle ==
  ASSUME OperatorInv, run.stage = "session", Doing("ask")
  PROVE  ~Counting /\ Idle /\ FailedOf(file) = 0
<1>1. ~Counting /\ todo \in Seq(Jobs) /\ Head(todo).do = "ask" /\ profile \in {"terminal", "line"}
  BY DoesNext, InTheSession
<1>2. CASE profile = "terminal"
  <2>1. AtRest(todo) /\ FailedOf(file) = 0
    BY <1>1, <1>2, InTheSession, TerminalHeads DEF TerminalGoesOn
  <2> QED BY <1>1, <2>1 DEF AtRest
<1>3. CASE profile = "line"
  BY <1>1, <1>3, InTheSession, DialogueHeads
<1> QED BY <1>1, <1>2, <1>3

LEMMA WatchKeeps == ASSUME OperatorInv, Watch PROVE OperatorInv'
<1>1. /\ run.stage = "session" /\ ~Counting /\ todo \in Seq(Jobs) /\ Head(todo).do = "watch"
      /\ profile \in {"terminal", "line"}
      /\ UNCHANGED <<profile, alive, printed, seen, cursor, typed, file, mem, bridge, sent>>
  BY DoesNext, InTheSession DEF Watch
<1>2. profile = "terminal" /\ TerminalGoesOn(todo) /\ AtRest(todo)
  <2>1. profile # "line"
    BY <1>1, InTheSession, DialogueHeads
  <2> QED BY <1>1, <2>1, InTheSession, TerminalHeads
<1>3. CASE alive
  <2>1. PICK s : s = Tail(todo)
    OBVIOUS
  <2>2. s = <<Do("ask")>>
    BY <1>1, <1>2, <2>1, RestShapes DEF AtRest
  <2>3. s \in RestPlans /\ s \in Seq(Jobs) /\ s # <<>> /\ Head(s).do # "count"
    <3>1. s \in RestPlans
      BY <2>2, RestsFollow
    <3> QED BY <3>1, RestShapes
  <2>4. TerminalGoesOn(s)
    BY <1>2, <2>3 DEF TerminalGoesOn, AtRest
  <2>5. todo' = s /\ run' = run
    BY <1>3, <2>1 DEF Watch
  <2>6. cursor' \in 0..Len(printed) /\ typed' \in Nat
    BY <1>1 DEF OperatorInv, OperatorTables
  <2> QED BY <1>1, <1>2, <2>3, <2>4, <2>5, <2>6, QuietStep
<1>4. CASE ~alive
  <2>1. Return("process-exit")
    BY <1>4 DEF Watch
  <2>2. "process-exit" \in Ends /\ "process-exit" \notin CleanEnds
    BY EndReasons
  <2> QED BY <1>1, <2>1, <2>2, QuietEnd
<1> QED BY <1>3, <1>4

LEMMA PollKeeps == ASSUME OperatorInv, Poll PROVE OperatorInv'
<1>1. /\ run.stage = "session" /\ ~Counting /\ Idle /\ FailedOf(file) = 0 /\ profile = "terminal"
      /\ TerminalGoesOn(todo)
      /\ UNCHANGED <<profile, alive, printed, seen, cursor, typed, file, mem, bridge, sent>>
  BY AsksIdle, InTheSession DEF Poll
<1>2. CASE todo' = Again /\ UNCHANGED run
  <2>1. PICK s : s = Again
    OBVIOUS
  <2>2. s \in RestPlans /\ s \in Seq(Jobs) /\ s # <<>> /\ Head(s).do # "count"
    BY <1>1, <2>1, AgainShape, RestsFollow
  <2>3. TerminalGoesOn(s)
    BY <1>1, <2>2 DEF TerminalGoesOn, AtRest
  <2>4. cursor' \in 0..Len(printed) /\ typed' \in Nat
    BY <1>1 DEF OperatorInv, OperatorTables
  <2> QED BY <1>1, <1>2, <2>1, <2>2, <2>3, <2>4, QuietStep
<1>3. CASE Return("input-eof")
  <2>1. "input-eof" \in Ends
    BY DEF Ends, CleanEnds
  <2> QED BY <1>1, <1>3, <2>1, QuietEnd
<1> QED BY <1>2, <1>3 DEF Poll

(* A return is due when nothing is under way, a raise for a result that is   *)
(* not complete.                                                             *)
LEMMA DueKeeps == ASSUME OperatorInv, Due PROVE OperatorInv'
<1>1. /\ run.stage = "session" /\ todo \in Seq(Jobs) /\ profile \in {"terminal", "line"}
      /\ UNCHANGED <<profile, alive, printed, seen, cursor, typed, file, mem, bridge, sent>>
  BY InTheSession DEF Due
<1>2. PICK reason : reason = Head(todo).reason
  OBVIOUS
<1>3. CASE Doing("return") /\ Return(Head(todo).reason)
  <2>1. ~Counting /\ Head(todo).do = "return" /\ Head(todo) \in Jobs
    BY <1>3, DoesNext
  <2>2. reason \in Ends
    BY <1>2, <2>1, JobKinds
  <2>3. profile = "terminal"
    BY <1>1, <2>1, InTheSession, DialogueHeads
  <2>4. TerminalGoesOn(todo) /\ AtRest(todo)
    BY <1>1, <2>1, <2>3, InTheSession, TerminalHeads
  <2>5. Idle /\ FailedOf(file) = 0
    BY <2>4 DEF AtRest, TerminalGoesOn
  <2> QED BY <1>1, <1>2, <1>3, <2>1, <2>2, <2>5, QuietEnd
<1>4. CASE Doing("raise") /\ Raise(Head(todo).reason)
  <2>1. ~Counting /\ Head(todo).do = "raise" /\ Head(todo) \in Jobs
    BY <1>4, DoesNext
  <2>2. reason \in Ends
    BY <1>2, <2>1, JobKinds
  <2>3. profile = "line"
    BY <1>1, <2>1, InTheSession, TerminalHeads
  <2>4. Raises(todo)
    BY <1>1, <2>1, <2>3, InTheSession, DialogueHeads
  <2>5. reason \notin CleanEnds
    BY <1>2, <2>4 DEF Raises
  <2> QED BY <1>1, <1>2, <1>4, <2>1, <2>2, <2>5, QuietEnd
<1> QED BY <1>3, <1>4 DEF Due

LEMMA ShowKeeps == ASSUME OperatorInv, Show PROVE OperatorInv'
<1>1. /\ run.stage = "session" /\ ~Counting /\ todo \in Seq(Jobs) /\ Head(todo).do = "show"
      /\ Head(todo) \in Jobs /\ profile \in {"terminal", "line"} /\ run \in Runs
      /\ UNCHANGED <<profile, alive, printed, cursor, typed, file, mem, sent>>
  BY DoesNext, InTheSession DEF Show
<1>2. profile = "terminal" /\ TerminalGoesOn(todo) /\ Displays(todo)
  <2>1. profile # "line"
    BY <1>1, InTheSession, DialogueHeads
  <2> QED BY <1>1, <2>1, InTheSession, TerminalHeads
<1>3. PICK n \in Nat : n = Head(todo).n
  BY <1>1, JobKinds
<1>4. /\ OperatorTables /\ ~mem'.closed /\ Whole(file) = file /\ Undisturbed /\ Running
      /\ bridge \in [input : Nat, output : Nat] /\ seen \in Nat /\ Len(printed) \in Nat
  <2>1. OperatorTables /\ ~mem'.closed /\ Whole(file) = file /\ Undisturbed /\ Running
    BY <1>1, InTheSession DEF OperatorInv
  <2>2. printed \in Seq({"text", "prompt", "closed"}) /\ seen \in 0..Len(printed)
    BY <2>1 DEF OperatorTables
  <2>3. Len(printed) \in Nat
    BY <2>2, LenProperties
  <2> QED BY <2>1, <2>2, <2>3 DEF OperatorTables
<1>5. /\ bridge.input = sent /\ bridge.output = seen /\ FailedOf(file) = 0
      /\ sent = InputOf(file) /\ OutputOf(file) = seen + n /\ seen + n <= Len(printed)
  BY <1>2, <1>3 DEF TerminalGoesOn, Displays
<1>6. PICK q : q = seen + n
  OBVIOUS
<1>7. /\ q \in 0..Len(printed) /\ q \in Nat /\ seen' = q /\ q = OutputOf(file)
      /\ bridge' = [bridge EXCEPT !.output = q]
  BY <1>3, <1>4, <1>5, <1>6 DEF Show
<1>8. /\ bridge' \in [input : Nat, output : Nat] /\ bridge'.input = sent /\ bridge'.output = q
  BY <1>4, <1>5, <1>7
<1>9. NothingUnrecorded' /\ CleanEndsAreTrue'
  <2>1. NothingUnrecorded'
    <3>1. Totals(file)[1] = InputOf(file) /\ Totals(file)[2] = OutputOf(file)
      BY <1>4, TotalsOf DEF OperatorTables
    <3>2. sent <= Totals(file)[1]
      BY <1>2, <1>4 DEF OperatorInv, NothingUnrecorded
    <3>3. q <= Totals(file)[2]
      BY <1>7, <3>1
    <3> QED BY <1>1, <1>2, <1>4, <1>7, <3>2, <3>3 DEF NothingUnrecorded
  <2> QED BY <1>1, <2>1, SessionStays
<1>10. ASSUME StageGoesOn', ~Counting', todo' \in Seq(Jobs), run' \in Runs,
              run'.outcome # "passed", run'.reason # "killed"
       PROVE  OperatorInv'
  <2>1. OperatorTables'
    BY <1>1, <1>4, <1>7, <1>8, <1>10 DEF OperatorTables
  <2> QED BY <1>1, <1>4, <1>9, <1>10, <2>1, FileStays
<1>11. CASE todo' = Tail(todo) /\ UNCHANGED run
  <2>1. PICK s : s = Tail(todo)
    OBVIOUS
  <2>2. s \in RestPlans /\ s \in Seq(Jobs) /\ s # <<>> /\ Head(s).do # "count"
    <3>1. s \in RestPlans
      BY <1>2, <2>1, RestsFollow DEF Displays
    <3> QED BY <3>1, RestShapes
  <2>3. Idle'
    BY <1>1, <1>2, <1>5, <1>7 DEF Idle
  <2>4. TerminalGoesOn(s)'
    BY <1>1, <1>5, <1>7, <1>8, <2>2, <2>3 DEF TerminalGoesOn, AtRest
  <2>5. /\ StageGoesOn' /\ ~Counting' /\ run' \in Runs /\ run'.outcome # "passed" /\ run'.reason # "killed"
    BY <1>1, <1>2, <1>11, <2>1, <2>2, <2>4, SessionGoesOn
  <2> QED BY <1>10, <1>11, <2>1, <2>2, <2>5
<1>12. CASE Raise("failed")
  <2>1. "failed" \in Ends /\ "failed" \notin CleanEnds
    BY EndReasons
  <2>2. \E b \in BOOLEAN : Throw("failed", b) /\ "failed" \notin CleanEnds
    BY <1>1, <1>12, <2>1 DEF Raise, Runs
  <2>3. /\ StageGoesOn' /\ ~Counting' /\ todo' \in Seq(Jobs) /\ run' \in Runs
        /\ run'.outcome # "passed" /\ run'.reason # "killed"
    BY <1>1, <1>4, <2>1, <2>2, LeavesSession
  <2> QED BY <1>10, <2>3
<1> QED BY <1>11, <1>12 DEF Show

(* What is sent is recorded before.                                          *)
LEMMA SendKeeps == ASSUME OperatorInv, Send PROVE OperatorInv'
<1>1. /\ run.stage = "session" /\ ~Counting /\ todo \in Seq(Jobs) /\ Head(todo).do = "send"
      /\ Head(todo) \in Jobs /\ Tail(todo) \in Seq(Jobs) /\ profile \in {"terminal", "line"} /\ run \in Runs
      /\ UNCHANGED <<profile, alive, printed, seen, cursor, typed, file, mem>>
  BY DoesNext, InTheSession DEF Send
<1>2. CASE ~alive
  <2>1. Raise("failed") /\ UNCHANGED <<sent, bridge>>
    BY <1>2 DEF Send
  <2>2. "failed" \in Ends /\ "failed" \notin CleanEnds
    BY EndReasons
  <2> QED BY <1>1, <2>1, <2>2, QuietEnd
<1>3. CASE alive
  <2>1. PICK n \in Nat : n = Head(todo).n
    BY <1>1, JobKinds
  <2>2. /\ OperatorTables /\ Whole(file) = file /\ Undisturbed /\ Running
        /\ bridge \in [input : Nat, output : Nat] /\ sent \in Nat /\ file \in Seq(Lines)
    BY <1>1, InTheSession DEF OperatorInv, OperatorTables
  <2>3. PICK q, s : q = sent + n /\ s = Tail(todo)
    OBVIOUS
  <2>4. q \in Nat /\ sent' = q /\ todo' = s /\ run' = run /\ s \in Seq(Jobs)
    BY <1>1, <1>3, <2>1, <2>2, <2>3 DEF Send
  <2>5. bridge' \in [input : Nat, output : Nat] /\ bridge'.input = bridge.input + n /\ bridge'.output = bridge.output
    <3>1. bridge' = [bridge EXCEPT !.input = bridge.input + n]
      BY <1>3, <2>1 DEF Send
    <3>2. bridge.input + n \in Nat
      BY <2>1, <2>2
    <3> QED BY <2>2, <3>1, <3>2
  <2>6. ASSUME profile = "terminal"
        PROVE  NothingUnrecorded' /\ TerminalGoesOn(s)' /\ s # <<>> /\ Head(s).do # "count"
    <3>1. TerminalGoesOn(todo) /\ Sends(todo)
      BY <1>1, <2>6, InTheSession, TerminalHeads
    <3>2. /\ s \in RestPlans /\ bridge.input = sent /\ bridge.output = seen /\ FailedOf(file) = 0
          /\ seen = OutputOf(file) /\ InputOf(file) = q
      BY <2>1, <2>3, <3>1, RestsFollow DEF TerminalGoesOn, Sends
    <3>3. Idle'
      BY <1>1, <2>4, <2>6, <3>2 DEF Idle
    <3>4. TerminalGoesOn(s)'
      BY <1>1, <2>3, <2>4, <2>5, <3>2, <3>3 DEF TerminalGoesOn, AtRest
    <3>5. NothingUnrecorded'
      <4>1. Totals(file)[1] = InputOf(file) /\ Totals(file)[2] = OutputOf(file)
        BY <2>2, TotalsOf
      <4>2. seen <= Totals(file)[2]
        BY <2>2, <2>6 DEF OperatorInv, NothingUnrecorded
      <4>3. q <= Totals(file)[1]
        BY <2>4, <3>2, <4>1
      <4> QED BY <1>1, <2>2, <2>4, <2>6, <4>2, <4>3 DEF NothingUnrecorded
    <3> QED BY <3>2, <3>4, <3>5, RestShapes
  <2>7. ASSUME profile = "line"
        PROVE  NothingUnrecorded' /\ DialogueGoesOn(s)' /\ s # <<>> /\ Head(s).do # "count"
    <3>1. Orders(todo) /\ CommandsOf(file) = sent + 1 /\ CompletedOf(file) = sent /\ FailedOf(file) = 0
      BY <1>1, <2>7, InTheSession, DialogueHeads
    <3>2. n = 1 /\ Awaits(s)
      BY <2>1, <2>3, <3>1 DEF Orders
    <3>3. CommandsOf(file) = q /\ q = CompletedOf(file) + 1
      BY <2>3, <3>1, <3>2
    <3>4. DialogueGoesOn(s)'
      <4>1. Awaits(s)'
        BY <1>1, <3>2 DEF Awaits
      <4> QED BY <1>1, <2>4, <3>1, <3>3, <4>1 DEF DialogueGoesOn
    <3>5. NothingUnrecorded'
      BY <1>1, <2>2, <2>4, <2>7, <3>3 DEF NothingUnrecorded, CommandsOf
    <3> QED BY <3>2, <3>4, <3>5 DEF Awaits
  <2>8. /\ NothingUnrecorded' /\ s # <<>> /\ Head(s).do # "count"
        /\ IF profile = "terminal" THEN TerminalGoesOn(s)' ELSE DialogueGoesOn(s)'
    BY <1>1, <2>6, <2>7
  <2>9. /\ StageGoesOn' /\ ~Counting' /\ run' \in Runs /\ run'.outcome # "passed" /\ run'.reason # "killed"
    BY <1>1, <2>4, <2>8, SessionGoesOn
  <2>10. OperatorTables'
    BY <1>1, <2>2, <2>4, <2>5, <2>9 DEF OperatorTables
  <2> QED BY <1>1, <2>2, <2>4, <2>8, <2>9, <2>10, SessionStays, FileStays
<1> QED BY <1>2, <1>3

LEMMA ReadKeeps == ASSUME OperatorInv, NEW p \in Prepared, Read(p) PROVE OperatorInv'
<1>1. /\ run.stage = "session" /\ profile = "terminal" /\ Doing("ask") /\ typed' = typed + 1
      /\ UNCHANGED <<profile, alive, printed, seen, cursor, file, mem, bridge, sent, run>>
  BY DEF Read
<1>2. /\ ~Counting /\ Idle /\ TerminalGoesOn(todo)
  BY <1>1, AsksIdle, InTheSession
<1>3. /\ bridge.input = sent /\ bridge.output = seen /\ FailedOf(file) = 0
      /\ sent = InputOf(file) /\ seen = OutputOf(file)
  BY <1>1, <1>2 DEF TerminalGoesOn, Idle
<1>4. PICK n : n = p.forward
  OBVIOUS
<1>5. n \in Nat /\ sent \in Nat /\ typed' \in Nat /\ cursor' \in 0..Len(printed) /\ MaxInput \in Nat
  BY <1>1, <1>4, OperatorAssumption DEF Prepared, OperatorInv, OperatorTables
<1>6. PICK C, D : /\ C = IF p.key = "cut" THEN <<Control("application-link-cut")>> ELSE <<>>
                  /\ D = IF p.key = "exit"
                         THEN <<Do("relay"), [do |-> "return", reason |-> "operator-exit"]>> ELSE Again
  OBVIOUS
<1>7. C \in Seq(Jobs) /\ D \in Seq(Jobs) /\ D \in AfterCut
  <2>1. Control("application-link-cut") \in Jobs
    BY RecordsAreJobs, KindsOfRecords DEF Controls
  <2>2. D \in AfterCut
    BY <1>1, <1>6, AgainShape DEF AfterCut, ToReturn
  <2>3. D \in Seq(Jobs)
    BY <2>2, RestsFollow, RestShapes
  <2>4. <<Control("application-link-cut")>> \in Seq(Jobs) /\ <<>> \in Seq(Jobs)
    BY <2>1, EmptySeq
  <2> QED BY <1>6, <2>2, <2>3, <2>4
<1>8. PICK after : after = C \o D
  OBVIOUS
<1>9. after \in AfterSend /\ after \in RestPlans /\ after \in Seq(Jobs)
  <2>1. after \in AfterSend
    <3>1. CASE p.key = "cut"
      BY <1>6, <1>7, <1>8, <3>1, RestsFollow
    <3>2. CASE p.key # "cut"
      <4>1. after = D
        BY <1>6, <1>7, <1>8, <3>2, ConcatEmptySeq
      <4> QED BY <1>7, <4>1, RestsFollow
    <3> QED BY <3>1, <3>2
  <2> QED BY <2>1, RestsFollow, RestShapes
<1>10. PICK B : B = IF OverInput(n) THEN <<[do |-> "return", reason |-> "input-limit"]>>
                    ELSE Forwarding(n) \o C \o D
  OBVIOUS
<1>11. /\ B \in Seq(Jobs) /\ B # <<>> /\ Head(B).do # "count"
       /\ B \in AfterSend \cup {<<ToReturn("input-limit")>>} \/ Forwards(B)
  <2>1. CASE OverInput(n)
    <3>1. B = <<ToReturn("input-limit")>>
      BY <1>10, <2>1 DEF ToReturn
    <3> QED BY <3>1, RestsFollow, RestShapes
  <2>2. CASE ~OverInput(n) /\ n = 0
    <3>1. B = <<>> \o C \o D
      BY <1>10, <2>2 DEF Forwarding
    <3>2. B = after
      BY <1>7, <1>8, <3>1, ConcatEmptySeq
    <3> QED BY <1>9, <3>2, RestShapes
  <2>3. CASE ~OverInput(n) /\ n # 0
    <3>1. PICK x, y \in Jobs : x = Bytes("in", n) /\ y = [do |-> "send", n |-> n]
      BY <1>5, <2>3, RecordsAreJobs, KindsOfRecords
    <3>2. /\ x.do = "write" /\ x.kind = "bytes" /\ x.dir = "in" /\ x.n = n
          /\ y.do = "send" /\ y.n = n
      BY <3>1 DEF Bytes
    <3>3. B = (<<x, y>> \o C) \o D
      BY <1>10, <2>3, <3>1 DEF Forwarding
    <3>4. B = <<x, y>> \o after
      <4>1. <<x, y>> \in Seq(Jobs)
        OBVIOUS
      <4> QED BY <1>7, <1>8, <3>3, <4>1, ConcatAssociative
    <3>5. PICK u : u = <<y>> \o after
      OBVIOUS
    <3>6. u \in Seq(Jobs) /\ u # <<>> /\ Head(u) = y /\ Tail(u) = after
      BY <1>9, <3>5, FirstThen
    <3>7. B = <<x>> \o u
      BY <1>9, <3>4, <3>5, FirstTwoThen
    <3>8. B \in Seq(Jobs) /\ B # <<>> /\ Head(B) = x /\ Tail(B) = u
      BY <3>6, <3>7, FirstThen
    <3>9. sent + n <= MaxInput
      BY <1>3, <1>5, <2>3 DEF OverInput
    <3>10. Forwards(B)
      BY <1>3, <1>9, <3>2, <3>6, <3>8, <3>9 DEF Forwards
    <3> QED BY <3>2, <3>8, <3>10
  <2> QED BY <2>1, <2>2, <2>3
<1>12. PICK s : s = (IF p.refused THEN <<Control("blocked-or-rejected")>> ELSE <<>>) \o B
  OBVIOUS
<1>13. todo' = s
  BY <1>4, <1>6, <1>10, <1>12 DEF Read
<1>14. s \in Seq(Jobs) /\ s # <<>> /\ Head(s).do # "count" /\ TerminalGoesOn(s)
  <2>1. CASE ~p.refused
    <3>1. s = B
      BY <1>11, <1>12, <2>1, ConcatEmptySeq
    <3>2. B \in AfterSend \cup {<<ToReturn("input-limit")>>} => AtRest(B)
      BY <1>2 DEF AtRest, RestPlans
    <3> QED BY <1>3, <1>11, <3>1, <3>2 DEF TerminalGoesOn
  <2>2. CASE p.refused
    <3>1. PICK c \in Jobs : c = Control("blocked-or-rejected") /\ c.do = "write"
      BY RecordsAreJobs, KindsOfRecords DEF Controls, Control
    <3>2. s = <<c>> \o B
      BY <1>12, <2>2, <3>1
    <3>3. s \in Seq(Jobs) /\ s # <<>> /\ Head(s) = c /\ Tail(s) = B
      BY <1>11, <3>2, FirstThen
    <3>4. Blocks(s)
      BY <1>2, <1>11, <3>1, <3>3 DEF Blocks
    <3> QED BY <1>3, <3>1, <3>3, <3>4 DEF TerminalGoesOn
  <2> QED BY <2>1, <2>2
<1>15. run' = run
  BY <1>1
<1> QED BY <1>1, <1>2, <1>5, <1>13, <1>14, <1>15, QuietStep

------------------------------------------------------------------------------
(* The steps of a dialogue. *)

LEMMA CutShape ==
  ASSUME OperatorTables, NEW from \in Nat, from <= Len(printed), NEW status \in {"timeout", "interrupted"}
  PROVE  /\ Cut(from, status) \in Seq(Jobs) /\ Answers(Cut(from, status))
         /\ Cut(from, status) # <<>> /\ Head(Cut(from, status)).do = "write"
<1>1. PICK n \in Nat : n = Len(printed) - from
  <2>1. Len(printed) \in Nat
    BY LenProperties DEF OperatorTables
  <2> QED BY <2>1
<1>2. PICK r : r = IF n > MaxResponse THEN Result("response-limit", MaxResponse, TRUE) ELSE Result(status, n, TRUE)
  OBVIOUS
<1>3. r \in ResultRecords /\ r.do = "write" /\ r.kind = "result" /\ r.n <= MaxResponse /\ r.dir # "complete"
  <2>1. "response-limit" \in Statuses /\ status \in Statuses
    BY DEF Statuses
  <2>2. /\ Result("response-limit", MaxResponse, TRUE) \in ResultRecords
        /\ Result(status, n, TRUE) \in ResultRecords
    BY <2>1, RecordsAreJobs, OperatorAssumption
  <2> QED BY <1>2, <2>2, OperatorAssumption DEF Result
<1>4. PICK reason \in Ends : reason = (IF status = "timeout" THEN "failed" ELSE status) /\ reason \notin CleanEnds
  BY EndReasons
<1>5. PICK x \in Jobs : x = [do |-> "raise", reason |-> reason]
  BY RecordsAreJobs
<1>6. Cut(from, status) = <<r, x>>
  BY <1>1, <1>2, <1>4, <1>5 DEF Cut
<1>7. r \in Jobs
  BY <1>3, KindsOfRecords
<1>8. PICK s : s = <<r, x>>
  OBVIOUS
<1>9. s \in Seq(Jobs) /\ s # <<>> /\ Head(s) = r /\ Tail(s) = <<x>>
  BY <1>7, <1>8
<1>10. Raises(<<x>>)
  <2>1. <<x>> # <<>> /\ Head(<<x>>) = x /\ Tail(<<x>>) = <<>>
    OBVIOUS
  <2>2. x.do = "raise" /\ x.reason = reason
    BY <1>5
  <2> QED BY <1>4, <2>1, <2>2 DEF Raises
<1>11. Answers(s)
  BY <1>3, <1>9, <1>10 DEF Answers
<1> QED BY <1>3, <1>6, <1>8, <1>9, <1>11

LEMMA RepliesNext ==
  ASSUME OperatorInv, Doing("reply")
  PROVE  /\ run.stage = "session" /\ ~Counting /\ profile = "line" /\ Awaits(todo) /\ OperatorTables
         /\ CommandsOf(file) = sent /\ sent = CompletedOf(file) + 1 /\ FailedOf(file) = 0
         /\ Head(todo).from \in Nat /\ Head(todo).from <= Len(printed)
<1>1. /\ run.stage = "session" /\ ~Counting /\ todo \in Seq(Jobs) /\ Head(todo) \in Jobs
      /\ Head(todo).do = "reply" /\ profile \in {"terminal", "line"} /\ OperatorTables
  BY DoesNext, InTheSession DEF OperatorInv
<1>2. profile = "line"
  BY <1>1, InTheSession, TerminalHeads
<1>3. Awaits(todo) /\ CommandsOf(file) = sent /\ sent = CompletedOf(file) + 1 /\ FailedOf(file) = 0
  BY <1>1, <1>2, InTheSession, DialogueHeads
<1> QED BY <1>1, <1>2, <1>3, JobKinds DEF Awaits

(* The answer to a command that is cut short.                                *)
LEMMA CutKeeps ==
  ASSUME OperatorInv, Doing("reply"), NEW status \in {"timeout", "interrupted"},
         todo' = Cut(Head(todo).from, status), run' = run \/ run' = [run EXCEPT !.interrupted = TRUE],
         UNCHANGED <<profile, alive, printed, seen, cursor, typed, file, mem, bridge, sent>>
  PROVE  OperatorInv'
<1>1. PICK s : s = Cut(Head(todo).from, status)
  OBVIOUS
<1>2. s \in Seq(Jobs) /\ Answers(s) /\ s # <<>> /\ Head(s).do # "count"
  BY <1>1, RepliesNext, CutShape
<1>3. profile = "line" /\ DialogueGoesOn(s) /\ run.stage = "session" /\ ~Counting
  BY <1>2, RepliesNext DEF DialogueGoesOn
<1>4. cursor' \in 0..Len(printed) /\ typed' \in Nat
  BY DEF OperatorInv, OperatorTables
<1> QED BY <1>1, <1>2, <1>3, <1>4, QuietStep

LEMMA NoResponseKeeps == ASSUME OperatorInv, NoResponse PROVE OperatorInv'
<1>1. Doing("reply") /\ UNCHANGED <<profile, alive, printed, seen, cursor, typed, file, mem, bridge, sent>>
  BY DEF NoResponse
<1>2. CASE alive
  BY <1>1, <1>2, CutKeeps DEF NoResponse
<1>3. CASE ~alive
  <2>1. Raise("failed")
    BY <1>3 DEF NoResponse
  <2>2. "failed" \in Ends /\ "failed" \notin CleanEnds
    BY EndReasons
  <2> QED BY <1>1, <2>1, <2>2, RepliesNext, QuietEnd
<1> QED BY <1>2, <1>3

LEMMA AskKeeps == ASSUME OperatorInv, Ask PROVE OperatorInv'
<1>1. /\ run.stage = "session" /\ profile = "line" /\ Doing("ask")
      /\ UNCHANGED <<profile, alive, printed, seen, cursor, typed, file, mem, bridge, sent>>
  BY DEF Ask
<1>2. /\ ~Counting /\ Idle /\ FailedOf(file) = 0 /\ InStep(mem, file) /\ OperatorTables
  BY <1>1, AsksIdle, InTheSession DEF OperatorInv
<1>3. CASE Return("max-commands") \/ \E reason \in {"operator-quit", "input-eof"} : Return(reason)
  <2>1. {"max-commands", "operator-quit", "input-eof"} \subseteq Ends
    BY DEF Ends, CleanEnds
  <2>2. PICK reason \in {"max-commands", "operator-quit", "input-eof"} : Return(reason)
    BY <1>3
  <2> QED BY <1>1, <1>2, <2>1, <2>2, QuietEnd
<1>4. CASE /\ ~(mem.completed >= MaxCommands)
           /\ todo' = <<Command, [do |-> "send", n |-> 1], [do |-> "reply", from |-> Len(printed)]>>
           /\ UNCHANGED run
  <2>1. Len(printed) \in Nat
    BY <1>2, LenProperties DEF OperatorTables
  <2>2. PICK c \in Jobs : c = Command
    BY RecordsAreJobs, KindsOfRecords
  <2>3. PICK x \in Jobs : x = [do |-> "send", n |-> 1]
    <3>1. 1 \in Nat \ {0}
      OBVIOUS
    <3> QED BY <3>1, RecordsAreJobs
  <2>4. PICK y \in Jobs : y = [do |-> "reply", from |-> Len(printed)]
    BY <2>1, RecordsAreJobs
  <2>5. /\ c \in Jobs /\ x \in Jobs /\ y \in Jobs
        /\ c = Command /\ x = [do |-> "send", n |-> 1] /\ y = [do |-> "reply", from |-> Len(printed)]
    BY <2>2, <2>3, <2>4
  <2>6. PICK s : s = <<c, x, y>>
    OBVIOUS
  <2>7. /\ s \in Seq(Jobs) /\ s # <<>> /\ Head(s) = c /\ Tail(s) = <<x, y>>
        /\ <<x, y>> # <<>> /\ Head(<<x, y>>) = x /\ Tail(<<x, y>>) = <<y>>
        /\ <<y>> # <<>> /\ Head(<<y>>) = y /\ Tail(<<y>>) = <<>>
    BY <2>6
  <2>8. c.do = "write" /\ y.do = "reply" /\ y.from = Len(printed)
    BY <2>5 DEF Command
  <2>9. Awaits(<<y>>)
    BY <2>1, <2>7, <2>8 DEF Awaits
  <2>10. Orders(<<x, y>>)
    BY <2>5, <2>7, <2>9 DEF Orders
  <2>11. Commands(s)
    BY <2>5, <2>7, <2>10 DEF Commands
  <2>12. CommandsOf(file) < MaxCommands
    <3>1. sent = CommandsOf(file) /\ sent = CompletedOf(file) /\ mem.completed = CompletedOf(file)
      BY <1>1, <1>2 DEF Idle, InStep
    <3>2. mem.completed \in Nat
      BY <1>2 DEF OperatorTables, Recorders
    <3> QED BY <1>4, <3>1, <3>2, OperatorAssumption
  <2>13. DialogueGoesOn(s)
    BY <1>2, <2>11, <2>12 DEF DialogueGoesOn
  <2>14. todo' = s /\ run' = run /\ Head(s).do # "count" /\ profile # "terminal"
    BY <1>1, <1>4, <2>5, <2>6, <2>7, <2>8
  <2>15. cursor' \in 0..Len(printed) /\ typed' \in Nat
    BY <1>1, <1>2 DEF OperatorTables
  <2> QED BY <1>1, <1>2, <2>7, <2>13, <2>14, <2>15, QuietStep
<1> QED BY <1>3, <1>4 DEF Ask

LEMMA RespondKeeps == ASSUME OperatorInv, Respond PROVE OperatorInv'
<1>1. /\ Doing("reply") /\ Matches # {}
      /\ UNCHANGED <<profile, alive, printed, seen, typed, file, mem, bridge, sent, run>>
  BY DEF Respond
<1>2. /\ run.stage = "session" /\ ~Counting /\ profile = "line" /\ OperatorTables
      /\ CommandsOf(file) = sent /\ sent = CompletedOf(file) + 1 /\ FailedOf(file) = 0
  BY <1>1, RepliesNext
<1>3. PICK from \in Nat : from = Head(todo).from /\ from <= Len(printed)
  BY <1>1, RepliesNext
<1>4. Len(printed) \in Nat /\ cursor \in 0..Len(printed)
  BY <1>2, LenProperties DEF OperatorTables
<1>5. PICK end : end = CHOOSE i \in Matches : \A j \in Matches : i <= j
  OBVIOUS
<1>6. end \in 1..Len(printed)
  <2>1. Matches \in SUBSET Nat /\ Matches \subseteq 1..Len(printed)
    BY <1>4 DEF Matches
  <2>2. \E i \in Matches : \A j \in Matches : i <= j
    BY <1>1, <2>1, LeastNumber
  <2> QED BY <1>5, <2>1, <2>2
<1>7. PICK n : n = Framed(from, end)
  OBVIOUS
<1>8. n \in Nat
  BY <1>3, <1>4, <1>6, <1>7 DEF Framed
<1>9. PICK x \in Jobs : x = [do |-> "raise", reason |-> "failed"]
  BY RecordsAreJobs, EndReasons
<1>10. PICK fails : fails = <<x>>
  OBVIOUS
<1>11. fails \in Seq(Jobs) /\ Raises(fails)
  <2>1. fails \in Seq(Jobs) /\ fails # <<>> /\ Head(fails) = x /\ Tail(fails) = <<>>
    BY <1>10
  <2>2. x.do = "raise" /\ x.reason = "failed"
    BY <1>9
  <2> QED BY <2>1, <2>2, EndReasons DEF Raises
<1>12. /\ cursor' = end
       /\ todo' = IF n > MaxResponse THEN <<Result("response-limit", MaxResponse, TRUE)>> \o fails
                  ELSE IF printed[end] = "closed" THEN <<Result("session-closed", n, TRUE)>> \o fails
                  ELSE <<Result("complete", n, end > from)>> \o Again
  BY <1>3, <1>5, <1>7, <1>9, <1>10 DEF Respond
<1>13. PICK r \in ResultRecords, t \in Seq(Jobs) :
          /\ todo' = <<r>> \o t /\ r.n <= MaxResponse /\ r.do = "write" /\ r.kind = "result"
          /\ IF r.dir = "complete" THEN t = <<Do("ask")>> ELSE Raises(t)
  <2>1. {"response-limit", "session-closed", "complete"} \subseteq Statuses
    BY DEF Statuses
  <2>2. Again \in Seq(Jobs) /\ Again = <<Do("ask")>>
    BY <1>2, AgainShape
  <2>3. PICK framed \in BOOLEAN : framed = (end > from)
    <3>1. (end > from) \in BOOLEAN
      BY <1>3, <1>6
    <3> QED BY <3>1
  <2>4. PICK r1, r2, r3 \in ResultRecords :
          /\ r1 = Result("response-limit", MaxResponse, TRUE) /\ r2 = Result("session-closed", n, TRUE)
          /\ r3 = Result("complete", n, framed)
    BY <1>8, <2>1, RecordsAreJobs, OperatorAssumption
  <2>5. /\ r1.do = "write" /\ r1.kind = "result" /\ r1.dir # "complete" /\ r1.n = MaxResponse
        /\ r2.do = "write" /\ r2.kind = "result" /\ r2.dir # "complete" /\ r2.n = n
        /\ r3.do = "write" /\ r3.kind = "result" /\ r3.dir = "complete" /\ r3.n = n
    BY <2>4 DEF Result
  <2>6. CASE n > MaxResponse
    <3>1. todo' = <<r1>> \o fails
      BY <1>12, <2>4, <2>6
    <3>2. r1.n <= MaxResponse
      BY <2>5, OperatorAssumption
    <3> QED BY <1>11, <2>4, <2>5, <3>1, <3>2
  <2>7. CASE ~(n > MaxResponse) /\ printed[end] = "closed"
    <3>1. todo' = <<r2>> \o fails
      BY <1>12, <2>4, <2>7
    <3>2. r2.n <= MaxResponse
      BY <1>8, <2>5, <2>7, OperatorAssumption
    <3> QED BY <1>11, <2>4, <2>5, <3>1, <3>2
  <2>8. CASE ~(n > MaxResponse) /\ printed[end] # "closed"
    <3>1. todo' = <<r3>> \o Again
      BY <1>12, <2>3, <2>4, <2>8
    <3>2. r3.n <= MaxResponse
      BY <1>8, <2>5, <2>8, OperatorAssumption
    <3> QED BY <2>2, <2>4, <2>5, <3>1, <3>2
  <2> QED BY <2>6, <2>7, <2>8
<1>14. PICK s : s = <<r>> \o t
  OBVIOUS
<1>15. s \in Seq(Jobs) /\ s # <<>> /\ Head(s) = r /\ Tail(s) = t
  BY <1>13, <1>14, KindsOfRecords, FirstThen
<1>16. DialogueGoesOn(s)
  BY <1>2, <1>13, <1>15 DEF DialogueGoesOn, Answers
<1>17. cursor' \in 0..Len(printed) /\ typed' \in Nat
  BY <1>1, <1>2, <1>4, <1>6, <1>12 DEF OperatorTables
<1>18. todo' = s /\ Head(s).do # "count" /\ run' = run /\ profile # "terminal"
  BY <1>1, <1>2, <1>13, <1>14, <1>15
<1> QED BY <1>1, <1>2, <1>15, <1>16, <1>17, <1>18, QuietStep

------------------------------------------------------------------------------
(* How a session ends. *)

LEMMA LastTryShape ==
  ASSUME NEW reason \in Ends
  PROVE  /\ LastTry(reason) \in Seq(Jobs) /\ LastTry(reason) # <<>>
         /\ run.transcript => LastTry(reason) = <<Do("stop")>>
         /\ Head(LastTry(reason)).do \in {"stop", "write"}
         /\ \/ LastTry(reason) = <<Do("stop")>>
            \/ /\ Head(LastTry(reason)) \in EndRecords /\ Head(LastTry(reason)).dir = reason
               /\ Tail(LastTry(reason)) = <<Do("stop")>>
<1>1. PICK r \in Jobs : r = EndRecord(reason) /\ r \in EndRecords /\ r.dir = reason /\ r.do = "write"
  BY RecordsAreJobs, KindsOfRecords DEF EndRecord
<1>2. PICK x \in Jobs : x = Do("stop") /\ x.do = "stop"
  BY RecordsAreJobs
<1>3. /\ <<r, x>> \in Seq(Jobs) /\ <<r, x>> # <<>> /\ Head(<<r, x>>) = r /\ Tail(<<r, x>>) = <<x>>
      /\ <<x>> \in Seq(Jobs) /\ <<x>> # <<>> /\ Head(<<x>>) = x
  OBVIOUS
<1>4. CASE run.transcript
  <2>1. LastTry(reason) = <<x>>
    BY <1>2, <1>4 DEF LastTry
  <2> QED BY <1>2, <1>3, <2>1
<1>5. CASE ~run.transcript
  <2>1. LastTry(reason) = <<r, x>>
    BY <1>1, <1>2, <1>5 DEF LastTry
  <2> QED BY <1>1, <1>2, <1>3, <1>5, <2>1
<1> QED BY <1>4, <1>5

(* An exception outside the session goes to the next of the last clauses.    *)
LEMMA Thrown ==
  ASSUME OperatorInv, Running, run.stage # "session", NEW reason \in Ends, reason \notin CleanEnds,
         NEW b \in BOOLEAN, Throw(reason, b)
  PROVE  /\ StageGoesOn' /\ ~Counting' /\ todo' \in Seq(Jobs) /\ run' \in Runs
         /\ run'.outcome = run.outcome /\ run'.reason = "raised" /\ run'.interrupted = b
         /\ run'.stage \in {"closing", "finally"}
<1>1. run \in Runs /\ run.stage \in {"opening", "ending", "closing", "checking", "finally"}
  BY DEF OperatorInv, OperatorTables, Running, Runs, Stages
<1>2. PICK h : h = Handler(reason)
  OBVIOUS
<1>3. /\ run' = [run EXCEPT !.stage = h.stage, !.reason = "raised", !.interrupted = b]
      /\ todo' = h.todo
  BY <1>2 DEF Throw
<1>4. "raised" \notin CleanEnds /\ "raised" # "killed"
  BY EndReasons
<1>5. run.outcome = "passed" => run.stage = "finally"
  BY RunningFile
<1>6. CASE run.stage = "ending"
  <2>1. h = [stage |-> "closing", todo |-> <<Do("close")>>]
    BY <1>2, <1>6 DEF Handler
  <2>2. /\ run' \in Runs /\ run'.stage = "closing" /\ run'.outcome = run.outcome
        /\ run'.reason = "raised" /\ run'.interrupted = b
    BY <1>1, <1>3, <2>1 DEF Runs, Stages
  <2>3. /\ todo' = <<Do("close")>> /\ todo' \in Seq(Jobs) /\ Head(todo').do = "close"
    BY <1>3, <2>1, SingleJobs
  <2>4. ~Counting'
    BY <2>3 DEF Counting
  <2>5. StageGoesOn'
    BY <1>4, <1>5, <1>6, <2>2, <2>3, <2>4 DEF StageGoesOn, IsClosing
  <2> QED BY <2>2, <2>3, <2>4, <2>5
<1>7. CASE run.stage = "finally"
  <2>1. h = [stage |-> "finally", todo |-> <<Do("stop")>>]
    BY <1>2, <1>7 DEF Handler
  <2>2. /\ run' \in Runs /\ run'.stage = "finally" /\ run'.outcome = run.outcome
        /\ run'.reason = "raised" /\ run'.interrupted = b
    BY <1>1, <1>3, <2>1 DEF Runs, Stages
  <2>3. /\ todo' = <<Do("stop")>> /\ todo' \in Seq(Jobs) /\ Head(todo').do = "stop"
    BY <1>3, <2>1, SingleJobs
  <2>4. ~Counting' /\ Waiting' = <<Do("stop")>>
    BY <2>3 DEF Counting, Waiting
  <2>5. StageGoesOn'
    BY <1>4, <2>2, <2>4 DEF StageGoesOn, IsLeaving
  <2> QED BY <2>2, <2>3, <2>4, <2>5
<1>8. CASE run.stage \in {"opening", "closing", "checking"}
  <2>1. h = [stage |-> "finally", todo |-> LastTry(reason)]
    BY <1>2, <1>8 DEF Handler
  <2>2. /\ run' \in Runs /\ run'.stage = "finally" /\ run'.outcome = run.outcome
        /\ run'.reason = "raised" /\ run'.interrupted = b
    BY <1>1, <1>3, <2>1 DEF Runs, Stages
  <2>3. todo' = LastTry(reason) /\ todo' \in Seq(Jobs) /\ todo' # <<>> /\ Head(todo').do \in {"stop", "write"}
    BY <1>3, <2>1, LastTryShape
  <2>4. ~Counting' /\ Waiting' = todo'
    BY <2>3 DEF Counting, Waiting
  <2>5. run'.outcome # "passed"
    BY <1>5, <1>8, <2>2
  <2>6. IsLeaving'
    BY <2>3, <2>4, <2>5, LastTryShape DEF IsLeaving
  <2>7. StageGoesOn'
    BY <1>4, <2>2, <2>5, <2>6 DEF StageGoesOn
  <2> QED BY <2>2, <2>3, <2>4, <2>7
<1> QED BY <1>1, <1>6, <1>7, <1>8

(* From a signal on, and at the end, the recorder need not be in step.       *)
LEMMA Abandons ==
  ASSUME OperatorInv, Running, UNCHANGED <<profile, file, sent, seen>>, ~Undisturbed',
         OperatorTables', StageGoesOn', run'.outcome = run.outcome \/ run'.outcome # "passed",
         run'.reason # "killed"
  PROVE  OperatorInv'
<1>1. LinesWhole'
  BY DEF OperatorInv, LinesWhole
<1>2. RecorderInStep'
  BY DEF RecorderInStep
<1>3. NothingUnrecorded' /\ CleanEndsAreTrue'
  BY DEF OperatorInv, NothingUnrecorded, CleanEndsAreTrue
<1>4. PassedIsReadable'
  <2>1. CASE run'.outcome = run.outcome
    BY <2>1 DEF OperatorInv, PassedIsReadable, Ended, TranscriptAccepted
  <2>2. CASE run'.outcome # "passed"
    BY <2>2 DEF PassedIsReadable
  <2> QED BY <2>1, <2>2
<1>5. KilledIsReadable'
  BY DEF KilledIsReadable
<1> QED BY <1>1, <1>2, <1>3, <1>4, <1>5 DEF OperatorInv

LEMMA StopKeeps == ASSUME OperatorInv, Stop PROVE OperatorInv'
<1>1. /\ Running /\ Head(todo).do = "stop" /\ run.stage = "finally" /\ run \in Runs /\ mem \in Recorders
      /\ UNCHANGED <<profile, alive, printed, seen, cursor, typed, todo, file, bridge, sent>>
  BY DoesNext DEF Stop, OperatorInv, OperatorTables
<1>2. PICK outcome \in {"passed", "failed"} :
         /\ run' = [run EXCEPT !.stage = "over", !.outcome = outcome]
         /\ outcome = "passed" => run.outcome = "passed"
  BY DEF Stop
<1>3. run' \in Runs /\ run'.stage = "over" /\ run'.outcome = outcome /\ run'.reason = run.reason
  BY <1>1, <1>2 DEF Runs, Stages
<1>4. mem' \in Recorders
  BY <1>1 DEF Stop, Recorders
<1>5. ~Counting'
  BY <1>1 DEF Counting
<1>6. run.reason # "killed"
  BY <1>1, RunningFile
<1>7. StageGoesOn'
  BY <1>3, <1>5, <1>6 DEF StageGoesOn
<1>8. OperatorTables'
  BY <1>1, <1>3, <1>4 DEF OperatorInv, OperatorTables
<1>9. ~Undisturbed'
  BY <1>3 DEF Undisturbed, Running
<1> QED BY <1>1, <1>2, <1>3, <1>6, <1>7, <1>8, <1>9, Abandons

LEMMA NotedKeeps == ASSUME OperatorInv, Noted PROVE OperatorInv'
<1>1. /\ Running /\ ~Counting /\ Head(todo).do = "noted" /\ run.stage = "ending" /\ run \in Runs
      /\ todo # <<>>
      /\ UNCHANGED <<profile, alive, printed, seen, cursor, typed, file, mem, bridge, sent>>
  BY DoesNext DEF Noted, OperatorInv, OperatorTables
<1>2. run' = [run EXCEPT !.transcript = TRUE, !.stage = "closing"] /\ todo' = <<Do("close")>>
  BY DEF Noted
<1>3. /\ run' \in Runs /\ run'.stage = "closing" /\ run'.transcript /\ run'.reason = run.reason
      /\ run'.outcome = run.outcome /\ run'.interrupted = run.interrupted
  BY <1>1, <1>2 DEF Runs, Stages
<1>4. todo' \in Seq(Jobs) /\ Head(todo').do = "close"
  BY <1>2, SingleJobs
<1>5. run.outcome # "passed" /\ run.reason # "killed"
  BY <1>1, RunningFile
<1>6. run.reason \in CleanEnds => EndedBy(run.reason)
  <2>1. Head(todo) \notin EndRecords
    BY <1>1 DEF EndRecords
  <2> QED BY <1>1, <2>1 DEF OperatorInv, StageGoesOn, IsEnding
<1>7. ~Counting'
  BY <1>4 DEF Counting
<1>8. StageGoesOn'
  BY <1>1, <1>2, <1>3, <1>5, <1>6, <1>7 DEF StageGoesOn, IsClosing, EndedBy
<1>9. OperatorTables'
  BY <1>1, <1>3, <1>4 DEF OperatorInv, OperatorTables
<1>10. Undisturbed' => Undisturbed
  BY <1>1, <1>3 DEF Undisturbed, Running
<1> QED BY <1>1, <1>3, <1>5, <1>7, <1>8, <1>9, <1>10, AllStays

LEMMA CloseKeeps == ASSUME OperatorInv, Close PROVE OperatorInv'
<1>1. /\ Running /\ ~Counting /\ Head(todo).do = "close" /\ run.stage = "closing" /\ run \in Runs
      /\ mem \in Recorders
      /\ UNCHANGED <<profile, alive, printed, seen, cursor, typed, file, bridge, sent>>
      /\ mem' = [mem EXCEPT !.closed = TRUE]
  BY DoesNext DEF Close, OperatorInv, OperatorTables
<1>2. mem' \in Recorders
  BY <1>1 DEF Recorders
<1>3. run.outcome # "passed" /\ run.reason # "killed"
  BY <1>1, RunningFile
<1>4. CASE run.reason \in CleanEnds
  <2>1. run' = [run EXCEPT !.stage = "checking", !.reason = run.reason] /\ todo' = <<Do("check")>>
    BY <1>4 DEF Close, Go
  <2>2. /\ run' \in Runs /\ run'.stage = "checking" /\ run'.transcript = run.transcript
        /\ run'.reason = run.reason /\ run'.outcome = run.outcome /\ run'.interrupted = run.interrupted
    BY <1>1, <2>1 DEF Runs, Stages
  <2>3. todo' \in Seq(Jobs) /\ Head(todo').do = "check"
    BY <2>1, SingleJobs
  <2>4. ~Counting'
    BY <2>3 DEF Counting
  <2>5. run.transcript /\ EndedBy(run.reason)
    BY <1>1, <1>4 DEF OperatorInv, StageGoesOn, IsClosing
  <2>6. StageGoesOn'
    BY <1>1, <1>3, <1>4, <2>1, <2>2, <2>4, <2>5 DEF StageGoesOn, IsChecking, EndedBy
  <2>7. OperatorTables'
    BY <1>1, <1>2, <2>2, <2>3 DEF OperatorInv, OperatorTables
  <2>8. Undisturbed' => Undisturbed
    BY <1>1, <2>2 DEF Undisturbed, Running
  <2> QED BY <1>1, <1>3, <2>2, <2>4, <2>6, <2>7, <2>8, AllStays
<1>5. CASE run.reason \notin CleanEnds
  <2>1. run' = [run EXCEPT !.stage = "finally", !.reason = "raised"] /\ todo' = LastTry("failed")
    BY <1>5 DEF Close, Go
  <2>2. /\ run' \in Runs /\ run'.stage = "finally" /\ run'.reason = "raised"
        /\ run'.outcome = run.outcome /\ run'.interrupted = run.interrupted
    BY <1>1, <2>1 DEF Runs, Stages
  <2>3. "failed" \in Ends /\ "failed" \notin CleanEnds /\ "raised" # "killed"
    BY EndReasons
  <2>4. todo' \in Seq(Jobs) /\ todo' # <<>> /\ Head(todo').do \in {"stop", "write"}
    BY <2>1, <2>3, LastTryShape
  <2>5. ~Counting' /\ Waiting' = todo'
    BY <2>4 DEF Counting, Waiting
  <2>6. IsLeaving'
    BY <1>3, <2>1, <2>2, <2>3, <2>4, <2>5, LastTryShape DEF IsLeaving
  <2>7. StageGoesOn'
    BY <1>3, <2>2, <2>3, <2>6 DEF StageGoesOn
  <2>8. OperatorTables'
    BY <1>1, <1>2, <2>2, <2>4 DEF OperatorInv, OperatorTables
  <2>9. Undisturbed' => Undisturbed
    BY <1>1, <2>2 DEF Undisturbed, Running
  <2> QED BY <1>1, <1>3, <2>2, <2>3, <2>5, <2>7, <2>8, <2>9, AllStays
<1> QED BY <1>4, <1>5

(* The reader accepts the file, and its end is the end of the session.       *)
LEMMA ReadBackIsReadable ==
  ASSUME OperatorInv, Running, ReadBack, EndedBy(run.reason), run.reason \in CleanEnds
  PROVE  /\ Ended /\ Last(file).dir \in CleanEnds
         /\ profile = "line" => Last(file).totals[6] > 0
<1>1. file \in Seq(Lines) /\ Whole(file) = file
  BY RunningFile
<1>2. Last(file) = file[Len(file)] /\ file # <<>> /\ Len(file) \in DOMAIN file
  BY <1>1, EmptySeq, FileOfLines DEF Last, EndedBy
<1>3. Ended
  BY DEF ReadBack
<1>4. Last(file).dir \in CleanEnds /\ file[Len(file)].kind = "end"
  BY <1>2 DEF EndedBy
<1>5. ASSUME profile = "line" PROVE Last(file).totals[6] > 0
  <2>1. EndFits(file)
    BY <1>1, <1>3, <1>5 DEF Ended, TranscriptAccepted, ReadDialogue
  <2>2. file[Len(file)].totals = Totals(file)
    BY <1>2, <1>4, <2>1 DEF EndFits
  <2>3. Totals(file)[6] >= 1 /\ Totals(file)[6] \in Nat
    BY <1>1, <1>5, TotalsOf, CountsAreNumbers DEF ReadBack, CompletedOf
  <2>4. PICK n \in Nat : n = Totals(file)[6] /\ n >= 1
    BY <2>3
  <2> QED BY <1>2, <2>2, <2>4
<1> QED BY <1>3, <1>4, <1>5

LEMMA CheckKeeps == ASSUME OperatorInv, Check PROVE OperatorInv'
<1>1. /\ Running /\ ~Counting /\ Head(todo).do = "check" /\ run.stage = "checking" /\ run \in Runs
      /\ UNCHANGED <<profile, alive, printed, seen, cursor, typed, file, mem, bridge, sent>>
  BY DoesNext DEF Check, OperatorInv, OperatorTables
<1>2. run.outcome # "passed" /\ run.reason # "killed"
  BY <1>1, RunningFile
<1>3. "failed" \in Ends /\ "failed" \notin CleanEnds /\ "raised" # "killed"
  BY EndReasons
<1>4. CASE /\ ReadBack
           /\ run' = [run EXCEPT !.stage = "finally", !.outcome = "passed"]
           /\ todo' = LastTry("failed")
  <2>1. /\ run' \in Runs /\ run'.stage = "finally" /\ run'.reason = run.reason
        /\ run'.outcome = "passed" /\ run'.interrupted = run.interrupted
    BY <1>1, <1>4 DEF Runs, Stages
  <2>2. run.transcript /\ EndedBy(run.reason) /\ run.reason \in CleanEnds
    BY <1>1 DEF OperatorInv, StageGoesOn, IsChecking
  <2>3. todo' = <<Do("stop")>> /\ todo' \in Seq(Jobs) /\ Head(todo').do = "stop"
    BY <1>3, <1>4, <2>2, LastTryShape, SingleJobs
  <2>4. ~Counting' /\ Waiting' = <<Do("stop")>>
    BY <2>3 DEF Counting, Waiting
  <2>5. StageGoesOn'
    BY <1>2, <2>1, <2>4 DEF StageGoesOn, IsLeaving
  <2>6. /\ Ended /\ Last(file).dir \in CleanEnds
        /\ profile = "line" => Last(file).totals[6] > 0
    BY <1>1, <1>4, <2>2, ReadBackIsReadable
  <2>7. PassedIsReadable'
    BY <1>1, <2>6 DEF PassedIsReadable, Ended, TranscriptAccepted
  <2>8. NothingUnrecorded' /\ CleanEndsAreTrue'
    BY <1>1 DEF OperatorInv, NothingUnrecorded, CleanEndsAreTrue
  <2>9. OperatorTables'
    BY <1>1, <2>1, <2>3 DEF OperatorInv, OperatorTables
  <2>10. Undisturbed' => Undisturbed
    BY <1>1, <2>1 DEF Undisturbed, Running
  <2> QED BY <1>1, <1>2, <2>1, <2>4, <2>5, <2>7, <2>8, <2>9, <2>10, FileStays
<1>5. CASE Raise("failed")
  <2>1. run.interrupted \in BOOLEAN
    BY <1>1 DEF Runs
  <2>2. PICK b \in BOOLEAN : b = run.interrupted /\ Throw("failed", b)
    BY <1>5, <2>1 DEF Raise
  <2>3. /\ StageGoesOn' /\ ~Counting' /\ todo' \in Seq(Jobs) /\ run' \in Runs
        /\ run'.outcome = run.outcome /\ run'.reason = "raised" /\ run'.interrupted = run.interrupted
        /\ run'.stage \in {"closing", "finally"}
    BY <1>1, <1>3, <2>2, Thrown
  <2>4. OperatorTables'
    BY <1>1, <2>3 DEF OperatorInv, OperatorTables
  <2>5. Undisturbed' => Undisturbed
    BY <1>1, <2>3 DEF Undisturbed, Running
  <2> QED BY <1>1, <1>2, <1>3, <2>3, <2>4, <2>5, AllStays
<1> QED BY <1>4, <1>5 DEF Check

LEMMA SignalKeeps == ASSUME OperatorInv, Signal PROVE OperatorInv'
<1>1. /\ Running /\ run \in Runs
      /\ UNCHANGED <<profile, alive, printed, seen, cursor, typed, file, mem, bridge, sent>>
  BY DEF Signal, Running, OperatorInv, OperatorTables
<1>2. CASE Doing("reply")
  BY <1>1, <1>2, CutKeeps DEF Signal
<1>3. CASE ~Doing("reply")
  <2>1. Throw("interrupted", TRUE)
    BY <1>3 DEF Signal
  <2>2. "interrupted" \in Ends /\ "interrupted" \notin CleanEnds /\ "raised" # "killed"
    BY EndReasons
  <2>3. PICK h : h = Handler("interrupted")
    OBVIOUS
  <2>4. run' = [run EXCEPT !.stage = h.stage, !.reason = "raised", !.interrupted = TRUE]
    BY <2>1, <2>3 DEF Throw
  <2>5. run'.interrupted /\ run'.outcome = run.outcome /\ run'.reason = "raised"
    BY <1>1, <2>4 DEF Runs
  <2>6. StageGoesOn' /\ todo' \in Seq(Jobs) /\ run' \in Runs /\ run'.stage \in {"ending", "closing", "finally"}
    <3>1. CASE run.stage = "session"
      <4>1. ~mem'.closed
        BY <1>1, <3>1, InTheSession
      <4>2. \E b \in BOOLEAN : Throw("interrupted", b) /\ "interrupted" \notin CleanEnds
        BY <2>1, <2>2
      <4> QED BY <2>2, <3>1, <4>1, <4>2, LeavesSession
    <3>2. CASE run.stage # "session"
      BY <1>1, <2>1, <2>2, <3>2, Thrown
    <3> QED BY <3>1, <3>2
  <2>7. OperatorTables'
    BY <1>1, <2>6 DEF OperatorInv, OperatorTables
  <2>8. ~Undisturbed'
    BY <2>5, <2>6 DEF Undisturbed
  <2> QED BY <1>1, <2>2, <2>5, <2>6, <2>7, <2>8, Abandons
<1> QED BY <1>2, <1>3

(* The session begins, or the terminal is no TTY.                            *)
LEMMA OpenKeeps == ASSUME OperatorInv, Open PROVE OperatorInv'
<1>1. /\ Running /\ Undisturbed /\ run.stage = "opening" /\ run \in Runs /\ IsOpening
      /\ profile \in {"terminal", "line"}
      /\ UNCHANGED <<profile, alive, printed, seen, cursor, typed, file, mem, bridge, sent>>
  BY DEF Open, Running, Undisturbed, OperatorInv, OperatorTables, StageGoesOn
<1>2. run.outcome # "passed" /\ run.reason # "killed"
  BY <1>1, RunningFile
<1>3. PICK again \in Seq(Jobs) :
         /\ again = Again /\ again # <<>> /\ Head(again).do \in {"relay", "ask"}
         /\ profile = "terminal" => again \in Polls
         /\ profile = "line" => again = <<Do("ask")>>
  BY <1>1, AgainShape
<1>4. ~Counting
  BY <1>1, <1>3 DEF Counting, IsOpening
<1>5. CASE Go("session", "none", Again)
  <2>1. run' = [run EXCEPT !.stage = "session", !.reason = "none"] /\ todo' = again
    BY <1>3, <1>5 DEF Go
  <2>2. /\ run' \in Runs /\ run'.stage = "session" /\ run'.reason = "none" /\ run'.outcome = run.outcome
    BY <1>1, <2>1 DEF Runs, Stages
  <2>3. file = <<>> /\ sent = 0 /\ seen = 0 /\ bridge = [input |-> 0, output |-> 0] /\ ~mem.closed
    BY <1>1 DEF IsOpening
  <2>4. InputOf(file) = 0 /\ OutputOf(file) = 0 /\ \A k, d : RecordsOf(file, k, d) = 0
    BY <2>3, EmptyFile
  <2>5. FailedOf(file) = 0 /\ CommandsOf(file) = 0 /\ CompletedOf(file) = 0
    BY <2>4 DEF FailedOf, CommandsOf, CompletedOf
  <2>6. Idle
    BY <2>3, <2>4, <2>5 DEF Idle
  <2>7. IF profile = "terminal" THEN TerminalGoesOn(again) ELSE DialogueGoesOn(again)
    BY <1>1, <1>3, <2>3, <2>5, <2>6, RestsFollow DEF TerminalGoesOn, DialogueGoesOn, AtRest
  <2>8. IF profile = "terminal" THEN TerminalGoesOn(again)' ELSE DialogueGoesOn(again)'
    <3>1. TerminalGoesOn(again) => TerminalGoesOn(again)'
      BY <1>1 DEF TerminalGoesOn, AtRest, Displays, Relays, Sends, Forwards, Blocks, Idle
    <3>2. DialogueGoesOn(again) => DialogueGoesOn(again)'
      BY <1>1 DEF DialogueGoesOn, Commands, Orders, Awaits, Answers, Raises, Idle
    <3> QED BY <1>1, <2>7, <3>1, <3>2
  <2>9. ~Counting' /\ Waiting' = again
    BY <1>3, <2>1 DEF Counting, Waiting
  <2>10. \A i \in 1..Len(file) : file[i].kind # "end"
    BY <2>3, EmptySeq
  <2>11. ~mem.done
    <3>1. InStep(mem, file)
      BY <1>1, <1>4 DEF OperatorInv, RecorderInStep
    <3> QED BY <2>3, <3>1 DEF InStep
  <2>12. InSession'
    BY <1>1, <2>2, <2>3, <2>8, <2>9, <2>10, <2>11 DEF InSession
  <2>13. StageGoesOn'
    BY <1>2, <2>2, <2>12, EndReasons DEF StageGoesOn
  <2>14. OperatorTables'
    BY <1>1, <2>1, <2>2 DEF OperatorInv, OperatorTables
  <2> QED BY <1>1, <1>2, <1>4, <2>2, <2>9, <2>13, <2>14, AllStays
<1>6. CASE Raise("failed")
  <2>1. run.interrupted \in BOOLEAN
    BY <1>1 DEF Runs
  <2>2. PICK b \in BOOLEAN : b = run.interrupted /\ Throw("failed", b)
    BY <1>6, <2>1 DEF Raise
  <2>3. "failed" \in Ends /\ "failed" \notin CleanEnds /\ "raised" # "killed"
    BY EndReasons
  <2>4. /\ StageGoesOn' /\ ~Counting' /\ todo' \in Seq(Jobs) /\ run' \in Runs
        /\ run'.outcome = run.outcome /\ run'.reason = "raised"
    BY <1>1, <2>2, <2>3, Thrown
  <2>5. OperatorTables'
    BY <1>1, <2>4 DEF OperatorInv, OperatorTables
  <2> QED BY <1>1, <1>2, <1>4, <2>3, <2>4, <2>5, AllStays
<1> QED BY <1>5, <1>6 DEF Open

------------------------------------------------------------------------------
(* The guest prints or dies; the controller is killed. *)

LEMMA GuestKeeps ==
  ASSUME OperatorInv, Looks, alive' \in BOOLEAN, printed' \in Seq({"text", "prompt", "closed"}),
         Len(printed') >= Len(printed),
         UNCHANGED <<profile, seen, cursor, typed, todo, file, mem, bridge, sent, run>>
  PROVE  OperatorInv'
<1>1. run.stage = "session" /\ ~Counting
  BY DEF Looks, Counting
<1>2. todo \in Seq(Jobs) /\ profile \in {"terminal", "line"} /\ OperatorTables /\ Running
  BY <1>1, InTheSession DEF OperatorInv
<1>3. todo # <<>> /\ Head(todo).do # "count"
  BY <1>1, <1>2, InTheSession, TerminalHeads, DialogueHeads
<1>4. PICK m, n \in Nat : m = Len(printed) /\ n = Len(printed')
  BY <1>2, LenProperties DEF OperatorTables
<1>5. m <= n
  BY <1>4
<1>6. PICK s \in Seq(Jobs) : s = todo
  BY <1>2
<1>7. ASSUME profile = "terminal" PROVE TerminalGoesOn(s)'
  <2>1. TerminalGoesOn(s)
    BY <1>1, <1>6, <1>7, InTheSession
  <2>2. bridge'.input = sent' /\ bridge'.output = seen' /\ FailedOf(file)' = 0 /\ seen' = seen
    BY <2>1 DEF TerminalGoesOn
  <2>3. /\ AtRest(s) => AtRest(s)'
        /\ Sends(s) => Sends(s)'
        /\ Forwards(s) => Forwards(s)'
        /\ Blocks(s) => Blocks(s)'
    BY DEF AtRest, Sends, Forwards, Blocks, Idle
  <2>4. ASSUME Displays(s) PROVE Displays(s)'
    <3>1. Head(s) \in Jobs /\ Head(s).do = "show" /\ Head(s).n \in Nat
      BY <1>6, <2>1, <2>4, TerminalHeads, JobKinds DEF Displays
    <3>2. seen + Head(s).n <= m /\ seen \in Nat
      BY <1>2, <1>4, <2>4 DEF Displays, OperatorTables
    <3>3. seen + Head(s).n <= n
      BY <1>4, <3>1, <3>2
    <3> QED BY <1>4, <2>4, <3>3 DEF Displays
  <2>5. ASSUME Relays(s) PROVE Relays(s)'
    <3>1. Head(Tail(s)) \in Jobs /\ Head(Tail(s)).do = "show" /\ Head(Tail(s)).n \in Nat
      BY <1>6, <2>1, <2>5, TerminalHeads, JobKinds DEF Relays
    <3>2. PICK k \in Nat : k = Head(Tail(s)).n
      BY <3>1
    <3>3. seen + k <= m /\ seen \in Nat
      BY <1>2, <1>4, <2>5, <3>2, SMTT(30) DEF Relays, OperatorTables
    <3>4. seen + k <= n
      <4>1. k \in Nat
        BY <3>2
      <4> QED BY <1>5, <3>3, <4>1
    <3> QED BY <1>4, <2>5, <3>2, <3>4 DEF Relays
  <2>6. TerminalGoesOn(s)'
    <3>1. AtRest(s)' \/ Displays(s)' \/ Relays(s)' \/ Sends(s)' \/ Forwards(s)' \/ Blocks(s)'
      BY <2>1, <2>3, <2>4, <2>5 DEF TerminalGoesOn
    <3> QED BY <2>2, <3>1 DEF TerminalGoesOn
  <2> QED BY <2>6
<1>8. ASSUME profile = "line" PROVE DialogueGoesOn(s)'
  <2>1. DialogueGoesOn(s)
    BY <1>1, <1>6, <1>8, InTheSession
  <2>2. ASSUME NEW t, NEW u \in Seq(Jobs), t = u, Awaits(t) PROVE Awaits(t)'
    <3>1. u # <<>> /\ Head(u) \in Jobs /\ Head(u).do = "reply"
      BY <2>2, ElementOfSeq DEF Awaits
    <3>2. Head(t).from \in Nat /\ Head(t).from <= m
      BY <1>4, <2>2, <3>1, JobKinds DEF Awaits
    <3>3. Head(t).from <= n
      BY <1>4, <3>2
    <3> QED BY <1>4, <2>2, <3>3 DEF Awaits
  <2>3. Awaits(s) => Awaits(s)'
    BY <2>2
  <2>4. ASSUME Orders(s) PROVE Orders(s)'
    <3>1. s # <<>>
      BY <2>4 DEF Orders
    <3>2. Tail(s) \in Seq(Jobs)
      BY <1>6, <3>1, HeadTailProperties
    <3>3. PICK u \in Seq(Jobs) : u = Tail(s)
      BY <3>2
    <3>4. Awaits(u)
      BY <2>4, <3>3 DEF Orders
    <3>5. Awaits(u)'
      BY <2>2, <3>4
    <3> QED BY <2>4, <3>3, <3>5 DEF Orders
  <2>5. ASSUME Commands(s) PROVE Commands(s)'
    <3>1. s # <<>>
      BY <2>5 DEF Commands
    <3>2. Tail(s) \in Seq(Jobs)
      BY <1>6, <3>1, HeadTailProperties
    <3>3. PICK u \in Seq(Jobs) : u = Tail(s)
      BY <3>2
    <3>4. u = Tail(s) /\ Orders(u) /\ u # <<>>
      BY <2>5, <3>3 DEF Commands, Orders
    <3>5. Tail(u) \in Seq(Jobs)
      BY <3>3, <3>4, HeadTailProperties
    <3>6. PICK v \in Seq(Jobs) : v = Tail(u)
      BY <3>5
    <3>7. v = Tail(u) /\ Awaits(v)
      BY <3>4, <3>6 DEF Orders
    <3>8. Awaits(v)'
      BY <2>2, <3>7
    <3>9. Orders(u)'
      BY <3>4, <3>7, <3>8 DEF Orders
    <3> QED BY <2>5, <3>4, <3>9 DEF Commands
  <2>6. /\ Answers(s) => Answers(s)'
        /\ Raises(s) => Raises(s)'
        /\ Idle => Idle'
        /\ FailedOf(file)' = FailedOf(file) /\ CommandsOf(file)' = CommandsOf(file)
        /\ CompletedOf(file)' = CompletedOf(file) /\ sent' = sent
    BY DEF Answers, Raises, Idle
  <2>7. DialogueGoesOn(s)'
    BY <2>1, <2>3, <2>4, <2>5, <2>6 DEF DialogueGoesOn
  <2> QED BY <2>7
<1>9. IF profile = "terminal" THEN TerminalGoesOn(s)' ELSE DialogueGoesOn(s)'
  BY <1>2, <1>7, <1>8
<1>10. /\ StageGoesOn' /\ ~Counting' /\ run' \in Runs
      /\ run'.outcome # "passed" /\ run'.reason # "killed" /\ Undisturbed
  BY <1>1, <1>3, <1>6, <1>9, SessionGoesOn
<1>11. OperatorTables'
  <2>1. seen \in 0..m /\ cursor \in 0..m
    BY <1>2, <1>4 DEF OperatorTables
  <2>2. seen \in 0..n /\ cursor \in 0..n
    BY <1>4, <2>1
  <2> QED BY <1>2, <1>4, <1>10, <2>2 DEF OperatorTables
<1> QED BY <1>1, <1>2, <1>10, <1>11, AllStays

LEMMA DiesKeeps == ASSUME OperatorInv, Dies PROVE OperatorInv'
<1>1. Len(printed') >= Len(printed)
  <2>1. Len(printed) \in Nat
    BY LenProperties DEF OperatorInv, OperatorTables
  <2> QED BY <2>1 DEF Dies
<1> QED BY <1>1, GuestKeeps DEF Dies, OperatorInv, OperatorTables

LEMMA PrintsKeeps ==
  ASSUME OperatorInv, NEW item \in {"text", "prompt", "closed"}, Prints(item)
  PROVE  OperatorInv'
<1>1. printed \in Seq({"text", "prompt", "closed"}) /\ Len(printed) \in Nat
  BY LenProperties DEF OperatorInv, OperatorTables
<1>2. printed' \in Seq({"text", "prompt", "closed"}) /\ Len(printed') = Len(printed) + 1
  BY <1>1, AppendProperties DEF Prints
<1>3. Len(printed') >= Len(printed)
  BY <1>1, <1>2
<1> QED BY <1>2, <1>3, GuestKeeps DEF Prints, OperatorInv, OperatorTables

LEMMA KillControllerKeeps == ASSUME OperatorInv, KillOperatorController PROVE OperatorInv'
<1>1. /\ Running /\ run \in Runs /\ OperatorTables
      /\ UNCHANGED <<profile, alive, printed, seen, cursor, typed, sent>>
      /\ run' = [run EXCEPT !.stage = "over", !.reason = "killed", !.outcome = "none"]
      /\ todo' = <<>> /\ mem' = Opened /\ bridge' = [input |-> 0, output |-> 0]
  BY DEF KillOperatorController, Running, OperatorInv, OperatorTables
<1>2. /\ run' \in Runs /\ run'.stage = "over" /\ run'.reason = "killed" /\ run'.outcome = "none"
      /\ run'.interrupted = run.interrupted
  BY <1>1 DEF Runs, Stages
<1>3. file \in Seq(Lines) /\ Whole(file) = file
  BY <1>1, RunningFile
<1>4. file' \in Seq(Lines) /\ Whole(file') = file
  <2>1. CASE file' = file
    BY <1>3, <2>1
  <2>2. CASE /\ Doing("write") /\ file' # file
    <3>1. Head(todo) \in SessionRecords
      BY <2>2, DoesNext, JobKinds
    <3>2. PICK r \in SessionRecords : r = Chunk(Head(todo))
      BY <3>1, ChunkOfRecord
    <3>3. mem \in Recorders
      BY <1>1 DEF OperatorTables
    <3>4. PICK l : l = Line(r)
      OBVIOUS
    <3>5. [l EXCEPT !.whole = FALSE] \in Lines /\ l \in Lines
      BY <3>3, <3>4, LineIsLine
    <3>6. PICK c : c = [l EXCEPT !.whole = FALSE]
      OBVIOUS
    <3>7. c \in Lines /\ ~c.whole
      BY <3>5, <3>6 DEF Lines
    <3>8. file' = Append(file, c)
      BY <2>2, <3>2, <3>4, <3>6 DEF KillOperatorController
    <3> QED BY <1>3, <3>7, <3>8, WithoutItsEnd, AppendProperties
  <2> QED BY <2>1, <2>2 DEF KillOperatorController
<1>5. NothingUnrecorded'
  BY <1>1, <1>3, <1>4 DEF OperatorInv, NothingUnrecorded
<1>6. CleanEndsAreTrue'
  BY <1>1, <1>3, <1>4 DEF OperatorInv, CleanEndsAreTrue
<1>7. KilledIsReadable'
  <2>1. SUFFICES ASSUME ~run.interrupted PROVE TranscriptAccepted'
    BY <1>2 DEF KilledIsReadable
  <2>2. Undisturbed
    BY <1>1, <2>1 DEF Undisturbed
  <2>3. Reads(file)
    BY <2>2 DEF OperatorInv, RecorderInStep
  <2> QED BY <1>1, <1>4, <2>3 DEF TranscriptAccepted, Reads
<1>8. LinesWhole' /\ RecorderInStep' /\ PassedIsReadable'
  BY <1>2 DEF LinesWhole, RecorderInStep, PassedIsReadable, Undisturbed, Running
<1>9. StageGoesOn'
  BY <1>2 DEF StageGoesOn
<1>10. OperatorTables'
  <2>1. Opened \in Recorders
    BY DEF Opened, Recorders
  <2>2. <<>> \in Seq(Jobs) /\ [input |-> 0, output |-> 0] \in [input : Nat, output : Nat]
    OBVIOUS
  <2> QED BY <1>1, <1>2, <1>4, <2>1, <2>2 DEF OperatorTables
<1> QED BY <1>5, <1>6, <1>7, <1>8, <1>9, <1>10 DEF OperatorInv

------------------------------------------------------------------------------
(* A record is counted. *)

LEMMA CountedIsRecorder ==
  ASSUME mem \in Recorders, NEW r \in SessionRecords, NEW m, m = [Counted(r) EXCEPT !.next = @ + 1]
  PROVE  m \in Recorders /\ m.closed = mem.closed
<1>1. PICK c : c = Counted(r)
  OBVIOUS
<1>2. /\ mem.data + 1 \in Nat /\ mem.control + 1 \in Nat /\ mem.commands + 1 \in Nat
      /\ mem.completed + 1 \in Nat /\ mem.failed + 1 \in Nat
  BY DEF Recorders
<1>3. PICK a \in Nat : a = mem.data + 1
  BY <1>2
<1>4. ASSUME r.kind = "bytes" PROVE c \in Recorders /\ c.closed = mem.closed
  <2>1. r \in ByteRecords
    BY <1>4, RecordKinds
  <2>2. r.n \in Nat /\ r.dir \in {"in", "out"}
    BY <2>1 DEF ByteRecords
  <2>3. PICK i \in Nat : i = mem.input + r.n
    BY <2>2 DEF Recorders
  <2>4. PICK o \in Nat : o = mem.output + r.n
    BY <2>2 DEF Recorders
  <2>5. c = [mem EXCEPT !.data = a, !.input = i] \/ c = [mem EXCEPT !.data = a, !.output = o]
    BY <1>1, <1>3, <1>4, <2>2, <2>3, <2>4 DEF Counted, Recorders
  <2> QED BY <1>3, <2>3, <2>4, <2>5 DEF Recorders
<1>5. ASSUME r.kind = "control" PROVE c \in Recorders /\ c.closed = mem.closed
  <2>1. PICK x \in Nat : x = mem.control + 1
    BY <1>2
  <2>2. c = [mem EXCEPT !.control = x]
    BY <1>1, <1>5, <2>1 DEF Counted, Recorders
  <2> QED BY <2>1, <2>2 DEF Recorders
<1>6. ASSUME r.kind = "command" PROVE c \in Recorders /\ c.closed = mem.closed
  <2>1. PICK x \in Nat : x = mem.commands + 1
    BY <1>2
  <2>2. c = [mem EXCEPT !.commands = x, !.pending = TRUE]
    BY <1>1, <1>6, <2>1 DEF Counted, Recorders
  <2> QED BY <2>1, <2>2 DEF Recorders
<1>7. ASSUME r.kind = "result" PROVE c \in Recorders /\ c.closed = mem.closed
  <2>1. PICK x \in Nat : x = mem.completed + 1
    BY <1>2
  <2>2. PICK y \in Nat : y = mem.failed + 1
    BY <1>2
  <2>3. \/ c = [mem EXCEPT !.pending = FALSE, !.completed = x]
        \/ c = [mem EXCEPT !.pending = FALSE, !.failed = y]
    BY <1>1, <1>7, <2>1, <2>2 DEF Counted, Recorders
  <2> QED BY <2>1, <2>2, <2>3 DEF Recorders
<1>8. ASSUME r.kind = "end" PROVE c \in Recorders /\ c.closed = mem.closed
  <2>1. c = [mem EXCEPT !.done = TRUE]
    BY <1>1, <1>8 DEF Counted, Recorders
  <2> QED BY <2>1 DEF Recorders
<1>9. c \in Recorders /\ c.closed = mem.closed
  BY <1>4, <1>5, <1>6, <1>7, <1>8, RecordKinds
<1>10. c.next \in Nat
  BY <1>9 DEF Recorders
<1>11. PICK k \in Nat : k = c.next + 1
  BY <1>10
<1>12. m = [c EXCEPT !.next = k]
  BY <1>1, <1>11
<1> QED BY <1>9, <1>11, <1>12 DEF Recorders

LEMMA CountKeeps == ASSUME OperatorInv, Count PROVE OperatorInv'
<1>1. /\ Running /\ Head(todo).do = "count" /\ todo # <<>> /\ Head(todo) \in Jobs
      /\ Tail(todo) \in Seq(Jobs) /\ Counting
      /\ run.stage \in {"session", "ending", "finally"} /\ run \in Runs
      /\ mem \in Recorders /\ file \in Seq(Lines) /\ profile \in {"terminal", "line"}
      /\ UNCHANGED <<profile, alive, printed, seen, cursor, typed, file, bridge, sent, run>>
  BY DoesNext DEF Count, Counting, OperatorInv, OperatorTables
<1>2. PICK r \in SessionRecords : r = Head(todo).record
  BY <1>1, JobKinds
<1>3. PICK m : m = [Counted(r) EXCEPT !.next = @ + 1]
  OBVIOUS
<1>4. mem' = m /\ todo' = Tail(todo)
  BY <1>2, <1>3 DEF Count
<1>5. m \in Recorders /\ m.closed = mem.closed
  BY <1>1, <1>3, CountedIsRecorder
<1>6. Waiting = Tail(todo) /\ ~Counting' /\ Waiting' = Waiting
  <2>1. Tail(todo) # <<>> /\ Head(Tail(todo)).do # "count"
    BY <1>1, WhereItIs DEF OperatorInv
  <2> QED BY <1>1, <1>4, <2>1 DEF Counting, Waiting
<1>7. ASSUME Undisturbed PROVE InStep(m, file) /\ (m.done <=> file[Len(file)].kind = "end") /\ Reads(file)
  <2>1. PICK f \in Seq(Lines) : file = Append(f, Line(r)) /\ InStep(mem, f) /\ ~Refused(r)
    BY <1>1, <1>2, <1>7 DEF OperatorInv, RecorderInStep
  <2>2. Reads(file)
    BY <1>7 DEF OperatorInv, RecorderInStep
  <2>3. Grows(f, file, r)
    BY <1>1, <2>1, RecordGrows
  <2>4. /\ Len(file) = Len(f) + 1 /\ Len(f) \in Nat /\ file # <<>> /\ file[Len(file)].kind = r.kind
        /\ \A i \in 1..Len(f) : file[i] = f[i]
    BY <2>3 DEF Grows
  <2>5. DOMAIN file = 1..Len(file) /\ Len(file) \in DOMAIN file
    BY <1>1, <2>4, FileOfLines
  <2>6. r.kind \in {"bytes", "control"} => ~mem.pending
    <3>1. CASE profile = "line"
      <4>1. r.kind \in {"command", "result", "end"}
        BY <2>2, <2>4, <2>5, <3>1 DEF Reads, ReadDialogue
      <4> QED BY <4>1
    <3>2. CASE profile = "terminal" /\ f = <<>>
      BY <2>1, <3>2 DEF InStep
    <3>3. CASE profile = "terminal" /\ f # <<>>
      <4>1. Len(f) \in 1..Len(f)
        BY <2>1, <3>3, FileOfLines, EmptySeq
      <4>2. Len(f) \in DOMAIN file /\ file[Len(f)] = f[Len(f)]
        BY <2>4, <2>5, <4>1
      <4>3. f[Len(f)].kind # "command"
        BY <2>2, <3>3, <4>2 DEF Reads, ReadTerminal
      <4> QED BY <2>1, <4>3 DEF InStep
    <3> QED BY <1>1, <3>1, <3>2, <3>3
  <2>7. InStep(m, file) /\ (m.done <=> r.kind = "end")
    BY <1>1, <1>3, <2>1, <2>6, CountedInStep, ZenonT(40)
  <2> QED BY <2>2, <2>4, <2>7
<1>8. RecorderInStep'
  <2>1. SUFFICES ASSUME Undisturbed' PROVE Reads(file)' /\ InStep(mem, file)'
    BY <1>6 DEF RecorderInStep
  <2>2. Undisturbed
    BY <1>1, <2>1 DEF Undisturbed, Running
  <2>3. Reads(file)'
    BY <1>1, <1>7, <2>2 DEF Reads
  <2>4. InStep(mem', file)
    BY <1>4, <1>7, <2>2
  <2> QED BY <1>1, <2>3, <2>4 DEF InStep
<1>9. run.outcome # "passed" /\ run.reason # "killed"
  BY <1>1, RunningFile
<1>10. StageGoesOn'
  <2>1. CASE run.stage = "session"
    <3>1. PICK s \in Seq(Jobs) : /\ s = Waiting
                                 /\ IF profile = "terminal" THEN TerminalGoesOn(s) ELSE DialogueGoesOn(s)
      BY <2>1 DEF OperatorInv, StageGoesOn, InSession
    <3>2. IF profile' = "terminal" THEN TerminalGoesOn(s)' ELSE DialogueGoesOn(s)'
      <4>1. TerminalGoesOn(s) => TerminalGoesOn(s)'
        BY <1>1 DEF TerminalGoesOn, AtRest, Displays, Relays, Sends, Forwards, Blocks, Idle
      <4>2. DialogueGoesOn(s) => DialogueGoesOn(s)'
        BY <1>1 DEF DialogueGoesOn, Commands, Orders, Awaits, Answers, Raises, Idle
      <4> QED BY <1>1, <3>1, <4>1, <4>2
    <3>3. /\ \A i \in 1..Len(file) : file[i].kind # "end"
          /\ ~mem.closed /\ run.reason = "none" /\ Undisturbed
      BY <2>1, InTheSession
    <3>4. ~m.done
      <4>1. file # <<>>
        <5>1. PICK f \in Seq(Lines) : file = Append(f, Line(r))
          BY <1>1, <1>2, <3>3 DEF OperatorInv, RecorderInStep
        <5>2. Grows(f, file, r)
          BY <1>1, <5>1, RecordGrows
        <5> QED BY <5>2 DEF Grows
      <4>2. Len(file) \in 1..Len(file)
        BY <1>1, <4>1, FileOfLines, EmptySeq
      <4> QED BY <1>7, <3>3, <4>2
    <3>5. InSession'
      BY <1>1, <1>4, <1>5, <1>6, <3>1, <3>2, <3>3, <3>4 DEF InSession
    <3> QED BY <1>1, <1>9, <2>1, <3>5 DEF StageGoesOn
  <2>2. CASE run.stage = "ending"
    <3>1. Head(todo) \notin EndRecords
      BY <1>1 DEF EndRecords
    <3>2. ~mem.closed /\ Waiting = <<Do("noted")>> /\ (run.reason \in CleanEnds => EndedBy(run.reason))
      BY <2>2, <3>1 DEF OperatorInv, StageGoesOn, IsEnding
    <3>3. IsEnding'
      BY <1>1, <1>4, <1>5, <1>6, <3>2 DEF IsEnding, EndedBy
    <3> QED BY <1>1, <1>9, <2>2, <3>3 DEF StageGoesOn
  <2>3. CASE run.stage = "finally"
    <3>1. Head(todo) \notin EndRecords
      BY <1>1 DEF EndRecords
    <3>2. Waiting = <<Do("stop")>>
      BY <2>3, <3>1 DEF OperatorInv, StageGoesOn, IsLeaving
    <3>3. IsLeaving'
      BY <1>6, <3>2 DEF IsLeaving
    <3> QED BY <1>1, <1>9, <2>3, <3>3 DEF StageGoesOn
  <2> QED BY <1>1, <2>1, <2>2, <2>3
<1>11. LinesWhole' /\ NothingUnrecorded' /\ CleanEndsAreTrue'
  BY <1>1 DEF OperatorInv, LinesWhole, NothingUnrecorded, CleanEndsAreTrue, Running
<1>12. PassedIsReadable' /\ KilledIsReadable'
  BY <1>1, <1>9 DEF PassedIsReadable, KilledIsReadable
<1>13. OperatorTables'
  BY <1>1, <1>4, <1>5 DEF OperatorInv, OperatorTables
<1> QED BY <1>8, <1>10, <1>11, <1>12, <1>13 DEF OperatorInv

------------------------------------------------------------------------------
(* A record is written. *)

(* What a session has to record.                                             *)
LEMMA SessionWrites ==
  ASSUME OperatorInv, run.stage = "session", Doing("write")
  PROVE  /\ ~Counting /\ todo \in Seq(Jobs) /\ todo # <<>> /\ Tail(todo) \in Seq(Jobs)
         /\ Head(todo) \in SessionRecords /\ InStep(mem, file) /\ ~mem.closed /\ ~mem.done
         /\ profile \in {"terminal", "line"} /\ mem \in Recorders /\ file \in Seq(Lines)
         /\ profile = "terminal" =>
              /\ TerminalGoesOn(todo)
              /\ \/ /\ Head(todo).kind = "control" /\ Head(todo).dir \in Controls /\ Idle
                    /\ Tail(todo) \in RestPlans \/ Forwards(Tail(todo))
                 \/ Relays(todo)
                 \/ Forwards(todo)
         /\ profile = "line" =>
              \/ Commands(todo) /\ Idle /\ FailedOf(file) = 0 /\ CommandsOf(file) < MaxCommands
              \/ /\ Answers(todo) /\ CommandsOf(file) = sent /\ sent = CompletedOf(file) + 1
                 /\ FailedOf(file) = 0
<1>1. /\ ~Counting /\ todo \in Seq(Jobs) /\ todo # <<>> /\ Tail(todo) \in Seq(Jobs)
      /\ Head(todo).do = "write" /\ Head(todo) \in SessionRecords
      /\ profile \in {"terminal", "line"} /\ mem \in Recorders /\ file \in Seq(Lines)
      /\ InStep(mem, file) /\ ~mem.closed /\ ~mem.done
  BY DoesNext, InTheSession, JobKinds
<1>2. ASSUME profile = "terminal"
      PROVE  /\ TerminalGoesOn(todo)
             /\ \/ /\ Head(todo).kind = "control" /\ Head(todo).dir \in Controls /\ Idle
                   /\ Tail(todo) \in RestPlans \/ Forwards(Tail(todo))
                \/ Relays(todo)
                \/ Forwards(todo)
  <2>1. TerminalGoesOn(todo)
    BY <1>1, <1>2, InTheSession
  <2>2. AtRest(todo) \/ Relays(todo) \/ Forwards(todo) \/ Blocks(todo)
    BY <1>1, <2>1, TerminalHeads
  <2>3. /\ Control("application-link-cut").kind = "control" /\ Control("blocked-or-rejected").kind = "control"
        /\ Control("application-link-cut").dir \in Controls /\ Control("blocked-or-rejected").dir \in Controls
    BY DEF Control, Controls
  <2>4. CASE AtRest(todo)
    <3>1. todo \in RestPlans /\ Idle
      BY <2>4 DEF AtRest
    <3>2. Head(todo) = Control("application-link-cut") /\ Tail(todo) \in AfterCut
      BY <1>1, <3>1, RestShapes
    <3> QED BY <2>1, <2>3, <3>1, <3>2, RestsFollow
  <2>5. CASE Blocks(todo)
    <3>1. /\ Head(todo) = Control("blocked-or-rejected") /\ Idle
          /\ Tail(todo) \in AfterSend \cup {<<ToReturn("input-limit")>>} \/ Forwards(Tail(todo))
      BY <2>5 DEF Blocks
    <3> QED BY <2>1, <2>3, <3>1, RestsFollow
  <2> QED BY <2>1, <2>2, <2>4, <2>5
<1>3. ASSUME profile = "line"
      PROVE  \/ Commands(todo) /\ Idle /\ FailedOf(file) = 0 /\ CommandsOf(file) < MaxCommands
             \/ /\ Answers(todo) /\ CommandsOf(file) = sent /\ sent = CompletedOf(file) + 1
                /\ FailedOf(file) = 0
  <2>1. DialogueGoesOn(todo)
    BY <1>1, <1>3, InTheSession
  <2> QED BY <1>1, <2>1, DialogueHeads
<1> QED BY <1>1, <1>2, <1>3

(* The recorder takes what the loop hands to it.                             *)
LEMMA NeverRefused == ASSUME OperatorInv PROVE RecorderNeverRefuses
<1>1. SUFFICES ASSUME run.stage = "session", Doing("write") PROVE ~Refused(Chunk(Head(todo)))
  BY DEF RecorderNeverRefuses
<1>2. PICK h \in SessionRecords : h = Head(todo)
  BY <1>1, SessionWrites
<1>3. PICK r \in SessionRecords : /\ r = Chunk(h) /\ r.kind = h.kind /\ r.dir = h.dir
                                  /\ r.kind # "bytes" => r = h
                                  /\ r.kind = "bytes" => r.n <= h.n
  BY ChunkOfRecord
<1> SUFFICES ~Refused(r)
  BY <1>2, <1>3
<1>4. /\ InStep(mem, file) /\ ~mem.closed /\ ~mem.done /\ profile \in {"terminal", "line"}
      /\ mem \in Recorders /\ file \in Seq(Lines) /\ todo \in Seq(Jobs) /\ Tail(todo) \in Seq(Jobs)
  BY <1>1, SessionWrites
<1>5. /\ r.n \in Nat /\ h.n \in Nat
  BY RecordKinds
<1>6. PICK i, o \in Nat : i = mem.input /\ o = mem.output /\ i = InputOf(file) /\ o = OutputOf(file)
  BY <1>4 DEF Recorders, InStep
<1>7. CASE profile = "terminal" /\ h.kind = "control" /\ h.dir \in Controls
  BY <1>3, <1>4, <1>7 DEF Refused, ChunkRefused, ControlRefused, CommandRefused, ResultRefused
<1>8. CASE profile = "terminal" /\ Relays(todo)
  <2>1. h.kind = "bytes" /\ h.dir = "out" /\ Tail(todo) # <<>> /\ Head(Tail(todo)).do = "show"
    BY <1>2, <1>8 DEF Relays
  <2>2. Head(Tail(todo)) \in Jobs
    BY <1>4, <2>1
  <2>3. PICK k \in Nat : k = Head(Tail(todo)).n
    BY <2>1, <2>2, JobKinds
  <2>4. o + h.n = seen + k /\ seen + k <= MaxOutput
    BY <1>2, <1>6, <1>8, <2>3 DEF Relays
  <2>5. ~(o + r.n > MaxOutput)
    BY <1>3, <1>5, <1>6, <2>1, <2>4, OperatorAssumption
  <2> QED BY <1>3, <1>4, <1>6, <2>1, <2>5 DEF Refused, ChunkRefused, ControlRefused, CommandRefused, ResultRefused
<1>9. CASE profile = "terminal" /\ Forwards(todo)
  <2>1. h.kind = "bytes" /\ h.dir = "in" /\ Tail(todo) # <<>> /\ Head(Tail(todo)).do = "send"
    BY <1>2, <1>9 DEF Forwards
  <2>2. Head(Tail(todo)) \in Jobs
    BY <1>4, <2>1
  <2>3. PICK k \in Nat : k = Head(Tail(todo)).n
    BY <2>1, <2>2, JobKinds
  <2>4. i + h.n = sent + k /\ sent + k <= MaxInput
    BY <1>2, <1>6, <1>9, <2>3 DEF Forwards
  <2>5. ~(i + r.n > MaxInput)
    BY <1>3, <1>5, <1>6, <2>1, <2>4, OperatorAssumption
  <2> QED BY <1>3, <1>4, <1>6, <2>1, <2>5 DEF Refused, ChunkRefused, ControlRefused, CommandRefused, ResultRefused
<1>10. PICK c, d, f \in Nat :
          /\ c = mem.commands /\ d = mem.completed /\ f = mem.failed
          /\ c = CommandsOf(file) /\ d = CompletedOf(file) /\ f = FailedOf(file)
          /\ c = d + f + (IF mem.pending THEN 1 ELSE 0)
  BY <1>4 DEF Recorders, InStep
<1>11. CASE /\ profile = "line" /\ Commands(todo) /\ Idle /\ FailedOf(file) = 0
            /\ CommandsOf(file) < MaxCommands
  <2>1. h.kind = "command"
    BY <1>2, <1>11 DEF Commands, Command
  <2>2. c = d
    BY <1>10, <1>11 DEF Idle
  <2>3. ~mem.pending /\ f = 0 /\ ~(c >= MaxCommands)
    BY <1>10, <1>11, <2>2, OperatorAssumption
  <2> QED BY <1>3, <1>4, <1>10, <2>1, <2>3 DEF Refused, ChunkRefused, ControlRefused, CommandRefused, ResultRefused
<1>12. CASE /\ profile = "line" /\ Answers(todo) /\ CommandsOf(file) = sent /\ sent = CompletedOf(file) + 1
            /\ FailedOf(file) = 0
  <2>1. h.kind = "result" /\ h.n <= MaxResponse
    BY <1>2, <1>12 DEF Answers
  <2>2. mem.pending
    <3>1. c = d + 1 /\ f = 0
      BY <1>10, <1>12
    <3> QED BY <1>10, <3>1
  <2>3. ~(r.n > MaxResponse)
    BY <1>3, <1>5, <2>1, OperatorAssumption
  <2> QED BY <1>3, <1>4, <2>1, <2>2, <2>3 DEF Refused, ChunkRefused, ControlRefused, CommandRefused, ResultRefused
<1> QED BY <1>1, <1>2, <1>4, <1>7, <1>8, <1>9, <1>11, <1>12, SessionWrites

(* What the terminal has still to do when a record has been written.         *)
LEMMA TerminalWritten ==
  ASSUME OperatorInv, run.stage = "session", Doing("write"), profile = "terminal",
         UNCHANGED <<profile, printed, seen, bridge, sent>>,
         NEW h \in SessionRecords, h = Head(todo), NEW r \in SessionRecords, r = Chunk(h),
         Grows(file, file', r), NEW s, s = AfterChunk(h) \o Tail(todo)
  PROVE  s \in Seq(Jobs) /\ TerminalGoesOn(s)'
<1>1. /\ r.kind = h.kind /\ r.dir = h.dir /\ r.n \in Nat /\ h.n \in Nat
      /\ r.kind # "bytes" => r = h /\ AfterChunk(h) = <<>>
      /\ r.kind = "bytes" =>
           \/ r.n = h.n /\ AfterChunk(h) = <<>>
           \/ \E q \in ByteRecords : AfterChunk(h) = <<q>> /\ q.dir = r.dir /\ q.n = h.n - r.n
  BY ChunkOfRecord, RecordKinds
<1>2. /\ todo \in Seq(Jobs) /\ todo # <<>> /\ Tail(todo) \in Seq(Jobs) /\ file \in Seq(Lines)
      /\ TerminalGoesOn(todo)
      /\ \/ /\ h.kind = "control" /\ Idle
            /\ Tail(todo) \in RestPlans \/ Forwards(Tail(todo))
         \/ Relays(todo)
         \/ Forwards(todo)
  BY SessionWrites
<1>3. PICK t \in Seq(Jobs) : t = Tail(todo) /\ <<>> \o t = t
  <2>1. PICK u \in Seq(Jobs) : u = Tail(todo)
    BY <1>2
  <2>2. <<>> \o u = u
    BY <2>1, ConcatEmptySeq
  <2> QED BY <2>1, <2>2
<1>4. PICK i, o, i2, o2 \in Nat :
         i = InputOf(file) /\ o = OutputOf(file) /\ i2 = InputOf(file') /\ o2 = OutputOf(file')
  BY <1>2, CountsAreNumbers DEF Grows
<1>5. /\ i2 = i + (IF r.kind = "bytes" /\ r.dir = "in" THEN r.n ELSE 0)
      /\ o2 = o + (IF r.kind = "bytes" /\ r.dir = "out" THEN r.n ELSE 0)
  BY <1>4 DEF Grows
<1>6. sent \in Nat /\ seen \in Nat
  BY DEF OperatorInv, OperatorTables
<1>7. /\ bridge'.input = sent' /\ bridge'.output = seen' /\ sent' = sent /\ seen' = seen
      /\ InputOf(file)' = i2 /\ OutputOf(file)' = o2 /\ Len(printed)' = Len(printed)
  BY <1>2, <1>4 DEF TerminalGoesOn
<1>8. FailedOf(file)' = 0
  <2>1. FailedOf(file) = 0 /\ FailedOf(file) \in Nat
    BY <1>2 DEF TerminalGoesOn
  <2>2. FailedOf(file') = FailedOf(file)
                            + (IF r.kind = "result" /\ r.dir \in Statuses \ {"complete"} THEN 1 ELSE 0)
    BY DEF Grows, FailedOf
  <2>3. r.kind # "result"
    BY <1>1, <1>2 DEF Relays, Forwards
  <2> QED BY <2>1, <2>2, <2>3
<1>9. CASE h.kind = "control" /\ Idle /\ (t \in RestPlans \/ Forwards(t))
  <2>1. s = t
    BY <1>1, <1>3, <1>9
  <2>2. i2 = i /\ o2 = o
    BY <1>1, <1>4, <1>5, <1>9
  <2>3. sent = i /\ seen = o
    BY <1>4, <1>9 DEF Idle
  <2>4. Idle'
    BY <1>7, <2>2, <2>3 DEF Idle
  <2>5. CASE t \in RestPlans
    <3>1. AtRest(s)'
      BY <2>1, <2>4, <2>5 DEF AtRest
    <3> QED BY <1>3, <1>7, <1>8, <2>1, <3>1 DEF TerminalGoesOn
  <2>6. CASE Forwards(t)
    <3>1. Forwards(t)'
      BY <1>4, <1>7, <2>2, <2>6 DEF Forwards
    <3> QED BY <1>3, <1>7, <1>8, <2>1, <3>1 DEF TerminalGoesOn
  <2> QED BY <1>9, <2>5, <2>6
<1>10. CASE Relays(todo)
  <2>1. /\ h.kind = "bytes" /\ h.dir = "out" /\ t # <<>> /\ Head(t).do = "show" /\ Tail(t) \in AfterShow
        /\ Head(t) \in Jobs
    BY <1>3, <1>10 DEF Relays
  <2>2. PICK k \in Nat : k = Head(t).n
    BY <2>1, JobKinds
  <2>3. sent = i /\ o + h.n = seen + k /\ seen + k <= Len(printed) /\ seen + k <= MaxOutput
    BY <1>3, <1>4, <1>10, <2>2 DEF Relays
  <2>4. i2 = i /\ o2 = o + r.n
    BY <1>1, <1>4, <1>5, <2>1
  <2>5. CASE r.n = h.n /\ AfterChunk(h) = <<>>
    <3>1. s = t /\ o2 = seen + k
      BY <1>1, <1>3, <2>3, <2>4, <2>5
    <3>2. Displays(t)'
      BY <1>7, <2>1, <2>2, <2>3, <2>4, <3>1 DEF Displays
    <3> QED BY <1>3, <1>7, <1>8, <3>1, <3>2 DEF TerminalGoesOn
  <2>6. CASE \E q \in ByteRecords : AfterChunk(h) = <<q>> /\ q.dir = r.dir /\ q.n = h.n - r.n
    <3>1. PICK q \in ByteRecords : AfterChunk(h) = <<q>> /\ q.dir = "out" /\ q.n = h.n - r.n
      BY <1>1, <2>1, <2>6
    <3>2. q \in Jobs /\ q.do = "write" /\ q.kind = "bytes"
      BY KindsOfRecords DEF ByteRecords
    <3>3. PICK u : u = <<q>> \o t
      OBVIOUS
    <3>4. s = u /\ u \in Seq(Jobs) /\ u # <<>> /\ Head(u) = q /\ Tail(u) = t
      BY <1>3, <3>1, <3>2, <3>3, FirstThen
    <3>5. PICK n : n = q.n
      OBVIOUS
    <3>6. n = h.n - r.n
      BY <3>1, <3>5
    <3>7. o2 + n = seen + k
      BY <1>1, <1>4, <1>6, <2>2, <2>3, <2>4, <3>6, SMTT(30)
    <3>8. Relays(u)'
      BY <1>7, <2>1, <2>2, <2>3, <2>4, <3>1, <3>2, <3>4, <3>5, <3>7 DEF Relays
    <3> QED BY <1>7, <1>8, <3>4, <3>8 DEF TerminalGoesOn
  <2> QED BY <1>1, <2>1, <2>5, <2>6
<1>11. CASE Forwards(todo)
  <2>1. /\ h.kind = "bytes" /\ h.dir = "in" /\ t # <<>> /\ Head(t).do = "send" /\ Tail(t) \in AfterSend
        /\ Head(t) \in Jobs
    BY <1>3, <1>11 DEF Forwards
  <2>2. PICK k \in Nat : k = Head(t).n
    BY <2>1, JobKinds
  <2>3. seen = o /\ i + h.n = sent + k /\ sent + k <= MaxInput
    BY <1>3, <1>4, <1>11, <2>2 DEF Forwards
  <2>4. o2 = o /\ i2 = i + r.n
    BY <1>1, <1>4, <1>5, <2>1
  <2>5. CASE r.n = h.n /\ AfterChunk(h) = <<>>
    <3>1. s = t /\ i2 = sent + k
      BY <1>1, <1>3, <2>3, <2>4, <2>5
    <3>2. Sends(t)'
      BY <1>7, <2>1, <2>2, <2>3, <2>4, <3>1 DEF Sends
    <3> QED BY <1>3, <1>7, <1>8, <3>1, <3>2 DEF TerminalGoesOn
  <2>6. CASE \E q \in ByteRecords : AfterChunk(h) = <<q>> /\ q.dir = r.dir /\ q.n = h.n - r.n
    <3>1. PICK q \in ByteRecords : AfterChunk(h) = <<q>> /\ q.dir = "in" /\ q.n = h.n - r.n
      BY <1>1, <2>1, <2>6
    <3>2. q \in Jobs /\ q.do = "write" /\ q.kind = "bytes"
      BY KindsOfRecords DEF ByteRecords
    <3>3. PICK u : u = <<q>> \o t
      OBVIOUS
    <3>4. s = u /\ u \in Seq(Jobs) /\ u # <<>> /\ Head(u) = q /\ Tail(u) = t
      BY <1>3, <3>1, <3>2, <3>3, FirstThen
    <3>5. PICK n : n = q.n
      OBVIOUS
    <3>6. n = h.n - r.n
      BY <3>1, <3>5
    <3>7. i2 + n = sent + k
      BY <1>1, <1>4, <1>6, <2>2, <2>3, <2>4, <3>6, SMTT(30)
    <3>8. Forwards(u)'
      BY <1>7, <2>1, <2>2, <2>3, <2>4, <3>1, <3>2, <3>4, <3>5, <3>7 DEF Forwards
    <3> QED BY <1>7, <1>8, <3>4, <3>8 DEF TerminalGoesOn
  <2> QED BY <1>1, <2>1, <2>5, <2>6
<1> QED BY <1>2, <1>3, <1>9, <1>10, <1>11

(* And what the dialogue has.                                                *)
LEMMA DialogueWritten ==
  ASSUME OperatorInv, run.stage = "session", Doing("write"), profile = "line",
         UNCHANGED <<profile, printed, seen, bridge, sent>>,
         NEW h \in SessionRecords, h = Head(todo), NEW r \in SessionRecords, r = Chunk(h),
         Grows(file, file', r), NEW s, s = AfterChunk(h) \o Tail(todo)
  PROVE  s \in Seq(Jobs) /\ DialogueGoesOn(s)'
<1>1. /\ todo \in Seq(Jobs) /\ todo # <<>> /\ Tail(todo) \in Seq(Jobs) /\ file \in Seq(Lines)
      /\ \/ Commands(todo) /\ Idle /\ FailedOf(file) = 0 /\ CommandsOf(file) < MaxCommands
         \/ /\ Answers(todo) /\ CommandsOf(file) = sent /\ sent = CompletedOf(file) + 1
            /\ FailedOf(file) = 0
  BY SessionWrites
<1>2. h.kind \in {"command", "result"}
  BY <1>1 DEF Commands, Answers, Command
<1>3. r = h /\ AfterChunk(h) = <<>>
  BY <1>2, ChunkOfRecord
<1>4. PICK t \in Seq(Jobs) : t = Tail(todo) /\ <<>> \o t = t
  <2>1. PICK u \in Seq(Jobs) : u = Tail(todo)
    BY <1>1
  <2>2. <<>> \o u = u
    BY <2>1, ConcatEmptySeq
  <2> QED BY <2>1, <2>2
<1>5. s = t
  BY <1>3, <1>4
<1>6. /\ CommandsOf(file') = CommandsOf(file) + (IF r.kind = "command" /\ r.dir \in {"in"} THEN 1 ELSE 0)
      /\ CompletedOf(file') = CompletedOf(file)
                                + (IF r.kind = "result" /\ r.dir \in {"complete"} THEN 1 ELSE 0)
      /\ FailedOf(file') = FailedOf(file)
                             + (IF r.kind = "result" /\ r.dir \in Statuses \ {"complete"} THEN 1 ELSE 0)
  BY DEF Grows, CommandsOf, CompletedOf, FailedOf
<1>7. CommandsOf(file) \in Nat /\ CompletedOf(file) \in Nat /\ FailedOf(file) \in Nat /\ sent' = sent
  BY <1>1, CountsAreNumbers DEF CommandsOf, CompletedOf, FailedOf
<1>8. CASE Commands(todo) /\ Idle /\ FailedOf(file) = 0
  <2>1. h = Command /\ Orders(t)
    BY <1>4, <1>8 DEF Commands
  <2>2. r.kind = "command" /\ r.dir = "in"
    BY <1>3, <2>1 DEF Command
  <2>3. sent = CommandsOf(file) /\ sent = CompletedOf(file)
    BY <1>8 DEF Idle
  <2>4. CommandsOf(file') = sent + 1 /\ CompletedOf(file') = sent /\ FailedOf(file') = 0
    BY <1>6, <1>7, <1>8, <2>2, <2>3
  <2>5. Orders(t)'
    BY <2>1 DEF Orders, Awaits
  <2> QED BY <1>4, <1>5, <1>7, <2>4, <2>5 DEF DialogueGoesOn
<1>9. CASE Answers(todo) /\ CommandsOf(file) = sent /\ sent = CompletedOf(file) + 1 /\ FailedOf(file) = 0
  <2>1. /\ r.kind = "result"
        /\ IF r.dir = "complete" THEN t = <<Do("ask")>> ELSE Raises(t)
    BY <1>3, <1>4, <1>9 DEF Answers
  <2>2. CommandsOf(file') = sent
    BY <1>6, <1>7, <1>9, <2>1
  <2>3. CASE r.dir = "complete"
    <3>1. CompletedOf(file') = sent /\ FailedOf(file') = 0
      BY <1>6, <1>7, <1>9, <2>1, <2>3
    <3>2. Idle'
      BY <1>7, <2>2, <3>1 DEF Idle
    <3> QED BY <1>4, <1>5, <2>1, <2>3, <3>1, <3>2 DEF DialogueGoesOn
  <2>4. CASE r.dir # "complete"
    <3>1. Raises(t)'
      BY <2>1, <2>4 DEF Raises
    <3> QED BY <1>4, <1>5, <1>7, <2>2, <3>1 DEF DialogueGoesOn
  <2> QED BY <2>3, <2>4
<1> QED BY <1>1, <1>8, <1>9

(* The last records of a session.                                            *)
LEMMA EndWrites ==
  ASSUME OperatorInv, Running, run.stage \in {"ending", "finally"}, Doing("write")
  PROVE  /\ Head(todo) \in EndRecords /\ run.outcome # "passed" /\ ~Counting
         /\ run.stage = "ending" => /\ Tail(todo) = <<Do("noted")>> /\ ~mem.closed
                                    /\ IF Head(todo).dir \in CleanEnds
                                       THEN Idle /\ FailedOf(file) = 0 /\ run.reason = Head(todo).dir
                                       ELSE run.reason \notin CleanEnds
         /\ run.stage = "finally" => Head(todo).dir \notin CleanEnds /\ Tail(todo) = <<Do("stop")>>
<1>1. ~Counting /\ todo # <<>> /\ Head(todo).do = "write"
  BY DoesNext DEF Doing
<1>2. Waiting = todo
  BY <1>1 DEF Waiting
<1>3. Waiting # <<Do("noted")>> /\ Waiting # <<Do("stop")>>
  BY <1>1, <1>2, SingleJobs
<1>4. CASE run.stage = "ending"
  BY <1>1, <1>3, <1>4, RunningFile DEF OperatorInv, StageGoesOn, IsEnding
<1>5. CASE run.stage = "finally"
  BY <1>1, <1>3, <1>5 DEF OperatorInv, StageGoesOn, IsLeaving
<1> QED BY <1>4, <1>5

(* What may be written next can be read.                                     *)
LEMMA WritesFit ==
  ASSUME OperatorInv, Undisturbed, Doing("write"), NEW h \in SessionRecords, h = Head(todo),
         NEW r \in SessionRecords, r = Chunk(h), ~Refused(r)
  PROVE  Fits(r) /\ (run.stage # "session" => r.kind = "end")
<1>1. /\ profile \in {"terminal", "line"} /\ mem \in Recorders /\ file \in Seq(Lines) /\ Running
      /\ ~Counting /\ run.stage \in {"session", "ending", "finally"} /\ todo # <<>>
  BY DoesNext DEF OperatorInv, OperatorTables
<1>2. InStep(mem, file)
  BY <1>1 DEF OperatorInv, RecorderInStep
<1>3. /\ r.kind = h.kind /\ r.dir = h.dir
      /\ r.kind = "bytes" => r.n <= MaxChunk
  BY ChunkOfRecord, OperatorAssumption
<1>4. CASE run.stage = "session"
  <2>1. profile = "terminal" => h.kind \in {"bytes", "control"}
    BY <1>4, SessionWrites DEF Relays, Forwards
  <2>2. profile = "line" => h.kind \in {"command", "result"}
    BY <1>4, SessionWrites DEF Commands, Answers, Command
  <2> QED BY <1>1, <1>3, <1>4, <2>1, <2>2 DEF Fits
<1>5. CASE run.stage \in {"ending", "finally"}
  <2>1. h \in EndRecords /\ (h.dir \in CleanEnds => FailedOf(file) = 0)
    BY <1>1, <1>5, EndWrites
  <2>2. r.kind = "end" /\ (r.dir \in CleanEnds => mem.failed = 0)
    BY <1>2, <1>3, <2>1 DEF EndRecords, InStep
  <2>3. {"operator-quit", "input-eof", "max-commands"} \subseteq CleanEnds
    BY DEF CleanEnds
  <2> QED BY <2>2, <2>3 DEF Fits
<1> QED BY <1>1, <1>4, <1>5

LEMMA WriteRecordKeeps == ASSUME OperatorInv, WriteRecord PROVE OperatorInv'
<1>1. /\ Doing("write") /\ Running /\ ~Counting /\ todo # <<>> /\ Head(todo) \in SessionRecords
      /\ Tail(todo) \in Seq(Jobs) /\ run.stage \in {"session", "ending", "finally"} /\ run \in Runs
      /\ profile \in {"terminal", "line"} /\ mem \in Recorders /\ file \in Seq(Lines) /\ Whole(file) = file
      /\ UNCHANGED <<profile, alive, printed, seen, cursor, typed, mem, bridge, sent>>
  BY DoesNext, JobKinds, RunningFile DEF WriteRecord, OperatorInv, OperatorTables
<1>2. PICK h \in SessionRecords : h = Head(todo)
  BY <1>1
<1>3. PICK r \in SessionRecords : /\ r = Chunk(h) /\ r.kind = h.kind /\ r.dir = h.dir
                                  /\ r.kind # "bytes" => r = h /\ AfterChunk(h) = <<>>
  BY ChunkOfRecord
<1>4. run.outcome # "passed" /\ run.reason # "killed"
  <2>1. run.stage = "finally" => run.outcome # "passed"
    BY <1>1, EndWrites
  <2> QED BY <1>1, <2>1, RunningFile
<1>5. CASE Refused(r)
  <2>1. run.stage # "session"
    BY <1>1, <1>2, <1>3, <1>5, NeverRefused DEF RecorderNeverRefuses
  <2>2. Raise("failed") /\ file' = file
    BY <1>2, <1>3, <1>5, <2>1 DEF WriteRecord, RecorderRaises
  <2>3. run.interrupted \in BOOLEAN
    BY <1>1 DEF Runs
  <2>4. PICK b \in BOOLEAN : b = run.interrupted /\ Throw("failed", b)
    BY <2>2, <2>3 DEF Raise
  <2>5. "failed" \in Ends /\ "failed" \notin CleanEnds /\ "raised" # "killed"
    BY EndReasons
  <2>6. /\ StageGoesOn' /\ ~Counting' /\ todo' \in Seq(Jobs) /\ run' \in Runs
        /\ run'.outcome = run.outcome /\ run'.reason = "raised" /\ run'.interrupted = run.interrupted
        /\ run'.stage \in {"closing", "finally"}
    BY <1>1, <2>1, <2>4, <2>5, Thrown
  <2>7. OperatorTables'
    BY <1>1, <2>2, <2>6 DEF OperatorInv, OperatorTables
  <2>8. Undisturbed' => Undisturbed
    BY <1>1, <2>1, <2>6 DEF Undisturbed, Running
  <2> QED BY <1>1, <1>4, <2>2, <2>5, <2>6, <2>7, <2>8, AllStays
<1>6. CASE ~Refused(r)
  <2>1. PICK l : l = Line(r)
    OBVIOUS
  <2>2. l \in Lines /\ l.whole
    BY <1>1, <2>1, LineIsLine
  <2>3. PICK j \in Jobs : j = [do |-> "count", record |-> r]
    BY RecordsAreJobs
  <2>4. j.do = "count" /\ j.record = r
    BY <2>3
  <2>5. PICK s : s = AfterChunk(h) \o Tail(todo)
    OBVIOUS
  <2>6. file' = Append(file, l) /\ todo' = <<j>> \o AfterChunk(h) \o Tail(todo) /\ run' = run
    BY <1>2, <1>3, <1>6, <2>1, <2>3 DEF WriteRecord
  <2>7. Grows(file, file', r)
    BY <1>1, <2>1, <2>6, RecordGrows
  <2>8. s \in Seq(Jobs) /\ todo' = <<j>> \o s
    <3>1. AfterChunk(h) \in Seq(Jobs)
      <4>1. CASE AfterChunk(h) = <<>>
        BY <4>1
      <4>2. CASE \E q \in ByteRecords : AfterChunk(h) = <<q>>
        BY <4>2, KindsOfRecords
      <4> QED BY <4>1, <4>2, ChunkOfRecord
    <3>2. <<j>> \in Seq(Jobs)
      OBVIOUS
    <3>3. (<<j>> \o AfterChunk(h)) \o Tail(todo) = <<j>> \o s
      BY <1>1, <2>5, <3>1, <3>2, ConcatAssociative
    <3>4. s \in Seq(Jobs)
      BY <1>1, <2>5, <3>1, ConcatProperties
    <3> QED BY <2>6, <3>3, <3>4
  <2>9. /\ todo' \in Seq(Jobs) /\ todo' # <<>> /\ Head(todo') = j /\ Tail(todo') = s
    <3>1. PICK u : u = <<j>> \o s
      OBVIOUS
    <3>2. u \in Seq(Jobs) /\ u # <<>> /\ Head(u) = j /\ Tail(u) = s
      BY <2>8, <3>1, FirstThen
    <3> QED BY <2>8, <3>1, <3>2
  <2>10. Counting' /\ Waiting' = s
    BY <2>4, <2>9 DEF Counting, Waiting
  <2>11. file' \in Seq(Lines) /\ Len(file') = Len(file) + 1 /\ Len(file) \in Nat
         /\ \A i \in 1..Len(file) : file'[i] = file[i]
    BY <2>7 DEF Grows
  <2>12. \A i \in 1..Len(file') : file'[i].whole
    <3>1. file'[Len(file) + 1] = l
      BY <2>1, <2>7 DEF Grows
    <3>2. \A i \in 1..Len(file) : file[i].whole
      BY <1>1 DEF OperatorInv, LinesWhole
    <3> QED BY <2>2, <2>11, <3>1, <3>2
  <2>13. LinesWhole' /\ Whole(file') = file'
    BY <2>11, <2>12, WholeFile DEF LinesWhole
  <2>14. PICK i, o, i2, o2 \in Nat :
            /\ i = InputOf(file) /\ o = OutputOf(file) /\ i2 = InputOf(file') /\ o2 = OutputOf(file')
            /\ i2 >= i /\ o2 >= o /\ (r.kind = "end" => i2 = i /\ o2 = o)
    <3>1. /\ InputOf(file) \in Nat /\ OutputOf(file) \in Nat
          /\ InputOf(file') \in Nat /\ OutputOf(file') \in Nat
      BY <1>1, <2>11, CountsAreNumbers
    <3>2. r.n \in Nat
      BY RecordKinds
    <3>3. /\ InputOf(file') = InputOf(file) + (IF r.kind = "bytes" /\ r.dir = "in" THEN r.n ELSE 0)
          /\ OutputOf(file') = OutputOf(file) + (IF r.kind = "bytes" /\ r.dir = "out" THEN r.n ELSE 0)
      BY <2>7 DEF Grows
    <3> QED BY <3>1, <3>2, <3>3
  <2>15. \A k, d : /\ RecordsOf(file, k, d) \in Nat /\ RecordsOf(file', k, d) \in Nat
                   /\ RecordsOf(file', k, d) >= RecordsOf(file, k, d)
                   /\ r.kind # k => RecordsOf(file', k, d) = RecordsOf(file, k, d)
    BY <1>1, <2>7, <2>11, CountsAreNumbers DEF Grows
  <2>16. NothingUnrecorded'
    <3>1. sent \in Nat /\ seen \in Nat
      BY DEF OperatorInv, OperatorTables
    <3>2. CASE profile = "terminal"
      <4>1. sent <= i /\ seen <= o
        BY <1>1, <2>14, <3>2, TotalsOf DEF OperatorInv, NothingUnrecorded
      <4>2. sent <= i2 /\ seen <= o2
        BY <2>14, <3>1, <4>1
      <4>3. Totals(file')[1] = i2 /\ Totals(file')[2] = o2
        BY <2>11, <2>14, TotalsOf
      <4> QED BY <1>1, <2>13, <3>2, <4>2, <4>3 DEF NothingUnrecorded
    <3>3. CASE profile = "line"
      <4>1. sent <= RecordsOf(file, "command", {"in"})
        BY <1>1, <3>3 DEF OperatorInv, NothingUnrecorded
      <4>2. sent <= RecordsOf(file', "command", {"in"})
        BY <2>15, <3>1, <4>1
      <4> QED BY <1>1, <2>13, <3>3, <4>2 DEF NothingUnrecorded
    <3> QED BY <1>1, <3>2, <3>3
  <2>17. ASSUME run.stage = "session" PROVE CleanEndsAreTrue' /\ StageGoesOn'
    <3>1. \A n \in 1..Len(file) : file[n].kind # "end"
      BY <2>17, InTheSession
    <3>2. h.kind # "end"
      BY <1>1, <1>2, <2>17, SessionWrites DEF Relays, Forwards, Commands, Answers, Command
    <3>3. file'[Len(file) + 1].kind = h.kind
      BY <1>3, <2>7 DEF Grows
    <3>4. \A n \in 1..Len(file') : file'[n].kind # "end"
      BY <2>11, <3>1, <3>2, <3>3
    <3>5. CleanEndsAreTrue'
      BY <2>13, <3>4 DEF CleanEndsAreTrue
    <3>6. IF profile = "terminal" THEN TerminalGoesOn(s)' ELSE DialogueGoesOn(s)'
      BY <1>1, <1>2, <1>3, <2>5, <2>7, <2>17, TerminalWritten, DialogueWritten
    <3>7. InSession'
      BY <1>1, <2>6, <2>8, <2>10, <2>17, <3>4, <3>6, InTheSession DEF InSession
    <3>8. StageGoesOn'
      BY <1>4, <2>6, <2>17, <3>7 DEF StageGoesOn
    <3> QED BY <3>5, <3>8
  <2>18. ASSUME run.stage \in {"ending", "finally"} PROVE CleanEndsAreTrue' /\ StageGoesOn'
    <3>1. /\ h \in EndRecords
          /\ run.stage = "ending" => /\ Tail(todo) = <<Do("noted")>> /\ ~mem.closed
                                     /\ IF h.dir \in CleanEnds
                                        THEN Idle /\ FailedOf(file) = 0 /\ run.reason = h.dir
                                        ELSE run.reason \notin CleanEnds
          /\ run.stage = "finally" => h.dir \notin CleanEnds /\ Tail(todo) = <<Do("stop")>>
      BY <1>1, <1>2, <2>18, EndWrites
    <3>2. r.kind = "end" /\ AfterChunk(h) = <<>>
      BY <1>3, <3>1 DEF EndRecords
    <3>3. s = Tail(todo)
      BY <1>1, <2>5, <3>2, ConcatEmptySeq
    <3>4. file'[Len(file')].kind = "end" /\ file'[Len(file')].dir = h.dir /\ file' # <<>>
      BY <1>3, <2>7, <3>2 DEF Grows
    <3>5. /\ i2 = i /\ o2 = o /\ CompletedOf(file') = CompletedOf(file) /\ FailedOf(file') = FailedOf(file)
      BY <2>14, <2>15, <3>2 DEF CompletedOf, FailedOf
    <3>6. CleanEndsAreTrue'
      <4>1. SUFFICES ASSUME NEW n \in 1..Len(file'), file'[n].kind = "end", file'[n].dir \in CleanEnds
                     PROVE  IF profile = "terminal" THEN sent = i2 /\ seen = o2
                            ELSE sent = CompletedOf(file') /\ FailedOf(file') = 0
        BY <1>1, <2>13, <2>14 DEF CleanEndsAreTrue
      <4>2. CASE n \in 1..Len(file)
        <5>1. file[n].kind = "end" /\ file[n].dir \in CleanEnds
          BY <2>11, <4>1, <4>2
        <5>2. IF profile = "terminal" THEN sent = i /\ seen = o
              ELSE sent = CompletedOf(file) /\ FailedOf(file) = 0
          BY <1>1, <2>14, <4>2, <5>1 DEF OperatorInv, CleanEndsAreTrue
        <5> QED BY <3>5, <5>2
      <4>3. CASE n = Len(file')
        <5>1. Idle /\ FailedOf(file) = 0
          BY <2>18, <3>1, <3>4, <4>1, <4>3
        <5> QED BY <1>1, <2>14, <3>5, <5>1 DEF Idle
      <4> QED BY <2>11, <4>1, <4>2, <4>3
    <3>7. CASE run.stage = "ending"
      <4>1. run.reason \in CleanEnds => EndedBy(run.reason)'
        BY <2>6, <3>1, <3>4, <3>7 DEF EndedBy
      <4>2. IsEnding'
        BY <1>1, <2>6, <2>10, <3>1, <3>3, <3>7, <4>1 DEF IsEnding, EndedBy
      <4> QED BY <1>4, <2>6, <3>6, <3>7, <4>2 DEF StageGoesOn
    <3>8. CASE run.stage = "finally"
      <4>1. IsLeaving'
        BY <2>10, <3>1, <3>3, <3>8 DEF IsLeaving
      <4> QED BY <1>4, <2>6, <3>6, <3>8, <4>1 DEF StageGoesOn
    <3> QED BY <2>18, <3>7, <3>8
  <2>19. RecorderInStep'
    <3>1. SUFFICES ASSUME Undisturbed'
                   PROVE  /\ Reads(file)'
                          /\ (\E f \in Seq(Lines) : /\ file = Append(f, Line(Head(todo).record))
                                                   /\ InStep(mem, f)
                                                   /\ ~Refused(Head(todo).record))'
      BY <2>10 DEF RecorderInStep
    <3>2. Undisturbed
      BY <2>6, <3>1 DEF Undisturbed, Running
    <3>3. InStep(mem, file) /\ Reads(file)
      BY <1>1, <3>2 DEF OperatorInv, RecorderInStep
    <3>4. Fits(r)
      BY <1>1, <1>2, <1>3, <1>6, <3>2, WritesFit
    <3>5. Reads(file')
      BY <1>1, <1>6, <2>7, <3>3, <3>4, RecorderReads
    <3>6. Reads(file)'
      BY <1>1, <3>5 DEF Reads
    <3>7. Head(todo').record = r
      BY <2>4, <2>9
    <3>8. Line(Head(todo).record)' = l
      BY <1>1, <2>1, <3>7 DEF Line
    <3>9. (~Refused(Head(todo).record))'
      BY <1>1, <1>6, <3>7 DEF Refused, ChunkRefused, ControlRefused, CommandRefused, ResultRefused
    <3>10. PICK f \in Seq(Lines) : f = file
      BY <1>1
    <3>11. InStep(mem, f)'
      BY <1>1, <3>3, <3>10 DEF InStep
    <3>12. (file = Append(f, Line(Head(todo).record)))'
      BY <2>6, <3>8, <3>10
    <3> QED BY <3>6, <3>9, <3>10, <3>11, <3>12
  <2>20. PassedIsReadable' /\ KilledIsReadable'
    BY <1>4, <2>6 DEF PassedIsReadable, KilledIsReadable
  <2>21. OperatorTables'
    BY <1>1, <2>6, <2>9, <2>11 DEF OperatorInv, OperatorTables
  <2> QED BY <1>1, <2>13, <2>16, <2>17, <2>18, <2>19, <2>20, <2>21 DEF OperatorInv
<1> QED BY <1>5, <1>6

------------------------------------------------------------------------------
(* The session. *)

LEMMA EmptyFileIsRead ==
  ASSUME mem = Opened, file = <<>>, profile \in {"terminal", "line"}
  PROVE  Reads(file) /\ InStep(mem, file)
<1>1. PICK f \in Seq(Lines) : f = <<>>
  BY EmptyFile
<1>2. InputOf(f) = 0 /\ OutputOf(f) = 0 /\ \A k, d : RecordsOf(f, k, d) = 0
  BY <1>1, EmptyFile
<1>3. CommandsOf(f) = 0 /\ CompletedOf(f) = 0 /\ FailedOf(f) = 0
  BY <1>2 DEF CommandsOf, CompletedOf, FailedOf
<1>4. Totals(f)[1] = 0 /\ Totals(f)[2] = 0
  BY <1>2, TotalsOf
<1>5. DOMAIN f = {} /\ Len(f) = 0
  BY <1>1
<1>6. EndFits(f)
  BY <1>5 DEF EndFits
<1>7. ReadTerminal(f) /\ ReadDialogue(f)
  BY <1>2, <1>4, <1>5, <1>6, OperatorAssumption
     DEF ReadTerminal, ReadDialogue, TerminalHeader, DialogueHeader
<1>8. InStep(Opened, f)
  BY <1>1, <1>2, <1>3, <1>5 DEF InStep, Opened
<1> QED BY <1>1, <1>7, <1>8 DEF Reads

LEMMA OperatorBegins == ASSUME OperatorInit PROVE OperatorInv
<1>1. /\ profile \in {"terminal", "line"} /\ alive = TRUE /\ printed = <<>> /\ seen = 0 /\ cursor = 0
      /\ typed = 0 /\ todo = Again /\ file = <<>> /\ mem = Opened
      /\ bridge = [input |-> 0, output |-> 0] /\ sent = 0
      /\ run = [stage |-> "opening", reason |-> "none", interrupted |-> FALSE,
                transcript |-> FALSE, outcome |-> "none"]
  BY DEF OperatorInit
<1>2. Again \in Seq(Jobs) /\ Again # <<>> /\ Head(Again).do \in {"relay", "ask"}
  BY <1>1, AgainShape
<1>3. ~Counting
  BY <1>1, <1>2 DEF Counting
<1>4. file \in Seq(Lines) /\ Len(file) = 0 /\ Whole(file) = file
  <2>1. file \in Seq(Lines) /\ Len(file) = 0
    BY <1>1, EmptyFile
  <2> QED BY <1>1, <2>1 DEF Whole
<1>5. InputOf(file) = 0 /\ OutputOf(file) = 0 /\ \A k, d : RecordsOf(file, k, d) = 0
  BY <1>1, EmptyFile
<1>6. OperatorTables
  <2>1. mem \in Recorders
    BY <1>1 DEF Opened, Recorders
  <2>2. run \in Runs
    BY <1>1 DEF Runs, Stages
  <2>3. printed \in Seq({"text", "prompt", "closed"}) /\ Len(printed) = 0
    BY <1>1
  <2> QED BY <1>1, <1>2, <1>4, <2>1, <2>2, <2>3 DEF OperatorTables
<1>7. LinesWhole
  BY <1>4 DEF LinesWhole
<1>8. RecorderInStep
  BY <1>1, <1>3, EmptyFileIsRead DEF RecorderInStep
<1>9. IsOpening
  BY <1>1 DEF IsOpening, Opened
<1>10. StageGoesOn
  BY <1>1, <1>9 DEF StageGoesOn
<1>11. NothingUnrecorded
  <2>1. Totals(file)[1] = 0 /\ Totals(file)[2] = 0
    BY <1>4, <1>5, TotalsOf
  <2> QED BY <1>1, <1>4, <1>5, <2>1 DEF NothingUnrecorded
<1>12. CleanEndsAreTrue
  BY <1>4 DEF CleanEndsAreTrue
<1>13. PassedIsReadable /\ KilledIsReadable
  BY <1>1 DEF PassedIsReadable, KilledIsReadable
<1> QED BY <1>6, <1>7, <1>8, <1>10, <1>11, <1>12, <1>13 DEF OperatorInv

LEMMA OperatorStutters == ASSUME OperatorInv, UNCHANGED operatorVars PROVE OperatorInv'
<1>1. UNCHANGED <<profile, alive, printed, seen, cursor, typed, todo, file, mem, bridge, sent, run>>
  BY DEF operatorVars
<1>2. OperatorTables' /\ LinesWhole'
  BY <1>1 DEF OperatorInv, OperatorTables, LinesWhole, Running
<1>3. (Counting' <=> Counting) /\ Waiting' = Waiting
  BY <1>1 DEF Counting, Waiting
<1>4. RecorderInStep'
  <2>1. SUFFICES ASSUME Undisturbed'
                 PROVE  /\ Reads(file)'
                        /\ IF Counting'
                           THEN (\E f \in Seq(Lines) : /\ file = Append(f, Line(Head(todo).record))
                                                      /\ InStep(mem, f)
                                                      /\ ~Refused(Head(todo).record))'
                           ELSE InStep(mem, file)'
    BY DEF RecorderInStep
  <2>2. Undisturbed
    BY <1>1, <2>1 DEF Undisturbed, Running
  <2>3. Reads(file)'
    BY <1>1, <2>2 DEF OperatorInv, RecorderInStep, Reads
  <2>4. ASSUME Counting
        PROVE  (\E f \in Seq(Lines) : /\ file = Append(f, Line(Head(todo).record))
                                     /\ InStep(mem, f)
                                     /\ ~Refused(Head(todo).record))'
    <3>1. PICK f \in Seq(Lines) : /\ file = Append(f, Line(Head(todo).record)) /\ InStep(mem, f)
                                 /\ ~Refused(Head(todo).record)
      BY <2>2, <2>4 DEF OperatorInv, RecorderInStep
    <3>2. Line(Head(todo).record)' = Line(Head(todo).record)
      BY <1>1 DEF Line
    <3>3. (~Refused(Head(todo).record))'
      BY <1>1, <3>1 DEF Refused, ChunkRefused, ControlRefused, CommandRefused, ResultRefused
    <3>4. InStep(mem, f)'
      BY <1>1, <3>1 DEF InStep
    <3>5. (file = Append(f, Line(Head(todo).record)))'
      BY <1>1, <3>1, <3>2
    <3> QED BY <3>3, <3>4, <3>5
  <2>5. ~Counting => InStep(mem, file)'
    BY <1>1, <2>2 DEF OperatorInv, RecorderInStep, InStep
  <2> QED BY <1>3, <2>3, <2>4, <2>5
<1>5. StageGoesOn'
  <2>1. IsOpening => IsOpening'
    BY <1>1 DEF IsOpening, Again
  <2>2. InSession => InSession'
    <3>1. \A s : TerminalGoesOn(s) => TerminalGoesOn(s)'
      BY <1>1 DEF TerminalGoesOn, AtRest, Displays, Relays, Sends, Forwards, Blocks, Idle
    <3>2. \A s : DialogueGoesOn(s) => DialogueGoesOn(s)'
      BY <1>1 DEF DialogueGoesOn, Commands, Orders, Awaits, Answers, Raises, Idle
    <3> QED BY <1>1, <1>3, <3>1, <3>2 DEF InSession
  <2>3. IsEnding => IsEnding'
    BY <1>1, <1>3 DEF IsEnding, EndedBy, Idle
  <2>4. IsClosing => IsClosing'
    BY <1>1 DEF IsClosing, EndedBy
  <2>5. IsChecking => IsChecking'
    BY <1>1 DEF IsChecking, EndedBy
  <2>6. IsLeaving => IsLeaving'
    BY <1>1, <1>3 DEF IsLeaving
  <2> QED BY <1>1, <1>3, <2>1, <2>2, <2>3, <2>4, <2>5, <2>6 DEF OperatorInv, StageGoesOn
<1>6. NothingUnrecorded' /\ CleanEndsAreTrue'
  BY <1>1 DEF OperatorInv, NothingUnrecorded, CleanEndsAreTrue
<1>7. PassedIsReadable' /\ KilledIsReadable'
  BY <1>1 DEF OperatorInv, PassedIsReadable, KilledIsReadable, Ended, TranscriptAccepted
<1> QED BY <1>2, <1>4, <1>5, <1>6, <1>7 DEF OperatorInv

LEMMA OperatorStepKeeps == ASSUME OperatorInv, [OperatorNext]_operatorVars PROVE OperatorInv'
<1>1. CASE Controller
  BY <1>1, OpenKeeps, WriteRecordKeeps, CountKeeps, RelayOutputKeeps, ShowKeeps, WatchKeeps, SendKeeps,
     RespondKeeps, NoResponseKeeps, DueKeeps, NotedKeeps, CloseKeeps, CheckKeeps, StopKeeps DEF Controller
<1>2. CASE Operator
  BY <1>2, PollKeeps, AskKeeps, ReadKeeps DEF Operator
<1>3. CASE Environment
  BY <1>3, SignalKeeps, KillControllerKeeps, DiesKeeps, PrintsKeeps DEF Environment
<1>4. CASE UNCHANGED operatorVars
  BY <1>4, OperatorStutters
<1> QED BY <1>1, <1>2, <1>3, <1>4 DEF OperatorNext

LEMMA OperatorAlways == OperatorSpec => []OperatorInv
<1>1. OperatorInit => OperatorInv
  BY OperatorBegins
<1>2. OperatorInv /\ [OperatorNext]_operatorVars => OperatorInv'
  BY OperatorStepKeeps
<1> QED BY <1>1, <1>2, PTL DEF OperatorSpec

LEMMA OperatorTyped == ASSUME OperatorInv PROVE OperatorTypeOK
<1>1. OperatorTables
  BY DEF OperatorInv
<1>2. ASSUME NEW r \in ToSet(file) PROVE r.seq \in Nat /\ r.n \in Nat
  <2>1. PICK i \in 1..Len(file) : r = file[i]
    BY <1>1, FileOfLines DEF ToSet, OperatorTables
  <2>2. r \in Lines
    BY <1>1, <2>1, FileOfLines DEF OperatorTables
  <2> QED BY <2>2 DEF Lines
<1>3. mem.next \in Nat
  BY <1>1 DEF OperatorTables, Recorders
<1>4. run.stage \in Stages /\ run.outcome \in {"none", "passed", "failed"}
  BY <1>1 DEF OperatorTables, Runs
<1> QED BY <1>1, <1>2, <1>3, <1>4 DEF OperatorTables, OperatorTypeOK, Stages

LEMMA OperatorTranscript == ASSUME OperatorInv PROVE TranscriptIsTrue /\ TranscriptIsReadable
<1>1. file \in Seq(Lines) /\ profile \in {"terminal", "line"}
  BY DEF OperatorInv, OperatorTables
<1>2. PICK f \in Seq(Lines) : f = Whole(file)
  <2>1. CASE file # <<>> /\ ~Last(file).whole
    <3>1. Front(file) \in Seq(Lines)
      BY <1>1, <2>1, FileOfLines DEF Front
    <3> QED BY <2>1, <3>1 DEF Whole
  <2>2. CASE ~(file # <<>> /\ ~Last(file).whole)
    BY <1>1, <2>2 DEF Whole
  <2> QED BY <2>1, <2>2
<1>3. CleanStreamIsTheSession
  <2>1. SUFFICES ASSUME Ended, Last(f).dir \in CleanEnds
                 PROVE  IF profile = "terminal" THEN sent = Last(f).totals[1] /\ seen = Last(f).totals[2]
                        ELSE sent = Last(f).totals[5] /\ Last(f).totals[6] = Last(f).totals[5]
    BY <1>2 DEF CleanStreamIsTheSession
  <2>2. EndFits(f) /\ f # <<>> /\ Last(f).kind = "end"
    BY <1>1, <1>2, <2>1 DEF Ended, TranscriptAccepted, ReadTerminal, ReadDialogue
  <2>3. Last(f) = f[Len(f)] /\ Len(f) \in DOMAIN f /\ Len(f) \in 1..Len(f)
    BY <2>2, FileOfLines, EmptySeq DEF Last
  <2>4. Last(f).totals = Totals(f)
    BY <2>2, <2>3 DEF EndFits
  <2>5. IF profile = "terminal" THEN sent = InputOf(f) /\ seen = OutputOf(f)
        ELSE sent = CompletedOf(f) /\ FailedOf(f) = 0
    BY <1>2, <2>1, <2>2, <2>3 DEF OperatorInv, CleanEndsAreTrue
  <2>6. /\ Totals(f)[1] = InputOf(f) /\ Totals(f)[2] = OutputOf(f)
        /\ Totals(f)[5] = CompletedOf(f) + FailedOf(f) /\ Totals(f)[6] = CompletedOf(f)
        /\ CompletedOf(f) \in Nat
    BY <1>2, TotalsOf, CountsAreNumbers DEF CompletedOf
  <2> QED BY <1>1, <2>4, <2>5, <2>6
<1> QED BY <1>3, NeverRefused DEF OperatorInv, TranscriptIsTrue, TranscriptIsReadable

(* The variables of a session have their types.                              *)
THEOREM OperatorTypesHold == OperatorSpec => []OperatorTypeOK
BY OperatorAlways, OperatorTyped, PTL

(* However a session goes, and whenever it is killed, its transcript leaves  *)
(* out nothing that was sent or shown, and one that ends cleanly is the      *)
(* session. (run_terminal_bridge, TerminalSessionRecorder)                   *)
THEOREM TranscriptIsAlwaysTrue == OperatorSpec => []TranscriptIsTrue
BY OperatorAlways, OperatorTranscript, PTL

(* The strict reader accepts what the recorder writes, and the recorder      *)
(* refuses nothing that the loop hands to it. (read_terminal_session)        *)
THEOREM TranscriptIsAlwaysReadable == OperatorSpec => []TranscriptIsReadable
BY OperatorAlways, OperatorTranscript, PTL
===============================================================================
