---------------------------- MODULE OperatorSession ----------------------------
(***************************************************************************)
(* One operator session of scripts/pdp11-its-interactive-controller.py: a   *)
(* character terminal (ncc/historical_terminal.py, recorded by              *)
(* ncc/terminal_session.py) or a line-oriented dialogue                     *)
(* (run_operator_session, recorded by ncc/interactive_telnet.py).           *)
(*                                                                         *)
(* The controller is a list of things still to do.  A record costs it two   *)
(* steps: the line is written and flushed, then the sequence number and the *)
(* totals advance; a signal or a kill falls between any two steps.  Bytes   *)
(* carry no content: what is recorded, sent and displayed is a number of    *)
(* bytes of one direction, in order.  In a dialogue the console prints      *)
(* items, and an item may be the prompt pattern or the report of a closed   *)
(* connection.  The terminal is the one with the cut key, the version-2     *)
(* stream; without the key it is the same loop with fewer controls.         *)
(***************************************************************************)
EXTENDS Integers, Sequences, FiniteSets, SequencesExt

CONSTANTS
  MaxInput, MaxOutput, MaxChunk,   \* the limits of a terminal session, in bytes
  MaxCommands, MaxResponse,        \* the limits of a dialogue, in commands and items
  MaxTyped, MaxPrinted             \* bounds: reads from the operator, items printed

ASSUME OperatorAssumption ==
  /\ MaxInput \in Nat /\ MaxOutput \in Nat /\ MaxChunk \in Nat \ {0}
  /\ MaxCommands \in Nat /\ MaxResponse \in Nat

VARIABLES
  profile,   \* "terminal" or "line": what the header of the stream declares
  alive,     \* the PDP-11 simulator runs
  printed,   \* what it has printed since the session began
  seen,      \* position of the terminal loop in it
  cursor,    \* end of the last match of expect_any in it
  typed,     \* reads from the operator so far
  todo,      \* what the controller has still to do
  file,      \* the records of the stream
  mem,       \* the recorder object
  bridge,    \* the loop's own totals: input_bytes, output_bytes
  sent,      \* bytes or commands sent to the guest
  run        \* stage, session_reason, interrupted, transcript_terminal, outcome

operatorVars == <<profile, alive, printed, seen, cursor, typed, todo, file, mem, bridge, sent, run>>

CleanEnds == {"operator-exit", "input-eof", "operator-quit", "max-commands"}
Statuses == {"complete", "interrupted", "response-limit", "session-closed", "timeout"}

Do(what) == [do |-> what]
Again == IF profile = "terminal" THEN <<Do("relay"), Do("watch"), Do("ask")>>
         ELSE <<Do("ask")>>

Controls == {"blocked-or-rejected", "application-link-cut"}

(* What the rest of the program reads in a header: its limits. *)
TerminalHeader == [input |-> MaxInput, output |-> MaxOutput, chunk |-> MaxChunk]
DialogueHeader == [commands |-> MaxCommands, response |-> MaxResponse]

(* The recorder as its constructor leaves it. *)
Opened ==
  [next |-> 1, input |-> 0, output |-> 0, data |-> 0, control |-> 0, commands |-> 0,
   completed |-> 0, failed |-> 0, pending |-> FALSE, done |-> FALSE, closed |-> FALSE]

OperatorInit ==
  /\ profile \in {"terminal", "line"}
  /\ alive = TRUE
  /\ printed = <<>> /\ seen = 0 /\ cursor = 0 /\ typed = 0
  /\ todo = Again /\ file = <<>> /\ mem = Opened
  /\ bridge = [input |-> 0, output |-> 0]
  /\ sent = 0
  /\ run = [stage |-> "opening", reason |-> "none", interrupted |-> FALSE,
            transcript |-> FALSE, outcome |-> "none"]

------------------------------------------------------------------------------
(* The recorders. *)

Bytes(dir, n) == [do |-> "write", kind |-> "bytes", dir |-> dir, n |-> n]
Control(name) == [do |-> "write", kind |-> "control", dir |-> name, n |-> 1]
Command == [do |-> "write", kind |-> "command", dir |-> "in", n |-> 1]
Result(status, n, framed) ==
  [do |-> "write", kind |-> "result", dir |-> status, n |-> n, framed |-> framed]

(* A byte string is recorded in chunks: the next of them, and what is left.  *)
Chunk(r) ==
  IF r.kind = "bytes" /\ r.n > MaxChunk THEN [r EXCEPT !.n = MaxChunk] ELSE r
AfterChunk(r) ==
  IF r.kind = "bytes" /\ r.n > MaxChunk THEN <<[r EXCEPT !.n = @ - MaxChunk]>> ELSE <<>>

(* What a recorder refuses to append. *)
ChunkRefused(r) ==
  r.kind = "bytes" /\ IF r.dir = "in" THEN mem.input + r.n > MaxInput
                                      ELSE mem.output + r.n > MaxOutput
ControlRefused(r) == r.kind = "control" /\ r.dir \notin Controls
CommandRefused(r) ==
  r.kind = "command" /\ (mem.pending \/ mem.failed > 0 \/ mem.commands >= MaxCommands)
ResultRefused(r) == r.kind = "result" /\ (~mem.pending \/ r.n > MaxResponse)
Refused(r) ==
  \/ mem.closed \/ mem.done
  \/ ChunkRefused(r) \/ ControlRefused(r) \/ CommandRefused(r) \/ ResultRefused(r)
  \/ r.kind = "end" /\ mem.pending

Counted(r) ==
  CASE r.kind = "bytes" /\ r.dir = "in" -> [mem EXCEPT !.data = @ + 1, !.input = @ + r.n]
    [] r.kind = "bytes" /\ r.dir = "out" -> [mem EXCEPT !.data = @ + 1, !.output = @ + r.n]
    [] r.kind = "control" -> [mem EXCEPT !.control = @ + 1]
    [] r.kind = "command" -> [mem EXCEPT !.commands = @ + 1, !.pending = TRUE]
    [] r.kind = "result" /\ r.dir = "complete" ->
         [mem EXCEPT !.pending = FALSE, !.completed = @ + 1]
    [] r.kind = "result" /\ r.dir # "complete" ->
         [mem EXCEPT !.pending = FALSE, !.failed = @ + 1]
    [] r.kind = "end" -> [mem EXCEPT !.done = TRUE]

(* The record as the line of the file holds it; the end record carries the   *)
(* totals of the recorder.                                                    *)
Line(r) ==
  [kind |-> r.kind, dir |-> r.dir, n |-> r.n, seq |-> mem.next, whole |-> TRUE,
   framed |-> r.kind # "result" \/ r.framed,
   totals |-> IF r.kind # "end" THEN <<>>
              ELSE <<mem.input, mem.output, mem.data, mem.control,
                     mem.commands, mem.completed, mem.failed>>]

EndRecord(reason) == [do |-> "write", kind |-> "end", dir |-> reason, n |-> 0]

------------------------------------------------------------------------------
(* The readers. *)

RecordsOf(f, k, d) == Cardinality({i \in DOMAIN f : f[i].kind = k /\ f[i].dir \in d})

(* The bytes of one direction, each by its record and its place in it.       *)
BytesOf(f, d) ==
  UNION {{i} \X (1..f[i].n) : i \in {i \in DOMAIN f : f[i].kind = "bytes" /\ f[i].dir = d}}

Totals(f) ==
  <<Cardinality(BytesOf(f, "in")), Cardinality(BytesOf(f, "out")),
    RecordsOf(f, "bytes", {"in", "out"}), RecordsOf(f, "control", Controls),
    RecordsOf(f, "result", Statuses), RecordsOf(f, "result", {"complete"}),
    RecordsOf(f, "result", Statuses \ {"complete"})>>

(* A line without its newline is dropped, and only the last can be one. *)
Whole(f) == IF f # <<>> /\ ~Last(f).whole THEN Front(f) ELSE f

EndFits(f) ==
  \A i \in DOMAIN f : f[i].kind = "end" =>
    /\ i = Len(f) /\ f[i].totals = Totals(f)
    /\ f[i].dir \in {"operator-quit", "input-eof", "max-commands"} => Totals(f)[7] = 0

ReadTerminal(f) ==
  /\ \A i \in DOMAIN f :
       /\ f[i].seq = i
       /\ f[i].kind \in {"bytes", "control", "end"}
       /\ f[i].kind = "control" => f[i].dir \in Controls
       /\ f[i].kind = "bytes" => f[i].n \in 1..TerminalHeader.chunk
  /\ Totals(f)[1] <= TerminalHeader.input /\ Totals(f)[2] <= TerminalHeader.output
  /\ EndFits(f)

Before(f, i) == IF i = 1 THEN [kind |-> "result", dir |-> "complete"] ELSE f[i - 1]
ReadDialogue(f) ==
  /\ \A i \in DOMAIN f :
       /\ f[i].seq = i
       /\ f[i].kind \in {"command", "result", "end"}
       /\ Before(f, i).kind = (IF f[i].kind = "result" THEN "command" ELSE "result")
       /\ f[i].kind = "result" => f[i].n <= DialogueHeader.response
       /\ f[i].kind = "command" => Before(f, i).dir = "complete"
  /\ RecordsOf(f, "command", {"in"}) <= DialogueHeader.commands
  /\ EndFits(f)

TranscriptAccepted ==
  IF profile = "terminal" THEN ReadTerminal(Whole(file)) ELSE ReadDialogue(Whole(file))
Ended == TranscriptAccepted /\ Whole(file) # <<>> /\ Last(Whole(file)).kind = "end"

------------------------------------------------------------------------------
(* The guest.  What it does while a record is written or counted is not      *)
(* looked at before the next of these steps, and is modelled there.           *)

Looks == run.stage = "session" /\ Head(todo).do \in {"relay", "watch", "ask", "send", "reply"}

Prints(item) ==
  /\ alive /\ Looks /\ Len(printed) < MaxPrinted
  /\ profile = "terminal" => item = "text"
  /\ printed' = Append(printed, item)
  /\ UNCHANGED <<profile, alive, seen, cursor, typed, todo, file, mem, bridge, sent, run>>

Dies ==
  /\ alive /\ Looks
  /\ alive' = FALSE
  /\ UNCHANGED <<profile, printed, seen, cursor, typed, todo, file, mem, bridge, sent, run>>

------------------------------------------------------------------------------
(* How a session ends: the stream is completed, noted as complete, closed,   *)
(* read back, and in the last finally clause completed once more if it was   *)
(* not.  An exception goes to the next of these.                             *)

Ending(reason) == <<EndRecord(reason), Do("noted")>>
LastTry(reason) ==
  IF run.transcript THEN <<Do("stop")>> ELSE <<EndRecord(reason), Do("stop")>>

Go(stage, reason, list) ==
  /\ run' = [run EXCEPT !.stage = stage, !.reason = reason]
  /\ todo' = list
Return(reason) == Go("ending", reason, Ending(reason))

Handler(reason) ==
  CASE run.stage = "session" -> [stage |-> "ending", todo |-> Ending(reason)]
    [] run.stage = "ending" -> [stage |-> "closing", todo |-> <<Do("close")>>]
    [] run.stage \in {"opening", "closing", "checking"} ->
         [stage |-> "finally", todo |-> LastTry(reason)]
    [] run.stage = "finally" -> [stage |-> "finally", todo |-> <<Do("stop")>>]
Throw(reason, signalled) ==
  /\ run' = [run EXCEPT !.stage = Handler(reason).stage, !.reason = "raised",
                        !.interrupted = signalled]
  /\ todo' = Handler(reason).todo
Raise(reason) == Throw(reason, run.interrupted)

(* A dialogue does not expect its recorder to refuse. *)
RecorderRaises ==
  IF run.stage = "session" /\ profile = "line"
  THEN Go("closing", "raised", <<Do("close")>>)
  ELSE Raise("failed")

Doing(what) == run.stage # "over" /\ Head(todo).do = what

(* What has been printed since the command, as the result of the command.    *)
Cut(from, status) ==
  LET n == Len(printed) - from
  IN <<IF n > MaxResponse THEN Result("response-limit", MaxResponse, TRUE)
                          ELSE Result(status, n, TRUE),
       [do |-> "raise", reason |-> IF status = "timeout" THEN "failed" ELSE status]>>

(* The handler acts on one signal; what the last clause does after it is the *)
(* subject of module Workspace.                                               *)
Signal ==
  /\ run.stage # "over" /\ ~run.interrupted /\ ~Doing("stop")
  /\ IF Doing("reply")
     THEN /\ todo' = Cut(Head(todo).from, "interrupted")
          /\ run' = [run EXCEPT !.interrupted = TRUE]
     ELSE Throw("interrupted", TRUE)
  /\ UNCHANGED <<profile, alive, printed, seen, cursor, typed, file, mem, bridge, sent>>

(* Killed, perhaps in the middle of a line: the file is what is left. *)
KillOperatorController ==
  /\ run.stage # "over"
  /\ run' = [run EXCEPT !.stage = "over", !.reason = "killed", !.outcome = "none"]
  /\ file' \in {file} \cup (IF Doing("write") /\ ~Refused(Chunk(Head(todo)))
                            THEN {Append(file, [Line(Chunk(Head(todo))) EXCEPT !.whole = FALSE])}
                            ELSE {})
  /\ todo' = <<>> /\ mem' = Opened /\ bridge' = [input |-> 0, output |-> 0]
  /\ UNCHANGED <<profile, alive, printed, seen, cursor, typed, sent>>

------------------------------------------------------------------------------
(* The steps of the controller. *)

(* A terminal that is no TTY is refused after the recorder is open. *)
Open ==
  /\ run.stage = "opening"
  /\ \/ Go("session", "none", Again)
     \/ profile = "terminal" /\ Raise("failed")
  /\ UNCHANGED <<profile, alive, printed, seen, cursor, typed, file, mem, bridge, sent>>

WriteRecord ==
  /\ Doing("write")
  /\ LET r == Chunk(Head(todo))
     IN IF Refused(r) THEN RecorderRaises /\ UNCHANGED file
        ELSE /\ file' = Append(file, Line(r))
             /\ todo' = <<[do |-> "count", record |-> r]>> \o AfterChunk(Head(todo)) \o Tail(todo)
             /\ UNCHANGED run
  /\ UNCHANGED <<profile, alive, printed, seen, cursor, typed, mem, bridge, sent>>

(* Mutant: a control record does not take its number. *)
CountUnnumbered ==
  /\ Doing("count")
  /\ LET r == Head(todo).record
     IN mem' = [Counted(r) EXCEPT !.next = IF r.kind = "control" THEN @ ELSE @ + 1]
  /\ todo' = Tail(todo)
  /\ UNCHANGED <<profile, alive, printed, seen, cursor, typed, file, bridge, sent, run>>

Count ==
  /\ Doing("count")
  /\ mem' = [Counted(Head(todo).record) EXCEPT !.next = @ + 1]
  /\ todo' = Tail(todo)
  /\ UNCHANGED <<profile, alive, printed, seen, cursor, typed, file, bridge, sent, run>>

(* Mutant: the limit is compared before the new bytes are added. *)
InputSpent(n) == bridge.input > MaxInput

OverOutput(n) == bridge.output + n > MaxOutput
OverInput(n) == bridge.input + n > MaxInput

(* relay_output: what is new is recorded, then displayed; what would pass    *)
(* the limit is not recorded at all.                                          *)
RelayOutput ==
  /\ run.stage = "session" /\ Doing("relay")
  /\ LET n == Len(printed) - seen
     IN IF OverOutput(n) THEN Return("output-limit")
        ELSE /\ todo' = (IF n = 0 THEN <<>> ELSE <<Bytes("out", n), [do |-> "show", n |-> n]>>)
                          \o Tail(todo)
             /\ UNCHANGED run
  /\ UNCHANGED <<profile, alive, printed, seen, cursor, typed, file, mem, bridge, sent>>

(* Mutant: the position is advanced for the record and again for the display. *)
ShowTwice ==
  /\ Doing("show")
  /\ bridge' = [bridge EXCEPT !.output = @ + Head(todo).n]
  /\ seen' = seen + 2 * Head(todo).n
  /\ todo' = Tail(todo)
  /\ UNCHANGED <<profile, alive, printed, cursor, typed, file, mem, sent, run>>

Show ==
  /\ Doing("show")
  /\ bridge' = [bridge EXCEPT !.output = @ + Head(todo).n]
  /\ seen' = seen + Head(todo).n
  /\ \/ todo' = Tail(todo) /\ UNCHANGED run
     \/ Raise("failed")
  /\ UNCHANGED <<profile, alive, printed, cursor, typed, file, mem, sent>>

(* Mutant: the loop does not look at the process. *)
WatchNothing ==
  /\ run.stage = "session" /\ Doing("watch")
  /\ todo' = Tail(todo)
  /\ UNCHANGED <<profile, alive, printed, seen, cursor, typed, file, mem, bridge, sent, run>>

Watch ==
  /\ run.stage = "session" /\ Doing("watch")
  /\ IF alive THEN todo' = Tail(todo) /\ UNCHANGED run ELSE Return("process-exit")
  /\ UNCHANGED <<profile, alive, printed, seen, cursor, typed, file, mem, bridge, sent>>

(* select reports nothing, or the input has ended. *)
Poll ==
  /\ run.stage = "session" /\ profile = "terminal" /\ Doing("ask")
  /\ \/ todo' = Again /\ UNCHANGED run
     \/ Return("input-eof")
  /\ UNCHANGED <<profile, alive, printed, seen, cursor, typed, file, mem, bridge, sent>>

(* One read, after the keyboard profile has been applied: bytes to forward,  *)
(* what was blocked or rejected, and the key that ended it.                   *)
Prepared ==
  [forward : 0..2, refused : BOOLEAN, key : {"none", "exit", "cut"}]

(* Mutant: the bytes are sent before they are recorded. *)
SendFirst(n) == IF n = 0 THEN <<>> ELSE <<[do |-> "send", n |-> n], Bytes("in", n)>>

Forwarding(n) == IF n = 0 THEN <<>> ELSE <<Bytes("in", n), [do |-> "send", n |-> n]>>

Read(p) ==
  /\ run.stage = "session" /\ profile = "terminal" /\ Doing("ask")
  /\ typed < MaxTyped
  /\ typed' = typed + 1
  /\ todo' =
       (IF p.refused THEN <<Control("blocked-or-rejected")>> ELSE <<>>)
       \o (IF OverInput(p.forward)
           THEN <<[do |-> "return", reason |-> "input-limit"]>>
           ELSE Forwarding(p.forward)
                \o (IF p.key = "cut" THEN <<Control("application-link-cut")>> ELSE <<>>)
                \o (IF p.key = "exit"
                    THEN <<Do("relay"), [do |-> "return", reason |-> "operator-exit"]>>
                    ELSE Again))
  /\ UNCHANGED <<profile, alive, printed, seen, cursor, file, mem, bridge, sent, run>>

(* Mutant: a stopped guest takes the bytes without a complaint. *)
SendQuietly ==
  /\ Doing("send")
  /\ sent' = IF alive THEN sent + Head(todo).n ELSE sent
  /\ bridge' = [bridge EXCEPT !.input = @ + Head(todo).n]
  /\ todo' = Tail(todo)
  /\ UNCHANGED <<profile, alive, printed, seen, cursor, typed, file, mem, run>>

Send ==
  /\ Doing("send")
  /\ IF alive
     THEN /\ sent' = sent + Head(todo).n
          /\ bridge' = [bridge EXCEPT !.input = @ + Head(todo).n]
          /\ todo' = Tail(todo) /\ UNCHANGED run
     ELSE Raise("failed") /\ UNCHANGED <<sent, bridge>>
  /\ UNCHANGED <<profile, alive, printed, seen, cursor, typed, file, mem>>

(* One line of a dialogue.  A local command or a line that is not printable  *)
(* is answered locally and changes nothing.                                   *)
Ask ==
  /\ run.stage = "session" /\ profile = "line" /\ Doing("ask")
  /\ IF mem.completed >= MaxCommands THEN Return("max-commands")
     ELSE \/ \E reason \in {"operator-quit", "input-eof"} : Return(reason)
          \/ /\ todo' = <<Command, [do |-> "send", n |-> 1],
                          [do |-> "reply", from |-> Len(printed)]>>
             /\ UNCHANGED run
  /\ UNCHANGED <<profile, alive, printed, seen, cursor, typed, file, mem, bridge, sent>>

(* expect_any looks for the prompt from its own cursor on; the capture is    *)
(* cut from the offset taken before the command, by the Python slice rules.  *)
Matches == {i \in cursor + 1..Len(printed) : printed[i] # "text"}
Framed(from, end) ==
  IF end >= from THEN end - from
  ELSE LET left == (Len(printed) - from) + (end - from) IN IF left > 0 THEN left ELSE 0

Respond ==
  /\ Doing("reply") /\ Matches # {}
  /\ LET from == Head(todo).from
         end == CHOOSE i \in Matches : \A j \in Matches : i <= j
         n == Framed(from, end)
         fails == <<[do |-> "raise", reason |-> "failed"]>>
     IN /\ cursor' = end
        /\ todo' = IF n > MaxResponse
                   THEN <<Result("response-limit", MaxResponse, TRUE)>> \o fails
                   ELSE IF printed[end] = "closed"
                   THEN <<Result("session-closed", n, TRUE)>> \o fails
                   ELSE <<Result("complete", n, end > from)>> \o Again
  /\ UNCHANGED <<profile, alive, printed, seen, typed, file, mem, bridge, sent, run>>

(* No match: the wait is over with the process, or with the timeout. *)
NoResponse ==
  /\ Doing("reply") /\ Matches = {}
  /\ IF alive THEN todo' = Cut(Head(todo).from, "timeout") /\ UNCHANGED run
              ELSE Raise("failed")
  /\ UNCHANGED <<profile, alive, printed, seen, cursor, typed, file, mem, bridge, sent>>

(* A return or a raise that was due after some records. *)
Due ==
  /\ run.stage = "session"
  /\ \/ Doing("return") /\ Return(Head(todo).reason)
     \/ Doing("raise") /\ Raise(Head(todo).reason)
  /\ UNCHANGED <<profile, alive, printed, seen, cursor, typed, file, mem, bridge, sent>>

Noted ==
  /\ Doing("noted")
  /\ run' = [run EXCEPT !.transcript = TRUE, !.stage = "closing"]
  /\ todo' = <<Do("close")>>
  /\ UNCHANGED <<profile, alive, printed, seen, cursor, typed, file, mem, bridge, sent>>

Close ==
  /\ Doing("close")
  /\ mem' = [mem EXCEPT !.closed = TRUE]
  /\ IF run.reason \in CleanEnds THEN Go("checking", run.reason, <<Do("check")>>)
                                 ELSE Go("finally", "raised", LastTry("failed"))
  /\ UNCHANGED <<profile, alive, printed, seen, cursor, typed, file, bridge, sent>>

(* Mutant: a dialogue without a completed command is good enough. *)
ReadAnything == Ended /\ (profile = "terminal" => Last(file).dir = run.reason)

ReadBack ==
  /\ Ended
  /\ profile = "terminal" => Last(file).dir = run.reason
  /\ profile = "line" => Totals(file)[6] >= 1 /\ Totals(file)[7] = 0

(* The transcript is read back; the other evidence may be there or not. *)
Check ==
  /\ Doing("check")
  /\ \/ /\ ReadBack
        /\ run' = [run EXCEPT !.stage = "finally", !.outcome = "passed"]
        /\ todo' = LastTry("failed")
     \/ Raise("failed")
  /\ UNCHANGED <<profile, alive, printed, seen, cursor, typed, file, mem, bridge, sent>>

Stop ==
  /\ Doing("stop")
  /\ run' = [run EXCEPT !.stage = "over", !.outcome = IF @ = "passed" THEN @ ELSE "failed"]
  /\ mem' = [mem EXCEPT !.closed = TRUE]
  /\ UNCHANGED <<profile, alive, printed, seen, cursor, typed, todo, file, bridge, sent>>

Controller ==
  \/ Open \/ WriteRecord \/ Count \/ RelayOutput \/ Show \/ Watch \/ Send
  \/ Respond \/ NoResponse \/ Due \/ Noted \/ Close \/ Check \/ Stop
Operator == Poll \/ Ask \/ \E p \in Prepared : Read(p)
Environment ==
  Signal \/ KillOperatorController \/ Dies \/ \E item \in {"text", "prompt", "closed"} : Prints(item)
OperatorNext == Controller \/ Operator \/ Environment

(* The controller goes on as long as it is not stopped; its waits end by     *)
(* their timeouts.  The operator owes nothing, but select comes back.         *)
OperatorSpec == OperatorInit /\ [][OperatorNext]_operatorVars /\ WF_operatorVars(Controller) /\ WF_operatorVars(Poll)

------------------------------------------------------------------------------
OperatorTypeOK ==
  /\ profile \in {"terminal", "line"} /\ alive \in BOOLEAN
  /\ seen \in 0..Len(printed) /\ cursor \in 0..Len(printed)
  /\ \A r \in ToSet(file) : r.seq \in Nat /\ r.n \in Nat
  /\ sent \in Nat /\ bridge \in [input : Nat, output : Nat] /\ mem.next \in Nat
  /\ run.stage \in {"opening", "session", "ending", "closing", "checking", "finally", "over"}
  /\ run.outcome \in {"none", "passed", "failed"}

(* What the guest has been sent and the operator has been shown is on whole  *)
(* lines of the file.                                                        *)
NothingUnrecorded ==
  IF profile = "terminal"
  THEN sent <= Totals(Whole(file))[1] /\ seen <= Totals(Whole(file))[2]
  ELSE sent <= RecordsOf(Whole(file), "command", {"in"})

(* A stream that is read back as ended by the operator or by the limit of    *)
(* commands is the session: nothing recorded was not sent, nothing shown is  *)
(* missing, every command has its result.                                     *)
CleanStreamIsTheSession ==
  Ended /\ Last(Whole(file)).dir \in CleanEnds =>
    LET t == Last(Whole(file)).totals
    IN IF profile = "terminal" THEN sent = t[1] /\ seen = t[2]
       ELSE sent = t[5] /\ t[6] = t[5]

(* The transcript is the session: at every moment, and so after a kill at any *)
(* moment, it leaves out nothing that was sent or shown; and where it ends    *)
(* cleanly, nothing of it did not happen. (TerminalSessionRecorder, record)   *)
TranscriptIsTrue == NothingUnrecorded /\ CleanStreamIsTheSession

(* The loop and its recorder keep the same limits in two places: the loop    *)
(* never hands the recorder anything it refuses.                              *)
RecorderNeverRefuses ==
  run.stage = "session" /\ Doing("write") => ~Refused(Chunk(Head(todo)))

(* A session passes only with a stream its reader accepts to the end, ended  *)
(* the way the session ended.                                                 *)
PassedIsReadable ==
  run.outcome = "passed" =>
    Ended /\ Last(file).dir \in CleanEnds
          /\ (profile = "line" => Last(file).totals[6] > 0)

(* A kill leaves a stream its reader accepts as far as it goes. *)
KilledIsReadable == run.reason = "killed" /\ ~run.interrupted => TranscriptAccepted

(* The strict reader accepts what the recorder writes: of a session that      *)
(* passed to its end, of one that was killed as far as it goes, and no limit  *)
(* of the recorder is one that the loop runs into. (read_terminal_session)    *)
TranscriptIsReadable == RecorderNeverRefuses /\ PassedIsReadable /\ KilledIsReadable

(* Once interrupted, or without its guest at the terminal, a session is over *)
(* after finitely many steps, whatever the operator does.                     *)
SessionEnds ==
  run.interrupted \/ (~alive /\ profile = "terminal") ~> run.stage = "over"

(* "A complete response is the exact PDP-11 console slice through the next    *)
(* documented DDT prompt." (docs/adr/0014, line 23)                           *)
CompleteIsFramed ==
  \A r \in ToSet(file) : r.kind = "result" /\ r.dir = "complete" => r.framed
================================================================================
