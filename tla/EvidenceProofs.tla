---------------------------- MODULE EvidenceProofs ----------------------------
(***************************************************************************)
(* MediaInv and TwoItsInv are inductive, and with the invariants of the    *)
(* session and of the interface they hold of the four together.            *)
(*                                                                         *)
(* Media.  What is removed stays accounted for by a note that survives,    *)
(* and a note that is final says what has been removed, for any number of  *)
(* helpers, results and images.  No lock keeps two helpers apart.  What    *)
(* does is the note: it is created exclusively, and from then on only the  *)
(* helper that made it changes it.  So the invariant says, for each helper *)
(* by itself, what its notes hold at each point, and a step of a helper    *)
(* disturbs nobody else's.                                                 *)
(*                                                                         *)
(* Stream.  What was published is valid by itself (MadeIsValid) and as     *)
(* long as no signal has struck between the two halves of a publication    *)
(* the file is a beginning of it, short of the last at most                *)
(* (StreamFollows).  Where the controller is in its plan bounds how much   *)
(* it has published (ControllerInPlan), for any number of faults and ticks.*)
(*                                                                         *)
(* Verdicts.  A launcher whose status is 0 came through the judgement of a *)
(* controller that passed (PassedWasJudged).  Nothing but the launcher     *)
(* writes terminal records, only after the controller is gone, and the     *)
(* exit status is the last of them (RecordsInOrder); so a manifest that is *)
(* complete is the whole of it, whenever it was read (CompleteIsFinal).    *)
(***************************************************************************)
EXTENDS MCEvidence, OperatorSessionProofs, HostIngressProofs,
        SequenceTheorems, FiniteSetTheorems, TLAPS

MediaTables ==
  /\ plan = [h \in Helpers |-> plan[h]]
  /\ runs \in [Helpers -> SUBSET Results]
  /\ items \in [Helpers -> SUBSET Images]
  /\ notes \in [Helpers -> SUBSET Results]
  /\ removed \in [Helpers -> SUBSET Images]

HelperEnded == {"final"} \cup Over

(* A complete note of a helper, that lists what it selected in the result.   *)
Written(n, h, r) ==
  /\ n.status \notin {"none", "empty"} /\ n.by = h
  /\ n.selected = {f \in Files : <<r, f>> \in DOMAIN plan[h]}

Stands(h, r) == Written(note[r], h, r) /\ Written(flushed[r], h, r)

(* How far a helper is tells what it has made and what it has removed.       *)
Progress(h) ==
  /\ pc[h] \notin {"remove"} \cup HelperEnded => removed[h] = {}
  /\ pc[h] \in {"inspect", "admit"} => notes[h] = {}
  /\ pc[h] \in {"inspect", "admit", "notes", "write"} => items[h] = {}
  /\ pc[h] \in {"notes", "write"} => notes[h] \cup runs[h] = Planned(h)
  /\ pc[h] \in {"unnote", "final"} => runs[h] \subseteq notes[h]
  /\ pc[h] \in {"verify", "remove"} => notes[h] = Planned(h)

(* The notes a helper knows of, and all it has made once it removes, stand.  *)
NotesStand(h) ==
  /\ \A r \in notes[h] : Stands(h, r)
  /\ removed[h] # {} \/ pc[h] \in {"verify", "remove", "final"} =>
       \A r \in Planned(h) : Stands(h, r)

(* The note it is about to write is its own.                                 *)
NoteOpened(h) ==
  pc[h] = "write" => \A r \in Results : Foremost(r, runs[h]) =>
                       note[r].status = "empty" /\ note[r].by = h

(* While it works, it knows of every note that is its own.                   *)
Listed(h) ==
  pc[h] \notin HelperEnded => \A r \in Results :
    note[r].status # "none" /\ note[r].by = h =>
      r \in notes[h] \/ (pc[h] = "write" /\ Foremost(r, runs[h]))

HelperInv(h) == Progress(h) /\ NotesStand(h) /\ NoteOpened(h) /\ Listed(h)

(* A final note tells what its writer has removed, and the writer removes    *)
(* nothing more.                                                             *)
Tells(n, r, at, taken) ==
  n.status \in Final =>
    /\ at[n.by] \in HelperEnded
    /\ n.removed = {f \in Files : <<r, f>> \in taken[n.by]}
    /\ n.status = "completed" <=> n.selected \subseteq n.removed
    /\ n.status = "aborted" <=> n.removed = {}

FinalNotesTrue ==
  \A r \in Results : Tells(note[r], r, pc, removed) /\ Tells(flushed[r], r, pc, removed)

MediaInv ==
  /\ TypeOK /\ MediaTables
  /\ \A h \in Helpers : HelperInv(h)
  /\ FinalNotesTrue

------------------------------------------------------------------------------
(* What a note is. *)

LEMMA NoteFacts ==
  ASSUME NEW n \in Notes
  PROVE  /\ n.status \in {"none", "empty", "pending"} \cup Final
         /\ n.status = "none" <=> n = NoNote
         /\ n.status # "none" => n.by \in Helpers
BY DEF Notes, NoNote, Final

(* The loops visit one result at a time. *)
LEMMA OneForemost ==
  ASSUME NEW S, S \subseteq Results,
         NEW r \in Results, NEW q \in Results, Foremost(r, S), Foremost(q, S)
  PROVE  r = q
<1>1. Results \subseteq Nat
  BY ImagesAssumption DEF Results
<1> QED BY <1>1 DEF Foremost

LEMMA ImageIsPair ==
  ASSUME NEW i \in Images
  PROVE  /\ i = <<i[1], i[2]>> /\ i[1] \in Results /\ i[2] \in Files
BY ImagesAssumption DEF Results, Files

(* What Note makes is a note. *)
LEMMA NoteIsTyped ==
  ASSUME NEW h \in Helpers, NEW r \in Results,
         NEW status \in {"empty", "pending"} \cup Final
  PROVE  /\ Note(h, status, r) \in Notes
         /\ Note(h, status, r).status = status
         /\ Note(h, status, r).by = h
         /\ Note(h, status, r).selected = {f \in Files : <<r, f>> \in DOMAIN plan[h]}
         /\ Note(h, status, r).removed = {f \in Files : <<r, f>> \in removed[h]}
BY DEF Note, Notes

------------------------------------------------------------------------------
(* What a step of one helper leaves alone. *)

(* The tables of the other helpers are untouched. *)
OthersKept(h) ==
  \A p \in Helpers \ {h} :
    /\ pc'[p] = pc[p] /\ plan'[p] = plan[p] /\ runs'[p] = runs[p]
    /\ items'[p] = items[p] /\ notes'[p] = notes[p] /\ removed'[p] = removed[p]

(* A note that changes was nobody's or its own, and is one of these after. *)
OwnNotesOnly(h) ==
  \A r \in Results :
    \/ note'[r] = note[r] /\ flushed'[r] = flushed[r]
    \/ /\ note[r].status = "none" \/ note[r].by = h
       /\ note'[r].status = "none" \/ note'[r].by = h
       /\ flushed'[r] \in {flushed[r], note'[r]}

(* What holds of another helper keeps holding. *)
LEMMA OthersInv ==
  ASSUME NEW h \in Helpers, OthersKept(h), OwnNotesOnly(h), TypeOK,
         NEW p \in Helpers \ {h}, HelperInv(p)
  PROVE  HelperInv(p)'
<1>0. /\ pc'[p] = pc[p] /\ plan'[p] = plan[p] /\ runs'[p] = runs[p]
      /\ items'[p] = items[p] /\ notes'[p] = notes[p] /\ removed'[p] = removed[p]
      /\ Planned(p)' = Planned(p)
  BY DEF OthersKept, Planned
<1>1. Progress(p)'
  BY <1>0 DEF HelperInv, Progress
<1>2. ASSUME NEW r \in Results, Stands(p, r)
      PROVE  Stands(p, r)'
  <2>1. note'[r] = note[r] /\ flushed'[r] = flushed[r]
    BY <1>2 DEF Stands, Written, OwnNotesOnly
  <2> QED BY <1>0, <1>2, <2>1 DEF Stands, Written
<1>3. notes[p] \subseteq Results /\ Planned(p) \subseteq Results
  BY DEF TypeOK, Planned, Results, Selectable
<1>4. NotesStand(p)'
  BY <1>0, <1>2, <1>3 DEF HelperInv, NotesStand
<1>5. NoteOpened(p)'
  <2> SUFFICES ASSUME pc[p] = "write", NEW r \in Results, Foremost(r, runs[p])
               PROVE  note'[r].status = "empty" /\ note'[r].by = p
    BY <1>0 DEF NoteOpened, Foremost
  <2>1. note[r].status = "empty" /\ note[r].by = p
    BY DEF HelperInv, NoteOpened
  <2> QED BY <2>1 DEF OwnNotesOnly
<1>6. Listed(p)'
  <2> SUFFICES ASSUME pc[p] \notin HelperEnded, NEW r \in Results,
                      note'[r].status # "none", note'[r].by = p
               PROVE  r \in notes[p] \/ (pc[p] = "write" /\ Foremost(r, runs[p]))
    BY <1>0 DEF Listed, Foremost
  <2>1. note'[r] = note[r]
    BY DEF OwnNotesOnly
  <2> QED BY <2>1 DEF HelperInv, Listed
<1> QED BY <1>1, <1>4, <1>5, <1>6 DEF HelperInv

(* Final notes stay true if the new ones are, and if the helper removes      *)
(* nothing once it writes them.                                              *)
LEMMA FinalNotesStayTrue ==
  ASSUME NEW h \in Helpers, OthersKept(h), OwnNotesOnly(h), TypeOK, FinalNotesTrue,
         \A r \in Results : note'[r] # note[r] => Tells(note'[r], r, pc', removed'),
         pc[h] \in HelperEnded => pc'[h] \in HelperEnded /\ removed'[h] = removed[h]
  PROVE  FinalNotesTrue'
<1>1. ASSUME NEW r \in Results, NEW n \in Notes, Tells(n, r, pc, removed)
      PROVE  Tells(n, r, pc', removed')
  <2>1. CASE n.status \notin Final
    BY <2>1 DEF Tells
  <2>2. CASE n.status \in Final
    <3>1. n.by \in Helpers
      BY <2>2, NoteFacts DEF Final
    <3>2. pc[n.by] \in HelperEnded
      BY <1>1, <2>2 DEF Tells
    <3>3. pc'[n.by] \in HelperEnded /\ removed'[n.by] = removed[n.by]
      BY <3>1, <3>2 DEF OthersKept
    <3> QED BY <1>1, <3>3 DEF Tells
  <2> QED BY <2>1, <2>2
<1>2. ASSUME NEW r \in Results
      PROVE  Tells(note'[r], r, pc', removed') /\ Tells(flushed'[r], r, pc', removed')
  <2>1. note[r] \in Notes /\ flushed[r] \in Notes
    BY DEF TypeOK
  <2>2. Tells(note'[r], r, pc', removed')
    BY <1>1, <2>1 DEF FinalNotesTrue
  <2>3. flushed'[r] \in {flushed[r], note'[r]}
    BY DEF OwnNotesOnly
  <2> QED BY <1>1, <2>1, <2>2, <2>3 DEF FinalNotesTrue
<1> QED BY <1>2 DEF FinalNotesTrue

(* So a step of a helper has to be looked at for this helper alone. *)
LEMMA OwnStep ==
  ASSUME MediaInv, NEW h \in Helpers, TypeOK', MediaTables', HelperInv(h)',
         OthersKept(h), OwnNotesOnly(h),
         \A r \in Results : note'[r] # note[r] => Tells(note'[r], r, pc', removed'),
         pc[h] \in HelperEnded => pc'[h] \in HelperEnded /\ removed'[h] = removed[h]
  PROVE  MediaInv'
<1>1. ASSUME NEW p \in Helpers \ {h}
      PROVE  HelperInv(p)'
  BY OthersInv DEF MediaInv
<1>2. FinalNotesTrue'
  BY FinalNotesStayTrue DEF MediaInv
<1> QED BY <1>1, <1>2 DEF MediaInv

Places == {"inspect", "admit", "notes", "write", "unnote", "verify", "remove", "final"}
          \cup Over

(* And its own tables are what its types are about. *)
LEMMA OwnTypes ==
  ASSUME TypeOK, NEW h \in Helpers, OthersKept(h),
         UNCHANGED <<completed, version>>, gone' \subseteq Images,
         note' \in [Results -> Notes], flushed' \in [Results -> Notes],
         pc' \in [Helpers -> Places],
         DOMAIN plan'[h] \subseteq Selectable,
         \A i \in DOMAIN plan'[h] : plan'[h][i] \in 1 .. MaxVersion,
         runs'[h] \subseteq Results, items'[h] \subseteq DOMAIN plan'[h],
         notes'[h] \subseteq Planned(h)', removed'[h] \subseteq DOMAIN plan'[h]
  PROVE  TypeOK'
<1>1. ASSUME NEW p \in Helpers
      PROVE  /\ DOMAIN plan'[p] \subseteq Selectable
             /\ \A i \in DOMAIN plan'[p] : plan'[p][i] \in 1 .. MaxVersion
             /\ runs'[p] \subseteq Results
             /\ items'[p] \subseteq DOMAIN plan'[p]
             /\ notes'[p] \subseteq Planned(p)'
             /\ removed'[p] \subseteq DOMAIN plan'[p]
  <2>1. CASE p = h
    BY <2>1
  <2>2. CASE p # h
    BY <2>2 DEF TypeOK, OthersKept, Planned
  <2> QED BY <2>1, <2>2
<1> QED BY <1>1 DEF TypeOK, Places

------------------------------------------------------------------------------
(* The steps of a helper, one by one. *)

(* While it looks for images a helper has no notes, and makes none. *)
LEMMA PlanningStep ==
  ASSUME MediaInv, NEW h \in Helpers, TypeOK', MediaTables',
         pc[h] \in {"inspect", "admit"}, pc'[h] \in {"inspect", "admit", "notes"} \cup Over,
         pc'[h] = "notes" => runs'[h] = Planned(h)',
         OthersKept(h), UNCHANGED <<paper, items, notes, removed>>
  PROVE  MediaInv'
<1>1. HelperInv(h)
  BY DEF MediaInv
<1>2. /\ removed[h] = {} /\ notes[h] = {} /\ items[h] = {}
      /\ pc[h] \notin HelperEnded /\ pc'[h] \notin {"remove", "write", "verify", "final", "unnote"}
  BY <1>1 DEF HelperInv, Progress, HelperEnded, Over
<1>3. Progress(h)'
  BY <1>2 DEF Progress
<1>4. NotesStand(h)' /\ NoteOpened(h)'
  BY <1>2 DEF NotesStand, NoteOpened
<1>5. Listed(h)'
  BY <1>1, <1>2 DEF HelperInv, Listed, paper
<1>6. OwnNotesOnly(h)
  BY DEF OwnNotesOnly, paper
<1> QED BY <1>2, <1>3, <1>4, <1>5, <1>6, OwnStep DEF HelperInv, paper

LEMMA InspectStep ==
  ASSUME MediaInv, NEW h \in Helpers, Inspect(h)
  PROVE  MediaInv'
<1>1. PICK r \in Results :
        LET found == IF r \in Builds THEN {}
                     ELSE {i \in Images : i[1] = r /\ i \notin gone}
        IN plan' = [plan EXCEPT ![h] = [i \in DOMAIN @ \cup found |->
                                          IF i \in found THEN version[i] ELSE @[i]]]
  BY DEF Inspect
<1> DEFINE found == IF r \in Builds THEN {}
                    ELSE {i \in Images : i[1] = r /\ i \notin gone}
<1>2. /\ plan = [p \in Helpers |-> plan[p]] /\ pc \in [Helpers -> {"inspect", "admit",
           "notes", "write", "unnote", "verify", "remove", "final"} \cup Over]
      /\ HelperInv(h) /\ pc[h] = "inspect"
  BY DEF MediaInv, MediaTables, TypeOK, Inspect
<1>3. plan'[h] = [i \in DOMAIN plan[h] \cup found |->
                    IF i \in found THEN version[i] ELSE plan[h][i]]
  BY <1>1, <1>2
<1>4. \A p \in Helpers \ {h} : plan'[p] = plan[p]
  BY <1>1, <1>2
<1>5. plan' = [p \in Helpers |-> plan'[p]]
  BY <1>1, <1>2
<1>6. found \subseteq Selectable
  BY DEF Selectable
<1> HIDE DEF found
<1>7. DOMAIN plan'[h] = DOMAIN plan[h] \cup found
  BY <1>3
<1>8. DOMAIN plan'[h] \subseteq Selectable /\ (\A i \in DOMAIN plan'[h] : plan'[h][i] \in 1 .. MaxVersion)
  BY <1>3, <1>6, <1>7 DEF MediaInv, TypeOK, Selectable
<1>9. pc' = [pc EXCEPT ![h] = "admit"] /\ UNCHANGED <<world, paper, runs, items, notes, removed>>
  BY DEF Inspect, Goto
<1>10. removed[h] = {} /\ notes[h] = {} /\ items[h] = {}
  BY <1>2 DEF HelperInv, Progress, HelperEnded, Over
<1>11. OthersKept(h)
  BY <1>2, <1>4, <1>9 DEF OthersKept
<1>12. TypeOK'
  BY <1>2, <1>8, <1>9, <1>10, <1>11, OwnTypes DEF MediaInv, TypeOK, world, paper, Places
<1>13. MediaTables'
  BY <1>5, <1>9 DEF MediaInv, MediaTables
<1> QED BY <1>2, <1>9, <1>11, <1>12, <1>13, PlanningStep

LEMMA AdmitStep ==
  ASSUME MediaInv, NEW h \in Helpers, Admit(h)
  PROVE  MediaInv'
<1>1. PICK r \in Results :
        /\ plan' = IF r \in completed THEN plan
                   ELSE [plan EXCEPT ![h] = [i \in {j \in DOMAIN @ : j[1] # r} |-> @[i]]]
        /\ LET rest == runs[h] \ {r}
               chosen == {i[1] : i \in DOMAIN plan'[h]}
           IN IF rest # {}
              THEN runs' = [runs EXCEPT ![h] = rest] /\ Goto(h, "inspect")
              ELSE /\ runs' = [runs EXCEPT ![h] = chosen]
                   /\ Goto(h, IF chosen = {} THEN "done" ELSE "notes")
  BY DEF Admit
<1>2. /\ plan = [p \in Helpers |-> plan[p]] /\ pc \in [Helpers -> Places]
      /\ runs \in [Helpers -> SUBSET Results]
      /\ HelperInv(h) /\ pc[h] = "admit"
  BY DEF MediaInv, MediaTables, TypeOK, Admit, Places
<1>3. plan'[h] = plan[h] \/ plan'[h] = [i \in {j \in DOMAIN plan[h] : j[1] # r} |-> plan[h][i]]
  BY <1>1, <1>2
<1>4. /\ \A p \in Helpers \ {h} : plan'[p] = plan[p]
      /\ plan' = [p \in Helpers |-> plan'[p]]
  BY <1>1, <1>2
<1>5. /\ DOMAIN plan'[h] \subseteq Selectable
      /\ \A i \in DOMAIN plan'[h] : plan'[h][i] \in 1 .. MaxVersion
  BY <1>3 DEF MediaInv, TypeOK
<1>6. Planned(h)' = {i[1] : i \in DOMAIN plan'[h]}
  BY DEF Planned
<1>7. Planned(h)' \subseteq Results
  BY <1>5, <1>6 DEF Selectable, Results
<1>8. /\ \E at \in {"inspect", "done", "notes"} : pc' = [pc EXCEPT ![h] = at]
      /\ pc'[h] = "notes" => runs'[h] = Planned(h)'
  BY <1>1, <1>2, <1>6 DEF Goto
<1>9. \E S \in SUBSET Results : runs' = [runs EXCEPT ![h] = S]
  BY <1>1, <1>2, <1>6, <1>7
<1>10. UNCHANGED <<world, paper, items, notes, removed>>
  BY DEF Admit
<1>11. removed[h] = {} /\ notes[h] = {} /\ items[h] = {}
  BY <1>2 DEF HelperInv, Progress, HelperEnded, Over
<1>12. OthersKept(h)
  BY <1>2, <1>4, <1>8, <1>9, <1>10 DEF OthersKept
<1>13. TypeOK'
  BY <1>2, <1>5, <1>8, <1>9, <1>10, <1>11, <1>12, OwnTypes
     DEF MediaInv, TypeOK, world, paper, Places, Over
<1>14. MediaTables'
  BY <1>2, <1>4, <1>9, <1>10 DEF MediaInv, MediaTables
<1> QED BY <1>2, <1>8, <1>10, <1>12, <1>13, <1>14, PlanningStep DEF Places, Over

LEMMA RefuseStep ==
  ASSUME MediaInv, NEW h \in Helpers, Refuse(h)
  PROVE  MediaInv'
<1>1. /\ pc' = [pc EXCEPT ![h] = "refused"] /\ pc[h] \in {"inspect", "admit"}
      /\ UNCHANGED <<world, paper, plan, runs, items, notes, removed>>
  BY DEF Refuse, Goto
<1>2. TypeOK'
  BY <1>1 DEF MediaInv, TypeOK, Over, world, paper, Planned
<1>3. MediaTables' /\ OthersKept(h) /\ pc'[h] = "refused"
  BY <1>1 DEF MediaInv, MediaTables, OthersKept, TypeOK
<1> QED BY <1>1, <1>2, <1>3, PlanningStep DEF Over

(* A helper that dies leaves everything as it is. *)
LEMMA KillStep ==
  ASSUME MediaInv, NEW h \in Helpers, Kill(h)
  PROVE  MediaInv'
<1>1. /\ pc' = [pc EXCEPT ![h] = "dead"] /\ pc[h] \notin Over
      /\ UNCHANGED <<world, paper, plan, runs, items, notes, removed>>
  BY DEF Kill, Goto
<1>2. TypeOK'
  BY <1>1 DEF MediaInv, TypeOK, Over, world, paper, Planned
<1>3. MediaTables' /\ OthersKept(h) /\ pc'[h] = "dead"
  BY <1>1 DEF MediaInv, MediaTables, OthersKept, TypeOK
<1>4. HelperInv(h)
  BY DEF MediaInv
<1>5. Progress(h)' /\ NoteOpened(h)' /\ Listed(h)'
  BY <1>3 DEF Progress, NoteOpened, Listed, HelperEnded, Over
<1>6. NotesStand(h)'
  BY <1>1, <1>3, <1>4 DEF HelperInv, NotesStand, Stands, Written, Planned, paper
<1> QED BY <1>1, <1>2, <1>3, <1>5, <1>6, OwnStep DEF HelperInv, OwnNotesOnly, paper, HelperEnded, Over

LEMMA OpenNoteStep ==
  ASSUME MediaInv, NEW h \in Helpers, OpenNote(h)
  PROVE  MediaInv'
<1>1. /\ HelperInv(h) /\ pc[h] = "notes" /\ pc \in [Helpers -> Places]
      /\ note \in [Results -> Notes] /\ runs \in [Helpers -> SUBSET Results]
  BY DEF MediaInv, TypeOK, MediaTables, OpenNote, Places
<1>2. UNCHANGED <<world, flushed, plan, items, notes, removed>> /\ Planned(h)' = Planned(h)
  BY DEF OpenNote, Planned
<1>3. PICK r \in Results :
        /\ Foremost(r, runs[h])
        /\ \/ /\ note[r] = NoNote
              /\ note' = [note EXCEPT ![r] = Note(h, "empty", r)]
              /\ pc' = [pc EXCEPT ![h] = "write"]
              /\ UNCHANGED runs
           \/ /\ pc' = [pc EXCEPT ![h] = "unnote"]
              /\ runs' = [runs EXCEPT ![h] = notes[h]]
              /\ UNCHANGED note
  BY DEF OpenNote, Goto
<1>4. Progress(h) /\ NotesStand(h) /\ Listed(h) /\ notes[h] \subseteq Planned(h)
  BY <1>1 DEF HelperInv, MediaInv, TypeOK
<1>5. notes[h] \subseteq Results /\ Planned(h) \subseteq Results
  BY <1>4 DEF MediaInv, TypeOK, Planned, Selectable, Results
<1>6. removed[h] = {} /\ pc[h] \notin HelperEnded /\ items[h] = {} /\ notes[h] \cup runs[h] = Planned(h)
  BY <1>1, <1>4 DEF Progress, HelperEnded, Over
<1>7. CASE /\ note[r] = NoNote
           /\ note' = [note EXCEPT ![r] = Note(h, "empty", r)]
           /\ pc' = [pc EXCEPT ![h] = "write"]
           /\ UNCHANGED runs
  <2> DEFINE N == Note(h, "empty", r)
  <2>1. N \in Notes /\ N.status = "empty" /\ N.by = h
    BY NoteIsTyped
  <2> HIDE DEF N
  <2>2. /\ note'[r] = N /\ pc'[h] = "write"
        /\ \A q \in Results \ {r} : note'[q] = note[q]
    BY <1>1, <1>7 DEF N
  <2>3. OthersKept(h)
    BY <1>1, <1>2, <1>7 DEF OthersKept
  <2>4. note' \in [Results -> Notes]
    BY <1>1, <1>7, <2>1 DEF N
  <2>5. TypeOK'
    BY <1>1, <1>2, <1>7, <2>4 DEF MediaInv, TypeOK, Planned, world, Places
  <2>6. MediaTables'
    BY <1>2, <1>7 DEF MediaInv, MediaTables
  <2>7. note[r].status = "none"
    BY <1>7 DEF NoNote
  <2>8. Progress(h)'
    BY <1>2, <1>6, <1>7, <2>2 DEF Progress, HelperEnded, Over
  <2>9. NotesStand(h)'
    <3>1. ASSUME NEW q \in notes[h]
          PROVE  Stands(h, q)'
      <4>1. Stands(h, q) /\ q # r /\ q \in Results
        BY <1>4, <1>5, <2>7 DEF NotesStand, Stands, Written
      <4> QED BY <1>2, <2>2, <4>1 DEF Stands, Written
    <3> QED BY <1>2, <1>6, <2>2, <3>1 DEF NotesStand
  <2>10. NoteOpened(h)'
    BY <1>1, <1>3, <1>7, <2>1, <2>2, OneForemost DEF NoteOpened, Foremost
  <2>11. Listed(h)'
    BY <1>1, <1>2, <1>3, <1>4, <1>6, <1>7, <2>2 DEF Listed, Foremost
  <2>12. OwnNotesOnly(h)
    BY <1>2, <2>1, <2>2, <2>7 DEF OwnNotesOnly
  <2>13. \A q \in Results : note'[q] # note[q] => Tells(note'[q], q, pc', removed')
    BY <2>1, <2>2 DEF Tells, Final
  <2> QED BY <1>6, <2>3, <2>5, <2>6, <2>8, <2>9, <2>10, <2>11, <2>12, <2>13, OwnStep
          DEF HelperInv
<1>8. CASE /\ pc' = [pc EXCEPT ![h] = "unnote"]
           /\ runs' = [runs EXCEPT ![h] = notes[h]]
           /\ UNCHANGED note
  <2>1. pc'[h] = "unnote" /\ runs'[h] = notes[h] /\ OthersKept(h)
    BY <1>1, <1>2, <1>8 DEF OthersKept
  <2>2. TypeOK'
    BY <1>1, <1>2, <1>5, <1>8, <2>1, OwnTypes DEF MediaInv, TypeOK, world, Places
  <2>3. MediaTables'
    BY <1>2, <1>5, <1>8 DEF MediaInv, MediaTables
  <2>4. Progress(h)' /\ NoteOpened(h)'
    BY <1>2, <1>6, <2>1 DEF Progress, NoteOpened, HelperEnded, Over
  <2>5. NotesStand(h)'
    BY <1>2, <1>4, <1>6, <1>8, <2>1 DEF NotesStand, Stands, Written
  <2>6. Listed(h)'
    BY <1>1, <1>2, <1>4, <1>6, <1>8 DEF Listed
  <2> QED BY <1>2, <1>6, <1>8, <2>1, <2>2, <2>3, <2>4, <2>5, <2>6, OwnStep
          DEF HelperInv, OwnNotesOnly
<1> QED BY <1>3, <1>7, <1>8

(* The write fails, or it does not and the note stands from now on. *)
LEMMA WriteNoteStep ==
  ASSUME MediaInv, NEW h \in Helpers, WriteNote(h)
  PROVE  MediaInv'
<1>1. /\ HelperInv(h) /\ pc[h] = "write" /\ pc \in [Helpers -> Places]
      /\ note \in [Results -> Notes] /\ flushed \in [Results -> Notes]
      /\ runs \in [Helpers -> SUBSET Results] /\ notes \in [Helpers -> SUBSET Results]
      /\ items \in [Helpers -> SUBSET Images]
  BY DEF MediaInv, TypeOK, MediaTables, WriteNote, Places
<1>2. UNCHANGED <<world, plan, removed>> /\ Planned(h)' = Planned(h)
  BY DEF WriteNote, Planned
<1>3. PICK r \in Results :
        /\ Foremost(r, runs[h])
        /\ \/ NoteWritten(h, r) /\ flushed' = [flushed EXCEPT ![r] = note'[r]]
           \/ /\ note' = [note EXCEPT ![r] = NoNote]
              /\ runs' = [runs EXCEPT ![h] = notes[h]]
              /\ pc' = [pc EXCEPT ![h] = "unnote"]
              /\ UNCHANGED <<flushed, notes, items>>
  BY DEF WriteNote, Goto
<1>4. Progress(h) /\ NotesStand(h) /\ Listed(h) /\ NoteOpened(h) /\ notes[h] \subseteq Planned(h)
  BY <1>1 DEF HelperInv, MediaInv, TypeOK
<1>5. notes[h] \subseteq Results /\ Planned(h) \subseteq Results /\ r \in runs[h]
  BY <1>3, <1>4 DEF MediaInv, TypeOK, Planned, Selectable, Results, Foremost
<1>6. removed[h] = {} /\ pc[h] \notin HelperEnded /\ items[h] = {} /\ notes[h] \cup runs[h] = Planned(h)
  BY <1>1, <1>4 DEF Progress, HelperEnded, Over
<1>7. note[r].status = "empty" /\ note[r].by = h
  BY <1>1, <1>3, <1>4 DEF NoteOpened
<1>8. \A q \in notes[h] : q # r /\ Stands(h, q)
  BY <1>4, <1>7 DEF NotesStand, Stands, Written
<1>9. ASSUME NEW q \in Results, note[q].status # "none", note[q].by = h
      PROVE  q \in notes[h] \/ q = r
  BY <1>1, <1>3, <1>4, <1>6, <1>9, OneForemost DEF Listed
<1>10. CASE NoteWritten(h, r) /\ flushed' = [flushed EXCEPT ![r] = note'[r]]
  <2> DEFINE N == Note(h, "pending", r)
  <2>1. /\ N \in Notes /\ N.status = "pending" /\ N.by = h
        /\ N.selected = {f \in Files : <<r, f>> \in DOMAIN plan[h]}
    BY NoteIsTyped
  <2> HIDE DEF N
  <2>2. /\ note' = [note EXCEPT ![r] = N]
        /\ notes' = [notes EXCEPT ![h] = @ \cup {r}]
        /\ runs' = [runs EXCEPT ![h] = @ \ {r}]
        /\ IF runs'[h] = {}
           THEN pc' = [pc EXCEPT ![h] = "verify"] /\ items' = [items EXCEPT ![h] = DOMAIN plan[h]]
           ELSE pc' = [pc EXCEPT ![h] = "notes"] /\ UNCHANGED items
    BY <1>10 DEF NoteWritten, Goto, N
  <2>3. /\ note'[r] = N /\ flushed'[r] = N
        /\ \A q \in Results \ {r} : note'[q] = note[q] /\ flushed'[q] = flushed[q]
        /\ note' \in [Results -> Notes] /\ flushed' \in [Results -> Notes]
    BY <1>1, <1>10, <2>1, <2>2
  <2>4. notes'[h] = notes[h] \cup {r} /\ runs'[h] = runs[h] \ {r}
    BY <1>1, <2>2
  <2>5. \/ pc'[h] = "verify" /\ runs'[h] = {} /\ items'[h] = DOMAIN plan[h]
        \/ pc'[h] = "notes" /\ items'[h] = {}
    BY <1>1, <1>6, <2>2
  <2>6. OthersKept(h)
    BY <1>1, <1>2, <2>2 DEF OthersKept
  <2>7. pc' \in [Helpers -> Places]
    BY <1>1, <2>2 DEF Places
  <2>8. TypeOK'
    BY <1>2, <1>5, <1>6, <2>3, <2>4, <2>5, <2>6, <2>7, OwnTypes DEF MediaInv, TypeOK, world
  <2>9. MediaTables'
    <3>1. DOMAIN plan[h] \subseteq Images
      BY DEF MediaInv, TypeOK, Selectable
    <3> QED BY <1>1, <1>2, <2>2, <3>1 DEF MediaInv, MediaTables
  <2>10. Progress(h)'
    BY <1>2, <1>5, <1>6, <2>4, <2>5 DEF Progress, HelperEnded, Over
  <2>11. NotesStand(h)'
    <3>1. ASSUME NEW q \in notes'[h]
          PROVE  Stands(h, q)'
      <4>1. CASE q = r
        BY <1>2, <2>1, <2>3, <4>1 DEF Stands, Written
      <4>2. CASE q # r
        <5>1. q \in notes[h] /\ Stands(h, q) /\ q \in Results
          BY <1>5, <1>8, <2>4, <4>2
        <5> QED BY <1>2, <2>3, <4>2, <5>1 DEF Stands, Written
      <4> QED BY <4>1, <4>2
    <3>2. pc'[h] = "verify" => Planned(h)' \subseteq notes'[h]
      BY <1>2, <1>6, <2>4, <2>5
    <3> QED BY <1>2, <1>6, <2>5, <3>1, <3>2 DEF NotesStand
  <2>12. NoteOpened(h)'
    BY <2>5 DEF NoteOpened
  <2>13. Listed(h)'
    BY <1>9, <2>3, <2>4 DEF Listed
  <2>14. OwnNotesOnly(h)
    BY <1>7, <2>1, <2>3 DEF OwnNotesOnly
  <2>15. \A q \in Results : note'[q] # note[q] => Tells(note'[q], q, pc', removed')
    BY <2>1, <2>3 DEF Tells, Final
  <2> QED BY <1>6, <2>6, <2>8, <2>9, <2>10, <2>11, <2>12, <2>13, <2>14, <2>15, OwnStep
          DEF HelperInv
<1>11. CASE /\ note' = [note EXCEPT ![r] = NoNote]
            /\ runs' = [runs EXCEPT ![h] = notes[h]]
            /\ pc' = [pc EXCEPT ![h] = "unnote"]
            /\ UNCHANGED <<flushed, notes, items>>
  <2>1. /\ pc'[h] = "unnote" /\ runs'[h] = notes[h] /\ OthersKept(h)
        /\ pc' \in [Helpers -> Places]
    BY <1>1, <1>2, <1>11 DEF OthersKept, Places
  <2>2. /\ note'[r] = NoNote /\ \A q \in Results \ {r} : note'[q] = note[q]
        /\ NoNote \in Notes /\ NoNote.status = "none" /\ note' \in [Results -> Notes]
    BY <1>1, <1>11 DEF Notes, NoNote
  <2>3. TypeOK'
    BY <1>1, <1>2, <1>5, <1>11, <2>1, <2>2, OwnTypes DEF MediaInv, TypeOK, world
  <2>4. MediaTables'
    BY <1>2, <1>5, <1>11 DEF MediaInv, MediaTables
  <2>5. Progress(h)' /\ NoteOpened(h)'
    BY <1>2, <1>6, <1>11, <2>1 DEF Progress, NoteOpened, HelperEnded, Over
  <2>6. NotesStand(h)'
    <3>1. ASSUME NEW q \in notes[h]
          PROVE  Stands(h, q)'
      BY <1>2, <1>5, <1>8, <1>11, <2>2 DEF Stands, Written
    <3> QED BY <1>2, <1>6, <1>11, <2>1, <3>1 DEF NotesStand
  <2>7. Listed(h)'
    BY <1>9, <1>11, <2>2 DEF Listed
  <2>8. OwnNotesOnly(h)
    BY <1>7, <1>11, <2>2 DEF OwnNotesOnly
  <2>9. \A q \in Results : note'[q] # note[q] => Tells(note'[q], q, pc', removed')
    BY <2>2 DEF Tells, Final
  <2> QED BY <1>6, <2>1, <2>3, <2>4, <2>5, <2>6, <2>7, <2>8, <2>9, OwnStep
          DEF HelperInv
<1> QED BY <1>3, <1>10, <1>11

LEMMA UnnoteStep ==
  ASSUME MediaInv, NEW h \in Helpers, Unnote(h)
  PROVE  MediaInv'
<1>1. /\ HelperInv(h) /\ pc[h] = "unnote" /\ pc \in [Helpers -> Places]
      /\ note \in [Results -> Notes] /\ runs \in [Helpers -> SUBSET Results]
      /\ notes \in [Helpers -> SUBSET Results]
  BY DEF MediaInv, TypeOK, MediaTables, Unnote, Places
<1>2. UNCHANGED <<world, flushed, plan, items, removed>> /\ Planned(h)' = Planned(h)
  BY DEF Unnote, Planned
<1>3. Progress(h) /\ NotesStand(h) /\ Listed(h) /\ notes[h] \subseteq Planned(h)
  BY <1>1 DEF HelperInv, MediaInv, TypeOK
<1>4. removed[h] = {} /\ pc[h] \notin HelperEnded /\ runs[h] \subseteq notes[h]
  BY <1>1, <1>3 DEF Progress, HelperEnded, Over
<1>5. CASE runs[h] = {}
  <2>1. /\ \E end \in {"refused", "failed"} : pc' = [pc EXCEPT ![h] = end]
        /\ UNCHANGED <<note, runs, notes>>
    BY <1>5 DEF Unnote, Goto
  <2>2. pc'[h] \in Over /\ OthersKept(h)
    BY <1>1, <1>2, <2>1 DEF OthersKept, Over
  <2>3. TypeOK' /\ MediaTables'
    BY <1>1, <1>2, <2>1 DEF MediaInv, TypeOK, MediaTables, Planned, world, Places, Over
  <2>4. Progress(h)' /\ NoteOpened(h)' /\ Listed(h)'
    BY <2>2 DEF Progress, NoteOpened, Listed, HelperEnded, Over
  <2>5. NotesStand(h)'
    BY <1>2, <1>3, <1>4, <2>1, <2>2 DEF NotesStand, Stands, Written, Over
  <2> QED BY <1>2, <1>4, <2>1, <2>2, <2>3, <2>4, <2>5, OwnStep DEF HelperInv, OwnNotesOnly
<1>6. CASE runs[h] # {}
  <2>1. PICK r \in Results :
          /\ Foremost(r, runs[h])
          /\ runs' = [runs EXCEPT ![h] = @ \ {r}]
          /\ \/ /\ note' = [note EXCEPT ![r] = NoNote]
                /\ notes' = [notes EXCEPT ![h] = @ \ {r}]
             \/ UNCHANGED <<note, notes>>
          /\ UNCHANGED pc
    BY <1>6 DEF Unnote
  <2>2. r \in notes[h] /\ note[r].by = h
    BY <1>3, <1>4, <2>1 DEF Foremost, NotesStand, Stands, Written
  <2>3. NoNote \in Notes /\ NoNote.status = "none"
    BY DEF Notes, NoNote
  <2>4. OthersKept(h) /\ runs'[h] = runs[h] \ {r}
    BY <1>1, <1>2, <2>1 DEF OthersKept
  <2>5. \/ /\ note'[r] = NoNote /\ \A q \in Results \ {r} : note'[q] = note[q]
           /\ notes'[h] = notes[h] \ {r}
        \/ note' = note /\ notes' = notes
    BY <1>1, <2>1
  <2>6. note' \in [Results -> Notes] /\ notes' \in [Helpers -> SUBSET Results]
    BY <1>1, <2>1, <2>3
  <2>7. TypeOK'
    BY <1>1, <1>2, <1>3, <2>1, <2>4, <2>5, <2>6, OwnTypes DEF MediaInv, TypeOK, world
  <2>8. MediaTables'
    BY <1>1, <1>2, <2>1, <2>6 DEF MediaInv, MediaTables
  <2>9. Progress(h)' /\ NoteOpened(h)'
    BY <1>1, <1>2, <1>4, <2>1, <2>4, <2>5 DEF Progress, NoteOpened, HelperEnded, Over
  <2>10. NotesStand(h)'
    <3>1. ASSUME NEW q \in notes'[h]
          PROVE  Stands(h, q)'
      <4>1. q \in notes[h] /\ q \in Results /\ note'[q] = note[q]
        BY <1>1, <2>5
      <4> QED BY <1>2, <1>3, <4>1 DEF NotesStand, Stands, Written
    <3> QED BY <1>1, <1>2, <1>4, <2>1, <3>1 DEF NotesStand
  <2>11. Listed(h)'
    BY <1>1, <1>3, <1>4, <2>1, <2>3, <2>5 DEF Listed
  <2>12. OwnNotesOnly(h)
    BY <1>2, <2>2, <2>3, <2>5 DEF OwnNotesOnly
  <2>13. \A q \in Results : note'[q] # note[q] => Tells(note'[q], q, pc', removed')
    BY <2>3, <2>5 DEF Tells, Final
  <2> QED BY <1>4, <2>4, <2>7, <2>8, <2>9, <2>10, <2>11, <2>12, <2>13, OwnStep DEF HelperInv
<1> QED BY <1>5, <1>6

LEMMA VerifyStep ==
  ASSUME MediaInv, NEW h \in Helpers, VerifyUnchanged(h)
  PROVE  MediaInv'
<1>1. /\ HelperInv(h) /\ pc[h] = "verify" /\ pc \in [Helpers -> Places]
      /\ runs \in [Helpers -> SUBSET Results] /\ items \in [Helpers -> SUBSET Images]
  BY DEF MediaInv, TypeOK, MediaTables, VerifyUnchanged, Places
<1>2. UNCHANGED <<world, paper, plan, notes, removed>> /\ Planned(h)' = Planned(h)
  BY DEF VerifyUnchanged, Planned
<1>3. /\ Progress(h) /\ NotesStand(h) /\ Listed(h) /\ notes[h] \subseteq Planned(h)
      /\ items[h] \subseteq DOMAIN plan[h] /\ DOMAIN plan[h] \subseteq Images
  BY <1>1 DEF HelperInv, MediaInv, TypeOK, Selectable
<1>4. removed[h] = {} /\ pc[h] \notin HelperEnded /\ notes[h] = Planned(h)
  BY <1>1, <1>3 DEF Progress, HelperEnded, Over
<1>5. notes[h] \subseteq Results
  BY DEF MediaInv, MediaTables
<1>6. PICK i \in Images :
        \/ /\ LET rest == items[h] \ {i}
              IN /\ items' = [items EXCEPT ![h] = IF rest = {} THEN DOMAIN plan[h] ELSE rest]
                 /\ Goto(h, IF rest = {} THEN "remove" ELSE "verify")
           /\ UNCHANGED runs
        \/ /\ Goto(h, "unnote")
           /\ runs' = [runs EXCEPT ![h] = notes[h]]
           /\ UNCHANGED items
  BY DEF VerifyUnchanged
<1>7. /\ \E at \in {"remove", "verify", "unnote"} : pc' = [pc EXCEPT ![h] = at]
      /\ pc'[h] = "unnote" => runs'[h] = notes[h]
      /\ \E S \in SUBSET DOMAIN plan[h] : items' = [items EXCEPT ![h] = S]
      /\ \E S \in SUBSET Results : runs' = [runs EXCEPT ![h] = S]
  <2>1. runs = [runs EXCEPT ![h] = runs[h]] /\ items = [items EXCEPT ![h] = items[h]]
    BY <1>1
  <2>2. runs[h] \in SUBSET Results /\ items[h] \in SUBSET DOMAIN plan[h]
    BY <1>1, <1>3
  <2>3. \E at \in {"remove", "verify", "unnote"} : pc' = [pc EXCEPT ![h] = at]
    BY <1>6 DEF Goto
  <2>4. pc'[h] = "unnote" => runs'[h] = notes[h]
    BY <1>1, <1>6 DEF Goto
  <2>5. \E S \in SUBSET DOMAIN plan[h] : items' = [items EXCEPT ![h] = S]
    <3>1. CASE items' = items
      BY <2>1, <2>2, <3>1
    <3>2. CASE items' = [items EXCEPT ![h] = DOMAIN plan[h]]
      BY <3>2
    <3>3. CASE items' = [items EXCEPT ![h] = items[h] \ {i}]
      BY <2>2, <3>3
    <3> QED BY <1>6, <3>1, <3>2, <3>3
  <2>6. \E S \in SUBSET Results : runs' = [runs EXCEPT ![h] = S]
    BY <1>5, <1>6, <2>1, <2>2
  <2> QED BY <2>3, <2>4, <2>5, <2>6
<1>8. /\ pc'[h] \in {"remove", "verify", "unnote"} /\ pc' \in [Helpers -> Places]
      /\ items'[h] \subseteq DOMAIN plan[h] /\ runs'[h] \subseteq Results
      /\ items' \in [Helpers -> SUBSET Images] /\ runs' \in [Helpers -> SUBSET Results]
  BY <1>1, <1>3, <1>7 DEF Places
<1>9. OthersKept(h)
  BY <1>1, <1>2, <1>7 DEF OthersKept
<1>10. TypeOK'
  BY <1>2, <1>8, <1>9, OwnTypes DEF MediaInv, TypeOK, world, paper
<1>11. MediaTables'
  BY <1>2, <1>8 DEF MediaInv, MediaTables
<1>12. Progress(h)' /\ NoteOpened(h)'
  BY <1>2, <1>4, <1>7, <1>8 DEF Progress, NoteOpened, HelperEnded, Over
<1>13. NotesStand(h)'
  BY <1>1, <1>2, <1>3, <1>4 DEF NotesStand, Stands, Written, paper
<1>14. Listed(h)'
  BY <1>1, <1>2, <1>3, <1>4 DEF Listed, paper
<1> QED BY <1>2, <1>4, <1>9, <1>10, <1>11, <1>12, <1>13, <1>14, OwnStep
        DEF HelperInv, OwnNotesOnly, paper

LEMMA RemoveStep ==
  ASSUME MediaInv, NEW h \in Helpers, RemoveImage(h)
  PROVE  MediaInv'
<1>1. /\ HelperInv(h) /\ pc[h] = "remove" /\ pc \in [Helpers -> Places]
      /\ runs \in [Helpers -> SUBSET Results] /\ items \in [Helpers -> SUBSET Images]
      /\ removed \in [Helpers -> SUBSET Images]
  BY DEF MediaInv, TypeOK, MediaTables, RemoveImage, Places
<1>2. UNCHANGED <<completed, version, paper, plan, notes>> /\ Planned(h)' = Planned(h)
  BY DEF RemoveImage, Planned
<1>3. /\ Progress(h) /\ NotesStand(h) /\ notes[h] \subseteq Planned(h)
      /\ items[h] \subseteq DOMAIN plan[h] /\ removed[h] \subseteq DOMAIN plan[h]
      /\ Planned(h) \subseteq Results
  BY <1>1 DEF HelperInv, MediaInv, TypeOK, Planned, Selectable, Results
<1>4. pc[h] \notin HelperEnded /\ notes[h] = Planned(h)
  BY <1>1, <1>3 DEF Progress, HelperEnded, Over
<1>5. PICK i \in Images :
       /\ ForemostItem(i, items[h])
       /\ \/ /\ gone' = gone \cup {i}
             /\ removed' = [removed EXCEPT ![h] = @ \cup {i}]
             /\ items' = [items EXCEPT ![h] = @ \ {i}]
             /\ IF items'[h] = {}
                THEN Goto(h, "final") /\ runs' = [runs EXCEPT ![h] = Planned(h)]
                ELSE UNCHANGED <<pc, runs>>
          \/ /\ Goto(h, "final")
             /\ runs' = [runs EXCEPT ![h] = Planned(h)]
             /\ UNCHANGED <<gone, items, removed>>
  BY DEF RemoveImage
<1>6. i \in items[h]
  BY <1>5 DEF ForemostItem
<1>7. \/ pc' = pc /\ runs' = runs
      \/ pc' = [pc EXCEPT ![h] = "final"] /\ runs' = [runs EXCEPT ![h] = Planned(h)]
  BY <1>5 DEF Goto
<1>8. /\ pc'[h] \in {"remove", "final"} /\ pc' \in [Helpers -> Places]
      /\ pc'[h] = "final" => runs'[h] = Planned(h)
      /\ runs' \in [Helpers -> SUBSET Results]
  BY <1>1, <1>3, <1>7 DEF Places
<1>9. /\ items' \in [Helpers -> SUBSET Images] /\ items'[h] \subseteq items[h]
      /\ removed' \in [Helpers -> SUBSET Images] /\ removed'[h] \subseteq removed[h] \cup {i}
      /\ gone' \subseteq Images
  BY <1>1, <1>5 DEF MediaInv, TypeOK
<1>10. OthersKept(h)
  BY <1>1, <1>2, <1>5, <1>7 DEF OthersKept
<1>11. TypeOK'
  BY <1>2, <1>3, <1>6, <1>8, <1>9, <1>10, OwnTypes DEF MediaInv, TypeOK, paper
<1>12. MediaTables'
  BY <1>2, <1>8, <1>9 DEF MediaInv, MediaTables
<1>13. Progress(h)' /\ NoteOpened(h)' /\ Listed(h)'
  <2>1. Listed(h)'
    <3>1. CASE pc'[h] = "final"
      BY <3>1 DEF Listed, HelperEnded
    <3>2. CASE pc'[h] = "remove"
      BY <1>1, <1>2, <1>4, <1>8, <3>2 DEF HelperInv, Listed, paper
    <3> QED BY <1>8, <3>1, <3>2
  <2> QED BY <1>2, <1>4, <1>8, <2>1 DEF Progress, NoteOpened, HelperEnded, Over
<1>14. NotesStand(h)'
  BY <1>1, <1>2, <1>3 DEF NotesStand, Stands, Written, paper
<1> QED BY <1>2, <1>4, <1>10, <1>11, <1>12, <1>13, <1>14, OwnStep
        DEF HelperInv, OwnNotesOnly, paper

(* The status of a result is what its helper has removed there. *)
LEMMA StatusTellsRemoved ==
  ASSUME TypeOK, NEW h \in Helpers, NEW r \in Planned(h)
  PROVE  /\ Status(h, r) \in Final
         /\ Status(h, r) = "completed" <=>
              {f \in Files : <<r, f>> \in DOMAIN plan[h]}
                \subseteq {f \in Files : <<r, f>> \in removed[h]}
         /\ Status(h, r) = "aborted" <=> {f \in Files : <<r, f>> \in removed[h]} = {}
<1> DEFINE all == {i \in DOMAIN plan[h] : i[1] = r}
           selected == {f \in Files : <<r, f>> \in DOMAIN plan[h]}
           gotten == {f \in Files : <<r, f>> \in removed[h]}
<1>1. removed[h] \subseteq DOMAIN plan[h] /\ DOMAIN plan[h] \subseteq Images
  BY DEF TypeOK, Selectable
<1>2. PICK i \in DOMAIN plan[h] : i[1] = r
  BY DEF Planned
<1>3. all \subseteq removed[h] <=> selected \subseteq gotten
  <2>1. ASSUME all \subseteq removed[h] PROVE selected \subseteq gotten
    <3>1. ASSUME NEW f \in Files, <<r, f>> \in DOMAIN plan[h]
          PROVE  <<r, f>> \in removed[h]
      BY <2>1, <3>1
    <3> QED BY <3>1
  <2>2. ASSUME selected \subseteq gotten PROVE all \subseteq removed[h]
    <3>1. ASSUME NEW j \in DOMAIN plan[h], j[1] = r
          PROVE  j \in removed[h]
      <4>1. j = <<r, j[2]>> /\ j[2] \in Files
        BY <1>1, <3>1, ImageIsPair
      <4>2. j[2] \in selected
        BY <4>1
      <4>3. j[2] \in gotten
        BY <2>2, <4>2
      <4> QED BY <4>1, <4>3
    <3> QED BY <3>1
  <2> QED BY <2>1, <2>2
<1>4. all \cap removed[h] = {} <=> gotten = {}
  <2>1. ASSUME NEW j \in all \cap removed[h] PROVE j[2] \in gotten
    <3>1. j = <<r, j[2]>> /\ j[2] \in Files
      BY <1>1, ImageIsPair
    <3> QED BY <3>1
  <2>2. ASSUME NEW f \in gotten PROVE <<r, f>> \in all \cap removed[h]
    BY <1>1
  <2> QED BY <2>1, <2>2
<1>5. i \in all
  BY <1>2
<1>6. Status(h, r) = IF all \subseteq removed[h] THEN "completed"
                     ELSE IF all \cap removed[h] # {} THEN "incomplete"
                     ELSE "aborted"
  BY DEF Status
<1> HIDE DEF all, selected, gotten
<1>7. all \subseteq removed[h] => all \cap removed[h] # {}
  BY <1>5
<1>8. /\ Status(h, r) \in Final
      /\ Status(h, r) = "completed" <=> selected \subseteq gotten
      /\ Status(h, r) = "aborted" <=> gotten = {}
  BY <1>3, <1>4, <1>6, <1>7 DEF Final
<1> QED BY <1>8 DEF selected, gotten

LEMMA FinalizeNoteStep ==
  ASSUME MediaInv, NEW h \in Helpers, FinalizeNote(h)
  PROVE  MediaInv'
<1>1. /\ HelperInv(h) /\ pc[h] = "final" /\ pc \in [Helpers -> Places]
      /\ note \in [Results -> Notes] /\ runs \in [Helpers -> SUBSET Results]
      /\ notes \in [Helpers -> SUBSET Results]
  BY DEF MediaInv, TypeOK, MediaTables, FinalizeNote, Places
<1>2. UNCHANGED <<world, flushed, plan, items, removed>> /\ Planned(h)' = Planned(h)
  BY DEF FinalizeNote, Planned
<1>3. /\ Progress(h) /\ NotesStand(h) /\ notes[h] \subseteq Planned(h)
      /\ runs[h] \subseteq notes[h] /\ Planned(h) \subseteq Results
  BY <1>1 DEF HelperInv, Progress, MediaInv, TypeOK, Planned, Selectable, Results
<1>4. \A q \in Planned(h) : Stands(h, q)
  BY <1>1, <1>3 DEF NotesStand
<1>5. CASE runs[h] = {}
  <2>1. /\ \E end \in {"done", "failed"} : pc' = [pc EXCEPT ![h] = end]
        /\ UNCHANGED <<note, runs, notes>>
    BY <1>5 DEF FinalizeNote, Goto
  <2>2. pc'[h] \in Over /\ OthersKept(h)
    BY <1>1, <1>2, <2>1 DEF OthersKept, Over
  <2>3. TypeOK' /\ MediaTables'
    BY <1>1, <1>2, <2>1 DEF MediaInv, TypeOK, MediaTables, Planned, world, Places, Over
  <2>4. Progress(h)' /\ NoteOpened(h)' /\ Listed(h)'
    BY <2>2 DEF Progress, NoteOpened, Listed, HelperEnded, Over
  <2>5. NotesStand(h)'
    BY <1>2, <1>3, <1>4, <2>1, <2>2 DEF NotesStand, Stands, Written
  <2> QED BY <1>2, <2>1, <2>2, <2>3, <2>4, <2>5, OwnStep DEF HelperInv, OwnNotesOnly, HelperEnded
<1>6. CASE runs[h] # {}
  <2>1. PICK r \in Results :
          /\ Foremost(r, runs[h])
          /\ runs' = [runs EXCEPT ![h] = @ \ {r}]
          /\ \/ /\ note' = [note EXCEPT ![r] = Note(h, Status(h, r), r)]
                /\ notes' = [notes EXCEPT ![h] = @ \ {r}]
             \/ UNCHANGED <<note, notes>>
          /\ UNCHANGED pc
    BY <1>6 DEF FinalizeNote
  <2> DEFINE N == Note(h, Status(h, r), r)
  <2>2. r \in notes[h] /\ r \in Planned(h)
    BY <1>3, <2>1 DEF Foremost
  <2>3. /\ Status(h, r) \in Final
        /\ Status(h, r) = "completed" <=>
             {f \in Files : <<r, f>> \in DOMAIN plan[h]}
               \subseteq {f \in Files : <<r, f>> \in removed[h]}
        /\ Status(h, r) = "aborted" <=> {f \in Files : <<r, f>> \in removed[h]} = {}
    BY <2>2, StatusTellsRemoved DEF MediaInv
  <2>4. /\ N \in Notes /\ N.status = Status(h, r) /\ N.by = h
        /\ N.selected = {f \in Files : <<r, f>> \in DOMAIN plan[h]}
        /\ N.removed = {f \in Files : <<r, f>> \in removed[h]}
    <3>1. PICK s \in {"empty", "pending"} \cup Final : s = Status(h, r)
      BY <2>3
    <3>2. /\ Note(h, s, r) \in Notes /\ Note(h, s, r).status = s /\ Note(h, s, r).by = h
          /\ Note(h, s, r).selected = {f \in Files : <<r, f>> \in DOMAIN plan[h]}
          /\ Note(h, s, r).removed = {f \in Files : <<r, f>> \in removed[h]}
      BY NoteIsTyped
    <3> QED BY <3>1, <3>2
  <2> HIDE DEF N
  <2>5. Tells(N, r, pc', removed')
    BY <1>1, <1>2, <2>1, <2>3, <2>4 DEF Tells, HelperEnded
  <2>6. Written(N, h, r)
    BY <2>3, <2>4 DEF Written, Final
  <2>7. OthersKept(h) /\ runs'[h] = runs[h] \ {r}
    BY <1>1, <1>2, <2>1 DEF OthersKept
  <2>8. \/ /\ note'[r] = N /\ \A q \in Results \ {r} : note'[q] = note[q]
           /\ notes'[h] = notes[h] \ {r}
        \/ note' = note /\ notes' = notes
    BY <1>1, <2>1 DEF N
  <2>9. /\ note' \in [Results -> Notes] /\ notes' \in [Helpers -> SUBSET Results]
        /\ runs' \in [Helpers -> SUBSET Results]
    BY <1>1, <2>1, <2>4 DEF N
  <2>10. TypeOK'
    BY <1>1, <1>2, <1>3, <2>1, <2>7, <2>8, <2>9, OwnTypes DEF MediaInv, TypeOK, world
  <2>11. MediaTables'
    BY <1>2, <2>9 DEF MediaInv, MediaTables
  <2>12. Progress(h)' /\ NoteOpened(h)' /\ Listed(h)'
    BY <1>1, <1>3, <2>1, <2>7, <2>8 DEF Progress, NoteOpened, Listed, HelperEnded, Over
  <2>13. ASSUME NEW q \in Planned(h)
         PROVE  Stands(h, q)'
    <3>1. Stands(h, q) /\ q \in Results
      BY <1>3, <1>4
    <3>2. CASE note'[q] = note[q]
      BY <1>2, <3>1, <3>2 DEF Stands, Written
    <3>3. CASE note'[q] # note[q]
      <4>1. q = r /\ note'[q] = N
        BY <2>8, <3>1, <3>3
      <4> QED BY <1>2, <2>6, <3>1, <4>1 DEF Stands, Written
    <3> QED BY <3>2, <3>3
  <2>14. NotesStand(h)'
    BY <1>2, <1>3, <2>8, <2>13 DEF NotesStand
  <2>15. OwnNotesOnly(h)
    BY <1>2, <1>4, <2>2, <2>4, <2>8 DEF OwnNotesOnly, Stands, Written
  <2>16. \A q \in Results : note'[q] # note[q] => Tells(note'[q], q, pc', removed')
    BY <2>5, <2>8
  <2> QED BY <1>1, <1>2, <2>1, <2>7, <2>10, <2>11, <2>12, <2>14, <2>15, <2>16, OwnStep
          DEF HelperInv
<1> QED BY <1>5, <1>6

------------------------------------------------------------------------------
(* What happens around the helpers. *)

(* Runs go on, and images change, beside the helpers. *)
LEMMA AroundStep ==
  ASSUME MediaInv, UNCHANGED <<gone, paper, pc, plan, runs, items, notes, removed>>,
         completed' \subseteq Results, version' \in [Images -> 1 .. MaxVersion]
  PROVE  MediaInv'
<1>1. TypeOK' /\ MediaTables'
  BY DEF MediaInv, TypeOK, MediaTables, Planned, paper
<1>2. ASSUME NEW h \in Helpers
      PROVE  HelperInv(h)'
  <2>1. HelperInv(h) /\ Planned(h)' = Planned(h)
    BY DEF MediaInv, Planned
  <2>2. Progress(h)' /\ NoteOpened(h)' /\ Listed(h)'
    BY <2>1 DEF HelperInv, Progress, NoteOpened, Listed, paper
  <2>3. NotesStand(h)'
    BY <2>1 DEF HelperInv, NotesStand, Stands, Written, paper
  <2> QED BY <2>2, <2>3 DEF HelperInv
<1>3. FinalNotesTrue'
  BY DEF MediaInv, FinalNotesTrue, paper
<1> QED BY <1>1, <1>2, <1>3 DEF MediaInv

LEMMA PowerLossStep ==
  ASSUME MediaInv, PowerLoss
  PROVE  MediaInv'
<1>1. /\ pc' = [h \in Helpers |-> IF pc[h] \in Over THEN pc[h] ELSE "dead"]
      /\ gone' \in SUBSET gone /\ flushed' = note'
      /\ UNCHANGED <<completed, version, plan, runs, items, notes, removed>>
  BY DEF PowerLoss
<1>2. PICK back \in SUBSET Results :
        note' = [r \in Results |-> IF r \in back THEN flushed[r] ELSE note[r]]
  BY DEF PowerLoss
<1>3. \A r \in Results : note'[r] \in {note[r], flushed[r]} /\ flushed'[r] = note'[r]
  BY <1>1, <1>2
<1>4. note' \in [Results -> Notes]
  BY <1>2 DEF MediaInv, TypeOK
<1>5. \A h \in Helpers : pc'[h] \in Over
  BY <1>1 DEF Over
<1>6. TypeOK' /\ MediaTables'
  BY <1>1, <1>4 DEF MediaInv, TypeOK, MediaTables, Planned, Over
<1>7. ASSUME NEW h \in Helpers
      PROVE  HelperInv(h)'
  <2>1. /\ HelperInv(h) /\ pc'[h] \in Over /\ Planned(h)' = Planned(h)
        /\ notes[h] \subseteq Results /\ Planned(h) \subseteq Results
    BY <1>1, <1>5 DEF MediaInv, TypeOK, MediaTables, Planned, Selectable, Results
  <2>2. Progress(h)' /\ NoteOpened(h)' /\ Listed(h)'
    BY <2>1 DEF Progress, NoteOpened, Listed, HelperEnded, Over
  <2>3. ASSUME NEW r \in Results, Stands(h, r)
        PROVE  Stands(h, r)'
    BY <1>1, <1>3, <2>3 DEF Stands, Written
  <2>4. NotesStand(h)'
    BY <1>1, <2>1, <2>3 DEF HelperInv, NotesStand, Over
  <2> QED BY <2>2, <2>4 DEF HelperInv
<1>8. FinalNotesTrue'
  <2>1. ASSUME NEW r \in Results, NEW n \in Notes, Tells(n, r, pc, removed)
        PROVE  Tells(n, r, pc', removed')
    <3>1. n.status \in Final => n.by \in Helpers
      BY NoteFacts DEF Final
    <3> QED BY <1>1, <1>5, <2>1, <3>1 DEF Tells, HelperEnded
  <2>2. \A r \in Results : note[r] \in Notes /\ flushed[r] \in Notes
    BY DEF MediaInv, TypeOK
  <2> QED BY <1>3, <2>1, <2>2 DEF MediaInv, FinalNotesTrue
<1> QED BY <1>6, <1>7, <1>8 DEF MediaInv

------------------------------------------------------------------------------
(* The theorems. *)

LEMMA MediaInit == Init => MediaInv
<1> SUFFICES ASSUME Init PROVE MediaInv
  OBVIOUS
<1>1. \A h \in Helpers : plan[h] = <<>> /\ DOMAIN plan[h] = {} /\ Planned(h) = {}
  BY DEF Init, Planned
<1>2. NoNote \in Notes /\ NoNote.status = "none"
  BY DEF NoNote, Notes
<1>3. /\ note \in [Results -> Notes] /\ flushed \in [Results -> Notes]
      /\ \A r \in Results : note[r] = NoNote /\ flushed[r] = NoNote
  BY <1>2 DEF Init
<1>4. TypeOK
  BY <1>1, <1>3, VersionAssumption DEF Init, TypeOK, Over
<1>5. MediaTables
  BY DEF Init, MediaTables
<1>6. ASSUME NEW h \in Helpers
      PROVE  HelperInv(h)
  <2>1. /\ pc[h] = "inspect" /\ removed[h] = {} /\ notes[h] = {} /\ items[h] = {}
        /\ runs[h] = Results
    BY DEF Init
  <2>2. Progress(h) /\ NoteOpened(h) /\ NotesStand(h)
    BY <2>1 DEF Progress, NoteOpened, NotesStand
  <2>3. Listed(h)
    BY <1>2, <1>3 DEF Listed
  <2> QED BY <2>2, <2>3 DEF HelperInv
<1>7. FinalNotesTrue
  BY <1>2, <1>3 DEF FinalNotesTrue, Tells, Final
<1> QED BY <1>4, <1>5, <1>6, <1>7 DEF MediaInv

LEMMA MediaNext == MediaInv /\ [Next]_vars => MediaInv'
<1> SUFFICES ASSUME MediaInv, [Next]_vars PROVE MediaInv'
  OBVIOUS
<1>1. ASSUME NEW h \in Helpers, HelperStep(h)
      PROVE  MediaInv'
  BY <1>1, InspectStep, AdmitStep, RefuseStep, OpenNoteStep, WriteNoteStep, UnnoteStep,
     VerifyStep, RemoveStep, FinalizeNoteStep DEF HelperStep
<1>2. ASSUME NEW h \in Helpers, Kill(h)
      PROVE  MediaInv'
  BY <1>2, KillStep
<1>3. ASSUME NEW r \in Results, Complete(r)
      PROVE  MediaInv'
  BY <1>3, AroundStep DEF Complete, MediaInv, TypeOK
<1>4. ASSUME NEW i \in Images, Write(i)
      PROVE  MediaInv'
  <2>1. version' \in [Images -> 1 .. MaxVersion]
    BY <1>4, VersionAssumption DEF Write, MediaInv, TypeOK
  <2> QED BY <1>4, <2>1, AroundStep DEF Write, MediaInv, TypeOK
<1>5. CASE PowerLoss
  BY <1>5, PowerLossStep
<1>6. CASE UNCHANGED vars
  BY <1>6, AroundStep DEF vars, world, MediaInv, TypeOK
<1> QED BY <1>1, <1>2, <1>3, <1>4, <1>5, <1>6 DEF Next

LEMMA MediaHolds == Spec => []MediaInv
BY MediaInit, MediaNext, PTL DEF Spec

(* Every variable keeps its type, and nothing is ever selected in a build    *)
(* (prune-media.py, build_plan).                                             *)
THEOREM MediaTypesHold == Spec => []TypeOK
<1>1. MediaInv => TypeOK
  BY DEF MediaInv
<1> QED BY <1>1, MediaHolds, PTL

(* Whatever was unlinked is accounted for in a note that no kill, no power   *)
(* loss and no other helper takes away (prune-media.py, apply_plan).         *)
THEOREM RemovalsAreAlwaysAudited == Spec => []RemovalsAreAudited
<1>1. ASSUME MediaInv, NEW h \in Helpers, removed[h] # {}, NEW r \in Planned(h)
      PROVE  /\ note[r].status \notin {"none", "empty"}
             /\ note[r].by = h
             /\ note[r].selected = {f \in Files : <<r, f>> \in DOMAIN plan[h]}
  <2>1. Stands(h, r)
    BY <1>1 DEF MediaInv, HelperInv, NotesStand
  <2> QED BY <2>1 DEF Stands, Written
<1>2. MediaInv => RemovalsAreAudited
  BY <1>1 DEF RemovalsAreAudited
<1> QED BY <1>2, MediaHolds, PTL

(* A final note is right about its result, also where helpers met           *)
(* (prune-media.py, replace_note).                                           *)
THEOREM NotesAreAlwaysExact == Spec => []NotesAreExact
<1>1. ASSUME MediaInv, NEW r \in Results, note[r].status \in Final
      PROVE  LET unlinked == {f \in Files : \E h \in Helpers : <<r, f>> \in removed[h]}
             IN /\ note[r].removed = unlinked
                /\ note[r].status = "completed" <=> note[r].selected \subseteq unlinked
                /\ note[r].status = "aborted" <=> unlinked = {}
  <2> DEFINE w == note[r].by
             unlinked == {f \in Files : \E h \in Helpers : <<r, f>> \in removed[h]}
             own == {f \in Files : <<r, f>> \in removed[w]}
  <2>1. w \in Helpers
    BY <1>1, NoteFacts DEF MediaInv, TypeOK, Final
  <2>2. /\ note[r].removed = own
        /\ note[r].status = "completed" <=> note[r].selected \subseteq own
        /\ note[r].status = "aborted" <=> own = {}
    BY <1>1 DEF MediaInv, FinalNotesTrue, Tells
  <2>3. ASSUME NEW h \in Helpers, NEW f \in Files, <<r, f>> \in removed[h]
        PROVE  h = w
    <3>1. <<r, f>> \in DOMAIN plan[h]
      BY <1>1, <2>3 DEF MediaInv, TypeOK
    <3>2. r \in Planned(h)
      BY <3>1 DEF Planned
    <3>3. Stands(h, r)
      BY <1>1, <2>3, <3>2 DEF MediaInv, HelperInv, NotesStand
    <3> QED BY <3>3 DEF Stands, Written
  <2>4. unlinked = own
    BY <2>1, <2>3
  <2> QED BY <2>2, <2>4
<1>2. MediaInv => NotesAreExact
  BY <1>1 DEF NotesAreExact
<1> QED BY <1>2, MediaHolds, PTL

(* A helper that gives up before the removal has removed nothing, and one    *)
(* that says it refused leaves no note (prune-media.py, apply_plan).         *)
THEOREM RefusalsAlwaysLeaveNothing == Spec => RefusalsLeaveNothing
<1> DEFINE NothingLeft(h) ==
      pc[h] \in {"inspect", "admit", "unnote"} /\ pc'[h] \in Over =>
        /\ removed[h] = {}
        /\ pc'[h] = "refused" => \A r \in Results : note'[r].status # "none" => note'[r].by # h
<1>1. ASSUME MediaInv, [Next]_vars, NEW h \in Helpers,
             pc[h] \in {"inspect", "admit", "unnote"}, pc'[h] = "refused"
      PROVE  notes[h] = {} /\ note' = note
  <2>1. pc[h] # "refused" /\ pc \in [Helpers -> Places]
    BY <1>1 DEF MediaInv, TypeOK, Places
  <2>2. ASSUME NEW p \in Helpers, HelperStep(p)
        PROVE  p = h /\ (Refuse(h) \/ Unnote(h))
    <3>1. p = h
      <4>1. \E at \in Places : pc' = [pc EXCEPT ![p] = at]
        <5>1. pc = [pc EXCEPT ![p] = pc[p]] /\ pc[p] \in Places
          BY <2>1
        <5> QED BY <2>2, <5>1 DEF HelperStep, Inspect, Admit, Refuse, OpenNote, WriteNote,
                   NoteWritten, Unnote, VerifyUnchanged, RemoveImage, FinalizeNote, Goto, Places, Over
      <4> QED BY <1>1, <2>1, <4>1
    <3>2. ~Inspect(h) /\ ~Admit(h)
      BY <1>1, <2>1 DEF Inspect, Admit, Goto
    <3> QED BY <1>1, <2>2, <3>1, <3>2
            DEF HelperStep, OpenNote, WriteNote, VerifyUnchanged, RemoveImage, FinalizeNote
  <2>3. CASE Refuse(h)
    BY <1>1, <2>3 DEF Refuse, MediaInv, HelperInv, Progress, paper
  <2>4. CASE Unnote(h)
    BY <1>1, <2>1, <2>4 DEF Unnote, Goto
  <2>5. \E p \in Helpers : HelperStep(p)
    BY <1>1, <2>1 DEF Next, Kill, Complete, Write, PowerLoss, vars, Goto, Over
  <2> QED BY <2>2, <2>3, <2>4, <2>5
<1>2. ASSUME MediaInv, [Next]_vars, NEW h \in Helpers
      PROVE  NothingLeft(h)
  <2> SUFFICES ASSUME pc[h] \in {"inspect", "admit", "unnote"}, pc'[h] \in Over
               PROVE  /\ removed[h] = {}
                      /\ pc'[h] = "refused" =>
                           \A r \in Results : note'[r].status # "none" => note'[r].by # h
    OBVIOUS
  <2>1. HelperInv(h) /\ pc[h] \notin {"remove", "write"} \cup HelperEnded
    BY <1>2 DEF MediaInv, HelperEnded, Over
  <2>2. removed[h] = {}
    BY <2>1 DEF HelperInv, Progress
  <2>3. ASSUME pc'[h] = "refused"
        PROVE  \A r \in Results : note'[r].status # "none" => note'[r].by # h
    BY <1>1, <1>2, <2>1, <2>3 DEF HelperInv, Listed
  <2> QED BY <2>2, <2>3
<1>3. MediaInv /\ [Next]_vars => [\A h \in Helpers : NothingLeft(h)]_vars
  BY <1>2
<1> QED BY <1>3, MediaHolds, PTL DEF Spec, RefusalsLeaveNothing

------------------------------------------------------------------------------
ControllerPlaces ==
  {"none", "open", "run", "write", "proved", "timeout", "failed", "interrupted",
   "finally", "stop", "outcome", "exited", "killed"}
LauncherPlaces ==
  {"start", "wait", "judge", "passed", "exit", "stop", "finish", "ended", "killed"}
ExitStatuses == {0, 1, 143}

ObservationRecords ==
  [sequence : Nat, at : Int, subject : {"imp:6", "route:host176-to-host106"},
   state : {"started", "passed", "timeout", "failed", "interrupted"},
   category : Categories]

Keys == {"format", "started_utc", "repository.revision", "process.controller.pid",
         "application.sentinel_sha256", "termination.exit-status", "termination.kind",
         "termination.signal", "cleanup.runtime.attempts", "cleanup.runtime.exit-status",
         "cleanup.runtime.failed-resources", "failure.reason", "finished_utc", "outcome",
         "exit_status"}
Texts == {"1", "revision", "pid", "digest", "signal", "exit", "TERM", "none", "resource",
          "text", "passed", "failed"}
ManifestRecords == [key : Keys, value : Int \cup Texts]

Launchers == [at : LauncherPlaces, status : ExitStatuses, signal : BOOLEAN, cleaned : BOOLEAN,
              lost : BOOLEAN, tail : Seq(ManifestRecords)]
Controllers == [at : ControllerPlaces, step : Nat, outcome : {"passed", "failed"},
                interrupted : BOOLEAN, next : {"run", "finally"}, status : ExitStatuses]
Streams == [header : {"none", "part", "whole"}, started : 0..MaxTime,
            lines : Seq(ObservationRecords)]
DiagnosisReports ==
  [at : {"idle", "manifest", "done"}, manifest : Seq(ManifestRecords),
   status : {"none", "unavailable", "inconsistent", "unfinished", "passed", "failed"}]

RunTables ==
  /\ now \in 0..MaxTime /\ running \in BOOLEAN /\ sentinel \in BOOLEAN
  /\ outcome \in {"absent", "empty", "passed", "failed"}
  /\ launcher \in Launchers /\ controller \in Controllers
  /\ stream \in Streams /\ report \in DiagnosisReports
  /\ manifest \in Seq(ManifestRecords)
  /\ made \in Seq(ObservationRecords)

------------------------------------------------------------------------------
(* The stream. *)

Published(next) == InController("write") /\ controller.next = next

ControllerInPlan ==
  /\ InLauncher("start") => InController("none")
  /\ controller.at \in {"none", "open"} =>
       made = <<>> /\ ~controller.interrupted /\ controller.step = 1
  /\ InController("none") => stream.header = "none"
  /\ InController("open") => stream.header \in {"none", "part"}
  /\ InController("run") \/ Published("run") =>
       controller.step \in 1..3 /\ Len(made) = controller.step - 1
  /\ controller.at \in {"proved", "timeout", "failed", "interrupted"} => Len(made) <= 2
  /\ Len(made) <= 3
  /\ controller.at \in {"run", "proved", "timeout", "failed"} \/ Published("run") =>
       ~controller.interrupted

MadeIsValid ==
  /\ \A k \in DOMAIN made : /\ made[k].sequence = k /\ made[k].at >= stream.started
                            /\ made[k].subject \in Subjects(TwoItsTopology)
  /\ \A j, k \in DOMAIN made : j <= k => made[j].at <= made[k].at

StreamFollows ==
  /\ Len(stream.lines) <= Len(made)
  /\ InController("write") => Len(stream.lines) < Len(made)
  /\ \A k \in DOMAIN stream.lines : \E j \in DOMAIN made : j >= k /\ stream.lines[k] = made[j]
  /\ ~controller.interrupted =>
       /\ \A k \in DOMAIN stream.lines : stream.lines[k] = made[k]
       /\ Len(stream.lines) >= Len(made) - 1
       /\ controller.at \notin {"write", "killed"} => Len(stream.lines) = Len(made)

StreamInv == ControllerInPlan /\ MadeIsValid /\ StreamFollows

------------------------------------------------------------------------------
(* The records. *)

OutcomeIsTheControllers ==
  /\ InController("outcome") => ~running
  /\ outcome = "passed" => InController("exited") /\ controller.outcome = "passed" /\ ~running

PassedWasJudged ==
  /\ launcher.at \in {"start", "wait", "judge", "passed"} =>
       launcher.status = 0 /\ ~launcher.signal
  /\ launcher.signal => launcher.status = 143
  /\ InLauncher("judge") => InController("exited") /\ controller.status = 0
  /\ InLauncher("passed") \/ (launcher.at \in {"exit", "stop", "finish", "ended"} /\ launcher.status = 0) =>
       outcome = "passed" /\ controller.status = 0
  /\ InLauncher("passed") \/ (launcher.at \in {"exit", "stop"} /\ launcher.status = 0) => launcher.cleaned

BaseKeys == {"format", "started_utc", "repository.revision", "process.controller.pid",
             "application.sentinel_sha256"}
FinalKeysOf(l) ==
  CleanupKeys
  \cup {"termination.exit-status", "termination.kind", "finished_utc", "outcome", "exit_status"}
  \cup (IF l.signal THEN {"termination.signal"} ELSE {})
  \cup (IF l.status # 0 THEN {"failure.reason"} ELSE {})
FinalKeys == FinalKeysOf(launcher)

(* The terminal records are being written, or are.                           *)
Finishing == launcher.tail # <<>> \/ (InLauncher("ended") /\ manifest # <<>>)

(* What a terminal record says of a launcher that had status when its        *)
(* cleanup ended as it did, and that ends as l tells.                        *)
Says(l, e, status, cleanup) ==
  /\ e.key = "termination.exit-status" => e.value = status
  /\ e.key = "termination.kind" => e.value = IF l.signal THEN "signal" ELSE "exit"
  /\ e.key = "cleanup.runtime.exit-status" => e.value = cleanup
  /\ e.key = "cleanup.runtime.failed-resources" => e.value = IF cleanup = 0 THEN "none" ELSE "resource"
  /\ e.key \in {"started_utc", "finished_utc"} => e.value \in Int
  /\ e.key = "outcome" => e.value = IF l.status = 0 THEN "passed" ELSE "failed"
  /\ e.key = "exit_status" => e.value = l.status

SaysWhatHappened(status, cleanup) ==
  /\ launcher.status = IF status = 0 THEN cleanup ELSE status
  /\ launcher.signal => status = 143
  /\ \A n \in DOMAIN manifest : Says(launcher, manifest[n], status, cleanup)
  /\ \A n \in DOMAIN launcher.tail : Says(launcher, launcher.tail[n], status, cleanup)

KeysDiffer(m) == \A j, k \in DOMAIN m : j # k => m[j].key # m[k].key

Begun ==
  /\ \A n \in DOMAIN manifest : manifest[n].key = "started_utc" => manifest[n].value \in Int
  /\ Has(manifest, "repository.revision") => Has(manifest, "format") /\ Has(manifest, "started_utc")
  /\ InLauncher("start") => /\ Len(manifest) < 4
                            /\ \A n \in DOMAIN manifest : manifest[n].key = Setup[n].key

RecordsInOrder ==
  /\ KeysDiffer(manifest) /\ KeysDiffer(launcher.tail)
  /\ \A n \in DOMAIN launcher.tail : ~Has(manifest, launcher.tail[n].key)
  /\ InLauncher("finish") => launcher.tail # <<>>
  /\ launcher.tail # <<>> =>
       launcher.at \in {"finish", "killed"} /\ launcher.tail[Len(launcher.tail)].key = "exit_status"
  /\ launcher.at \in {"finish", "ended"} \/ Finishing => ControllerGone
  /\ ~Finishing => \A n \in DOMAIN manifest : manifest[n].key \in BaseKeys

FinalRecordsTell ==
  Finishing =>
    /\ \A n \in DOMAIN manifest : manifest[n].key \in BaseKeys \cup FinalKeys
    /\ \A n \in DOMAIN launcher.tail : launcher.tail[n].key \in FinalKeys
    /\ \A k \in FinalKeys : Has(manifest, k) \/ Has(launcher.tail, k)
    /\ \E status \in ExitStatuses, cleanup \in 0..1 : SaysWhatHappened(status, cleanup)

CompleteIsFinal ==
  /\ CompleteRecord(report.manifest) => InLauncher("ended") /\ report.manifest = manifest
  /\ ReportIsTrue

TwoItsInv ==
  /\ RunTables /\ StreamInv /\ OutcomeIsTheControllers /\ PassedWasJudged
  /\ Begun /\ RecordsInOrder /\ FinalRecordsTell /\ CompleteIsFinal

------------------------------------------------------------------------------
(* What the steps have in common. *)

(* A signal changes nothing, or the controller is on its way out.            *)
LEMMA SignalTells ==
  ASSUME RunTables
  PROVE  \/ Interrupted(controller) = controller
         \/ /\ ~controller.interrupted /\ InController("open")
            /\ Interrupted(controller) = [controller EXCEPT !.at = "exited", !.status = 143]
         \/ /\ ~controller.interrupted /\ (controller.at \in {"run", "proved"} \/ Published("run"))
            /\ Interrupted(controller) =
                 [controller EXCEPT !.at = "interrupted", !.interrupted = TRUE, !.status = 1]
         \/ /\ ~controller.interrupted /\ (controller.at \in {"timeout", "failed"} \/ Published("finally"))
            /\ Interrupted(controller) =
                 [controller EXCEPT !.at = "finally", !.interrupted = TRUE, !.status = 1]
         \/ /\ ~controller.interrupted /\ controller.at \in {"interrupted", "finally", "outcome"}
            /\ Interrupted(controller) =
                 [controller EXCEPT !.at = "exited", !.interrupted = TRUE, !.status = 1]
<1>1. CASE controller.interrupted \/ controller.at \in {"stop", "none", "exited", "killed"}
  BY <1>1 DEF Interrupted
<1>2. CASE ~(controller.interrupted \/ controller.at \in {"stop", "none", "exited", "killed"})
  <2>1. controller.at \in ControllerPlaces /\ controller.next \in {"run", "finally"}
    BY DEF RunTables, Launchers, Controllers, Streams, DiagnosisReports
  <2>2. CASE InController("open")
    BY <1>2, <2>2 DEF Interrupted, InController
  <2>3. CASE controller.at \in {"run", "proved"} \/ Published("run")
    BY <1>2, <2>3 DEF Interrupted, InController, Published
  <2>4. CASE controller.at \in {"timeout", "failed"} \/ Published("finally")
    BY <1>2, <2>4 DEF Interrupted, InController, Published
  <2>5. CASE controller.at \in {"interrupted", "finally", "outcome"}
    BY <1>2, <2>5 DEF Interrupted, InController, Published
  <2> QED
    BY <1>2, <2>1, <2>2, <2>3, <2>4, <2>5 DEF ControllerPlaces, InController, Published
<1> QED
  BY <1>1, <1>2

------------------------------------------------------------------------------
(* The terminal records as the launcher prepares them. *)

(* A list of records of these keys, each written once and true.              *)
Lists(l, s, K, status, cleanup) ==
  /\ s \in Seq(ManifestRecords) /\ KeysDiffer(s)
  /\ \A k : Has(s, k) <=> k \in K
  /\ \A n \in DOMAIN s : Says(l, s[n], status, cleanup)

LEMMA JoinLists ==
  ASSUME NEW l, NEW status, NEW cleanup, NEW s, NEW t, NEW K, NEW L,
         Lists(l, s, K, status, cleanup), Lists(l, t, L, status, cleanup), K \cap L = {}
  PROVE  /\ Lists(l, s \o t, K \cup L, status, cleanup)
         /\ Len(t) > 0 => s \o t # <<>> /\ (s \o t)[Len(s \o t)] = t[Len(t)]
<1>1. s \in Seq(ManifestRecords) /\ t \in Seq(ManifestRecords)
  BY DEF Lists
<1>2. s \o t \in Seq(ManifestRecords)
  BY <1>1
<1>3. /\ DOMAIN (s \o t) = 1..(Len(s) + Len(t)) /\ DOMAIN s = 1..Len(s) /\ DOMAIN t = 1..Len(t)
      /\ Len(s) \in Nat /\ Len(t) \in Nat
  BY <1>1, <1>2, ConcatProperties, LenProperties
<1>4. /\ \A n \in 1..Len(s) : (s \o t)[n] = s[n]
      /\ \A n \in 1..Len(t) : (s \o t)[Len(s) + n] = t[n]
      /\ \A n \in 1..(Len(s) + Len(t)) : n <= Len(s) \/ (n - Len(s) \in 1..Len(t) /\ (s \o t)[n] = t[n - Len(s)])
  BY <1>1, <1>3, ConcatProperties
<1>5. ASSUME NEW k PROVE Has(s \o t, k) <=> k \in K \cup L
  <2>1. (Has(s, k) <=> k \in K) /\ (Has(t, k) <=> k \in L)
    BY DEF Lists
  <2>2. Has(s \o t, k) => Has(s, k) \/ Has(t, k)
    BY <1>3, <1>4 DEF Has
  <2>3. Has(s, k) => Has(s \o t, k)
    BY <1>3, <1>4 DEF Has
  <2>4. Has(t, k) => Has(s \o t, k)
    <3> SUFFICES ASSUME NEW n \in 1..Len(t), t[n].key = k PROVE Has(s \o t, k)
      BY <1>3 DEF Has
    <3>1. Len(s) + n \in DOMAIN (s \o t) /\ (s \o t)[Len(s) + n].key = k
      BY <1>3, <1>4
    <3> QED
      BY <3>1 DEF Has
  <2> QED
    BY <2>1, <2>2, <2>3, <2>4
<1>6. \A j \in DOMAIN s, n \in DOMAIN t : s[j].key # t[n].key
  BY DEF Lists, Has
<1>7. KeysDiffer(s \o t)
  <2> SUFFICES ASSUME NEW j \in DOMAIN (s \o t), NEW n \in DOMAIN (s \o t), j # n
               PROVE  (s \o t)[j].key # (s \o t)[n].key
    BY DEF KeysDiffer
  <2>1. KeysDiffer(s) /\ KeysDiffer(t)
    BY DEF Lists
  <2>2. CASE j <= Len(s) /\ n <= Len(s)
    BY <2>1, <2>2, <1>3, <1>4 DEF KeysDiffer
  <2>3. CASE j <= Len(s) /\ ~(n <= Len(s))
    BY <2>3, <1>3, <1>4, <1>6
  <2>4. CASE ~(j <= Len(s)) /\ n <= Len(s)
    BY <2>4, <1>3, <1>4, <1>6
  <2>5. CASE ~(j <= Len(s)) /\ ~(n <= Len(s))
    <3>1. j - Len(s) # n - Len(s)
      BY <1>3
    <3> QED
      BY <2>1, <2>5, <3>1, <1>3, <1>4 DEF KeysDiffer
  <2> QED
    BY <2>2, <2>3, <2>4, <2>5
<1>8. ASSUME NEW n \in DOMAIN (s \o t) PROVE Says(l, (s \o t)[n], status, cleanup)
  <2>1. CASE n <= Len(s)
    BY <2>1, <1>3, <1>4 DEF Lists
  <2>2. CASE ~(n <= Len(s))
    BY <2>2, <1>3, <1>4 DEF Lists
  <2> QED
    BY <2>1, <2>2
<1>9. Len(t) > 0 => s \o t # <<>> /\ (s \o t)[Len(s \o t)] = t[Len(t)]
  <2>1. Len(s \o t) = Len(s) + Len(t)
    BY <1>1, ConcatProperties
  <2> QED
    BY <2>1, <1>2, <1>3, <1>4
<1> QED
  BY <1>2, <1>5, <1>7, <1>8, <1>9 DEF Lists

LEMMA EntryIsARecord ==
  ASSUME NEW k \in Keys, NEW v \in Int \cup Texts
  PROVE  Entry(k, v) \in ManifestRecords
BY DEF Entry, ManifestRecords

LEMMA FinalRecordsTellAll ==
  ASSUME RunTables, NEW status \in ExitStatuses, NEW exit \in ExitStatuses, NEW cleanup \in 0..1,
         NEW l, l.signal = launcher.signal, l.status = exit
  PROVE  LET f == FinalRecords(status, exit, cleanup) IN
         /\ Lists(l, f, FinalKeysOf(l), status, cleanup)
         /\ f # <<>> /\ f[Len(f)].key = "exit_status"
<1> DEFINE a == <<Entry("termination.exit-status", status),
                  Entry("termination.kind", IF launcher.signal THEN "signal" ELSE "exit")>>
           b == IF launcher.signal THEN <<Entry("termination.signal", "TERM")>> ELSE <<>>
           c == <<Entry("cleanup.runtime.attempts", 1), Entry("cleanup.runtime.exit-status", cleanup),
                  Entry("cleanup.runtime.failed-resources", IF cleanup = 0 THEN "none" ELSE "resource")>>
           d == IF exit # 0 THEN <<Entry("failure.reason", "text")>> ELSE <<>>
           e == <<Entry("finished_utc", now), Entry("outcome", IF exit = 0 THEN "passed" ELSE "failed"),
                  Entry("exit_status", exit)>>
           B == IF launcher.signal THEN {"termination.signal"} ELSE {}
           D == IF exit # 0 THEN {"failure.reason"} ELSE {}
<1> USE DEF ExitStatuses
<1>1. Lists(l, a, {"termination.exit-status", "termination.kind"}, status, cleanup)
  <2>1. a \in Seq(ManifestRecords)
    <3>1. status \in Int \cup Texts /\ (IF launcher.signal THEN "signal" ELSE "exit") \in Int \cup Texts
      BY DEF Texts
    <3>2. /\ Entry("termination.exit-status", status) \in ManifestRecords
          /\ Entry("termination.kind", IF launcher.signal THEN "signal" ELSE "exit") \in ManifestRecords
      BY <3>1, EntryIsARecord DEF Keys
    <3> QED
      BY <3>2
  <2>2. DOMAIN a = 1..2
    OBVIOUS
  <2> QED
    BY <2>1, <2>2 DEF Lists, KeysDiffer, Has, Says, Entry
<1>2. Lists(l, b, B, status, cleanup)
  <2>1. CASE launcher.signal
    <3>1. Entry("termination.signal", "TERM") \in ManifestRecords
      BY EntryIsARecord DEF Keys, Texts
    <3>2. b \in Seq(ManifestRecords) /\ DOMAIN b = 1..1 /\ b[1] = Entry("termination.signal", "TERM")
      BY <2>1, <3>1
    <3> QED
      BY <2>1, <3>2 DEF Lists, KeysDiffer, Has, Says, Entry
  <2>2. CASE ~launcher.signal
    <3>1. b \in Seq(ManifestRecords) /\ DOMAIN b = {}
      BY <2>2
    <3> QED
      BY <2>2, <3>1 DEF Lists, KeysDiffer, Has
  <2> QED
    BY <2>1, <2>2
<1>3. Lists(l, c, CleanupKeys, status, cleanup)
  <2>1. c \in Seq(ManifestRecords)
    <3>1. cleanup \in Int \cup Texts /\ (IF cleanup = 0 THEN "none" ELSE "resource") \in Int \cup Texts
      BY DEF Texts
    <3>3. CleanupKeys \subseteq Keys /\ 1 \in Int \cup Texts
      BY DEF CleanupKeys, Keys
    <3>2. /\ Entry("cleanup.runtime.attempts", 1) \in ManifestRecords
          /\ Entry("cleanup.runtime.exit-status", cleanup) \in ManifestRecords
          /\ Entry("cleanup.runtime.failed-resources", IF cleanup = 0 THEN "none" ELSE "resource") \in ManifestRecords
      BY <3>1, <3>3, EntryIsARecord DEF CleanupKeys
    <3> QED
      BY <3>2
  <2>2. DOMAIN c = 1..3
    OBVIOUS
  <2> QED
    BY <2>1, <2>2 DEF Lists, KeysDiffer, Has, Says, Entry, CleanupKeys
<1>4. Lists(l, d, D, status, cleanup)
  <2>1. CASE exit # 0
    <3>1. Entry("failure.reason", "text") \in ManifestRecords
      BY EntryIsARecord DEF Keys, Texts
    <3>2. d \in Seq(ManifestRecords) /\ DOMAIN d = 1..1 /\ d[1] = Entry("failure.reason", "text")
      BY <2>1, <3>1
    <3> QED
      BY <2>1, <3>2 DEF Lists, KeysDiffer, Has, Says, Entry
  <2>2. CASE ~(exit # 0)
    <3>1. d \in Seq(ManifestRecords) /\ DOMAIN d = {}
      BY <2>2
    <3> QED
      BY <2>2, <3>1 DEF Lists, KeysDiffer, Has
  <2> QED
    BY <2>1, <2>2
<1>5. Lists(l, e, {"finished_utc", "outcome", "exit_status"}, status, cleanup)
  <2>1. e \in Seq(ManifestRecords) /\ now \in Int
    <3>1. now \in Int
      BY DEF RunTables
    <3>2. /\ now \in Int \cup Texts /\ exit \in Int \cup Texts
          /\ (IF exit = 0 THEN "passed" ELSE "failed") \in Int \cup Texts
          /\ {"finished_utc", "outcome", "exit_status"} \subseteq Keys
      BY <3>1 DEF Texts, Keys
    <3>3. /\ Entry("finished_utc", now) \in ManifestRecords
          /\ Entry("outcome", IF exit = 0 THEN "passed" ELSE "failed") \in ManifestRecords
          /\ Entry("exit_status", exit) \in ManifestRecords
      BY <3>2, EntryIsARecord
    <3> QED
      BY <3>1, <3>3
  <2>2. DOMAIN e = 1..3
    OBVIOUS
  <2> QED
    BY <2>1, <2>2 DEF Lists, KeysDiffer, Has, Says, Entry
<1>6. Len(e) = 3 /\ e[Len(e)].key = "exit_status" /\ e \in Seq(ManifestRecords)
  BY <1>5 DEF Entry, Lists
<1>7. FinalRecords(status, exit, cleanup) = a \o b \o c \o d \o e
  BY DEF FinalRecords
<1> HIDE DEF a, b, c, d, e
<1>8. Lists(l, a \o b, {"termination.exit-status", "termination.kind"} \cup B, status, cleanup)
  BY <1>1, <1>2, JoinLists
<1>9. Lists(l, a \o b \o c, {"termination.exit-status", "termination.kind"} \cup B \cup CleanupKeys, status, cleanup)
  BY <1>8, <1>3, JoinLists DEF CleanupKeys
<1>10. Lists(l, a \o b \o c \o d,
             {"termination.exit-status", "termination.kind"} \cup B \cup CleanupKeys \cup D, status, cleanup)
  BY <1>9, <1>4, JoinLists DEF CleanupKeys
<1>11. /\ Lists(l, a \o b \o c \o d \o e,
                {"termination.exit-status", "termination.kind"} \cup B \cup CleanupKeys \cup D
                  \cup {"finished_utc", "outcome", "exit_status"}, status, cleanup)
       /\ Len(e) > 0 => /\ a \o b \o c \o d \o e # <<>>
                        /\ (a \o b \o c \o d \o e)[Len(a \o b \o c \o d \o e)] = e[Len(e)]
  BY <1>10, <1>5, JoinLists DEF CleanupKeys
<1>12. FinalKeysOf(l) = {"termination.exit-status", "termination.kind"} \cup B \cup CleanupKeys \cup D
                          \cup {"finished_utc", "outcome", "exit_status"}
  BY DEF FinalKeysOf
<1>13. Len(e) > 0
  BY <1>6
<1>14. e[Len(e)].key = "exit_status"
  BY <1>6
<1> DEFINE f == a \o b \o c \o d \o e
<1>15. f # <<>> /\ f[Len(f)] = e[Len(e)]
  BY <1>11, <1>13
<1>16. Lists(l, f, FinalKeysOf(l), status, cleanup)
  BY <1>11, <1>12, Zenon
<1> QED
  BY <1>7, <1>14, <1>15, <1>16

------------------------------------------------------------------------------
(* Types. *)

Posts == [subject : {"imp:6", "route:host176-to-host106"},
          state : {"started", "passed", "timeout", "failed", "interrupted"},
          category : Categories]

LEMMA PlanIs == Len(Plan) = 2 /\ Plan[1] \in Posts /\ Plan[2] \in Posts
<1>1. [subject |-> "imp:6", state |-> "started", category |-> "harness"] \in Posts
  BY DEF Posts, Categories
<1>2. [subject |-> "route:host176-to-host106", state |-> "passed", category |-> "application"] \in Posts
  BY DEF Posts, Categories
<1> QED
  BY <1>1, <1>2 DEF Plan

LEMMA SetupIs ==
  ASSUME RunTables
  PROVE  /\ Len(Setup) = 4 /\ \A n \in 1..4 : Setup[n] \in ManifestRecords
         /\ Setup[1].key = "format" /\ Setup[2].key = "started_utc"
         /\ Setup[3].key = "repository.revision" /\ Setup[4].key = "process.controller.pid"
         /\ Setup[2].value \in Int
<1>1. now \in Int
  BY DEF RunTables, Launchers, Controllers, Streams, DiagnosisReports
<1>2. /\ {"format", "started_utc", "repository.revision", "process.controller.pid"} \subseteq Keys
      /\ {"1", "revision", "pid"} \subseteq Texts
  BY DEF Keys, Texts
<1>3. /\ Entry("format", "1") \in ManifestRecords /\ Entry("started_utc", now) \in ManifestRecords
      /\ Entry("repository.revision", "revision") \in ManifestRecords
      /\ Entry("process.controller.pid", "pid") \in ManifestRecords
  BY <1>1, <1>2, EntryIsARecord
<1> QED
  BY <1>1, <1>3 DEF Setup, Entry

LEMMA CandidateIs ==
  ASSUME RunTables, NEW p \in Posts
  PROVE  /\ Candidate(p) \in Seq(ObservationRecords) /\ Len(Candidate(p)) = Len(made) + 1
         /\ \A k \in 1..Len(made) : Candidate(p)[k] = made[k]
         /\ Candidate(p)[Len(made) + 1].subject = p.subject
         /\ Candidate(p)[Len(made) + 1].sequence = Len(made) + 1
<1> DEFINE o == [sequence |-> Len(made) + 1, at |-> now, subject |-> p.subject,
                 state |-> p.state, category |-> p.category]
<1>1. made \in Seq(ObservationRecords) /\ Len(made) \in Nat /\ now \in Int
  BY DEF RunTables, Launchers, Controllers, Streams, DiagnosisReports
<1>2. o \in ObservationRecords
  BY <1>1 DEF ObservationRecords, Posts
<1>3. Candidate(p) = Append(made, o)
  BY DEF Candidate
<1>4. o.subject = p.subject /\ o.sequence = Len(made) + 1
  OBVIOUS
<1> HIDE DEF o
<1> QED
  BY <1>1, <1>2, <1>3, <1>4, AppendProperties

LEMMA PublishTells ==
  ASSUME RunTables, NEW p \in Posts, NEW next \in {"run", "finally"}, Publish(p, next)
  PROVE  \/ /\ Valid(Candidate(p)) /\ made' = Candidate(p)
            /\ controller' = [controller EXCEPT !.at = "write", !.next = next, !.step = controller.step + 1]
         \/ /\ made' = made
            /\ controller' = [controller EXCEPT !.at = IF next = "run" THEN "failed" ELSE "finally",
                                                !.status = 1]
BY DEF Publish

LEMMA HandleTells ==
  ASSUME RunTables, Handle
  PROVE  \E p \in Posts : Publish(p, "finally")
<1> DEFINE p == [subject |-> "route:host176-to-host106", state |-> controller.at,
                 category |-> IF InController("failed") THEN "harness" ELSE "missing-evidence"]
<1>1. p \in Posts
  BY DEF Handle, Posts, Categories
<1>2. Publish(p, "finally")
  BY DEF Handle
<1> QED
  BY <1>1, <1>2, Zenon

LEMMA StageTells ==
  ASSUME RunTables, ControllerInPlan, Stage
  PROVE  controller.step \in 1..2 /\ \E p \in Posts : Publish(p, "run")
<1>1. controller.step \in 1..2
  BY PlanIs DEF Stage, ControllerInPlan
<1>2. Plan[controller.step] \in Posts
  BY <1>1, PlanIs
<1> QED
  BY <1>1, <1>2, PlanIs DEF Stage

LEMMA DigestIsARecord == Entry("application.sentinel_sha256", "digest") \in ManifestRecords
<1>1. "application.sentinel_sha256" \in Keys /\ "digest" \in Int \cup Texts
  BY DEF Keys, Texts
<1> QED
  BY <1>1, EntryIsARecord

LEMMA DiagnosisIs ==
  ASSUME NEW m, NEW o, CompleteRecord(m) => Value(m, "outcome") \in {"passed", "failed"}
  PROVE  Diagnosis(m, o) \in {"unavailable", "inconsistent", "unfinished", "passed", "failed"}
<1>1. CASE m = <<>>
  BY <1>1 DEF Diagnosis
<1>2. CASE m # <<>> /\ (OutcomeIssue(m, o) \/ TerminationIssue(m) \/ CleanupIssue(m))
  BY <1>2 DEF Diagnosis
<1>3. CASE ~(m = <<>>) /\ ~(m # <<>> /\ (OutcomeIssue(m, o) \/ TerminationIssue(m) \/ CleanupIssue(m)))
  <2>1. Diagnosis(m, o) = IF ~CompleteRecord(m) THEN "unfinished" ELSE Value(m, "outcome")
    BY <1>3 DEF Diagnosis
  <2> QED
    BY <2>1
<1> QED
  BY <1>1, <1>2, <1>3

------------------------------------------------------------------------------
(* A record that is complete. *)

LEMMA ValueIs ==
  ASSUME NEW m, NEW k, Has(m, k)
  PROVE  \E n \in DOMAIN m : m[n].key = k /\ Value(m, k) = m[n].value
<1> DEFINE n == CHOOSE n \in DOMAIN m : m[n].key = k
<1>1. n \in DOMAIN m /\ m[n].key = k
  BY DEF Has
<1>2. Value(m, k) = m[n].value
  BY DEF Value
<1> QED
  BY <1>1, <1>2

LEMMA CompleteIsEnded ==
  ASSUME TwoItsInv, CompleteRecord(manifest)
  PROVE  InLauncher("ended") /\ manifest # <<>> /\ launcher.tail = <<>>
<1>1. PICK n \in DOMAIN manifest : manifest[n].key = "exit_status"
  BY DEF CompleteRecord, Has
<1>2. Finishing
  BY <1>1 DEF TwoItsInv, RecordsInOrder, BaseKeys
<1>3. launcher.tail = <<>>
  <2> SUFFICES ASSUME launcher.tail # <<>> PROVE FALSE
    OBVIOUS
  <2>1. Len(launcher.tail) \in DOMAIN launcher.tail
    BY DEF TwoItsInv, RunTables, Launchers
  <2>2. ~Has(manifest, "exit_status")
    BY <2>1 DEF TwoItsInv, RecordsInOrder
  <2> QED
    BY <1>1, <2>2 DEF Has
<1> QED
  BY <1>2, <1>3 DEF Finishing

(* What the record of a launcher that has ended tells, key by key.           *)
Told(status, cleanup) ==
  /\ launcher.status = IF status = 0 THEN cleanup ELSE status
  /\ launcher.signal => status = 143
  /\ \A k \in FinalKeys : Has(manifest, k)
  /\ \A k : Has(manifest, k) => k \in BaseKeys \cup FinalKeys
  /\ Value(manifest, "termination.exit-status") = status
  /\ Value(manifest, "termination.kind") = IF launcher.signal THEN "signal" ELSE "exit"
  /\ Value(manifest, "cleanup.runtime.exit-status") = cleanup
  /\ Value(manifest, "cleanup.runtime.failed-resources") = IF cleanup = 0 THEN "none" ELSE "resource"
  /\ Value(manifest, "outcome") = IF launcher.status = 0 THEN "passed" ELSE "failed"
  /\ Value(manifest, "exit_status") = launcher.status
  /\ Value(manifest, "finished_utc") \in Int

LEMMA EndedRecordTells ==
  ASSUME TwoItsInv, InLauncher("ended"), manifest # <<>>
  PROVE  \E status \in ExitStatuses, cleanup \in 0..1 : Told(status, cleanup)
<1>1. Finishing
  BY DEF Finishing
<1>2. PICK status \in ExitStatuses, cleanup \in 0..1 : SaysWhatHappened(status, cleanup)
  BY <1>1 DEF TwoItsInv, FinalRecordsTell
<1>3. launcher.tail = <<>>
  BY DEF TwoItsInv, RecordsInOrder, InLauncher
<1>4. \A k : ~Has(launcher.tail, k)
  BY <1>3 DEF Has
<1>5. \A k \in FinalKeys : Has(manifest, k)
  BY <1>1, <1>4 DEF TwoItsInv, FinalRecordsTell
<1>6. \A k : Has(manifest, k) => k \in BaseKeys \cup FinalKeys
  BY <1>1 DEF TwoItsInv, FinalRecordsTell, Has
<1>7. {"termination.exit-status", "termination.kind", "cleanup.runtime.exit-status",
       "cleanup.runtime.failed-resources", "outcome", "exit_status", "finished_utc"} \subseteq FinalKeys
  BY DEF FinalKeys, FinalKeysOf, CleanupKeys
<1>8. ASSUME NEW k \in FinalKeys
      PROVE  \E e : e.key = k /\ Value(manifest, k) = e.value /\ Says(launcher, e, status, cleanup)
  <2>1. PICK n \in DOMAIN manifest : manifest[n].key = k /\ Value(manifest, k) = manifest[n].value
    BY <1>5, ValueIs
  <2>2. Says(launcher, manifest[n], status, cleanup)
    BY <1>2 DEF SaysWhatHappened
  <2> QED
    BY <2>1, <2>2
<1>9. /\ Value(manifest, "termination.exit-status") = status
      /\ Value(manifest, "termination.kind") = IF launcher.signal THEN "signal" ELSE "exit"
  BY <1>7, <1>8 DEF Says
<1>10. /\ Value(manifest, "cleanup.runtime.exit-status") = cleanup
       /\ Value(manifest, "cleanup.runtime.failed-resources") = IF cleanup = 0 THEN "none" ELSE "resource"
  BY <1>7, <1>8 DEF Says
<1>11. /\ Value(manifest, "outcome") = IF launcher.status = 0 THEN "passed" ELSE "failed"
       /\ Value(manifest, "exit_status") = launcher.status
       /\ Value(manifest, "finished_utc") \in Int
  BY <1>7, <1>8 DEF Says
<1> QED
  BY <1>2, <1>5, <1>6, <1>9, <1>10, <1>11 DEF Told, SaysWhatHappened

LEMMA CompleteTells ==
  ASSUME TwoItsInv, NEW m, m = manifest, CompleteRecord(m)
  PROVE  /\ InLauncher("ended")
         /\ Value(m, "outcome") = IF launcher.status = 0 THEN "passed" ELSE "failed"
<1>1. InLauncher("ended") /\ manifest # <<>>
  BY CompleteIsEnded
<1> QED
  BY <1>1, EndedRecordTells DEF Told

LEMMA OpenTells ==
  ASSUME RunTables, ControllerInPlan, OpenStream
  PROVE  \/ /\ stream.header = "none" /\ stream' = [stream EXCEPT !.header = "part", !.started = now]
            /\ controller' = controller
         \/ /\ stream.header = "part" /\ stream' = [stream EXCEPT !.header = "whole"]
            /\ controller' = [controller EXCEPT !.at = "run"]
<1>1. stream.header \in {"none", "part"}
  BY DEF OpenStream, ControllerInPlan
<1>2. CASE stream.header = "none"
  BY <1>2 DEF OpenStream
<1>3. CASE stream.header = "part"
  BY <1>3 DEF OpenStream
<1> QED
  BY <1>1, <1>2, <1>3

(* What the cleanup leaves to be done.                                       *)
LEMMA CleanTells ==
  ASSUME RunTables, PassedWasJudged, Clean
  PROVE  \E cleanup \in 0..1, exit \in ExitStatuses :
           /\ launcher.status \in ExitStatuses
           /\ exit = IF launcher.status = 0 THEN cleanup ELSE launcher.status
           /\ launcher.cleaned => cleanup = 0
           /\ \/ manifest = <<>> /\ launcher' = [launcher EXCEPT !.at = "ended", !.status = exit]
              \/ /\ manifest # <<>>
                 /\ launcher' = [launcher EXCEPT !.at = "finish", !.status = exit,
                                                 !.tail = FinalRecords(launcher.status, exit, cleanup)]
                 /\ Lists(launcher', launcher'.tail, FinalKeysOf(launcher'), launcher.status, cleanup)
                 /\ launcher'.tail # <<>> /\ launcher'.tail[Len(launcher'.tail)].key = "exit_status"
                 /\ launcher' \in Launchers
<1>1. launcher \in Launchers
  BY DEF RunTables
<1>2. PICK cleanup \in 0..1 :
        /\ launcher.cleaned => cleanup = 0
        /\ LET exit == IF launcher.status = 0 THEN cleanup ELSE launcher.status
           IN launcher' = IF manifest = <<>> THEN [launcher EXCEPT !.at = "ended", !.status = exit]
                          ELSE [launcher EXCEPT !.at = "finish", !.status = exit,
                                                !.tail = FinalRecords(launcher.status, exit, cleanup)]
  BY DEF Clean
<1> DEFINE exit == IF launcher.status = 0 THEN cleanup ELSE launcher.status
           f == FinalRecords(launcher.status, exit, cleanup)
<1>3. launcher.status \in ExitStatuses /\ exit \in ExitStatuses
  BY <1>1 DEF Launchers, ExitStatuses
<1>4. exit = IF launcher.status = 0 THEN cleanup ELSE launcher.status
  OBVIOUS
<1>5. CASE manifest = <<>>
  BY <1>2, <1>3, <1>5
<1>6. CASE manifest # <<>>
  <2>1. launcher' = [launcher EXCEPT !.at = "finish", !.status = exit, !.tail = f]
    BY <1>2, <1>6
  <2> HIDE DEF exit
  <2>2. \A l : l.signal = launcher.signal /\ l.status = exit =>
          Lists(l, f, FinalKeysOf(l), launcher.status, cleanup) /\ f # <<>> /\ f[Len(f)].key = "exit_status"
    BY <1>3, FinalRecordsTellAll
  <2> HIDE DEF f
  <2>3. launcher'.signal = launcher.signal /\ launcher'.status = exit /\ launcher'.tail = f
    BY <1>1, <2>1 DEF Launchers
  <2>4. Lists(launcher', f, FinalKeysOf(launcher'), launcher.status, cleanup) /\ f # <<>>
    BY <2>2, <2>3, Zenon
  <2>5. f[Len(f)].key = "exit_status"
    BY <2>2, <2>3, Zenon
  <2>6. f \in Seq(ManifestRecords)
    BY <2>4 DEF Lists
  <2>7. launcher' \in Launchers
    BY <1>1, <1>3, <2>1, <2>6 DEF Launchers, LauncherPlaces
  <2> QED
    BY <1>2, <1>3, <1>4, <1>6, <2>1, <2>3, <2>4, <2>5, <2>7, ZenonT(40) DEF f
<1> QED
  BY <1>5, <1>6

------------------------------------------------------------------------------
LEMMA RunStarts == RunInit => TwoItsInv
<1> SUFFICES ASSUME RunInit PROVE TwoItsInv
  OBVIOUS
<1>1. RunTables
  <2>1. launcher \in Launchers
    BY DEF RunInit, Launchers, LauncherPlaces, ExitStatuses
  <2>2. controller \in Controllers
    BY DEF RunInit, Controllers, ControllerPlaces, ExitStatuses
  <2>3. stream \in Streams /\ report \in DiagnosisReports
    BY TimeAssumption DEF RunInit, Streams, DiagnosisReports
  <2>4. now \in 0..MaxTime
    BY TimeAssumption DEF RunInit
  <2>5. running \in BOOLEAN /\ sentinel \in BOOLEAN /\ outcome \in {"absent", "empty", "passed", "failed"}
    BY DEF RunInit
  <2>6. manifest \in Seq(ManifestRecords) /\ made \in Seq(ObservationRecords)
    BY DEF RunInit
  <2> QED
    BY <2>1, <2>2, <2>3, <2>4, <2>5, <2>6 DEF RunTables
<1>2. StreamInv
  BY DEF RunInit, StreamInv, ControllerInPlan, MadeIsValid, StreamFollows, InController, InLauncher, Published
<1>3. OutcomeIsTheControllers /\ PassedWasJudged
  BY DEF RunInit, OutcomeIsTheControllers, PassedWasJudged, InController, InLauncher
<1>4. \A k : ~Has(manifest, k) /\ ~Has(launcher.tail, k) /\ ~Has(report.manifest, k)
  BY DEF RunInit, Has
<1>5. ~Finishing
  BY DEF RunInit, Finishing, InLauncher
<1>6. Begun /\ RecordsInOrder /\ FinalRecordsTell
  BY <1>4, <1>5 DEF RunInit, Begun, RecordsInOrder, FinalRecordsTell, KeysDiffer, InLauncher, InController,
                    Published
<1>7. CompleteIsFinal
  BY <1>4 DEF RunInit, CompleteIsFinal, ReportIsTrue, CompleteRecord
<1> QED
  BY <1>1, <1>2, <1>3, <1>6, <1>7 DEF TwoItsInv

LEMMA PublicationIsTyped ==
  ASSUME RunTables, NEW p \in Posts, NEW next \in {"run", "finally"}, Publish(p, next)
  PROVE  made' \in Seq(ObservationRecords) /\ controller' \in Controllers
<1>1. made \in Seq(ObservationRecords) /\ controller \in Controllers
  BY DEF RunTables
<1>2. Candidate(p) \in Seq(ObservationRecords)
  BY CandidateIs
<1>3. [controller EXCEPT !.at = "write", !.next = next, !.step = controller.step + 1] \in Controllers
  <2>1. controller.step + 1 \in Nat
    BY <1>1 DEF Controllers
  <2> QED
    BY <1>1, <2>1 DEF Controllers, ControllerPlaces
<1>4. [controller EXCEPT !.at = IF next = "run" THEN "failed" ELSE "finally", !.status = 1] \in Controllers
  BY <1>1 DEF Controllers, ControllerPlaces, ExitStatuses
<1>5. controller' \in Controllers
  <2>1. CASE controller' = [controller EXCEPT !.at = "write", !.next = next, !.step = controller.step + 1]
    BY <1>3, <2>1
  <2>2. CASE controller' = [controller EXCEPT !.at = IF next = "run" THEN "failed" ELSE "finally",
                                              !.status = 1]
    BY <1>4, <2>2
  <2> QED
    BY <2>1, <2>2, PublishTells
<1> QED
  BY <1>1, <1>2, <1>5, PublishTells

LEMMA SignalIsTyped ==
  ASSUME RunTables
  PROVE  Interrupted(controller) \in Controllers
<1>1. controller \in Controllers
  BY DEF RunTables
<1>2. [controller EXCEPT !.at = "exited", !.status = 143] \in Controllers
  BY <1>1 DEF Controllers, ControllerPlaces, ExitStatuses
<1>3. [controller EXCEPT !.at = "interrupted", !.interrupted = TRUE, !.status = 1] \in Controllers
  BY <1>1 DEF Controllers, ControllerPlaces, ExitStatuses
<1>4. [controller EXCEPT !.at = "finally", !.interrupted = TRUE, !.status = 1] \in Controllers
  BY <1>1 DEF Controllers, ControllerPlaces, ExitStatuses
<1>5. [controller EXCEPT !.at = "exited", !.interrupted = TRUE, !.status = 1] \in Controllers
  BY <1>1 DEF Controllers, ControllerPlaces, ExitStatuses
<1> QED
  BY <1>1, <1>2, <1>3, <1>4, <1>5, SignalTells

LEMMA TablesKept ==
  ASSUME TwoItsInv, [RunNext]_runVars
  PROVE  RunTables'
<1>0. RunTables /\ ControllerInPlan
  BY DEF TwoItsInv, StreamInv
<1>1. controller \in Controllers /\ launcher \in Launchers /\ stream \in Streams /\ report \in DiagnosisReports
  BY <1>0 DEF RunTables
<1> USE DEF launcherVars, controllerVars, runVars
<1>2. CASE UNCHANGED runVars
  BY <1>0, <1>2 DEF RunTables
<1>3. CASE OpenStream
  <2>1. controller' \in Controllers
    <3>1. [controller EXCEPT !.at = "run"] \in Controllers
      BY <1>1 DEF Controllers, ControllerPlaces
    <3> QED
      BY <1>0, <1>1, <1>3, <3>1, OpenTells
  <2>2. stream' \in Streams
    <3>1. now \in 0..MaxTime
      BY <1>0 DEF RunTables
    <3>2. [stream EXCEPT !.header = "part", !.started = now] \in Streams
      BY <1>1, <3>1 DEF Streams
    <3>3. [stream EXCEPT !.header = "whole"] \in Streams
      BY <1>1 DEF Streams
    <3> QED
      BY <1>0, <1>3, <3>2, <3>3, OpenTells
  <2> QED
    BY <1>0, <1>3, <2>1, <2>2 DEF RunTables, OpenStream
<1>4. CASE Stage
  <2>1. made' \in Seq(ObservationRecords) /\ controller' \in Controllers
    BY <1>0, <1>4, StageTells, PublicationIsTyped
  <2> QED
    BY <1>0, <1>4, <2>1 DEF RunTables, Stage
<1>26. CASE Launch \/ LeaveSentinel
  BY <1>0, <1>26 DEF RunTables, Launch, LeaveSentinel
<1>27. CASE RecordDigest
  <2>1. manifest \in Seq(ManifestRecords)
    BY <1>0 DEF RunTables
  <2>2. manifest' \in Seq(ManifestRecords)
    BY <1>27, <2>1, DigestIsARecord, AppendProperties DEF RecordDigest, SentinelDigest
  <2> QED
    BY <1>0, <1>27, <2>2 DEF RunTables, RecordDigest
<1>5. CASE WriteObservation
  <2>1. made \in Seq(ObservationRecords) /\ Len(made) > 0
    BY <1>0, <1>1, <1>5 DEF TwoItsInv, StreamInv, StreamFollows, RunTables, Streams, WriteObservation
  <2>2. made[Len(made)] \in ObservationRecords
    BY <2>1
  <2>3. Append(stream.lines, made[Len(made)]) \in Seq(ObservationRecords)
    BY <1>1, <2>2 DEF Streams
  <2>4. stream' \in Streams
    BY <1>1, <1>5, <2>3 DEF WriteObservation, Streams
  <2>5. controller' \in Controllers
    BY <1>1, <1>5 DEF WriteObservation, Controllers, ControllerPlaces
  <2> QED
    BY <1>0, <1>5, <2>4, <2>5 DEF RunTables, WriteObservation
<1>6. CASE Prove
  <2>1. controller' \in Controllers
    BY <1>1, <1>6 DEF Prove, Controllers, ControllerPlaces
  <2> QED
    BY <1>0, <1>6, <2>1 DEF RunTables, Prove
<1>7. CASE FailStage
  <2>1. controller' \in Controllers
    <3>1. PICK kind \in {"timeout", "failed"} : controller' = [controller EXCEPT !.at = kind, !.status = 1]
      BY <1>7 DEF FailStage
    <3> QED
      BY <1>1, <3>1 DEF Controllers, ControllerPlaces, ExitStatuses
  <2> QED
    BY <1>0, <1>7, <2>1 DEF RunTables, FailStage
<1>8. CASE Handle
  <2>1. made' \in Seq(ObservationRecords) /\ controller' \in Controllers
    BY <1>0, <1>8, HandleTells, PublicationIsTyped
  <2> QED
    BY <1>0, <1>8, <2>1 DEF RunTables, Handle
<1>9. CASE Shield
  <2>1. controller' \in Controllers
    BY <1>1, <1>9 DEF Shield, Controllers, ControllerPlaces
  <2> QED
    BY <1>0, <1>9, <2>1 DEF RunTables, Shield
<1>10. CASE StopAll
  <2>1. controller' \in Controllers
    <3>1. [controller EXCEPT !.at = "outcome"] \in Controllers
      BY <1>1 DEF Controllers, ControllerPlaces
    <3>2. [controller EXCEPT !.at = "exited", !.status = 1] \in Controllers
      BY <1>1 DEF Controllers, ControllerPlaces, ExitStatuses
    <3> QED
      BY <1>10, <3>1, <3>2 DEF StopAll, Leave
  <2> QED
    BY <1>0, <1>10, <2>1 DEF RunTables, StopAll
<1>11. CASE WriteOutcome
  <2>1. controller' \in Controllers
    BY <1>1, <1>11 DEF WriteOutcome, Leave, Controllers, ControllerPlaces
  <2>2. outcome' \in {"absent", "empty", "passed", "failed"}
    BY <1>1, <1>11 DEF WriteOutcome, Controllers
  <2> QED
    BY <1>0, <1>11, <2>1, <2>2 DEF RunTables, WriteOutcome
<1>12. CASE SignalController
  <2>1. controller' \in Controllers
    BY <1>0, <1>12, SignalIsTyped DEF SignalController
  <2> QED
    BY <1>0, <1>12, <2>1 DEF RunTables, SignalController
<1>13. CASE Start
  <2>1. manifest \in Seq(ManifestRecords) /\ Len(manifest) < 4
    BY <1>0, <1>13 DEF TwoItsInv, Begun, Start, RunTables
  <2>2. Len(manifest) + 1 \in 1..4
    BY <2>1
  <2>3. Setup[Len(manifest) + 1] \in ManifestRecords
    BY <1>0, <2>2, SetupIs
  <2>4. manifest' \in Seq(ManifestRecords)
    BY <1>13, <2>1, <2>3, AppendProperties DEF Start
  <2>5. controller' \in Controllers
    BY <1>1, <1>13 DEF Start, Controllers, ControllerPlaces
  <2>6. launcher' \in Launchers
    BY <1>1, <1>13 DEF Start, Launchers, LauncherPlaces
  <2> QED
    BY <1>0, <1>13, <2>4, <2>5, <2>6 DEF RunTables, Start
<1>14. CASE Await
  <2>1. launcher' \in Launchers
    BY <1>1, <1>14 DEF Await, Launchers, LauncherPlaces, Controllers
  <2> QED
    BY <1>0, <1>14, <2>1 DEF RunTables, Await
<1>15. CASE Judge
  <2>1. launcher' \in Launchers
    <3>1. [launcher EXCEPT !.at = "passed", !.cleaned = TRUE] \in Launchers
      BY <1>1 DEF Launchers, LauncherPlaces
    <3>2. [launcher EXCEPT !.at = "exit", !.status = 1] \in Launchers
      BY <1>1 DEF Launchers, LauncherPlaces, ExitStatuses
    <3> QED
      BY <1>15, <3>1, <3>2 DEF Judge
  <2> QED
    BY <1>0, <1>15, <2>1 DEF RunTables, Judge
<1>16. CASE MarkPassed
  <2>1. launcher' \in Launchers
    BY <1>1, <1>16 DEF MarkPassed, Launchers, LauncherPlaces
  <2> QED
    BY <1>0, <1>16, <2>1 DEF RunTables, MarkPassed
<1>17. CASE SignalLauncher
  <2>1. \/ launcher' = [launcher EXCEPT !.at = "exit", !.status = 143, !.signal = TRUE]
        \/ launcher' = [launcher EXCEPT !.at = "killed"]
        \/ launcher' = launcher
    BY <1>17 DEF SignalLauncher, InLauncher
  <2>2. launcher' \in Launchers
    <3>1. [launcher EXCEPT !.at = "exit", !.status = 143, !.signal = TRUE] \in Launchers
      BY <1>1 DEF Launchers, LauncherPlaces, ExitStatuses
    <3>2. [launcher EXCEPT !.at = "killed"] \in Launchers
      BY <1>1 DEF Launchers, LauncherPlaces
    <3> QED
      BY <1>1, <2>1, <3>1, <3>2
  <2> QED
    BY <1>0, <1>17, <2>2 DEF RunTables, SignalLauncher
<1>18. CASE KillLauncher
  <2>1. launcher' \in Launchers
    BY <1>1, <1>18 DEF KillLauncher, Launchers, LauncherPlaces
  <2> QED
    BY <1>0, <1>18, <2>1 DEF RunTables, KillLauncher
<1>19. CASE ExitTrap
  <2>1. launcher' \in Launchers
    BY <1>1, <1>19 DEF ExitTrap, Launchers, LauncherPlaces
  <2>2. controller' \in Controllers
    BY <1>0, <1>19, SignalIsTyped DEF ExitTrap
  <2> QED
    BY <1>0, <1>19, <2>1, <2>2 DEF RunTables, ExitTrap
<1>20. CASE KillController
  <2>1. controller' \in Controllers
    BY <1>1, <1>20 DEF KillController, Controllers, ControllerPlaces
  <2>2. launcher' \in Launchers
    BY <1>1, <1>20 DEF KillController, Launchers
  <2> QED
    BY <1>0, <1>20, <2>1, <2>2 DEF RunTables, KillController
<1>21. CASE Clean
  <2>1. launcher' \in Launchers
    <3>1. PassedWasJudged
      BY DEF TwoItsInv
    <3> QED
      BY <1>0, <1>1, <1>21, <3>1, CleanTells DEF Launchers, LauncherPlaces
  <2> QED
    BY <1>0, <1>21, <2>1 DEF RunTables, Clean
<1>22. CASE FinishManifest
  <2>1. launcher.tail # <<>> /\ launcher.tail \in Seq(ManifestRecords) /\ manifest \in Seq(ManifestRecords)
    BY <1>0, <1>1, <1>22 DEF TwoItsInv, RecordsInOrder, FinishManifest, RunTables, Launchers
  <2>2. Head(launcher.tail) \in ManifestRecords /\ Tail(launcher.tail) \in Seq(ManifestRecords)
    BY <2>1, HeadTailProperties
  <2>3. manifest' \in Seq(ManifestRecords)
    BY <1>22, <2>1, <2>2, AppendProperties DEF FinishManifest
  <2>4. launcher' \in Launchers
    BY <1>1, <1>22, <2>2 DEF FinishManifest, Launchers, LauncherPlaces
  <2> QED
    BY <1>0, <1>22, <2>3, <2>4 DEF RunTables, FinishManifest
<1>23. CASE ReadManifest
  <2>1. manifest \in Seq(ManifestRecords)
    BY <1>0 DEF RunTables
  <2>2. report' \in DiagnosisReports
    BY <1>1, <1>23, <2>1 DEF ReadManifest, DiagnosisReports
  <2> QED
    BY <1>0, <1>23, <2>2 DEF RunTables, ReadManifest
<1>24. CASE ReadOutcome
  <2>1. CompleteRecord(report.manifest) =>
          /\ report.manifest = manifest
          /\ Value(report.manifest, "outcome") \in {"passed", "failed"}
    BY CompleteTells DEF TwoItsInv, CompleteIsFinal
  <2>2. Diagnosis(report.manifest, outcome) \in
          {"unavailable", "inconsistent", "unfinished", "passed", "failed"}
    BY <2>1, DiagnosisIs
  <2>3. report' \in DiagnosisReports
    BY <1>1, <1>24, <2>2 DEF ReadOutcome, DiagnosisReports
  <2> QED
    BY <1>0, <1>24, <2>3 DEF RunTables, ReadOutcome
<1>25. CASE Tick
  <2>1. now' \in 0..MaxTime
    BY <1>0, <1>25, TimeAssumption DEF RunTables, Tick
  <2> QED
    BY <1>0, <1>25, <2>1 DEF RunTables, Tick
<1> QED
  BY <1>2, <1>3, <1>4, <1>5, <1>6, <1>7, <1>8, <1>9, <1>10, <1>11, <1>12, <1>13, <1>14, <1>15, <1>16,
     <1>17, <1>18, <1>19, <1>20, <1>21, <1>22, <1>23, <1>24, <1>25, <1>26, <1>27 DEF RunNext

------------------------------------------------------------------------------
(* The controller and its stream. *)

LEMMA NoWayBack ==
  ASSUME TwoItsInv, [RunNext]_runVars, InLauncher("start")'
  PROVE  InLauncher("start")
<1>1. launcher \in Launchers
  BY DEF TwoItsInv, RunTables
<1>2. SignalLauncher => \/ launcher' = [launcher EXCEPT !.at = "exit", !.status = 143, !.signal = TRUE]
                        \/ launcher' = [launcher EXCEPT !.at = "killed"]
                        \/ launcher' = launcher
  BY DEF SignalLauncher, InLauncher
<1>3. CASE UNCHANGED launcher
  BY <1>3 DEF InLauncher
<1>4. CASE Start \/ Await \/ Judge \/ MarkPassed
  BY <1>1, <1>4 DEF Start, Await, Judge, MarkPassed, InLauncher, Launchers
<1>5. CASE SignalLauncher \/ KillLauncher
  BY <1>1, <1>2, <1>5 DEF KillLauncher, InLauncher, Launchers
<1>6. CASE ExitTrap \/ KillController \/ FinishManifest
  BY <1>1, <1>6 DEF ExitTrap, KillController, FinishManifest, InLauncher, Launchers
<1>7. CASE Clean
  BY <1>1, <1>7, CleanTells DEF TwoItsInv, InLauncher, Launchers
<1> QED
  BY <1>3, <1>4, <1>5, <1>6, <1>7 DEF RunNext, runVars, launcherVars, OpenStream, Launch, LeaveSentinel,
     RecordDigest, Stage, WriteObservation,
     Prove, FailStage, Handle, Shield, StopAll, WriteOutcome, SignalController, ReadManifest, ReadOutcome, Tick

(* The steps of a run, by what they do to the controller: where it goes from *)
(* and to, and whether it has been interrupted.                              *)
Goes(from, to) == controller.at \in from /\ controller'.at = to
Same == UNCHANGED <<controller.interrupted, controller.step, controller.next>>

Rests == UNCHANGED <<controller, made, stream>>
Opens == /\ Goes({"open"}, "open") /\ stream'.header = "part" /\ controller' = controller
         /\ made = <<>> /\ made' = made /\ stream'.lines = stream.lines
Moves ==
  /\ made' = made /\ stream'.lines = stream.lines /\ stream'.started = stream.started /\ Same
  /\ \/ Goes({"none"}, "open") /\ stream' = stream /\ stream.header = "none" /\ ~InLauncher("start")'
     \/ Goes({"open"}, "run")
     \/ Goes({"run"}, "proved") /\ controller.step > 2
     \/ Goes({"run"}, "timeout")
     \/ Goes({"run"}, "failed")
     \/ Goes({"proved", "timeout", "failed", "interrupted"}, "finally")
     \/ Goes({"finally"}, "stop")
     \/ Goes({"stop"}, "outcome")
     \/ Goes({"open", "stop", "outcome"}, "exited")
     \/ Goes(ControllerPlaces \ {"none"}, "killed")
Publishes(next) ==
  \E p \in Posts :
    /\ Valid(Candidate(p)) /\ made' = Candidate(p) /\ stream' = stream
    /\ controller'.at = "write" /\ controller'.next = next
    /\ controller'.step = controller.step + 1 /\ controller'.interrupted = controller.interrupted
    /\ \/ next = "run" /\ controller.at = "run" /\ controller.step \in 1..2
       \/ next = "finally" /\ controller.at \in {"timeout", "failed", "interrupted"}
Writes ==
  /\ InController("write") /\ made' = made /\ Same /\ controller'.at = controller.next
  /\ stream'.lines = Append(stream.lines, made[Len(made)])
  /\ stream'.header = stream.header /\ stream'.started = stream.started
IsInterrupted ==
  /\ made' = made /\ stream' = stream /\ controller'.interrupted = TRUE
  /\ UNCHANGED <<controller.step, controller.next>>
  /\ \/ (controller.at \in {"run", "proved"} \/ Published("run")) /\ controller'.at = "interrupted"
     \/ (controller.at \in {"timeout", "failed"} \/ Published("finally")) /\ controller'.at = "finally"
     \/ controller.at \in {"interrupted", "finally", "outcome"} /\ controller'.at = "exited"

LEMMA ControllerSteps ==
  ASSUME TwoItsInv, [RunNext]_runVars
  PROVE  Rests \/ Opens \/ Moves \/ Publishes("run") \/ Publishes("finally") \/ Writes \/ IsInterrupted
<1>0. RunTables /\ ControllerInPlan
  BY DEF TwoItsInv, StreamInv
<1>1. controller \in Controllers /\ stream \in Streams /\ launcher \in Launchers
  BY <1>0 DEF RunTables
<1> USE DEF launcherVars, controllerVars, runVars
<1>2. CASE UNCHANGED runVars
  BY <1>2 DEF Rests
<1>3. CASE Await \/ Judge \/ MarkPassed \/ SignalLauncher \/ KillLauncher \/ Clean \/ FinishManifest
             \/ ReadManifest \/ ReadOutcome \/ Tick \/ Launch \/ LeaveSentinel \/ RecordDigest
  BY <1>3 DEF Rests, Launch, LeaveSentinel, RecordDigest, Await, Judge, MarkPassed,
     SignalLauncher, KillLauncher, Clean, FinishManifest,
              ReadManifest, ReadOutcome, Tick
<1>4. CASE OpenStream
  <2>1. CASE controller' = controller
    <3>1. stream' = [stream EXCEPT !.header = "part", !.started = now]
      BY <1>0, <1>1, <1>4, <2>1, OpenTells DEF OpenStream, InController, Controllers
    <3>2. stream'.header = "part" /\ stream'.lines = stream.lines
      BY <1>1, <3>1 DEF Streams
    <3>3. made = <<>>
      BY <1>0, <1>4 DEF OpenStream, ControllerInPlan, InController
    <3> QED
      BY <1>1, <1>4, <2>1, <3>2, <3>3 DEF Opens, Goes, OpenStream, InController, Streams
  <2>2. CASE controller' = [controller EXCEPT !.at = "run"]
    <3>1. stream' = [stream EXCEPT !.header = "whole"]
      BY <1>0, <1>1, <1>4, <2>2, OpenTells DEF OpenStream, InController, Controllers
    <3> QED
      BY <1>1, <1>4, <2>2, <3>1 DEF Moves, Goes, Same, OpenStream, InController, Streams, Controllers
  <2> QED
    BY <1>0, <1>4, <2>1, <2>2, OpenTells
<1>5. ASSUME NEW p \in Posts, NEW next \in {"run", "finally"}, Publish(p, next), stream' = stream,
             \/ next = "run" /\ controller.at = "run" /\ controller.step \in 1..2
             \/ next = "finally" /\ controller.at \in {"timeout", "failed", "interrupted"}
      PROVE  Publishes(next) \/ Moves
  <2>1. CASE Valid(Candidate(p)) /\ made' = Candidate(p) /\
             controller' = [controller EXCEPT !.at = "write", !.next = next, !.step = controller.step + 1]
    <3>1. /\ controller'.at = "write" /\ controller'.next = next /\ controller'.step = controller.step + 1
          /\ controller'.interrupted = controller.interrupted
      BY <1>1, <2>1 DEF Controllers
    <3> QED
      BY <1>5, <2>1, <3>1 DEF Publishes
  <2>2. CASE made' = made /\
             controller' = [controller EXCEPT !.at = IF next = "run" THEN "failed" ELSE "finally", !.status = 1]
    <3>1. Same /\ controller'.at = IF next = "run" THEN "failed" ELSE "finally"
      BY <1>1, <2>2 DEF Controllers, Same
    <3> QED
      BY <1>5, <2>2, <3>1 DEF Moves, Goes
  <2> QED
    BY <1>0, <1>5, <2>1, <2>2, PublishTells
<1>6. CASE Stage
  <2>1. PICK p \in Posts : Publish(p, "run")
    BY <1>0, <1>6, StageTells
  <2>2. controller.at = "run" /\ controller.step \in 1..2 /\ stream' = stream
    BY <1>0, <1>6, StageTells DEF Stage, InController
  <2> QED
    BY <1>5, <2>1, <2>2
<1>7. CASE Handle
  <2>1. PICK p \in Posts : Publish(p, "finally")
    BY <1>0, <1>7, HandleTells
  <2>2. controller.at \in {"timeout", "failed", "interrupted"} /\ stream' = stream
    BY <1>7 DEF Handle
  <2> QED
    BY <1>5, <2>1, <2>2
<1>8. CASE WriteObservation
  BY <1>1, <1>8 DEF WriteObservation, Writes, Same, Controllers, Streams, InController
<1>9. CASE Prove \/ FailStage
  BY <1>1, <1>9, PlanIs DEF Prove, FailStage, Moves, Goes, Same, Controllers, InController
<1>10. CASE Shield
  BY <1>1, <1>10 DEF Shield, Moves, Goes, Same, Controllers, InController
<1>11. CASE StopAll
  BY <1>1, <1>11 DEF StopAll, Leave, Moves, Goes, Same, Controllers, InController
<1>12. CASE WriteOutcome
  BY <1>1, <1>12 DEF WriteOutcome, Leave, Rests, Moves, Goes, Same, Controllers, InController
<1>13. ASSUME controller' = Interrupted(controller), made' = made, stream' = stream
       PROVE  Rests \/ Moves \/ IsInterrupted
  <2>1. CASE controller' = controller
    BY <1>13, <2>1 DEF Rests
  <2>2. CASE InController("open") /\ controller' = [controller EXCEPT !.at = "exited", !.status = 143]
    BY <1>1, <1>13, <2>2 DEF Moves, Goes, Same, Controllers, InController
  <2>3. CASE (controller.at \in {"run", "proved"} \/ Published("run")) /\
             controller' = [controller EXCEPT !.at = "interrupted", !.interrupted = TRUE, !.status = 1]
    BY <1>1, <1>13, <2>3 DEF IsInterrupted, Controllers
  <2>4. CASE (controller.at \in {"timeout", "failed"} \/ Published("finally")) /\
             controller' = [controller EXCEPT !.at = "finally", !.interrupted = TRUE, !.status = 1]
    BY <1>1, <1>13, <2>4 DEF IsInterrupted, Controllers
  <2>5. CASE controller.at \in {"interrupted", "finally", "outcome"} /\
             controller' = [controller EXCEPT !.at = "exited", !.interrupted = TRUE, !.status = 1]
    BY <1>1, <1>13, <2>5 DEF IsInterrupted, Controllers
  <2> QED
    BY <1>0, <1>13, <2>1, <2>2, <2>3, <2>4, <2>5, SignalTells
<1>14. CASE SignalController \/ ExitTrap
  BY <1>13, <1>14 DEF SignalController, ExitTrap
<1>15. CASE Start
  <2>1. CASE controller' = controller
    BY <1>15, <2>1 DEF Start, Rests
  <2>2. CASE launcher' = [launcher EXCEPT !.at = "wait"] /\ controller' = [controller EXCEPT !.at = "open"]
    <3>1. controller.at = "none" /\ stream.header = "none"
      BY <1>0, <1>15 DEF Start, ControllerInPlan, InLauncher, InController
    <3> QED
      BY <1>1, <1>15, <2>2, <3>1 DEF Start, Moves, Goes, Same, Controllers, Launchers, InLauncher
  <2> QED
    BY <1>15, <2>1, <2>2 DEF Start
<1>16. CASE KillController
  BY <1>1, <1>16 DEF KillController, ControllerGone, Moves, Goes, Same, Controllers
<1> QED
  BY <1>2, <1>3, <1>4, <1>6, <1>7, <1>8, <1>9, <1>10, <1>11, <1>12, <1>14, <1>15, <1>16 DEF RunNext

(* Where a step leaves a controller that has not been interrupted.           *)
LEMMA ControllerInPlanKept ==
  ASSUME TwoItsInv, [RunNext]_runVars
  PROVE  ControllerInPlan'
<1>1. ControllerInPlan /\ controller \in Controllers /\ made \in Seq(ObservationRecords)
  BY DEF TwoItsInv, StreamInv, RunTables
<1>2. InLauncher("start")' => InLauncher("start")
  BY NoWayBack
<1> USE DEF ControllerInPlan, InController, Published
<1>3. CASE Rests
  BY <1>1, <1>2, <1>3 DEF Rests
<1>4. CASE Opens
  BY <1>1, <1>2, <1>4 DEF Opens, Goes
<1>5. CASE Moves
  <2>1. /\ made' = made /\ controller'.interrupted = controller.interrupted
        /\ controller'.step = controller.step /\ controller'.next = controller.next
    BY <1>5 DEF Moves, Same
  <2>2. CASE Goes({"none"}, "open") /\ stream' = stream /\ stream.header = "none" /\ ~InLauncher("start")'
    BY <1>1, <2>1, <2>2 DEF Goes
  <2>3. CASE Goes({"open"}, "run")
    BY <1>1, <1>2, <2>1, <2>3 DEF Goes
  <2>4. CASE \/ Goes({"run"}, "proved") /\ controller.step > 2
             \/ Goes({"run"}, "timeout") \/ Goes({"run"}, "failed")
    BY <1>1, <1>2, <2>1, <2>4 DEF Goes
  <2>5. CASE \/ Goes({"proved", "timeout", "failed", "interrupted"}, "finally") \/ Goes({"finally"}, "stop")
             \/ Goes({"stop"}, "outcome") \/ Goes({"open", "stop", "outcome"}, "exited")
             \/ Goes(ControllerPlaces \ {"none"}, "killed")
    BY <1>1, <1>2, <2>1, <2>5 DEF Goes
  <2> QED
    BY <1>5, <2>2, <2>3, <2>4, <2>5 DEF Moves
<1>6. ASSUME NEW next \in {"run", "finally"}, Publishes(next) PROVE ControllerInPlan'
  <2>1. PICK p \in Posts :
          /\ made' = Candidate(p) /\ controller'.at = "write" /\ controller'.next = next
          /\ controller'.step = controller.step + 1 /\ controller'.interrupted = controller.interrupted
          /\ \/ next = "run" /\ controller.at = "run" /\ controller.step \in 1..2
             \/ next = "finally" /\ controller.at \in {"timeout", "failed", "interrupted"}
    BY <1>6 DEF Publishes
  <2>2. Len(made') = Len(made) + 1
    BY <2>1, CandidateIs DEF TwoItsInv
  <2> QED
    BY <1>1, <1>2, <2>1, <2>2
<1>7. CASE Writes
  BY <1>1, <1>2, <1>7 DEF Writes, Same, Controllers
<1>8. CASE IsInterrupted
  BY <1>1, <1>2, <1>8 DEF IsInterrupted
<1> QED
  BY <1>3, <1>4, <1>5, <1>6, <1>7, <1>8, ControllerSteps

LEMMA MadeIsValidKept ==
  ASSUME TwoItsInv, [RunNext]_runVars
  PROVE  MadeIsValid'
<1>1. MadeIsValid /\ made \in Seq(ObservationRecords) /\ RunTables
  BY DEF TwoItsInv, StreamInv, RunTables
<1>2. CASE made' = made /\ (made = <<>> \/ stream'.started = stream.started)
  BY <1>1, <1>2 DEF MadeIsValid
<1>3. ASSUME NEW p \in Posts, Valid(Candidate(p)), made' = Candidate(p), stream' = stream
      PROVE  MadeIsValid'
  <2> DEFINE c == Candidate(p)
  <2>1. c \in Seq(ObservationRecords) /\ Len(c) = Len(made) + 1 /\ Len(made) \in Nat
        /\ \A k \in 1..Len(made) : c[k] = made[k]
    BY <1>1, CandidateIs
  <2>2. \A k \in DOMAIN c :
          /\ c[k].sequence = k /\ stream.started <= c[k].at /\ c[k].at <= c[Len(c)].at
          /\ c[k].subject \in Subjects(TwoItsTopology)
    BY <1>3 DEF Valid, ValidObservations
  <2>3. \A j, k \in DOMAIN made : j <= k => made[j].at <= made[k].at
    BY <1>1 DEF MadeIsValid
  <2> HIDE DEF c
  <2>4. DOMAIN c = 1..Len(c) /\ DOMAIN made = 1..Len(made) /\ \A k \in DOMAIN c : c[k].at \in Int
    <3>1. DOMAIN c = 1..Len(c) /\ DOMAIN made = 1..Len(made) /\ \A k \in DOMAIN c : c[k] \in ObservationRecords
      BY <1>1, <2>1
    <3> QED
      BY <3>1 DEF ObservationRecords
  <2>5. \A j, k \in DOMAIN c : j <= k => c[j].at <= c[k].at
    <3> SUFFICES ASSUME NEW j \in DOMAIN c, NEW k \in DOMAIN c, j <= k PROVE c[j].at <= c[k].at
      OBVIOUS
    <3>1. CASE k = Len(c)
      BY <2>2, <3>1
    <3>2. CASE k # Len(c)
      BY <2>1, <2>3, <2>4, <3>2
    <3> QED
      BY <3>1, <3>2
  <2>6. made' = c /\ stream'.started = stream.started /\ stream.started \in Int
    BY <1>1, <1>3 DEF c, RunTables, Streams
  <2> QED
    BY <2>2, <2>4, <2>5, <2>6 DEF MadeIsValid
<1> QED
  BY <1>2, <1>3, ControllerSteps DEF Rests, Opens, Moves, Publishes, Writes, IsInterrupted

LEMMA StreamFollowsKept ==
  ASSUME TwoItsInv, [RunNext]_runVars
  PROVE  StreamFollows'
<1>1. StreamFollows /\ ControllerInPlan /\ made \in Seq(ObservationRecords)
      /\ controller \in Controllers /\ stream \in Streams
  BY DEF TwoItsInv, StreamInv, RunTables
<1>2. stream.lines \in Seq(ObservationRecords) /\ Len(stream.lines) \in Nat /\ Len(made) \in Nat
      /\ DOMAIN stream.lines = 1..Len(stream.lines) /\ DOMAIN made = 1..Len(made)
  BY <1>1 DEF Streams
<1> USE DEF StreamFollows, InController
<1>3. CASE Rests
  BY <1>1, <1>3 DEF Rests
<1>4. CASE Opens
  BY <1>1, <1>4 DEF Opens, Goes
<1>5. CASE Moves
  <2>1. made' = made /\ stream'.lines = stream.lines /\ controller'.interrupted = controller.interrupted
    BY <1>5 DEF Moves, Same
  <2>2. CASE controller'.at = "killed"
    BY <1>1, <2>1, <2>2
  <2>3. CASE controller'.at # "killed"
    <3>1. controller.at \notin {"write", "killed"} /\ controller'.at # "write"
      BY <1>5, <2>3 DEF Moves, Goes
    <3> QED
      BY <1>1, <2>1, <2>3, <3>1
  <2> QED
    BY <2>2, <2>3
<1>6. ASSUME NEW next \in {"run", "finally"}, Publishes(next) PROVE StreamFollows'
  <2>1. PICK p \in Posts :
          /\ made' = Candidate(p) /\ stream' = stream /\ controller'.at = "write"
          /\ controller'.interrupted = controller.interrupted
          /\ controller.at \in {"run", "timeout", "failed", "interrupted"}
    BY <1>6 DEF Publishes
  <2>2. /\ Len(made') = Len(made) + 1 /\ made' \in Seq(ObservationRecords)
        /\ \A k \in 1..Len(made) : made'[k] = made[k]
    BY <2>1, CandidateIs DEF TwoItsInv
  <2>3. DOMAIN made' = 1..(Len(made) + 1)
    BY <2>2
  <2>4. Len(stream'.lines) < Len(made') /\ stream'.lines = stream.lines
    BY <1>1, <1>2, <2>1, <2>2
  <2>5. \A k \in DOMAIN stream'.lines : \E j \in DOMAIN made' : j >= k /\ stream'.lines[k] = made'[j]
    <3> SUFFICES ASSUME NEW k \in DOMAIN stream.lines
                 PROVE  \E j \in DOMAIN made' : j >= k /\ stream.lines[k] = made'[j]
      BY <2>4
    <3>1. PICK j \in DOMAIN made : j >= k /\ stream.lines[k] = made[j]
      BY <1>1
    <3>2. j \in DOMAIN made' /\ made'[j] = made[j]
      BY <1>2, <2>2, <2>3
    <3> QED
      BY <3>1, <3>2
  <2>6. ~controller.interrupted =>
          /\ \A k \in DOMAIN stream.lines : stream.lines[k] = made'[k]
          /\ Len(stream.lines) = Len(made)
    BY <1>1, <1>2, <2>1, <2>2
  <2> QED
    BY <1>2, <2>1, <2>2, <2>4, <2>5, <2>6
<1>7. CASE Writes
  <2>1. /\ InController("write") /\ made' = made /\ controller'.at \in {"run", "finally"}
        /\ controller'.interrupted = controller.interrupted
        /\ stream'.lines = Append(stream.lines, made[Len(made)])
    BY <1>1, <1>7 DEF Writes, Same, Controllers
  <2> DEFINE l == stream.lines
             t == Append(l, made[Len(made)])
  <2>2. Len(l) < Len(made) /\ made[Len(made)] \in ObservationRecords
    BY <1>1, <1>2, <2>1
  <2>3. /\ Len(t) = Len(l) + 1 /\ DOMAIN t = 1..(Len(l) + 1)
        /\ \A k \in 1..Len(l) : t[k] = l[k]
        /\ t[Len(l) + 1] = made[Len(made)]
    BY <1>2, <2>2, AppendProperties
  <2>4. stream'.lines = t
    BY <2>1
  <2> HIDE DEF t
  <2>5. ASSUME NEW k \in DOMAIN t PROVE \E j \in DOMAIN made : j >= k /\ t[k] = made[j]
    <3>1. CASE k \in 1..Len(l)
      BY <1>1, <1>2, <2>3, <3>1
    <3>2. CASE k = Len(l) + 1
      BY <1>2, <2>2, <2>3, <3>2
    <3> QED
      BY <2>3, <1>2, <3>1, <3>2
  <2>6. ~controller.interrupted => \A k \in DOMAIN t : t[k] = made[k]
    BY <1>1, <1>2, <2>2, <2>3
  <2>7. Len(t) <= Len(made) /\ (~controller.interrupted => Len(t) = Len(made))
    <3>1. Len(l) \in Nat /\ Len(made) \in Nat /\ Len(l) < Len(made) /\ Len(t) = Len(l) + 1
      BY <1>2, <2>2, <2>3
    <3>2. ~controller.interrupted => Len(l) >= Len(made) - 1
      BY <1>1
    <3> HIDE DEF l
    <3> QED
      BY <3>1, <3>2
  <2> QED
    BY <1>2, <2>1, <2>4, <2>5, <2>6, <2>7
<1>8. CASE IsInterrupted
  <2>1. controller'.interrupted /\ controller'.at # "write" /\ made' = made /\ stream' = stream
    BY <1>8 DEF IsInterrupted
  <2> QED
    BY <1>1, <2>1
<1> QED
  BY <1>3, <1>4, <1>5, <1>6, <1>7, <1>8, ControllerSteps

------------------------------------------------------------------------------
(* The launcher and its record. *)

(* What happens when the controller is gone touches nothing of its.          *)
LEMMA GoneIsSettled ==
  ASSUME TwoItsInv, [RunNext]_runVars, ControllerGone, ~InLauncher("start")
  PROVE  UNCHANGED controllerVars
<1>1. Interrupted(controller) = controller
  BY DEF Interrupted, ControllerGone
<1> QED
  BY <1>1 DEF RunNext, runVars, launcherVars, controllerVars, ControllerGone, InController, OpenStream,
     Launch, LeaveSentinel, RecordDigest, Proving, Stage, WriteObservation, Prove, FailStage,
     Handle, Shield, StopAll, WriteOutcome, SignalController, Start, Await,
     Judge, MarkPassed, SignalLauncher, KillLauncher, ExitTrap, KillController, Clean, FinishManifest,
     ReadManifest, ReadOutcome, Tick

(* The steps of a run, by what they do to the launcher and its manifest.     *)
Idles == UNCHANGED <<launcher, manifest>>
Digests ==
  /\ InController("run") /\ launcher' = launcher
  /\ ~Has(manifest, "application.sentinel_sha256")
  /\ manifest' = Append(manifest, Entry("application.sentinel_sha256", "digest"))
Begins ==
  /\ InLauncher("start") /\ InController("none")
  /\ manifest' = Append(manifest, Setup[Len(manifest) + 1])
  /\ \/ launcher' = launcher /\ Len(manifest) < 3
     \/ launcher' = [launcher EXCEPT !.at = "wait"]
Passes ==
  /\ manifest' = manifest
  /\ \/ /\ InLauncher("wait") /\ InController("exited") /\ controller.status = 0
        /\ launcher' = [launcher EXCEPT !.at = "judge"]
     \/ /\ InLauncher("judge") /\ outcome = "passed"
        /\ launcher' = [launcher EXCEPT !.at = "passed", !.cleaned = TRUE]
     \/ InLauncher("passed") /\ launcher' = [launcher EXCEPT !.at = "exit"]
Fails ==
  /\ manifest' = manifest
  /\ \/ \E status \in ExitStatuses \ {0} :
          /\ launcher.at \in {"wait", "judge"}
          /\ launcher' = [launcher EXCEPT !.at = "exit", !.status = status]
     \/ /\ launcher.at \in {"start", "wait", "judge", "passed"}
        /\ launcher' = [launcher EXCEPT !.at = "exit", !.status = 143, !.signal = TRUE]
     \/ launcher.at # "ended" /\ launcher' = [launcher EXCEPT !.at = "killed"]
Traps ==
  /\ manifest' = manifest
  /\ \/ InLauncher("exit") /\ launcher' = [launcher EXCEPT !.at = "stop"]
     \/ InLauncher("stop") /\ launcher' = [launcher EXCEPT !.lost = TRUE]

LEMMA LauncherSteps ==
  ASSUME TwoItsInv, [RunNext]_runVars
  PROVE  Idles \/ Digests \/ Begins \/ Passes \/ Fails \/ Traps \/ Clean \/ FinishManifest
<1>0. RunTables /\ ControllerInPlan /\ launcher \in Launchers /\ controller \in Controllers
  BY DEF TwoItsInv, StreamInv, RunTables
<1> USE DEF launcherVars, runVars
<1>1. CASE \/ UNCHANGED runVars \/ OpenStream \/ Launch \/ LeaveSentinel \/ Stage
           \/ WriteObservation \/ Prove \/ FailStage \/ Handle \/ Shield
           \/ StopAll \/ WriteOutcome \/ SignalController \/ ReadManifest \/ ReadOutcome \/ Tick
  BY <1>1 DEF Idles, OpenStream, Launch, LeaveSentinel, Stage, WriteObservation, Prove,
     FailStage, Handle, Shield, StopAll, WriteOutcome,
     SignalController, ReadManifest, ReadOutcome, Tick
<1>2. CASE RecordDigest
  BY <1>2 DEF RecordDigest, Proving, SentinelDigest, Digests
<1>3. CASE Start
  <2>1. InLauncher("start") /\ InController("none") /\ Len(manifest) < 4 /\ Len(manifest) \in Nat
    BY <1>0, <1>3 DEF Start, ControllerInPlan, TwoItsInv, Begun, RunTables
  <2>2. Len(Setup) = 4
    BY <1>0, SetupIs
  <2>3. manifest' = Append(manifest, Setup[Len(manifest) + 1])
    BY <1>3 DEF Start
  <2>4. CASE Len(manifest) + 1 = Len(Setup)
    BY <1>3, <2>1, <2>3, <2>4 DEF Start, Begins
  <2>5. CASE Len(manifest) + 1 # Len(Setup)
    BY <1>3, <2>1, <2>2, <2>3, <2>5 DEF Start, Begins
  <2> QED
    BY <2>4, <2>5
<1>4. CASE Await
  <2>1. CASE controller.status = 0
    BY <1>4, <2>1 DEF Await, Passes
  <2>2. CASE controller.status # 0
    BY <1>0, <1>4, <2>2 DEF Await, Fails, Controllers, InLauncher
  <2> QED
    BY <2>1, <2>2
<1>5. CASE Judge
  <2>1. CASE outcome = "passed" /\ launcher' = [launcher EXCEPT !.at = "passed", !.cleaned = TRUE]
    BY <1>5, <2>1 DEF Judge, Passes
  <2>2. CASE launcher' = [launcher EXCEPT !.at = "exit", !.status = 1]
    <3>1. 1 \in ExitStatuses \ {0}
      BY DEF ExitStatuses
    <3> QED
      BY <1>5, <2>2, <3>1 DEF Judge, Fails, InLauncher
  <2> QED
    BY <1>5, <2>1, <2>2 DEF Judge
<1>6. CASE MarkPassed
  BY <1>6 DEF MarkPassed, Passes
<1>7. CASE SignalLauncher
  <2>1. CASE launcher.at \in {"start", "wait", "judge", "passed"}
    BY <1>7, <2>1 DEF SignalLauncher, Fails, InLauncher
  <2>2. CASE InLauncher("exit")
    <3>1. launcher' = [launcher EXCEPT !.at = "killed"]
      BY <1>7, <2>2 DEF SignalLauncher, InLauncher
    <3> QED
      BY <1>7, <2>2, <3>1 DEF SignalLauncher, Fails, InLauncher
  <2>3. CASE ~(launcher.at \in {"start", "wait", "judge", "passed"}) /\ ~InLauncher("exit")
    BY <1>7, <2>3 DEF SignalLauncher, Idles
  <2> QED
    BY <2>1, <2>2, <2>3
<1>8. CASE KillLauncher
  BY <1>8 DEF KillLauncher, LauncherAlive, Fails
<1>9. CASE ExitTrap \/ KillController
  BY <1>9 DEF ExitTrap, KillController, Traps
<1> QED
  BY <1>1, <1>2, <1>3, <1>4, <1>5, <1>6, <1>7, <1>8, <1>9 DEF RunNext

(* Nothing is left to be done when the launcher has ended.                   *)
LEMMA EndedIsSettled ==
  ASSUME TwoItsInv, [RunNext]_runVars, InLauncher("ended")
  PROVE  UNCHANGED <<launcherVars, controllerVars>>
<1>1. ControllerGone /\ ~InLauncher("start") /\ ~InController("run")
  BY DEF TwoItsInv, RecordsInOrder, InLauncher, ControllerGone, InController
<1>2. UNCHANGED controllerVars
  BY <1>1, GoneIsSettled
<1>3. UNCHANGED <<launcher, manifest>>
  BY <1>1, LauncherSteps DEF InLauncher, Idles, Digests, Begins, Passes, Fails, Traps, Clean, FinishManifest
<1> QED
  BY <1>2, <1>3 DEF launcherVars

LEMMA OutcomeKept ==
  ASSUME TwoItsInv, [RunNext]_runVars
  PROVE  OutcomeIsTheControllers'
<1>0. OutcomeIsTheControllers /\ controller \in Controllers /\ RunTables /\ ControllerInPlan
  BY DEF TwoItsInv, StreamInv, RunTables
<1>1. CASE outcome = "passed"
  <2>1. ControllerGone /\ ~InLauncher("start") /\ InController("exited")
    BY <1>0, <1>1 DEF OutcomeIsTheControllers, ControllerInPlan, ControllerGone, InController
  <2>2. UNCHANGED controllerVars
    BY <2>1, GoneIsSettled
  <2> QED
    BY <1>0, <2>2 DEF OutcomeIsTheControllers, InController, controllerVars
<1>2. CASE outcome # "passed"
  <2>1. CASE WriteOutcome
    BY <1>0, <1>2, <2>1 DEF WriteOutcome, Leave, OutcomeIsTheControllers, InController, Controllers
  <2>2. ASSUME ~WriteOutcome PROVE outcome' # "passed" /\ (InController("outcome")' => ~running')
    <3>1. outcome' = outcome
      BY <2>2 DEF RunNext, runVars, launcherVars, controllerVars, OpenStream, Launch, LeaveSentinel,
     RecordDigest, Stage, WriteObservation, Prove,
         FailStage, Handle, Shield, StopAll, SignalController, Start, Await, Judge, MarkPassed, SignalLauncher,
         KillLauncher, ExitTrap, KillController, Clean, FinishManifest, ReadManifest, ReadOutcome, Tick
    <3>2. ASSUME InController("outcome")' PROVE InController("outcome") \/ InController("stop")
      BY <1>0, <3>2, ControllerSteps DEF InController, Controllers, Rests, Opens, Moves, Goes, Publishes, Writes,
         IsInterrupted
    <3>3. CASE StopAll
      BY <1>0, <1>2, <3>1, <3>3 DEF StopAll, Leave, InController, Controllers
    <3>4. CASE ~StopAll
      <4>1. ASSUME InController("stop") \/ InController("outcome"), InController("outcome")'
            PROVE  running' = running /\ InController("outcome")
        <5>1. Interrupted(controller) = controller \/ Interrupted(controller).at = "exited"
          <6>1. CASE controller.interrupted \/ InController("stop")
            BY <6>1 DEF Interrupted, InController
          <6>2. CASE ~controller.interrupted /\ InController("outcome")
            BY <1>0, <6>2 DEF Interrupted, InController, Controllers
          <6> QED
            BY <4>1, <6>1, <6>2
        <5> QED
          BY <1>0, <2>2, <3>4, <4>1, <5>1 DEF RunNext, runVars, launcherVars, controllerVars, InController, Controllers,
             OpenStream, Launch, LeaveSentinel,
     RecordDigest, Stage, WriteObservation, Prove, FailStage, Handle, Shield, SignalController, Start,
             Await, Judge, MarkPassed, SignalLauncher, KillLauncher, ExitTrap, KillController, Clean,
             FinishManifest, ReadManifest, ReadOutcome, Tick
      <4> QED
        BY <1>0, <1>2, <3>1, <3>2, <4>1 DEF OutcomeIsTheControllers
    <3> QED
      BY <3>3, <3>4
  <2> QED
    BY <2>1, <2>2 DEF OutcomeIsTheControllers
<1> QED
  BY <1>1, <1>2

LEMMA PassedWasJudgedKept ==
  ASSUME TwoItsInv, [RunNext]_runVars
  PROVE  PassedWasJudged'
<1>1. PassedWasJudged /\ launcher \in Launchers
  BY DEF TwoItsInv, RunTables
<1>2. ASSUME InController("exited") PROVE controller' = controller /\ outcome' = outcome
  <2>1. ControllerGone /\ ~InLauncher("start")
    BY <1>2 DEF TwoItsInv, StreamInv, ControllerInPlan, ControllerGone, InController
  <2> QED
    BY <2>1, GoneIsSettled DEF controllerVars
<1>3. launcher.at \in {"passed", "exit", "stop", "finish", "ended"} /\ outcome = "passed" /\ controller.status = 0 =>
        outcome' = "passed" /\ controller'.status = 0
  BY <1>2 DEF TwoItsInv, OutcomeIsTheControllers
<1>4. InLauncher("judge") => controller' = controller /\ outcome' = outcome
  BY <1>1, <1>2 DEF PassedWasJudged
<1> USE DEF PassedWasJudged, InLauncher
<1>5. CASE UNCHANGED launcher
  BY <1>1, <1>3, <1>4, <1>5 DEF InController
<1>6. CASE Begins
  BY <1>1, <1>6 DEF Begins, Launchers
<1>7. CASE Passes
  BY <1>1, <1>2, <1>3, <1>4, <1>7 DEF Passes, Launchers, InController
<1>8. CASE Fails
  <2>1. CASE \E status \in ExitStatuses \ {0} :
               /\ launcher.at \in {"wait", "judge"}
               /\ launcher' = [launcher EXCEPT !.at = "exit", !.status = status]
    <3>1. ~launcher'.signal /\ launcher'.at = "exit" /\ launcher'.status # 0
      BY <1>1, <2>1 DEF Launchers
    <3> QED
      BY <3>1
  <2>2. CASE launcher' = [launcher EXCEPT !.at = "exit", !.status = 143, !.signal = TRUE]
    <3>1. launcher'.at = "exit" /\ launcher'.status = 143
      BY <1>1, <2>2 DEF Launchers
    <3> QED
      BY <3>1
  <2>3. CASE launcher' = [launcher EXCEPT !.at = "killed"]
    BY <1>1, <2>3 DEF Launchers
  <2> QED
    BY <1>8, <2>1, <2>2, <2>3 DEF Fails
<1>9. CASE Traps
  BY <1>1, <1>3, <1>9 DEF Traps, Launchers
<1>10. CASE Clean
  <2>1. PICK cleanup \in 0..1, exit \in ExitStatuses :
          /\ exit = IF launcher.status = 0 THEN cleanup ELSE launcher.status
          /\ launcher.cleaned => cleanup = 0
          /\ \/ launcher' = [launcher EXCEPT !.at = "ended", !.status = exit]
             \/ launcher' = [launcher EXCEPT !.at = "finish", !.status = exit,
                                             !.tail = FinalRecords(launcher.status, exit, cleanup)]
    BY <1>10, CleanTells DEF TwoItsInv
  <2>2. InLauncher("stop")
    BY <1>10 DEF Clean
  <2>3. launcher'.at \in {"finish", "ended"} /\ launcher'.status = exit /\ launcher'.signal = launcher.signal
    BY <1>1, <2>1 DEF Launchers
  <2> QED
    BY <1>1, <1>3, <2>1, <2>2, <2>3
<1>11. CASE FinishManifest
  <2>1. launcher.at = "finish" /\ launcher'.at \in {"finish", "ended"} /\ launcher'.status = launcher.status
        /\ launcher'.signal = launcher.signal
    BY <1>1, <1>11 DEF FinishManifest, Launchers
  <2> QED
    BY <1>1, <1>3, <2>1
<1> QED
  BY <1>5, <1>6, <1>7, <1>8, <1>9, <1>10, <1>11, LauncherSteps DEF Idles, Digests

LEMMA AppendRecord ==
  ASSUME NEW m \in Seq(ManifestRecords), NEW e \in ManifestRecords
  PROVE  LET a == Append(m, e) IN
         /\ a # <<>> /\ Len(a) = Len(m) + 1
         /\ \A k : Has(a, k) <=> Has(m, k) \/ k = e.key
         /\ \A n \in DOMAIN m : n \in DOMAIN a /\ a[n] = m[n]
         /\ \A n \in DOMAIN a : (n \in DOMAIN m /\ a[n] = m[n]) \/ (n = Len(m) + 1 /\ a[n] = e)
         /\ KeysDiffer(m) /\ ~Has(m, e.key) => KeysDiffer(a)
<1> DEFINE a == Append(m, e)
<1>1. /\ a # <<>> /\ Len(a) = Len(m) + 1 /\ Len(m) \in Nat /\ DOMAIN a = 1..Len(a) /\ DOMAIN m = 1..Len(m)
      /\ \A n \in 1..Len(m) : a[n] = m[n]
      /\ a[Len(m) + 1] = e
  BY AppendProperties
<1> HIDE DEF a
<1>2. /\ \A n \in DOMAIN m : n \in DOMAIN a /\ a[n] = m[n]
      /\ \A n \in DOMAIN a : (n \in DOMAIN m /\ a[n] = m[n]) \/ (n = Len(m) + 1 /\ a[n] = e)
  BY <1>1
<1>3. \A k : Has(a, k) <=> Has(m, k) \/ k = e.key
  BY <1>1, <1>2 DEF Has
<1>4. KeysDiffer(m) /\ ~Has(m, e.key) => KeysDiffer(a)
  BY <1>1, <1>2 DEF Has, KeysDiffer
<1> QED
  BY <1>1, <1>2, <1>3, <1>4 DEF a

LEMMA TailRecord ==
  ASSUME NEW t \in Seq(ManifestRecords), t # <<>>
  PROVE  /\ Head(t) \in ManifestRecords /\ Tail(t) \in Seq(ManifestRecords)
         /\ Len(Tail(t)) = Len(t) - 1 /\ Len(t) \in Nat
         /\ 1 \in DOMAIN t /\ Head(t) = t[1]
         /\ \A k : Has(t, k) => k = Head(t).key \/ Has(Tail(t), k)
         /\ \A n \in DOMAIN Tail(t) : n + 1 \in DOMAIN t /\ Tail(t)[n] = t[n + 1]
         /\ KeysDiffer(t) => KeysDiffer(Tail(t)) /\ ~Has(Tail(t), Head(t).key)
         /\ Tail(t) # <<>> => Tail(t)[Len(Tail(t))] = t[Len(t)]
<1>1. /\ Head(t) = t[1] /\ Head(t) \in ManifestRecords /\ Tail(t) \in Seq(ManifestRecords)
      /\ Len(Tail(t)) = Len(t) - 1 /\ Len(t) \in Nat /\ Len(t) >= 1
      /\ DOMAIN t = 1..Len(t) /\ DOMAIN Tail(t) = 1..Len(t) - 1
      /\ \A n \in 1..Len(t) - 1 : Tail(t)[n] = t[n + 1]
  BY HeadTailProperties
<1>2. \A n \in DOMAIN Tail(t) : n + 1 \in DOMAIN t /\ Tail(t)[n] = t[n + 1] /\ n + 1 # 1
  BY <1>1
<1>3. \A n \in DOMAIN t : n = 1 \/ (n - 1 \in DOMAIN Tail(t) /\ Tail(t)[n - 1] = t[n])
  BY <1>1
<1>4. \A k : Has(t, k) => k = Head(t).key \/ Has(Tail(t), k)
  BY <1>1, <1>3 DEF Has
<1>5. ASSUME KeysDiffer(t) PROVE KeysDiffer(Tail(t)) /\ ~Has(Tail(t), Head(t).key)
  <2>1. KeysDiffer(Tail(t))
    <3> SUFFICES ASSUME NEW j \in DOMAIN Tail(t), NEW k \in DOMAIN Tail(t), j # k
                 PROVE  Tail(t)[j].key # Tail(t)[k].key
      BY DEF KeysDiffer
    <3>1. j + 1 # k + 1
      BY <1>1
    <3> QED
      BY <1>2, <1>5, <3>1 DEF KeysDiffer
  <2>2. ~Has(Tail(t), Head(t).key)
    BY <1>1, <1>2, <1>5 DEF KeysDiffer, Has
  <2> QED
    BY <2>1, <2>2
<1>6. Tail(t) # <<>> => Tail(t)[Len(Tail(t))] = t[Len(t)]
  <2> SUFFICES ASSUME Tail(t) # <<>> PROVE Tail(t)[Len(t) - 1] = t[Len(t)]
    BY <1>1
  <2>1. Len(t) - 1 >= 1
    BY <1>1, EmptySeq
  <2> QED
    BY <1>1, <2>1
<1> QED
  BY <1>1, <1>2, <1>4, <1>5, <1>6

------------------------------------------------------------------------------
(* The terminal records. *)

(* Steps that leave the records alone, and begin or end none.                *)
Quiet == /\ manifest' = manifest /\ launcher'.tail = launcher.tail
         /\ launcher'.at = "finish" => launcher.at = "finish"
         /\ launcher'.at = "ended" => launcher.at = "ended"
         /\ launcher.at = "ended" => launcher' = launcher
         /\ launcher.at \in {"finish", "killed"} => launcher'.at \in {"finish", "killed"}
         /\ Finishing => launcher'.status = launcher.status /\ launcher'.signal = launcher.signal

LEMMA RecordSteps ==
  ASSUME TwoItsInv, [RunNext]_runVars
  PROVE  Quiet \/ Digests \/ Begins \/ Clean \/ FinishManifest
<1>1. launcher \in Launchers /\ RecordsInOrder
  BY DEF TwoItsInv, RunTables
<1>2. Finishing => launcher.at \in {"finish", "ended", "killed"}
  BY <1>1 DEF Finishing, RecordsInOrder, InLauncher
<1>3. CASE Idles
  BY <1>3 DEF Idles, Quiet, InLauncher
<1>4. CASE Passes
  BY <1>1, <1>2, <1>4 DEF Passes, Quiet, Launchers, InLauncher
<1>5. CASE Fails
  <2>1. CASE \E status \in ExitStatuses \ {0} :
               /\ launcher.at \in {"wait", "judge"}
               /\ launcher' = [launcher EXCEPT !.at = "exit", !.status = status]
    BY <1>1, <1>2, <1>5, <2>1 DEF Fails, Quiet, Launchers, InLauncher
  <2>2. CASE /\ launcher.at \in {"start", "wait", "judge", "passed"}
             /\ launcher' = [launcher EXCEPT !.at = "exit", !.status = 143, !.signal = TRUE]
    BY <1>1, <1>2, <1>5, <2>2 DEF Fails, Quiet, Launchers, InLauncher
  <2>3. CASE launcher.at # "ended" /\ launcher' = [launcher EXCEPT !.at = "killed"]
    BY <1>1, <1>2, <1>5, <2>3 DEF Fails, Quiet, Launchers, InLauncher
  <2> QED
    BY <1>5, <2>1, <2>2, <2>3 DEF Fails
<1>6. CASE Traps
  BY <1>1, <1>2, <1>6 DEF Traps, Quiet, Launchers, InLauncher
<1> QED
  BY <1>3, <1>4, <1>5, <1>6, LauncherSteps

(* What appends to the manifest.                                             *)
LEMMA DigestTells ==
  ASSUME TwoItsInv, Digests
  PROVE  LET e == Entry("application.sentinel_sha256", "digest") IN
         /\ e \in ManifestRecords /\ e.key = "application.sentinel_sha256" /\ ~Has(manifest, e.key)
         /\ ~ControllerGone /\ ~Finishing /\ launcher.tail = <<>>
         /\ launcher.at \notin {"start", "finish", "ended"}
<1>1. Entry("application.sentinel_sha256", "digest").key = "application.sentinel_sha256"
  BY DEF Entry
<1>2. ~Has(manifest, "application.sentinel_sha256")
  BY DEF Digests
<1>3. ~ControllerGone
  BY DEF Digests, ControllerGone, InController
<1>4. ~Finishing /\ launcher.tail = <<>> /\ launcher.at \notin {"finish", "ended"}
  BY <1>3 DEF TwoItsInv, RecordsInOrder, Finishing
<1>5. launcher.at # "start"
  BY DEF TwoItsInv, StreamInv, ControllerInPlan, Digests, InLauncher, InController
<1> QED
  BY <1>1, <1>2, <1>3, <1>4, <1>5, DigestIsARecord

LEMMA SetupTells ==
  ASSUME TwoItsInv, Begins
  PROVE  /\ Len(manifest) \in Nat /\ Len(manifest) < 4 /\ Setup[Len(manifest) + 1] \in ManifestRecords
         /\ Setup[Len(manifest) + 1].key \in BaseKeys \ {"application.sentinel_sha256"}
         /\ ~Has(manifest, Setup[Len(manifest) + 1].key)
         /\ ~Finishing /\ launcher.tail = <<>>
<1>1. manifest \in Seq(ManifestRecords) /\ Len(manifest) \in Nat /\ Len(manifest) < 4 /\ RunTables
  <2>1. manifest \in Seq(ManifestRecords) /\ RunTables
    BY DEF TwoItsInv, RunTables
  <2>2. Len(manifest) < 4
    BY DEF TwoItsInv, Begun, Begins
  <2>3. Len(manifest) \in Nat
    BY <2>1, LenProperties
  <2> QED
    BY <2>1, <2>2, <2>3
<1>2. \A j \in 1..4 : Setup[j].key \in BaseKeys \ {"application.sentinel_sha256"}
  BY <1>1, SetupIs DEF BaseKeys
<1>3. \A n \in DOMAIN manifest : n \in 1..Len(manifest) /\ manifest[n].key = Setup[n].key
  BY <1>1 DEF TwoItsInv, Begun, Begins
<1>4. \A j, k \in 1..4 : j # k => Setup[j].key # Setup[k].key
  BY <1>1, SetupIs
<1>5. ~Has(manifest, Setup[Len(manifest) + 1].key)
  BY <1>1, <1>3, <1>4 DEF Has
<1>6. ~Finishing /\ launcher.tail = <<>>
  BY DEF TwoItsInv, RecordsInOrder, Finishing, Begins, InLauncher
<1>7. Len(manifest) + 1 \in 1..4
  BY <1>1
<1>8. Setup[Len(manifest) + 1] \in ManifestRecords
  BY <1>1, <1>7, SetupIs
<1> QED
  BY <1>1, <1>2, <1>5, <1>6, <1>7, <1>8

LEMMA FinishTells ==
  ASSUME TwoItsInv, FinishManifest
  PROVE  /\ launcher.tail \in Seq(ManifestRecords) /\ launcher.tail # <<>>
         /\ Head(launcher.tail) \in ManifestRecords
         /\ Has(launcher.tail, Head(launcher.tail).key)
         /\ ~Has(manifest, Head(launcher.tail).key) /\ Head(launcher.tail).key \in FinalKeys
         /\ Finishing /\ ControllerGone
         /\ launcher'.tail = Tail(launcher.tail)
         /\ launcher'.status = launcher.status /\ launcher'.signal = launcher.signal
         /\ launcher'.at = IF Tail(launcher.tail) = <<>> THEN "ended" ELSE "finish"
<1>1. launcher \in Launchers /\ launcher.tail # <<>> /\ InLauncher("finish")
  BY DEF TwoItsInv, RunTables, RecordsInOrder, FinishManifest
<1>2. launcher.tail \in Seq(ManifestRecords)
  BY <1>1 DEF Launchers
<1>3. Head(launcher.tail) \in ManifestRecords /\ 1 \in DOMAIN launcher.tail /\ Head(launcher.tail) = launcher.tail[1]
  BY <1>1, <1>2, TailRecord
<1>4. Finishing /\ ControllerGone
  BY <1>1 DEF Finishing, TwoItsInv, RecordsInOrder
<1>5. ~Has(manifest, Head(launcher.tail).key) /\ Head(launcher.tail).key \in FinalKeys
  BY <1>3, <1>4 DEF TwoItsInv, RecordsInOrder, FinalRecordsTell
<1>6. Len(launcher.tail) = 1 <=> Tail(launcher.tail) = <<>>
  <2>1. /\ Len(Tail(launcher.tail)) = Len(launcher.tail) - 1 /\ Len(launcher.tail) \in Nat
        /\ Tail(launcher.tail) \in Seq(ManifestRecords)
    BY <1>1, <1>2, TailRecord
  <2>2. Tail(launcher.tail) = <<>> <=> Len(Tail(launcher.tail)) = 0
    BY <2>1, EmptySeq
  <2> QED
    BY <2>1, <2>2
<1>7. launcher'.at = IF Len(launcher.tail) = 1 THEN "ended" ELSE launcher.at
  BY <1>1 DEF FinishManifest, Launchers
<1>8. /\ launcher'.tail = Tail(launcher.tail)
      /\ launcher'.status = launcher.status /\ launcher'.signal = launcher.signal
  BY <1>1 DEF FinishManifest, Launchers
<1> QED
  BY <1>1, <1>2, <1>3, <1>4, <1>5, <1>6, <1>7, <1>8 DEF Has, InLauncher

LEMMA BegunKept ==
  ASSUME TwoItsInv, [RunNext]_runVars
  PROVE  Begun'
<1>0. /\ Begun /\ RunTables /\ ControllerInPlan /\ manifest \in Seq(ManifestRecords) /\ launcher \in Launchers
      /\ controller \in Controllers
  BY DEF TwoItsInv, StreamInv, RunTables
<1>1. InLauncher("start")' => InLauncher("start")
  BY NoWayBack
<1>2. \A n \in 1..4 : Setup'[n].key = Setup[n].key
  BY DEF Setup, Entry
<1>4. /\ \A n \in DOMAIN manifest : manifest[n].key = "started_utc" => manifest[n].value \in Int
      /\ Has(manifest, "repository.revision") => Has(manifest, "format") /\ Has(manifest, "started_utc")
      /\ InLauncher("start") => /\ Len(manifest) < 4
                                /\ \A n \in DOMAIN manifest : manifest[n].key = Setup[n].key
  BY <1>0 DEF Begun
<1>5. SUFFICES /\ \A n \in DOMAIN manifest' : manifest'[n].key = "started_utc" => manifest'[n].value \in Int
               /\ Has(manifest', "repository.revision") => Has(manifest', "format") /\ Has(manifest', "started_utc")
               /\ InLauncher("start")' => /\ Len(manifest') < 4
                                          /\ \A n \in DOMAIN manifest' : manifest'[n].key = Setup[n].key
  <2>1. \A n \in DOMAIN manifest' : Len(manifest') < 4 => n \in 1..4
    <3>1. manifest' \in Seq(ManifestRecords)
      BY TablesKept DEF RunTables
    <3>2. Len(manifest') \in Nat /\ DOMAIN manifest' = 1..Len(manifest')
      BY <3>1, LenProperties
    <3> QED
      BY <3>2
  <2> QED
    BY <1>2, <2>1 DEF Begun, Has
<1>6. CASE manifest' = manifest
  BY <1>1, <1>4, <1>6
<1>7. ASSUME NEW e \in ManifestRecords, manifest' = Append(manifest, e)
      PROVE  /\ \A k : Has(manifest', k) <=> Has(manifest, k) \/ k = e.key
             /\ (e.key = "started_utc" => e.value \in Int) =>
                  \A n \in DOMAIN manifest' : manifest'[n].key = "started_utc" => manifest'[n].value \in Int
             /\ Len(manifest') = Len(manifest) + 1
             /\ \A n \in DOMAIN manifest' : (n \in DOMAIN manifest /\ manifest'[n] = manifest[n])
                                             \/ (n = Len(manifest) + 1 /\ manifest'[n] = e)
  BY <1>0, <1>4, <1>7, AppendRecord
<1>8. CASE Digests
  <2> DEFINE e == Entry("application.sentinel_sha256", "digest")
  <2>1. e \in ManifestRecords /\ e.key = "application.sentinel_sha256" /\ ~InLauncher("start")
    BY <1>8, DigestTells DEF InLauncher
  <2>2. manifest' = Append(manifest, e)
    BY <1>8 DEF Digests
  <2> HIDE DEF e
  <2> QED
    BY <1>1, <1>4, <1>7, <2>1, <2>2
<1>9. CASE Begins
  <2> DEFINE e == Setup[Len(manifest) + 1]
  <2>1. /\ e \in ManifestRecords /\ e.key \in BaseKeys \ {"application.sentinel_sha256"}
        /\ Len(manifest) \in Nat /\ Len(manifest) < 4 /\ InLauncher("start")
    BY <1>9, SetupTells DEF Begins
  <2>2. manifest' = Append(manifest, e)
    BY <1>9 DEF Begins
  <2>3. e.key = "started_utc" => e.value \in Int
    <3>1. PICK j \in 1..4 : j = Len(manifest) + 1
      BY <2>1
    <3>2. e.key = "started_utc" => j = 2
      BY <1>0, <3>1, SetupIs
    <3> QED
      BY <1>0, <3>1, <3>2, SetupIs
  <2>4. e.key = "repository.revision" => Has(manifest, "format") /\ Has(manifest, "started_utc")
    <3> SUFFICES ASSUME e.key = "repository.revision" PROVE Has(manifest, "format") /\ Has(manifest, "started_utc")
      OBVIOUS
    <3>0. PICK j \in 1..4 : j = Len(manifest) + 1 /\ Len(manifest) = j - 1
      BY <2>1
    <3>1. Len(manifest) = 2
      <4>1. j = 3
        BY <1>0, <3>0, SetupIs
      <4> QED
        BY <3>0, <4>1
    <3>2. 1 \in DOMAIN manifest /\ 2 \in DOMAIN manifest
      BY <1>0, <3>1
    <3>3. manifest[1].key = "format" /\ manifest[2].key = "started_utc"
      BY <1>0, <1>4, <2>1, <3>2, SetupIs
    <3> QED
      BY <3>2, <3>3 DEF Has
  <2>5. InLauncher("start")' => Len(manifest) < 3
    BY <1>0, <1>9 DEF Begins, Launchers, InLauncher
  <2>6. \A n \in DOMAIN manifest' : manifest'[n].key = Setup[n].key
    <3> SUFFICES ASSUME NEW n \in DOMAIN manifest' PROVE manifest'[n].key = Setup[n].key
      OBVIOUS
    <3>1. CASE n \in DOMAIN manifest /\ manifest'[n] = manifest[n]
      BY <1>4, <2>1, <3>1
    <3>2. CASE n = Len(manifest) + 1 /\ manifest'[n] = e
      BY <3>2
    <3> HIDE DEF e
    <3> QED
      BY <1>7, <2>1, <2>2, <3>1, <3>2
  <2> HIDE DEF e
  <2> QED
    BY <1>4, <1>7, <2>1, <2>2, <2>3, <2>4, <2>5, <2>6
<1>10. CASE FinishManifest
  <2> DEFINE e == Head(launcher.tail)
  <2>1. e \in ManifestRecords /\ e.key \in FinalKeys /\ ~InLauncher("start")
    BY <1>10, FinishTells DEF FinishManifest, InLauncher
  <2>2. manifest' = Append(manifest, e)
    BY <1>10 DEF FinishManifest
  <2>3. e.key \notin {"started_utc", "repository.revision"}
    BY <2>1 DEF FinalKeys, FinalKeysOf, CleanupKeys
  <2> HIDE DEF e
  <2> QED
    BY <1>1, <1>4, <1>7, <2>1, <2>2, <2>3
<1>11. CASE Clean \/ Quiet
  BY <1>6, <1>11 DEF Clean, Quiet
<1> QED
  BY <1>8, <1>9, <1>10, <1>11, RecordSteps

(* A step that appends to the manifest, before the launcher has terminal     *)
(* records to append.                                                        *)
LEMMA BaseRecordKept ==
  ASSUME TwoItsInv, NEW e \in ManifestRecords, manifest' = Append(manifest, e),
         e.key \in BaseKeys, ~Has(manifest, e.key), launcher.tail = <<>>, launcher'.tail = <<>>,
         ~Finishing, launcher'.at \notin {"finish", "ended"}
  PROVE  RecordsInOrder' /\ ~Finishing'
<1>1. manifest \in Seq(ManifestRecords) /\ RecordsInOrder
  BY DEF TwoItsInv, RunTables
<1>2. /\ KeysDiffer(manifest) => KeysDiffer(manifest')
      /\ \A n \in DOMAIN manifest' : (n \in DOMAIN manifest /\ manifest'[n] = manifest[n]) \/ manifest'[n] = e
  BY <1>1, AppendRecord
<1>3. ~Finishing'
  BY DEF Finishing, InLauncher
<1>4. \A n \in DOMAIN manifest' : manifest'[n].key \in BaseKeys
  BY <1>1, <1>2 DEF RecordsInOrder
<1> QED
  BY <1>1, <1>2, <1>3, <1>4 DEF RecordsInOrder, InLauncher

LEMMA RecordsInOrderKept ==
  ASSUME TwoItsInv, [RunNext]_runVars
  PROVE  RecordsInOrder' /\ (Digests \/ Begins => ~Finishing')
<1>0. /\ RecordsInOrder /\ FinalRecordsTell /\ manifest \in Seq(ManifestRecords) /\ launcher \in Launchers
      /\ controller \in Controllers /\ PassedWasJudged /\ RunTables
  BY DEF TwoItsInv, RunTables
<1>1. ControllerGone /\ ~InLauncher("start") => ControllerGone'
  BY GoneIsSettled DEF controllerVars, ControllerGone
<1>2. CASE Quiet
  <2>1. Finishing' <=> Finishing
    BY <1>2 DEF Quiet, Finishing, InLauncher
  <2>2. launcher.at \in {"finish", "ended"} \/ Finishing => ControllerGone /\ ~InLauncher("start")
    BY <1>0 DEF RecordsInOrder, Finishing, InLauncher
  <2>3. launcher'.at \in {"finish", "ended"} => launcher.at \in {"finish", "ended"}
    BY <1>2 DEF Quiet
  <2>4. launcher'.tail # <<>> => launcher'.at \in {"finish", "killed"}
    BY <1>0, <1>2 DEF RecordsInOrder, Quiet
  <2>5. ~Begins /\ ~Digests
    <3>1. \A e \in ManifestRecords : Append(manifest, e) # manifest
      BY <1>0, AppendRecord
    <3> QED
      BY <1>2, <3>1, DigestTells, SetupTells DEF Quiet, Begins, Digests
  <2> QED
    BY <1>0, <1>1, <1>2, <2>1, <2>2, <2>3, <2>4, <2>5 DEF RecordsInOrder, Quiet, InLauncher, Has
<1>3. CASE Digests
  <2> DEFINE e == Entry("application.sentinel_sha256", "digest")
  <2>1. /\ e \in ManifestRecords /\ e.key \in BaseKeys /\ ~Has(manifest, e.key)
        /\ ~Finishing /\ launcher.tail = <<>> /\ launcher.at \notin {"start", "finish", "ended"}
    BY <1>3, DigestTells DEF BaseKeys
  <2>2. manifest' = Append(manifest, e) /\ launcher' = launcher
    BY <1>3 DEF Digests
  <2> HIDE DEF e
  <2> QED
    BY <2>1, <2>2, BaseRecordKept
<1>4. CASE Begins
  <2> DEFINE e == Setup[Len(manifest) + 1]
  <2>1. /\ e \in ManifestRecords /\ e.key \in BaseKeys /\ ~Has(manifest, e.key)
        /\ ~Finishing /\ launcher.tail = <<>>
    BY <1>4, SetupTells
  <2>2. /\ manifest' = Append(manifest, e) /\ launcher'.tail = launcher.tail
        /\ launcher'.at \notin {"finish", "ended"}
    BY <1>0, <1>4 DEF Begins, Launchers, InLauncher
  <2> HIDE DEF e
  <2> QED
    BY <2>1, <2>2, BaseRecordKept
<1>5. CASE Clean
  <2>0. InLauncher("stop") /\ ControllerGone /\ manifest' = manifest /\ ControllerGone'
    BY <1>1, <1>5 DEF Clean, InLauncher
  <2>1. launcher.tail = <<>> /\ ~Finishing
    BY <1>0, <2>0 DEF RecordsInOrder, Finishing, InLauncher
  <2>2. ~Digests /\ ~Begins
    <3>1. \A e \in ManifestRecords : Append(manifest, e) # manifest
      BY <1>0, AppendRecord
    <3> QED
      BY <2>0, <3>1, DigestTells, SetupTells DEF Begins, Digests
  <2>3. CASE launcher'.at = "ended" /\ launcher'.tail = launcher.tail /\ manifest = <<>>
    <3>1. ~Finishing'
      BY <2>0, <2>1, <2>3 DEF Finishing
    <3> QED
      BY <1>0, <2>0, <2>1, <2>2, <2>3, <3>1 DEF RecordsInOrder, InLauncher, Has
  <2>4. ASSUME NEW cleanup, manifest # <<>>, launcher'.at = "finish", launcher' \in Launchers,
               Lists(launcher', launcher'.tail, FinalKeysOf(launcher'), launcher.status, cleanup),
               launcher'.tail # <<>>, launcher'.tail[Len(launcher'.tail)].key = "exit_status"
        PROVE  RecordsInOrder'
    <3>1. KeysDiffer(launcher'.tail) /\ \A n \in DOMAIN launcher'.tail : launcher'.tail[n].key \in FinalKeysOf(launcher')
      BY <2>4 DEF Lists, Has
    <3>2. \A n \in DOMAIN launcher'.tail : ~Has(manifest, launcher'.tail[n].key)
      BY <1>0, <2>1, <3>1 DEF RecordsInOrder, Has, FinalKeysOf, CleanupKeys, BaseKeys
    <3>3. Finishing'
      BY <2>4 DEF Finishing
    <3> QED
      BY <1>0, <2>0, <2>4, <3>1, <3>2, <3>3 DEF RecordsInOrder, InLauncher, Has
  <2> QED
    BY <1>0, <1>5, <2>2, <2>3, <2>4, CleanTells DEF Launchers
<1>6. CASE FinishManifest
  <2> DEFINE e == Head(launcher.tail)
             t == Tail(launcher.tail)
  <2>1. /\ launcher.tail \in Seq(ManifestRecords) /\ launcher.tail # <<>> /\ e \in ManifestRecords
        /\ ~Has(manifest, e.key) /\ ControllerGone /\ launcher'.tail = t
        /\ launcher'.at = IF t = <<>> THEN "ended" ELSE "finish"
    BY <1>6, FinishTells
  <2>2. manifest' = Append(manifest, e) /\ ControllerGone'
    BY <1>1, <1>6, <2>1 DEF FinishManifest, InLauncher
  <2>3. /\ KeysDiffer(manifest') /\ \A k : Has(manifest', k) <=> Has(manifest, k) \/ k = e.key
        /\ manifest' # <<>>
    BY <1>0, <2>1, <2>2, AppendRecord DEF RecordsInOrder
  <2>4. KeysDiffer(t) /\ ~Has(t, e.key)
    BY <1>0, <2>1, TailRecord DEF RecordsInOrder
  <2>5. \A n \in DOMAIN t : n + 1 \in DOMAIN launcher.tail /\ t[n] = launcher.tail[n + 1]
    BY <2>1, TailRecord
  <2>6. t # <<>> => t[Len(t)].key = "exit_status"
    BY <1>0, <2>1, TailRecord DEF RecordsInOrder
  <2>7. \A n \in DOMAIN t : ~Has(manifest', t[n].key)
    <3> SUFFICES ASSUME NEW n \in DOMAIN t PROVE ~Has(manifest', t[n].key)
      OBVIOUS
    <3>1. ~Has(manifest, t[n].key)
      BY <1>0, <2>5 DEF RecordsInOrder
    <3>2. t[n].key # e.key
      BY <2>4 DEF Has
    <3> QED
      BY <2>3, <3>1, <3>2
  <2>8. Finishing'
    BY <2>1, <2>3 DEF Finishing, InLauncher
  <2>9. ~Digests /\ ~Begins
    BY <1>6, DigestTells DEF FinishManifest, InLauncher, Begins
  <2> HIDE DEF e, t
  <2> QED
    BY <2>1, <2>2, <2>3, <2>4, <2>6, <2>7, <2>8, <2>9 DEF RecordsInOrder, InLauncher, Has
<1> QED
  BY <1>2, <1>3, <1>4, <1>5, <1>6, RecordSteps

LEMMA FinalRecordsTellKept ==
  ASSUME TwoItsInv, [RunNext]_runVars
  PROVE  FinalRecordsTell'
<1>0. /\ RecordsInOrder /\ FinalRecordsTell /\ manifest \in Seq(ManifestRecords) /\ launcher \in Launchers
      /\ PassedWasJudged /\ RunTables /\ Begun
  BY DEF TwoItsInv, RunTables
<1>2. CASE Quiet
  <2>1. Finishing' <=> Finishing
    BY <1>2 DEF Quiet, Finishing, InLauncher
  <2>2. CASE Finishing
    <3>1. launcher'.status = launcher.status /\ launcher'.signal = launcher.signal
          /\ launcher'.tail = launcher.tail /\ manifest' = manifest
      BY <1>2, <2>2 DEF Quiet
    <3>2. FinalKeys' = FinalKeys
      BY <3>1 DEF FinalKeys, FinalKeysOf
    <3>3. \A e, status, cleanup : Says(launcher', e, status, cleanup) <=> Says(launcher, e, status, cleanup)
      BY <3>1 DEF Says
    <3> QED
      BY <1>0, <2>2, <3>1, <3>2, <3>3 DEF FinalRecordsTell, SaysWhatHappened, Has
  <2> QED
    BY <2>1, <2>2 DEF FinalRecordsTell
<1>3. CASE Digests \/ Begins
  BY <1>3, RecordsInOrderKept DEF FinalRecordsTell
<1>4. CASE Clean
  <2>0. InLauncher("stop") /\ manifest' = manifest
    BY <1>4 DEF Clean
  <2>1. launcher.tail = <<>> /\ ~Finishing
    BY <1>0, <2>0 DEF RecordsInOrder, Finishing, InLauncher
  <2>2. CASE manifest = <<>> /\ launcher'.tail = launcher.tail
    BY <2>0, <2>1, <2>2 DEF FinalRecordsTell, Finishing
  <2>3. ASSUME NEW cleanup \in 0..1, manifest # <<>>, launcher' \in Launchers,
               launcher.status \in ExitStatuses, launcher'.signal = launcher.signal,
               launcher'.status = IF launcher.status = 0 THEN cleanup ELSE launcher.status,
               Lists(launcher', launcher'.tail, FinalKeysOf(launcher'), launcher.status, cleanup)
        PROVE  FinalRecordsTell'
    <3>1. \A n \in DOMAIN manifest : manifest[n].key \in BaseKeys
      BY <1>0, <2>1 DEF RecordsInOrder
    <3>2. \A n \in DOMAIN launcher'.tail : launcher'.tail[n].key \in FinalKeys'
      BY <2>3 DEF Lists, Has, FinalKeys
    <3>3. \A k \in FinalKeys' : Has(launcher'.tail, k)
      BY <2>3 DEF Lists, FinalKeys
    <3>4. \A n \in DOMAIN manifest : Says(launcher', manifest[n], launcher.status, cleanup)
      BY <1>0, <3>1 DEF Says, Begun, BaseKeys
    <3>5. \A n \in DOMAIN launcher'.tail : Says(launcher', launcher'.tail[n], launcher.status, cleanup)
      BY <2>3 DEF Lists
    <3>6. launcher'.signal => launcher.status = 143
      BY <1>0, <2>3 DEF PassedWasJudged
    <3>8. PICK status \in ExitStatuses : status = launcher.status
      BY <2>3
    <3>7. SaysWhatHappened(status, cleanup)'
      BY <2>0, <2>3, <3>4, <3>5, <3>6, <3>8 DEF SaysWhatHappened
    <3> QED
      BY <2>0, <2>3, <3>1, <3>2, <3>3, <3>7 DEF FinalRecordsTell
  <2>4. PICK cleanup \in 0..1, exit \in ExitStatuses :
          /\ launcher.status \in ExitStatuses
          /\ exit = IF launcher.status = 0 THEN cleanup ELSE launcher.status
          /\ \/ manifest = <<>> /\ launcher' = [launcher EXCEPT !.at = "ended", !.status = exit]
             \/ /\ manifest # <<>> /\ launcher' \in Launchers
                /\ launcher' = [launcher EXCEPT !.at = "finish", !.status = exit,
                                                !.tail = FinalRecords(launcher.status, exit, cleanup)]
                /\ Lists(launcher', launcher'.tail, FinalKeysOf(launcher'), launcher.status, cleanup)
    BY <1>0, <1>4, CleanTells
  <2>5. launcher'.signal = launcher.signal /\ launcher'.status = exit
    BY <1>0, <2>4 DEF Launchers
  <2>6. manifest = <<>> => launcher'.tail = launcher.tail
    BY <1>0, <2>4 DEF Launchers
  <2> QED
    BY <2>2, <2>3, <2>4, <2>5, <2>6
<1>5. CASE FinishManifest
  <2> DEFINE e == Head(launcher.tail)
             t == Tail(launcher.tail)
  <2>1. /\ launcher.tail \in Seq(ManifestRecords) /\ launcher.tail # <<>> /\ e \in ManifestRecords
        /\ e.key \in FinalKeys /\ Finishing /\ launcher'.tail = t
        /\ launcher'.status = launcher.status /\ launcher'.signal = launcher.signal
    BY <1>5, FinishTells
  <2>2. manifest' = Append(manifest, e)
    BY <1>5 DEF FinishManifest
  <2>3. /\ \A k : Has(manifest', k) <=> Has(manifest, k) \/ k = e.key
        /\ \A n \in DOMAIN manifest' : (n \in DOMAIN manifest /\ manifest'[n] = manifest[n]) \/ manifest'[n] = e
    BY <1>0, <2>1, <2>2, AppendRecord
  <2>4. /\ \A k : Has(launcher.tail, k) => k = e.key \/ Has(t, k)
        /\ \A n \in DOMAIN t : n + 1 \in DOMAIN launcher.tail /\ t[n] = launcher.tail[n + 1]
        /\ 1 \in DOMAIN launcher.tail /\ e = launcher.tail[1]
    BY <2>1, TailRecord
  <2> HIDE DEF e, t
  <2>5. FinalKeys' = FinalKeys
    BY <2>1 DEF FinalKeys, FinalKeysOf
  <2>6. \A r, status, cleanup : Says(launcher', r, status, cleanup) <=> Says(launcher, r, status, cleanup)
    BY <2>1 DEF Says
  <2>7. \A n \in DOMAIN manifest' : manifest'[n].key \in BaseKeys \cup FinalKeys
    BY <1>0, <2>1, <2>3 DEF FinalRecordsTell
  <2>8. \A n \in DOMAIN t : t[n].key \in FinalKeys
    BY <1>0, <2>1, <2>4 DEF FinalRecordsTell
  <2>9. \A k \in FinalKeys : Has(manifest', k) \/ Has(t, k)
    BY <1>0, <2>1, <2>3, <2>4 DEF FinalRecordsTell
  <2>10. PICK status \in ExitStatuses, cleanup \in 0..1 : SaysWhatHappened(status, cleanup)
    BY <1>0, <2>1 DEF FinalRecordsTell
  <2>11. \A n \in DOMAIN manifest' : Says(launcher', manifest'[n], status, cleanup)
    BY <2>3, <2>4, <2>6, <2>10 DEF SaysWhatHappened
  <2>12. \A n \in DOMAIN t : Says(launcher', t[n], status, cleanup)
    BY <2>4, <2>6, <2>10 DEF SaysWhatHappened
  <2>13. SaysWhatHappened(status, cleanup)'
    BY <2>1, <2>10, <2>11, <2>12 DEF SaysWhatHappened
  <2> QED
    BY <2>1, <2>5, <2>7, <2>8, <2>9, <2>13 DEF FinalRecordsTell, Has
<1> QED
  BY <1>2, <1>3, <1>4, <1>5, RecordSteps

LEMMA CompleteIsFinalKept ==
  ASSUME TwoItsInv, [RunNext]_runVars
  PROVE  CompleteIsFinal'
<1>0. CompleteIsFinal /\ report \in DiagnosisReports
  BY DEF TwoItsInv, RunTables
<1>1. ASSUME InLauncher("ended")
      PROVE  /\ launcher' = launcher /\ manifest' = manifest /\ controller' = controller
             /\ running' = running /\ outcome' = outcome
  BY <1>1, EndedIsSettled DEF launcherVars, controllerVars
<1>2. CASE report' = report
  BY <1>0, <1>1, <1>2 DEF CompleteIsFinal, ReportIsTrue, InLauncher, CompleteRecord, Has
<1>3. CASE ReadManifest
  <2>1. report'.manifest = manifest /\ report'.status = report.status /\ manifest' = manifest /\ launcher' = launcher
        /\ controller' = controller /\ running' = running
    BY <1>0, <1>3 DEF ReadManifest, DiagnosisReports, launcherVars, controllerVars
  <2>2. CompleteRecord(manifest) => InLauncher("ended")
    BY CompleteIsEnded
  <2> QED
    BY <1>0, <2>1, <2>2 DEF CompleteIsFinal, ReportIsTrue, InLauncher, CompleteRecord, Has
<1>4. CASE ReadOutcome
  <2> DEFINE m == report.manifest
  <2>1. report'.manifest = <<>> /\ report'.status = Diagnosis(m, outcome)
        /\ launcher' = launcher /\ controller' = controller /\ running' = running
    BY <1>4 DEF ReadOutcome, launcherVars, controllerVars
  <2>2. ~CompleteRecord(report.manifest)'
    BY <2>1 DEF CompleteRecord, Has
  <2>3. ASSUME Diagnosis(m, outcome) \in {"passed", "failed"}
        PROVE  CompleteRecord(m) /\ Value(m, "outcome") = Diagnosis(m, outcome)
    <3>1. CASE m = <<>>
      BY <2>3, <3>1 DEF Diagnosis
    <3>2. CASE m # <<>> /\ (OutcomeIssue(m, outcome) \/ TerminationIssue(m) \/ CleanupIssue(m))
      BY <2>3, <3>2 DEF Diagnosis
    <3>3. CASE ~(m = <<>>) /\ ~(m # <<>> /\ (OutcomeIssue(m, outcome) \/ TerminationIssue(m) \/ CleanupIssue(m)))
      <4>1. Diagnosis(m, outcome) = IF ~CompleteRecord(m) THEN "unfinished" ELSE Value(m, "outcome")
        BY <3>3 DEF Diagnosis
      <4> QED
        BY <2>3, <4>1
    <3> QED
      BY <3>1, <3>2, <3>3
  <2>4. CompleteRecord(m) =>
          /\ InLauncher("ended")
          /\ Value(m, "outcome") = IF launcher.status = 0 THEN "passed" ELSE "failed"
    BY <1>0, CompleteTells DEF CompleteIsFinal
  <2>5. InLauncher("ended") /\ launcher.status = 0 =>
          controller.outcome = "passed" /\ controller.status = 0 /\ ~running
    BY DEF TwoItsInv, PassedWasJudged, OutcomeIsTheControllers, InLauncher
  <2> HIDE DEF m
  <2>6. ReportIsTrue'
    BY <2>1, <2>3, <2>4, <2>5 DEF ReportIsTrue, InLauncher
  <2> QED
    BY <2>2, <2>6 DEF CompleteIsFinal
<1> QED
  BY <1>2, <1>3, <1>4 DEF RunNext, runVars, OpenStream, Launch, LeaveSentinel,
     RecordDigest, Stage, WriteObservation, Prove, FailStage, Handle, Shield,
     StopAll, WriteOutcome, SignalController, Start, Await, Judge, MarkPassed, SignalLauncher, KillLauncher,
     ExitTrap, KillController, Clean, FinishManifest, Tick

LEMMA RunStepKeeps == TwoItsInv /\ [RunNext]_runVars => TwoItsInv'
BY TablesKept, ControllerInPlanKept, MadeIsValidKept, StreamFollowsKept, OutcomeKept, PassedWasJudgedKept,
   BegunKept, RecordsInOrderKept, FinalRecordsTellKept, CompleteIsFinalKept DEF TwoItsInv, StreamInv

LEMMA RunTyped == TwoItsInv => RunTypeOK
BY DEF TwoItsInv, RunTables, StreamInv, StreamFollows, RecordsInOrder, KeysDiffer, RunTypeOK

(* TwoItsInv holds throughout a run: it holds before the launcher begins, and *)
(* every step of the launcher, its controller and the readers keeps it.       *)
(* (brfid_exit_trap, main of two-its-controller.py, diagnose_run)             *)
THEOREM TwoItsInvHolds == RunSpec => []TwoItsInv
BY RunStarts, RunStepKeeps, PTL DEF RunSpec

(* No record is written twice, and what is in the stream was made by its     *)
(* publisher. (brfid_manifest_append, LiveObservationPublisher)              *)
THEOREM RunTypesHold == RunSpec => []RunTypeOK
BY TwoItsInvHolds, RunTyped, PTL

(* A reader of the stream finds the last observation of a subject.           *)
LEMMA LastKnownTells ==
  ASSUME TwoItsInv, NEW k \in DOMAIN stream.lines
  PROVE  LET s == stream.lines[k].subject IN
         LastKnown(s) \in DOMAIN stream.lines /\ stream.lines[LastKnown(s)].subject = s /\ k <= LastKnown(s)
<1> DEFINE s == stream.lines[k].subject
           IsLast(n) == n \in DOMAIN stream.lines /\ stream.lines[n].subject = s
                        /\ \A j \in DOMAIN stream.lines : stream.lines[j].subject = s => j <= n
<1>1. \A n \in DOMAIN stream.lines : n \in {1, 2, 3}
  <2>1. stream.lines \in Seq(ObservationRecords) /\ Len(stream.lines) <= Len(made) /\ Len(made) <= 3
        /\ made \in Seq(ObservationRecords)
    BY DEF TwoItsInv, RunTables, Streams, StreamInv, StreamFollows, ControllerInPlan
  <2>2. DOMAIN stream.lines = 1..Len(stream.lines) /\ Len(stream.lines) \in Nat /\ Len(made) \in Nat
    BY <2>1, LenProperties
  <2> QED
    BY <2>1, <2>2
<1>2. IsLast(1) \/ IsLast(2) \/ IsLast(3)
  BY <1>1
<1>3. LastKnown(s) = CHOOSE n \in DOMAIN stream.lines : stream.lines[n].subject = s
                         /\ \A j \in DOMAIN stream.lines : stream.lines[j].subject = s => j <= n
  BY DEF LastKnown
<1>4. IsLast(LastKnown(s))
  BY <1>2, <1>3
<1> QED
  BY <1>4

LEMMA StreamTells == TwoItsInv => StreamIsTrue
<1> SUFFICES ASSUME TwoItsInv, stream.header = "whole", ~controller.interrupted
             PROVE  /\ Readable /\ Len(stream.lines) >= Len(made) - 1
                    /\ stream.lines = SubSeq(made, 1, Len(stream.lines))
                    /\ \A k \in DOMAIN stream.lines :
                         LET s == stream.lines[k].subject IN
                         Shown(s) # "stale" => \E j \in k .. Len(made) :
                           made[j].subject = s /\ made[j].state = Shown(s) /\ now - made[j].at <= StaleAfter
  BY DEF StreamIsTrue
<1> DEFINE l == stream.lines
<1>1. /\ l \in Seq(ObservationRecords) /\ made \in Seq(ObservationRecords)
      /\ DOMAIN l = 1..Len(l) /\ DOMAIN made = 1..Len(made) /\ Len(l) \in Nat /\ Len(made) \in Nat
      /\ Len(l) <= Len(made) /\ Len(l) >= Len(made) - 1
      /\ \A k \in DOMAIN l : l[k] = made[k]
  <2>1. /\ l \in Seq(ObservationRecords) /\ made \in Seq(ObservationRecords)
        /\ Len(l) <= Len(made) /\ Len(l) >= Len(made) - 1
        /\ \A k \in DOMAIN l : l[k] = made[k]
    BY DEF TwoItsInv, RunTables, Streams, StreamInv, StreamFollows
  <2> QED
    BY <2>1, LenProperties
<1>2. ASSUME NEW k \in DOMAIN l
      PROVE  /\ l[k].sequence = k /\ l[k].at >= stream.started /\ l[k].at \in Int /\ l[k].category \in Categories
             /\ l[k].subject \in Subjects(TwoItsTopology)
             /\ \A j \in DOMAIN l : j <= k => l[j].at <= l[k].at
  <2>1. l[k] \in ObservationRecords /\ k \in DOMAIN made /\ l[k] = made[k]
    BY <1>1
  <2>2. MadeIsValid
    BY DEF TwoItsInv, StreamInv
  <2>3. l[k].at \in Int /\ l[k].category \in Categories
    BY <2>1 DEF ObservationRecords
  <2>4. l[k].sequence = k /\ l[k].at >= stream.started /\ l[k].subject \in Subjects(TwoItsTopology)
    BY <2>1, <2>2 DEF MadeIsValid
  <2>5. \A j \in DOMAIN l : j <= k => l[j].at <= l[k].at
    <3> SUFFICES ASSUME NEW j \in DOMAIN l, j <= k PROVE l[j].at <= l[k].at
      OBVIOUS
    <3>1. j \in DOMAIN made /\ l[j] = made[j]
      BY <1>1
    <3> QED
      BY <2>1, <2>2, <3>1 DEF MadeIsValid
  <2> QED
    BY <2>3, <2>4, <2>5
<1>3. Readable
  <2> SUFFICES ASSUME l # <<>> PROVE Valid(l)
    BY DEF Readable
  <2> HIDE DEF l
  <2>1. Len(l) \in DOMAIN l
    BY <1>1, EmptySeq
  <2>2. \A k \in DOMAIN l : stream.started <= l[k].at /\ l[k].at <= l[Len(l)].at
    BY <1>1, <1>2, <2>1
  <2>3. \A k \in DOMAIN l : k > 1 => l[k - 1].at <= l[k].at
    BY <1>1, <1>2
  <2> QED
    BY <1>2, <2>2, <2>3 DEF Valid, ValidObservations
<1>4. l = SubSeq(made, 1, Len(l))
  <2>1. /\ SubSeq(made, 1, Len(l)) \in Seq(ObservationRecords)
        /\ Len(SubSeq(made, 1, Len(l))) = Len(l)
        /\ \A k \in 1..Len(l) : SubSeq(made, 1, Len(l))[k] = made[k]
    BY <1>1, SubSeqProperties
  <2> HIDE DEF l
  <2> QED
    BY <1>1, <2>1, SeqEqual
<1>5. ASSUME NEW k \in DOMAIN l, Shown(l[k].subject) # "stale"
      PROVE  \E j \in k .. Len(made) :
               /\ made[j].subject = l[k].subject /\ made[j].state = Shown(l[k].subject)
               /\ now - made[j].at <= StaleAfter
  <2> DEFINE s == l[k].subject
             j == LastKnown(s)
  <2>1. j \in DOMAIN l /\ l[j].subject = s /\ k <= j
    BY LastKnownTells
  <2>2. ~(now - l[j].at > StaleAfter) /\ Shown(s) = l[j].state
    BY <1>5 DEF Shown
  <2>3. now \in Int /\ StaleAfter \in Int
    BY DEF TwoItsInv, RunTables, StaleAfter
  <2> HIDE DEF l, j, s
  <2>4. j \in k .. Len(made) /\ l[j] = made[j] /\ l[j].at \in Int
    BY <1>1, <1>2, <2>1
  <2>5. now - made[j].at <= StaleAfter
    BY <2>2, <2>3, <2>4
  <2> QED
    BY <2>1, <2>2, <2>4, <2>5 DEF s
<1> QED
  BY <1>1, <1>3, <1>4, <1>5

(* Whoever reads the stream of a controller that was not interrupted reads    *)
(* what it published, to the last or the last but one, and shows of a         *)
(* subject the last that was published of it, unless that is old.             *)
(* (read_live_observation_stream, snapshot)                                   *)
THEOREM StreamTellsTheTruth == RunSpec => []StreamIsTrue
BY StreamTells, TwoItsInvHolds, PTL

------------------------------------------------------------------------------
(* The readers of a run that is over. *)

(* What a reader finds in the record of a launcher that has ended.           *)
LEMMA EndedRunIsConsistent ==
  ASSUME TwoItsInv, InLauncher("ended"), outcome # "empty", Has(manifest, "repository.revision"),
         Value(manifest, "finished_utc") >= Value(manifest, "started_utc")
  PROVE  Diagnosis(manifest, outcome) = IF launcher.status = 0 THEN "passed" ELSE "failed"
<1>1. manifest # <<>>
  BY DEF Has
<1>2. PICK status \in ExitStatuses, cleanup \in 0..1 : Told(status, cleanup)
  BY <1>1, EndedRecordTells
<1>3. /\ Has(manifest, "format") /\ Has(manifest, "started_utc")
      /\ launcher.status = 0 => outcome = "passed"
      /\ launcher.status \in ExitStatuses
  BY DEF TwoItsInv, Begun, PassedWasJudged, RunTables, Launchers, InLauncher
<1>4. CleanupKeys \subseteq FinalKeys
      /\ {"termination.exit-status", "termination.kind", "finished_utc", "outcome", "exit_status"} \subseteq FinalKeys
      /\ ("termination.signal" \in BaseKeys \cup FinalKeys <=> launcher.signal)
      /\ ("termination.signal" \in FinalKeys <=> launcher.signal)
      /\ ("failure.reason" \in BaseKeys \cup FinalKeys <=> launcher.status # 0)
      /\ ("failure.reason" \in FinalKeys <=> launcher.status # 0)
  BY DEF FinalKeys, FinalKeysOf, CleanupKeys, BaseKeys
<1>5. /\ \A k \in {"termination.exit-status", "termination.kind", "finished_utc", "outcome", "exit_status"} \cup CleanupKeys :
           Has(manifest, k)
      /\ Has(manifest, "termination.signal") <=> launcher.signal
      /\ Has(manifest, "failure.reason") <=> launcher.status # 0
  BY <1>2, <1>4 DEF Told
<1>6. CompleteRecord(manifest)
  BY <1>5 DEF CompleteRecord
<1>7. /\ Value(manifest, "outcome") = IF launcher.status = 0 THEN "passed" ELSE "failed"
      /\ Value(manifest, "exit_status") = launcher.status
      /\ Value(manifest, "termination.exit-status") = status
      /\ Value(manifest, "termination.kind") = IF launcher.signal THEN "signal" ELSE "exit"
      /\ Value(manifest, "cleanup.runtime.exit-status") = cleanup
      /\ Value(manifest, "cleanup.runtime.failed-resources") = IF cleanup = 0 THEN "none" ELSE "resource"
      /\ launcher.status = IF status = 0 THEN cleanup ELSE status
      /\ launcher.signal => status = 143
  BY <1>2 DEF Told
<1>8. ~OutcomeIssue(manifest, outcome)
  <2>1. Value(manifest, "finished_utc") \in Int /\ Value(manifest, "started_utc") \in Int
    <3>1. PICK n \in DOMAIN manifest : manifest[n].key = "started_utc" /\ Value(manifest, "started_utc") = manifest[n].value
      BY <1>3, ValueIs
    <3>2. Value(manifest, "started_utc") \in Int
      BY <3>1 DEF TwoItsInv, Begun
    <3> QED
      BY <1>2, <3>2 DEF Told
  <2>2. ~(Value(manifest, "finished_utc") < Value(manifest, "started_utc"))
    BY <2>1
  <2>3. Is(manifest, "outcome", "passed") => launcher.status = 0
    BY <1>7 DEF Is
  <2> QED
    BY <1>3, <1>6, <1>7, <2>2, <2>3 DEF OutcomeIssue
<1>9. Is(manifest, "outcome", "passed") <=> launcher.status = 0
  BY <1>5, <1>7 DEF Is
<1>10. Is(manifest, "outcome", "failed") <=> launcher.status # 0
  BY <1>5, <1>7 DEF Is
<1>11. /\ Is(manifest, "cleanup.runtime.exit-status", 1) <=> cleanup = 1
       /\ Is(manifest, "cleanup.runtime.failed-resources", "resource") <=> cleanup = 1
  BY <1>5, <1>7 DEF Is, CleanupKeys
<1>12. Is(manifest, "termination.kind", "signal") <=> launcher.signal
  BY <1>5, <1>7 DEF Is
<1>13. ~TerminationIssue(manifest)
  <2>1. Has(manifest, "termination.kind") /\ Has(manifest, "termination.exit-status") /\ Has(manifest, "exit_status")
    BY <1>5
  <2>2. ~(Has(manifest, "termination.signal") /\ Value(manifest, "termination.exit-status") # 143)
    BY <1>5, <1>7
  <2>3. status # 0 => launcher.status = status
    BY <1>7
  <2>4. ~(/\ status = 0 /\ Has(manifest, "exit_status")
          /\ Value(manifest, "exit_status") \in {0, 1} => /\ Value(manifest, "exit_status") = 1
                                                           /\ ~Is(manifest, "cleanup.runtime.exit-status", 1))
    BY <1>7, <1>11
  <2>5. ~(Is(manifest, "termination.kind", "signal") # Has(manifest, "termination.signal"))
    <3>1. Is(manifest, "termination.kind", "signal") \in BOOLEAN /\ Has(manifest, "termination.signal") \in BOOLEAN
      BY DEF Is, Has
    <3> QED
      BY <1>5, <1>12, <3>1
  <2>6. launcher.status = 0 => status = 0 /\ ~Has(manifest, "failure.reason")
    BY <1>5, <1>7
  <2> QED
    BY <1>5, <1>7, <1>9, <1>10, <2>1, <2>2, <2>3, <2>4, <2>5, <2>6 DEF TerminationIssue
<1>14. ~CleanupIssue(manifest)
  <2>1. ~(Is(manifest, "cleanup.runtime.exit-status", 1) # Is(manifest, "cleanup.runtime.failed-resources", "resource"))
    <3>1. /\ Is(manifest, "cleanup.runtime.exit-status", 1) \in BOOLEAN
          /\ Is(manifest, "cleanup.runtime.failed-resources", "resource") \in BOOLEAN
      BY DEF Is, Has
    <3> QED
      BY <1>11, <3>1
  <2>2. cleanup = 1 => launcher.status # 0
    BY <1>7
  <2> QED
    BY <1>5, <1>9, <1>11, <2>1, <2>2 DEF CleanupIssue
<1>15. Diagnosis(manifest, outcome) = Value(manifest, "outcome")
  <2>1. ~(manifest = <<>>)
        /\ ~(manifest # <<>> /\ (OutcomeIssue(manifest, outcome) \/ TerminationIssue(manifest) \/ CleanupIssue(manifest)))
    BY <1>1, <1>8, <1>13, <1>14
  <2> QED
    BY <1>6, <2>1 DEF Diagnosis
<1> QED
  BY <1>7, <1>15

LEMMA TopologyIs ==
  /\ TwoItsTopology.components = {"host:176", "imp:62", "imp:6", "host:106"}
  /\ DOMAIN TwoItsTopology.endpoints =
       {"host:176:hi2", "imp:62:hi2", "imp:62:mi1", "imp:6:mi1", "imp:6:hi2", "host:106:hi2"}
  /\ TwoItsTopology.endpoints["host:176:hi2"] = "host:176" /\ TwoItsTopology.endpoints["imp:62:hi2"] = "imp:62"
  /\ TwoItsTopology.endpoints["imp:62:mi1"] = "imp:62" /\ TwoItsTopology.endpoints["imp:6:mi1"] = "imp:6"
  /\ TwoItsTopology.endpoints["imp:6:hi2"] = "imp:6" /\ TwoItsTopology.endpoints["host:106:hi2"] = "host:106"
  /\ DOMAIN TwoItsTopology.links = {"link:176-62", "link:62-6", "link:6-106"}
  /\ TwoItsTopology.links["link:176-62"] = {"host:176:hi2", "imp:62:hi2"}
  /\ TwoItsTopology.links["link:62-6"] = {"imp:62:mi1", "imp:6:mi1"}
  /\ TwoItsTopology.links["link:6-106"] = {"imp:6:hi2", "host:106:hi2"}
  /\ DOMAIN TwoItsTopology.routes = {"route:host176-to-host106"}
  /\ TwoItsTopology.routes["route:host176-to-host106"] = <<"host:176", "imp:62", "imp:6", "host:106">>
BY DEF TwoItsTopology

(* The topology that a summary of two ITS guests has is one.                 *)
LEMMA TopologyIsValid == ValidTopology(TwoItsTopology)
<1> DEFINE t == TwoItsTopology
<1>0. t = TwoItsTopology
  OBVIOUS
<1> HIDE DEF t
<1>1. t.components # {} /\ \A c \in t.components : \E e \in DOMAIN t.endpoints : t.endpoints[e] = c
  BY <1>0, TopologyIs
<1>2. \A k \in DOMAIN t.links : Cardinality(t.links[k]) = 2 /\ t.links[k] \subseteq DOMAIN t.endpoints
  <2>1. /\ Cardinality({"host:176:hi2", "imp:62:hi2"}) = 2 /\ Cardinality({"imp:62:mi1", "imp:6:mi1"}) = 2
        /\ Cardinality({"imp:6:hi2", "host:106:hi2"}) = 2
    BY PairIsTwo
  <2> QED
    BY <1>0, <2>1, TopologyIs
<1>3. /\ {"host:176", "imp:62"} \in Neighbours(t) /\ {"imp:62", "imp:6"} \in Neighbours(t)
      /\ {"imp:6", "host:106"} \in Neighbours(t)
  <2>1. {t.endpoints[e] : e \in t.links["link:176-62"]} = {"host:176", "imp:62"}
    BY <1>0, TopologyIs
  <2>2. {t.endpoints[e] : e \in t.links["link:62-6"]} = {"imp:62", "imp:6"}
    BY <1>0, TopologyIs
  <2>3. {t.endpoints[e] : e \in t.links["link:6-106"]} = {"imp:6", "host:106"}
    BY <1>0, TopologyIs
  <2>4. \A k \in {"link:176-62", "link:62-6", "link:6-106"} : {t.endpoints[e] : e \in t.links[k]} \in Neighbours(t)
    BY <1>0, TopologyIs DEF Neighbours
  <2> QED
    BY <2>1, <2>2, <2>3, <2>4
<1>4. \A r \in DOMAIN t.routes : LET path == t.routes[r] IN
        /\ Len(path) >= 2 /\ \A k \in DOMAIN path : path[k] \in t.components
        /\ \A k \in 1 .. Len(path) - 1 : {path[k], path[k + 1]} \in Neighbours(t)
  <2> DEFINE p == <<"host:176", "imp:62", "imp:6", "host:106">>
  <2>1. DOMAIN p = 1..4 /\ Len(p) = 4 /\ p[1] = "host:176" /\ p[2] = "imp:62" /\ p[3] = "imp:6" /\ p[4] = "host:106"
    OBVIOUS
  <2>2. \A r \in DOMAIN t.routes : t.routes[r] = p
    BY <1>0, TopologyIs
  <2> HIDE DEF p
  <2>3. \A k \in DOMAIN p : p[k] \in t.components
    BY <1>0, <2>1, TopologyIs
  <2>4. \A k \in 1..3 : {p[k], p[k + 1]} \in Neighbours(t)
    BY <1>3, <2>1
  <2>5. Len(p) >= 2 /\ Len(p) - 1 = 3
    BY <2>1
  <2>6. \A k \in 1 .. Len(p) - 1 : {p[k], p[k + 1]} \in Neighbours(t)
    BY <2>4, <2>5
  <2> QED
    BY <2>2, <2>3, <2>5, <2>6, Zenon
<1>5. \A j, k \in 1..4 : j < k => TopologyIds(t)[j] \cap TopologyIds(t)[k] = {}
  BY <1>0, TopologyIs DEF TopologyIds
<1> QED
  BY <1>0, <1>1, <1>2, <1>4, <1>5 DEF ValidTopology

LEMMA RouteIsASubject == "route:host176-to-host106" \in Subjects(TwoItsTopology)
<1>1. "route:host176-to-host106" \in TopologyIds(TwoItsTopology)[4]
  BY TopologyIs DEF TopologyIds
<1> QED
  BY <1>1 DEF Subjects

LEMMA SummaryTells == TwoItsInv => SummaryIsTrue
<1> SUFFICES ASSUME TwoItsInv, Accepted, Value(manifest, "finished_utc") >= Value(manifest, "started_utc")
             PROVE  /\ ValidSummary(Summary)
                    /\ Summary.outcome = "passed" => InLauncher("ended") /\ launcher.status = 0 /\ ~running
  BY DEF SummaryIsTrue
<1>1. /\ InLauncher("ended") /\ outcome = IF launcher.status = 0 THEN "passed" ELSE "failed"
  BY CompleteTells DEF Accepted
<1>2. Value(manifest, "finished_utc") \in Int /\ Value(manifest, "started_utc") \in Int
  <2>1. CompleteRecord(manifest) /\ Has(manifest, "started_utc")
    BY DEF Accepted, TwoItsInv, Begun
  <2>2. Value(manifest, "finished_utc") \in Int
    BY <2>1, CompleteIsEnded, EndedRecordTells DEF Told
  <2>3. PICK n \in DOMAIN manifest : manifest[n].key = "started_utc" /\ Value(manifest, "started_utc") = manifest[n].value
    BY <2>1, ValueIs
  <2>4. Value(manifest, "started_utc") \in Int
    BY <2>3 DEF TwoItsInv, Begun
  <2> QED
    BY <2>2, <2>4
<1> DEFINE end == Value(manifest, "finished_utc")
           start == Value(manifest, "started_utc")
           passed == outcome = "passed"
           route == "route:host176-to-host106"
           Of(k, category, state) == [sequence |-> k, at |-> end, subject |-> route,
                                      category |-> category, state |-> state]
           obs == <<Of(1, "harness", outcome),
                    IF passed THEN Of(2, "application", "passed") ELSE Of(2, "missing-evidence", "absent")>>
           derived == [d \in {"derived:two-its-route"} |->
                         [subject |-> route, state |-> IF passed THEN "up" ELSE "incomplete",
                          basis |-> "inference", support |-> {1, 2}]]
           gates == {[id |-> g, kind |-> "application", evidence |-> {2}, states |-> {},
                      verdict |-> IF passed THEN "passed" ELSE "inconclusive"] :
                        g \in {"gate:two-its-application", "gate:payload-anti-bypass"}}
<1>3. Summary = [version |-> 1, started |-> start, finished |-> end,
                 outcome |-> IF passed THEN "passed" ELSE "incomplete", topology |-> TwoItsTopology,
                 observations |-> obs, derived |-> derived, gates |-> gates]
  BY DEF Summary
<1>4. /\ DOMAIN obs = {1, 2} /\ obs # <<>>
      /\ obs[1] = Of(1, "harness", outcome)
      /\ obs[2] = IF passed THEN Of(2, "application", "passed") ELSE Of(2, "missing-evidence", "absent")
  <2>1. DOMAIN obs = 1..2
    OBVIOUS
  <2>2. 1..2 = {1, 2}
    OBVIOUS
  <2> QED
    BY <2>1, <2>2
<1>5. /\ obs[1].sequence = 1 /\ obs[1].at = end /\ obs[1].subject = route /\ obs[1].category = "harness"
      /\ obs[2].sequence = 2 /\ obs[2].at = end /\ obs[2].subject = route
      /\ obs[2].category \in {"application", "missing-evidence"}
      /\ passed => obs[2].category = "application" /\ obs[2].state = "passed"
  BY <1>4
<1>6. ValidDerived(derived, 1, Subjects(TwoItsTopology), obs)
  <2>1. derived["derived:two-its-route"].state \in DerivedStates(1)
    BY DEF DerivedStates
  <2> QED
    BY <1>4, <2>1, RouteIsASubject DEF ValidDerived
<1>7. ValidGates(gates, derived, obs)
  <2>1. gates # {}
    OBVIOUS
  <2>2. ASSUME NEW gate \in gates
        PROVE  /\ gate.evidence = {2} /\ gate.states = {} /\ gate.kind = "application"
               /\ gate.verdict = IF passed THEN "passed" ELSE "inconclusive"
    BY <2>2
  <2> HIDE DEF obs, derived, gates
  <2> QED
    BY <1>4, <1>5, <2>1, <2>2 DEF ValidGates
<1>8. \A gate \in gates : gate.verdict = IF passed THEN "passed" ELSE "inconclusive"
  OBVIOUS
<1> HIDE DEF obs, derived, gates
<1>9. ValidObservations(obs, Subjects(TwoItsTopology), start, end)
  <2>1. start <= end /\ end <= end
    BY <1>2
  <2>2. \A k \in DOMAIN obs : k > 1 => k = 2
    BY <1>4
  <2>3. obs[2 - 1].at <= obs[2].at
    BY <1>5, <2>1
  <2>4. \A k \in DOMAIN obs : k > 1 => obs[k - 1].at <= obs[k].at
    BY <2>2, <2>3
  <2>5. \A k \in DOMAIN obs : /\ obs[k].sequence = k /\ obs[k].at = end /\ obs[k].subject = route
                              /\ obs[k].category \in Categories
    BY <1>4, <1>5 DEF Categories
  <2> QED
    BY <1>4, <2>1, <2>4, <2>5, RouteIsASubject DEF ValidObservations
<1>10. /\ Summary.version = 1 /\ Summary.started = start /\ Summary.finished = end
       /\ Summary.outcome = IF passed THEN "passed" ELSE "incomplete"
       /\ Summary.topology = TwoItsTopology /\ Summary.observations = obs
       /\ Summary.derived = derived /\ Summary.gates = gates
  BY <1>3
<1>11. start <= end
  BY <1>2
<1>12. ValidSummary(Summary)
  <2>1. Summary.outcome = "passed" => \A gate \in gates : gate.verdict = "passed"
    BY <1>8, <1>10
  <2>2. Summary.outcome # "failed"
    BY <1>10
  <2> HIDE DEF start, end, passed
  <2> QED
    BY <1>6, <1>7, <1>9, <1>10, <1>11, <2>1, <2>2, TopologyIsValid DEF ValidSummary
<1>13. passed => launcher.status = 0 /\ ~running
  BY <1>1 DEF TwoItsInv, OutcomeIsTheControllers
<1> QED
  BY <1>1, <1>10, <1>12, <1>13

(* Nobody who reads what a run leaves, while it goes on or when it is over,   *)
(* is told a verdict other than that of the launcher and its controller.      *)
(* (diagnose_run, summarize_two_its_result)                                   *)
THEOREM VerdictsTellTheTruth == RunSpec => []VerdictsAreTrue
<1>1. TwoItsInv => ReportIsTrue
  BY DEF TwoItsInv, CompleteIsFinal
<1>2. TwoItsInv => EndedRunIsRecorded
  BY EndedRunIsConsistent DEF EndedRunIsRecorded
<1>3. TwoItsInv => VerdictsAreTrue
  BY <1>1, <1>2, SummaryTells DEF VerdictsAreTrue
<1> QED
  BY <1>3, TwoItsInvHolds, PTL

------------------------------------------------------------------------------
(* The four together. *)

EvidenceInv == MediaInv /\ OperatorInv /\ IngressInv /\ TwoItsInv

LEMMA EvidenceBegins == MCInit => EvidenceInv
BY MediaInit, OperatorBegins, IngressInitEstablishes, RunStarts DEF MCInit, EvidenceInv

LEMMA EvidenceStepKeeps ==
  EvidenceInv /\ [MCNext]_<<part, vars, operatorVars, ingressVars, runVars>> => EvidenceInv'
<1> SUFFICES ASSUME EvidenceInv, [MCNext]_<<part, vars, operatorVars, ingressVars, runVars>>
             PROVE  EvidenceInv'
  OBVIOUS
<1>1. [Next]_vars /\ [OperatorNext]_operatorVars /\ [IngressNext]_ingressVars /\ [RunNext]_runVars
  BY DEF MCNext
<1>2. MediaInv'
  BY <1>1, MediaNext DEF EvidenceInv
<1>3. OperatorInv'
  BY <1>1, OperatorStepKeeps DEF EvidenceInv
<1>4. IngressInv'
  BY <1>1, IngressStepKeeps DEF EvidenceInv
<1>5. TwoItsInv'
  BY <1>1, RunStepKeeps DEF EvidenceInv
<1> QED BY <1>2, <1>3, <1>4, <1>5 DEF EvidenceInv

LEMMA EvidenceTyped == EvidenceInv => TypesHold
<1> SUFFICES ASSUME EvidenceInv PROVE TypesHold
  OBVIOUS
<1>1. TypeOK
  BY DEF EvidenceInv, MediaInv
<1>2. OperatorTypeOK
  BY OperatorTyped DEF EvidenceInv
<1>3. IngressTypeOK
  BY IngressInvTypes DEF EvidenceInv
<1>4. RunTypeOK
  BY RunTyped DEF EvidenceInv
<1> QED BY <1>1, <1>2, <1>3, <1>4 DEF TypesHold

(* Whichever of the four programs runs, and however, its variables have their *)
(* types and those of the others do not move. (prune-media.py,                *)
(* run_terminal_bridge, PassiveHostIngress, two-its-controller.py)            *)
THEOREM EvidenceTypesHold == MCSpec => []TypesHold
BY EvidenceBegins, EvidenceStepKeeps, EvidenceTyped, PTL DEF MCSpec
==============================================================================
