------------------------------ MODULE MediaPrune ------------------------------
(***************************************************************************)
(* scripts/prune-media.py --apply: helpers that free space in the results  *)
(* directory by removing the staged rp03 images of completed runs, and     *)
(* leave a note of it in each.  Several may be started at once, each may   *)
(* be killed at any point, and the host may lose power.                    *)
(*                                                                         *)
(* An fsync of a note makes its directory entry durable; a rename or an    *)
(* unlink is durable at some later time only.  The name of the temporary   *)
(* note holds the process identifier, which is not used twice; a note that *)
(* could not be completed can still be removed.  A preview changes nothing *)
(* and is left out.                                                        *)
(***************************************************************************)
EXTENDS Integers, FiniteSets

CONSTANTS Helpers,     \* invocations with --apply
          Images,      \* staged images: a result directory, by the place of its
                       \* name in their order, and a path there, by its place
          Builds,      \* the results that hold a build receipt
          MaxVersion   \* bound on the changes of an image

ASSUME ImagesAssumption == Images \subseteq Nat \X Nat
ASSUME VersionAssumption == MaxVersion \in Nat \ {0}

VARIABLES
  completed,  \* the results that have an outcome or terminal records
  version,    \* what lstat tells of each image: inode, size, time of change
  gone,       \* the images that are no longer there
  note,       \* media-pruned.txt of each result
  flushed,    \* ... as of its last fsync
  pc,         \* where each helper is
  plan,       \* the images it selected, as it saw them
  runs,       \* results it has still to visit in the present loop
  items,      \* images it has still to visit
  notes,      \* its list "created", less those it has removed or replaced
  removed     \* its removed_by_run

world == <<completed, version, gone>>
paper == <<note, flushed>>
vars == <<world, paper, pc, plan, runs, items, notes, removed>>

Results == {i[1] : i \in Images}
Files == {i[2] : i \in Images}

NoNote == [status |-> "none"]
Final == {"completed", "incomplete", "aborted"}
Over == {"done", "refused", "failed", "dead"}

(* A note names its writer only for the sake of the properties.              *)
Note(h, status, r) ==
  [status |-> status, by |-> h,
   selected |-> {f \in Files : <<r, f>> \in DOMAIN plan[h]},
   removed |-> {f \in Files : <<r, f>> \in removed[h]}]

Goto(h, next) == pc' = [pc EXCEPT ![h] = next]

(* The loops go through results, and the images of each, in order.           *)
Foremost(r, S) == r \in S /\ \A q \in S : r <= q

ForemostItem(i, S) == /\ i \in S
                      /\ \A j \in S : i[1] < j[1] \/ (i[1] = j[1] /\ i[2] <= j[2])

Planned(h) == {i[1] : i \in DOMAIN plan[h]}

Init ==
  /\ completed \in SUBSET Results
  /\ version = [i \in Images |-> 1]
  /\ gone = {}
  /\ note = [r \in Results |-> NoNote]
  /\ flushed = note
  /\ pc = [h \in Helpers |-> "inspect"]
  /\ plan = [h \in Helpers |-> <<>>]
  /\ runs = [h \in Helpers |-> Results]
  /\ items = [h \in Helpers |-> {}]
  /\ notes = [h \in Helpers |-> {}]
  /\ removed = [h \in Helpers |-> {}]

------------------------------------------------------------------------------
(* build_plan: the images of a result are looked at before its outcome.      *)

(* Mutant: build receipts are not looked for. *)
InspectBuilds(h) ==
  /\ pc[h] = "inspect"
  /\ \E r \in Results :
       /\ Foremost(r, runs[h])
       /\ LET found == {i \in Images : i[1] = r /\ i \notin gone}
          IN plan' = [plan EXCEPT ![h] =
                        [i \in DOMAIN @ \cup found |->
                           IF i \in found THEN version[i] ELSE @[i]]]
  /\ Goto(h, "admit")
  /\ UNCHANGED <<world, paper, runs, items, notes, removed>>

Inspect(h) ==
  /\ pc[h] = "inspect"
  /\ \E r \in Results :
       /\ Foremost(r, runs[h])
       /\ LET found == IF r \in Builds THEN {}
                       ELSE {i \in Images : i[1] = r /\ i \notin gone}
          IN plan' = [plan EXCEPT ![h] =
                        [i \in DOMAIN @ \cup found |->
                           IF i \in found THEN version[i] ELSE @[i]]]
  /\ Goto(h, "admit")
  /\ UNCHANGED <<world, paper, runs, items, notes, removed>>

(* The end of build_plan, and of the helper if there is nothing to do.       *)
Admit(h) ==
  /\ pc[h] = "admit"
  /\ \E r \in Results :
       /\ Foremost(r, runs[h])
       /\ plan' = IF r \in completed THEN plan
                  ELSE [plan EXCEPT ![h] = [i \in {j \in DOMAIN @ : j[1] # r} |-> @[i]]]
       /\ LET rest == runs[h] \ {r}
              chosen == {i[1] : i \in DOMAIN plan'[h]}
          IN IF rest # {}
             THEN runs' = [runs EXCEPT ![h] = rest] /\ Goto(h, "inspect")
             ELSE /\ runs' = [runs EXCEPT ![h] = chosen]
                  /\ Goto(h, IF chosen = {} THEN "done" ELSE "notes")
  /\ UNCHANGED <<world, paper, items, notes, removed>>

(* A symlink, an unreadable or contradictory outcome: nothing was touched.   *)
Refuse(h) ==
  /\ pc[h] \in {"inspect", "admit"}
  /\ Goto(h, "refused")
  /\ UNCHANGED <<world, paper, plan, runs, items, notes, removed>>

------------------------------------------------------------------------------
(* create_provisional_notes *)

(* Mutant: the note is opened without O_EXCL. *)
OpenAnyNote(h) ==
  /\ pc[h] = "notes"
  /\ \E r \in Results : /\ Foremost(r, runs[h])
                        /\ note' = [note EXCEPT ![r] = Note(h, "empty", r)]
  /\ Goto(h, "write")
  /\ UNCHANGED <<world, flushed, plan, runs, items, notes, removed>>

OpenNote(h) ==
  /\ pc[h] = "notes"
  /\ \E r \in Results :
       /\ Foremost(r, runs[h])
       /\ \/ /\ note[r] = NoNote
             /\ note' = [note EXCEPT ![r] = Note(h, "empty", r)]
             /\ Goto(h, "write")
             /\ UNCHANGED runs
          \/ /\ Goto(h, "unnote")
             /\ runs' = [runs EXCEPT ![h] = notes[h]]
             /\ UNCHANGED note
  /\ UNCHANGED <<world, flushed, plan, items, notes, removed>>

(* One more note is complete; after the last, the images.                    *)
NoteWritten(h, r) ==
  /\ note' = [note EXCEPT ![r] = Note(h, "pending", r)]
  /\ notes' = [notes EXCEPT ![h] = @ \cup {r}]
  /\ runs' = [runs EXCEPT ![h] = @ \ {r}]
  /\ IF runs'[h] = {}
     THEN Goto(h, "verify") /\ items' = [items EXCEPT ![h] = DOMAIN plan[h]]
     ELSE Goto(h, "notes") /\ UNCHANGED items

(* Mutant: no fsync. *)
WriteNoteOnly(h) ==
  /\ pc[h] = "write"
  /\ \E r \in Results : Foremost(r, runs[h]) /\ NoteWritten(h, r)
  /\ UNCHANGED <<world, flushed, plan, removed>>

(* write and fsync; a failure removes this note, and then the earlier ones.  *)
WriteNote(h) ==
  /\ pc[h] = "write"
  /\ \E r \in Results :
       /\ Foremost(r, runs[h])
       /\ \/ NoteWritten(h, r) /\ flushed' = [flushed EXCEPT ![r] = note'[r]]
          \/ /\ note' = [note EXCEPT ![r] = NoNote]
             /\ runs' = [runs EXCEPT ![h] = notes[h]]
             /\ Goto(h, "unnote")
             /\ UNCHANGED <<flushed, notes, items>>
  /\ UNCHANGED <<world, plan, removed>>

(* remove_provisional_notes goes on when one of them cannot be removed.      *)
Unnote(h) ==
  /\ pc[h] = "unnote"
  /\ IF runs[h] = {}
     THEN /\ Goto(h, IF notes[h] = {} THEN "refused" ELSE "failed")
          /\ UNCHANGED <<note, runs, notes>>
     ELSE \E r \in Results :
            /\ Foremost(r, runs[h])
            /\ runs' = [runs EXCEPT ![h] = @ \ {r}]
            /\ \/ /\ note' = [note EXCEPT ![r] = NoNote]
                  /\ notes' = [notes EXCEPT ![h] = @ \ {r}]
               \/ UNCHANGED <<note, notes>>
            /\ UNCHANGED pc
  /\ UNCHANGED <<world, flushed, plan, items, removed>>

------------------------------------------------------------------------------
(* apply_plan, once the notes are there. *)

(* Mutant: an image is checked just before its unlink. *)
VerifyEach(h) ==
  /\ pc[h] = "verify"
  /\ \E i \in Images :
       /\ ForemostItem(i, items[h])
       /\ IF i \notin gone /\ version[i] = plan[h][i]
          THEN /\ gone' = gone \cup {i}
               /\ removed' = [removed EXCEPT ![h] = @ \cup {i}]
               /\ items' = [items EXCEPT ![h] = @ \ {i}]
               /\ Goto(h, IF items'[h] = {} THEN "final" ELSE "verify")
               /\ runs' = IF items'[h] = {} THEN [runs EXCEPT ![h] = Planned(h)] ELSE runs
          ELSE /\ Goto(h, "unnote")
               /\ runs' = [runs EXCEPT ![h] = notes[h]]
               /\ UNCHANGED <<items, gone, removed>>
  /\ UNCHANGED <<completed, version, paper, plan, notes>>

(* Changed, gone, or lstat fails. *)
VerifyUnchanged(h) ==
  /\ pc[h] = "verify"
  /\ \E i \in Images :
       /\ ForemostItem(i, items[h])
       /\ \/ /\ i \notin gone /\ version[i] = plan[h][i]
             /\ LET rest == items[h] \ {i}
                IN /\ items' = [items EXCEPT ![h] = IF rest = {} THEN DOMAIN plan[h]
                                                    ELSE rest]
                   /\ Goto(h, IF rest = {} THEN "remove" ELSE "verify")
             /\ UNCHANGED runs
          \/ /\ Goto(h, "unnote")
             /\ runs' = [runs EXCEPT ![h] = notes[h]]
             /\ UNCHANGED items
  /\ UNCHANGED <<world, paper, plan, notes, removed>>

(* The first unlink that fails is the last one tried.                        *)
RemoveImage(h) ==
  /\ pc[h] = "remove"
  /\ \E i \in Images :
       /\ ForemostItem(i, items[h])
       /\ \/ /\ i \notin gone
             /\ gone' = gone \cup {i}
             /\ removed' = [removed EXCEPT ![h] = @ \cup {i}]
             /\ items' = [items EXCEPT ![h] = @ \ {i}]
             /\ IF items'[h] = {}
                THEN Goto(h, "final") /\ runs' = [runs EXCEPT ![h] = Planned(h)]
                ELSE UNCHANGED <<pc, runs>>
          \/ /\ Goto(h, "final")
             /\ runs' = [runs EXCEPT ![h] = Planned(h)]
             /\ UNCHANGED <<gone, items, removed>>
  /\ UNCHANGED <<completed, version, paper, plan, notes>>

(* Mutant: a result the helper has got to counts as completed. *)
StatusByVisit(h, r) ==
  IF \E i \in items[h] : i[1] < r THEN "aborted" ELSE "completed"

Status(h, r) ==
  LET all == {i \in DOMAIN plan[h] : i[1] = r}
  IN IF all \subseteq removed[h] THEN "completed"
     ELSE IF all \cap removed[h] # {} THEN "incomplete"
     ELSE "aborted"

(* replace_note; one that cannot be written leaves the provisional note.     *)
FinalizeNote(h) ==
  /\ pc[h] = "final"
  /\ IF runs[h] = {}
     THEN /\ Goto(h, IF items[h] = {} /\ notes[h] = {} THEN "done" ELSE "failed")
          /\ UNCHANGED <<note, runs, notes>>
     ELSE \E r \in Results :
            /\ Foremost(r, runs[h])
            /\ runs' = [runs EXCEPT ![h] = @ \ {r}]
            /\ \/ /\ note' = [note EXCEPT ![r] = Note(h, Status(h, r), r)]
                  /\ notes' = [notes EXCEPT ![h] = @ \ {r}]
               \/ UNCHANGED <<note, notes>>
            /\ UNCHANGED pc
  /\ UNCHANGED <<world, flushed, plan, items, removed>>

------------------------------------------------------------------------------
(* Around the helpers. *)

(* SIGKILL or an interrupt, which none of the except clauses catches.        *)
Kill(h) ==
  /\ pc[h] \notin Over
  /\ Goto(h, "dead")
  /\ UNCHANGED <<world, paper, plan, runs, items, notes, removed>>

(* A run comes to its outcome.                                               *)
Complete(r) ==
  /\ r \notin completed
  /\ completed' = completed \cup {r}
  /\ UNCHANGED <<version, gone, paper, pc, plan, runs, items, notes, removed>>

(* A simulator writes to its image, also between the outcome and its end.    *)
Write(i) ==
  /\ i \notin gone /\ version[i] < MaxVersion
  /\ version' = [version EXCEPT ![i] = @ + 1]
  /\ UNCHANGED <<completed, gone, paper, pc, plan, runs, items, notes, removed>>

(* Notes are found as they are or as they were flushed, and any unlink may   *)
(* be undone.                                                                *)
PowerLoss ==
  /\ \E h \in Helpers : pc[h] \notin Over
  /\ pc' = [h \in Helpers |-> IF pc[h] \in Over THEN pc[h] ELSE "dead"]
  /\ gone' \in SUBSET gone
  /\ \E back \in SUBSET Results :
       note' = [r \in Results |-> IF r \in back THEN flushed[r] ELSE note[r]]
  /\ flushed' = note'
  /\ UNCHANGED <<completed, version, plan, runs, items, notes, removed>>

HelperStep(h) ==
  \/ Inspect(h) \/ Admit(h) \/ Refuse(h)
  \/ OpenNote(h) \/ WriteNote(h) \/ Unnote(h)
  \/ VerifyUnchanged(h) \/ RemoveImage(h) \/ FinalizeNote(h)

Next == \/ \E h \in Helpers : HelperStep(h) \/ Kill(h)
        \/ \E r \in Results : Complete(r)
        \/ \E i \in Images : Write(i)
        \/ PowerLoss

Spec == Init /\ [][Next]_vars

------------------------------------------------------------------------------
(* Properties. *)

Notes == [status : {"none"}]
         \cup [status : {"empty", "pending"} \cup Final, by : Helpers,
               selected : SUBSET Files, removed : SUBSET Files]

Selectable == {i \in Images : i[1] \notin Builds}

(* Every variable keeps its type; a helper selects nothing in a build, and   *)
(* works on what it has selected.                                            *)
TypeOK ==
  /\ completed \subseteq Results
  /\ version \in [Images -> 1..MaxVersion]
  /\ gone \subseteq Images
  /\ note \in [Results -> Notes]
  /\ flushed \in [Results -> Notes]
  /\ pc \in [Helpers -> {"inspect", "admit", "notes", "write", "unnote", "verify",
                         "remove", "final"} \cup Over]
  /\ \A h \in Helpers :
       /\ DOMAIN plan[h] \subseteq Selectable
       /\ \A i \in DOMAIN plan[h] : plan[h][i] \in 1..MaxVersion
       /\ runs[h] \subseteq Results
       /\ items[h] \subseteq DOMAIN plan[h]
       /\ notes[h] \subseteq Planned(h)
       /\ removed[h] \subseteq DOMAIN plan[h]

(* Once a helper has unlinked anything, every result it selected has a note  *)
(* of this helper that lists what it selected there, after kills and power   *)
(* losses too: "Before unlinking any selected file, it writes and flushes    *)
(* media-pruned.txt in every affected result" (docs/runbook.md:280).         *)
RemovalsAreAudited ==
  \A h \in Helpers : removed[h] # {} =>
    \A r \in Planned(h) :
      /\ note[r].status \notin {"none", "empty"}
      /\ note[r].by = h
      /\ note[r].selected = {f \in Files : <<r, f>> \in DOMAIN plan[h]}

(* What a final note says was removed is what has been unlinked in its       *)
(* result, by any helper (prune-media.py:350-383).                           *)
NotesAreExact ==
  \A r \in Results : note[r].status \in Final =>
    LET unlinked == {f \in Files : \E h \in Helpers : <<r, f>> \in removed[h]}
    IN /\ note[r].removed = unlinked
       /\ note[r].status = "completed" <=> note[r].selected \subseteq unlinked
       /\ note[r].status = "aborted" <=> unlinked = {}

(* A helper that gives up before the removal has changed nothing: no image,  *)
(* and, unless a note of its own could not be removed, no note; "aborts the  *)
(* whole removal without changing media" (docs/runbook.md:280).              *)
RefusalsLeaveNothing ==
  [][\A h \in Helpers : pc[h] \in {"inspect", "admit", "unnote"} /\ pc'[h] \in Over =>
       /\ removed[h] = {}
       /\ pc'[h] = "refused" =>
            \A r \in Results : note'[r].status # "none" => note'[r].by # h]_vars

==============================================================================
