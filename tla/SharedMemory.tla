---------------------------- MODULE SharedMemory ----------------------------
(***************************************************************************)
(* The note store (core/memory, agent-teams-mcp/src/memory.rs and the      *)
(* memory commands of app/src-tauri/src/lib.rs): one file per note,        *)
(* replaced as a whole by a rename, under no lock.  The sidecar of every   *)
(* workspace, the editor of the app, harvests of finished runs and         *)
(* captures of their outcome read, merge and write notes side by side, and *)
(* any of their processes may die between two steps.                       *)
(*                                                                         *)
(* A listing of the directory is one step, and so are the count of its     *)
(* files and the rename; a note is reduced to its title, links, workspace, *)
(* creator and run.  Users leave titles alone, and link to what they like. *)
(***************************************************************************)
EXTENDS Integers, Sequences, FiniteSets

CONSTANTS
  Desks,       \* workspaces, each with a sidecar of that tenant
  Editor,      \* the graph editor of the app, of no workspace
  Harvesters,  \* threads that harvest a finished run
  Capturers,   \* threads that capture one
  MemoryRuns,  \* runs
  Lessons,     \* titles of lessons
  NoteCap,     \* MAX_NOTES_PER_DIR
  MaxOps       \* bound: operations begun

Global == "global"    \* no workspace_id
Unstamped == "nobody" \* no origin
LessonWriter == "pane"        \* the pane whose report a lesson is from
NoRun == "no run"
OwnTitle == "own"     \* a title users give
NoSuchNote == 0       \* an id that no note ever had

ASSUME MemoryAssumption ==
  /\ {Global, Unstamped, LessonWriter} \cap Desks = {}
  /\ Harvesters \cap Capturers = {} /\ Editor \notin Desks
  /\ (Desks \cup {Editor}) \cap (Harvesters \cup Capturers) = {}
  /\ NoRun \notin MemoryRuns /\ OwnTitle \notin Lessons
  /\ NoteCap \in Nat /\ MaxOps \in Nat

Users == Desks \cup {Editor}
Scribes == Users \cup Harvesters \cup Capturers
NoteIds == Nat \ {0}

VARIABLES
  notes,       \* disk: id -> note
  minted,      \* history: every note as first written; its place is its id
  scribe,      \* per thread: its operation
  openDesks,   \* live registry: the workspaces that allow sharing
  ops,         \* history: operations begun
  revived,     \* history: notes an update wrote after their file was deleted
  touched,     \* history: notes a user rewrote or deleted
  relinked,    \* history: those to which a user gave links
  meshed,      \* history: batches of lessons whose harvest came to its end
  overlapped   \* history: two harvests, or two captures of a run, overlapped

memvars == <<notes, minted, scribe, openDesks, ops, revived, touched, relinked, meshed, overlapped>>

Note(title, links, ws, origin, runId) ==
  [title |-> title, links |-> links, ws |-> ws, origin |-> origin, run |-> runId]
NoNote == Note(OwnTitle, {}, Global, Unstamped, NoRun)
NoWork == [step |-> "idle", op |-> "none", id |-> 0, note |-> NoNote, patch |-> <<>>, may |-> {},
           todo |-> <<>>, seen |-> {}, rel |-> {}, wrote |-> <<>>, left |-> <<>>]

MemoryInit ==
  /\ notes = <<>> /\ minted = <<>>
  /\ scribe = [s \in Scribes |-> NoWork] /\ openDesks = {}
  /\ ops = 0 /\ revived = {} /\ touched = {} /\ relinked = {} /\ meshed = {} /\ overlapped = FALSE

-----------------------------------------------------------------------------
Minted == 1 .. Len(minted)
Does(s, step) == scribe[s].step = step
Work(s, w) == scribe' = [scribe EXCEPT ![s] = w]
Turn(s, step) == Work(s, [scribe[s] EXCEPT !.step = step])
Start(s, w) == Does(s, "idle") /\ ops < MaxOps /\ ops' = ops + 1 /\ Work(s, w)
TitlesOnDisk == {notes[i].title : i \in DOMAIN notes}

\* What users link to: notes, gone ones, the note itself, or nothing at all.
Linkable == {NoSuchNote} \cup Minted

\* note_visible: a note of no workspace is everybody's.
Sees(desk) == {Global, desk} \cup openDesks

\* What a thread does when the store has answered it: a harvest goes on.
Answered(s) ==
  IF s \in Harvesters
  THEN [scribe[s] EXCEPT !.step = IF scribe[s].op = "mesh" THEN "mesh" ELSE "next"]
  ELSE NoWork

-----------------------------------------------------------------------------
(* create_note: count, then write.                                         *)

BeginCreate(u) ==
  /\ u \in Users
  /\ \E links \in SUBSET Linkable :
       Start(u, [NoWork EXCEPT !.step = "count", !.op = "create",
                   !.note = IF u = Editor THEN Note(OwnTitle, links, Global, Unstamped, NoRun)
                                          ELSE Note(OwnTitle, links, u, u, NoRun)])
  /\ UNCHANGED <<notes, minted, revived, touched, relinked, meshed, overlapped, openDesks>>

CountNotes(s) ==
  /\ Does(s, "count")
  /\ \/ Cardinality(DOMAIN notes) < NoteCap /\ Turn(s, "write")
     \/ Cardinality(DOMAIN notes) >= NoteCap /\ Work(s, Answered(s))
  /\ UNCHANGED <<notes, minted, ops, revived, touched, relinked, meshed, overlapped, openDesks>>

\* The id is minted with the note; a write may fail.
WriteNew(s) ==
  /\ Does(s, "write")
  /\ LET id == Len(minted) + 1  draft == scribe[s].note IN
       \/ /\ notes' = [i \in DOMAIN notes \cup {id} |-> IF i = id THEN draft ELSE notes[i]]
          /\ minted' = Append(minted, [note |-> draft, by |-> scribe[s].op])
          /\ Work(s, IF s \in Harvesters
                     THEN [Answered(s) EXCEPT !.seen = @ \cup {draft.title}, !.wrote = Append(@, id)]
                     ELSE NoWork)
       \/ Work(s, Answered(s)) /\ UNCHANGED <<notes, minted>>
  /\ UNCHANGED <<ops, revived, touched, relinked, meshed, overlapped, openDesks>>

-----------------------------------------------------------------------------
(* update_note and delete_note.  A sidecar looks at the note's tenant      *)
(* first, and update_note then reads the note again.  A patch that names   *)
(* links replaces them all.                                                *)

BeginUpdate(u) ==
  /\ u \in Users
  /\ \E id \in Minted, patch \in {<<>>} \cup {<<links>> : links \in SUBSET Linkable} :
       Start(u, [NoWork EXCEPT !.step = IF u = Editor THEN "read" ELSE "check",
                   !.op = "update", !.id = id, !.patch = patch])
  /\ UNCHANGED <<notes, minted, revived, touched, relinked, meshed, overlapped, openDesks>>

BeginDelete(u) ==
  /\ u \in Users
  /\ \E id \in Minted :
       Start(u, [NoWork EXCEPT !.step = IF u = Editor THEN "unlink" ELSE "check",
                   !.op = "delete", !.id = id])
  /\ UNCHANGED <<notes, minted, revived, touched, relinked, meshed, overlapped, openDesks>>

\* Mutant: only the tenant of a delete is looked at.
CheckDeletes(d) ==
  /\ Does(d, "check")
  /\ LET w == scribe[d]
         foreign == w.op = "delete" /\ w.id \in DOMAIN notes /\ notes[w.id].ws \notin Sees(d) IN
       \/ foreign /\ Work(d, NoWork)
       \/ ~foreign /\ Work(d, [w EXCEPT !.may = Sees(d),
                                 !.step = IF w.op = "update" THEN "read" ELSE "unlink"])
  /\ UNCHANGED <<notes, minted, ops, revived, touched, relinked, meshed, overlapped, openDesks>>

CheckTenant(d) ==
  /\ Does(d, "check")
  /\ LET w == scribe[d]
         foreign == w.id \in DOMAIN notes /\ notes[w.id].ws \notin Sees(d) IN
       \/ foreign /\ Work(d, NoWork)
       \/ ~foreign /\ Work(d, [w EXCEPT !.may = Sees(d),
                                 !.step = IF w.op = "update" THEN "read" ELSE "unlink"])
  /\ UNCHANGED <<notes, minted, ops, revived, touched, relinked, meshed, overlapped, openDesks>>

ReadNote(s) ==
  /\ Does(s, "read")
  /\ LET id == scribe[s].id IN
       \/ id \in DOMAIN notes /\ Work(s, [scribe[s] EXCEPT !.step = "replace", !.note = notes[id]])
       \/ id \notin DOMAIN notes /\ Work(s, Answered(s))
  /\ UNCHANGED <<notes, minted, ops, revived, touched, relinked, meshed, overlapped, openDesks>>

\* Mutant: a lesson is linked to those written before it.
LinkEarlier(wrote, rel, id) ==
  rel \cup {wrote[k] : k \in {j \in DOMAIN wrote : \A m \in DOMAIN wrote : wrote[m] = id => j < m}}

\* harvest_link_plan: the lineage and every sibling but itself.
LinkPlan(wrote, rel, id) == (rel \cup {wrote[k] : k \in DOMAIN wrote}) \ {id}

\* Only what the patch names changes.
Patched(s) ==
  LET w == scribe[s] IN
  IF s \in Harvesters THEN [w.note EXCEPT !.links = LinkPlan(w.wrote, w.rel, w.id)]
  ELSE [w.note EXCEPT !.links = IF w.patch = <<>> THEN @ ELSE w.patch[1]]

\* The rename does not ask whether the file is still there.
ReplaceNote(s) ==
  /\ Does(s, "replace")
  /\ LET id == scribe[s].id IN
       \/ /\ notes' = [i \in DOMAIN notes \cup {id} |-> IF i = id THEN Patched(s) ELSE notes[i]]
          /\ revived' = revived \cup ({id} \ DOMAIN notes)
          /\ touched' = IF s \in Users THEN touched \cup {id} ELSE touched
          /\ relinked' = IF scribe[s].patch # <<>> THEN relinked \cup {id} ELSE relinked
       \/ UNCHANGED <<notes, revived, relinked>> /\ touched' = touched \cup {id}
  /\ Work(s, Answered(s))
  /\ UNCHANGED <<minted, ops, meshed, overlapped, openDesks>>

UnlinkNote(u) ==
  /\ Does(u, "unlink")
  /\ notes' = [i \in DOMAIN notes \ {scribe[u].id} |-> notes[i]]
  /\ touched' = touched \cup {scribe[u].id}
  /\ Work(u, NoWork)
  /\ UNCHANGED <<minted, ops, revived, relinked, meshed, overlapped, openDesks>>

-----------------------------------------------------------------------------
(* write_harvested_notes: one listing serves the dedup by title and the    *)
(* lineage; the lessons are created one by one with the lineage, and the   *)
(* siblings are linked once all are there.                                 *)

LessonLists == {<<l>> : l \in Lessons} \cup {p \in Lessons \X Lessons : p[1] # p[2]}

\* Mutant: the titles on disk are not asked.
HarvestAnyway(h) ==
  /\ h \in Harvesters
  /\ \E todo \in LessonLists, ws \in Desks \cup {Global}, rel \in {{}, DOMAIN notes} :
       Start(h, [NoWork EXCEPT !.step = "next", !.op = "lesson", !.todo = todo, !.rel = rel,
                   !.note = Note(OwnTitle, rel, ws, LessonWriter, NoRun)])
  /\ overlapped' = (overlapped \/ \E k \in Harvesters : ~Does(k, "idle"))
  /\ UNCHANGED <<notes, minted, revived, touched, relinked, meshed, openDesks>>

\* relevant_notes is a ranking: any note may be relevant.
Harvest(h) ==
  /\ h \in Harvesters
  /\ \E todo \in LessonLists, ws \in Desks \cup {Global}, rel \in {{}, DOMAIN notes} :
       Start(h, [NoWork EXCEPT !.step = "next", !.op = "lesson", !.todo = todo, !.rel = rel,
                   !.note = Note(OwnTitle, rel, ws, LessonWriter, NoRun), !.seen = TitlesOnDisk])
  /\ overlapped' = (overlapped \/ \E k \in Harvesters : ~Does(k, "idle"))
  /\ UNCHANGED <<notes, minted, revived, touched, relinked, meshed, openDesks>>

NextLesson(h) ==
  /\ Does(h, "next") /\ scribe[h].todo # <<>>
  /\ LET w == scribe[h]  title == Head(w.todo) IN
       Work(h, [w EXCEPT !.todo = Tail(@), !.note.title = title,
                  !.step = IF title \in w.seen THEN "next" ELSE "count"])
  /\ UNCHANGED <<notes, minted, ops, revived, touched, relinked, meshed, overlapped, openDesks>>

\* A lesson alone has its links already.
MeshBegins(h) ==
  /\ Does(h, "next") /\ scribe[h].todo = <<>>
  /\ Work(h, IF Len(scribe[h].wrote) >= 2
             THEN [scribe[h] EXCEPT !.step = "mesh", !.op = "mesh", !.left = scribe[h].wrote]
             ELSE NoWork)
  /\ UNCHANGED <<notes, minted, ops, revived, touched, relinked, meshed, overlapped, openDesks>>

MeshNext(h) ==
  /\ Does(h, "mesh")
  /\ LET w == scribe[h] IN
       \/ /\ w.left # <<>>
          /\ Work(h, [w EXCEPT !.step = "read", !.id = Head(w.left), !.left = Tail(@)])
          /\ UNCHANGED meshed
       \/ /\ w.left = <<>> /\ Work(h, NoWork)
          /\ meshed' = meshed \cup {{w.wrote[k] : k \in DOMAIN w.wrote}}
  /\ UNCHANGED <<notes, minted, ops, revived, touched, relinked, overlapped, openDesks>>

(* write_run_capture: once per run_id, by the listing of its caller.       *)
Capture(c) ==
  /\ c \in Capturers
  /\ \E r \in MemoryRuns, ws \in Desks \cup {Global}, rel \in {{}, DOMAIN notes} :
       /\ \A i \in DOMAIN notes : notes[i].run # r
       /\ Start(c, [NoWork EXCEPT !.step = "count", !.op = "capture",
                      !.note = Note(OwnTitle, rel, ws, Unstamped, r)])
       /\ overlapped' = (overlapped \/ \E k \in Capturers : ~Does(k, "idle") /\ scribe[k].note.run = r)
  /\ UNCHANGED <<notes, minted, revived, touched, relinked, meshed, openDesks>>

(* A process dies; a temporary file it leaves is no note.                  *)
ScribeDies(s) ==
  /\ ~Does(s, "idle") /\ Work(s, NoWork)
  /\ UNCHANGED <<notes, minted, ops, revived, touched, relinked, meshed, overlapped, openDesks>>

(* The sharing of a workspace is turned on or off, or its rows come and go.*)
FlipSharing(d) ==
  /\ openDesks' = IF d \in openDesks THEN openDesks \ {d} ELSE openDesks \cup {d}
  /\ UNCHANGED <<notes, minted, scribe, ops, revived, touched, relinked, meshed, overlapped>>

-----------------------------------------------------------------------------
ScribeStep(s) ==
  \/ BeginCreate(s) \/ CountNotes(s) \/ WriteNew(s)
  \/ BeginUpdate(s) \/ CheckTenant(s) \/ ReadNote(s) \/ ReplaceNote(s)
  \/ BeginDelete(s) \/ UnlinkNote(s)
  \/ Harvest(s) \/ NextLesson(s) \/ MeshBegins(s) \/ MeshNext(s)
  \/ Capture(s)

MemoryNext ==
  \/ \E s \in Scribes : ScribeStep(s) \/ ScribeDies(s)
  \/ \E d \in Desks : FlipSharing(d)
MemorySpec == MemoryInit /\ [][MemoryNext]_memvars

-----------------------------------------------------------------------------
(* Properties *)

NoteType ==
  [title : Lessons \cup {OwnTitle}, links : SUBSET Nat, ws : Desks \cup {Global},
   origin : Desks \cup {Unstamped, LessonWriter}, run : MemoryRuns \cup {NoRun}]

WorkType ==
  [step : {"idle", "count", "write", "check", "read", "replace", "unlink", "next", "mesh"},
   op : {"none", "create", "update", "delete", "lesson", "mesh", "capture"},
   id : Nat, note : NoteType, patch : Seq(SUBSET Nat),
   may : SUBSET (Desks \cup {Global}), todo : Seq(Lessons),
   seen : SUBSET (Lessons \cup {OwnTitle}), rel : SUBSET NoteIds,
   wrote : Seq(NoteIds), left : Seq(NoteIds)]

MemoryTypeOK ==
  /\ DOMAIN notes \subseteq Minted /\ \A i \in DOMAIN notes : notes[i] \in NoteType
  /\ minted \in Seq([note : NoteType, by : {"create", "lesson", "capture"}])
  /\ scribe \in [Scribes -> WorkType]
  /\ openDesks \subseteq Desks
  /\ ops \in Nat /\ revived \subseteq Minted /\ touched \subseteq Minted /\ relinked \subseteq Minted
  /\ meshed \subseteq SUBSET NoteIds /\ overlapped \in BOOLEAN

Kin(note, i) ==
  /\ note.ws = minted[i].note.ws
  /\ note.origin = minted[i].note.origin /\ note.run = minted[i].note.run

Writes(d, i) == scribe[d].step \in {"replace", "unlink"} /\ scribe[d].id = i

(* Tenants stay apart: whatever stale copies racing updates write back,    *)
(* also over a deleted file, a note keeps the workspace, origin and run it *)
(* was first written with, and the note a sidecar comes to rewrite or      *)
(* delete is of a workspace that its own could see when it checked.        *)
(* (memory.rs: "The tenant stamp is immutable across update [...] so       *)
(* gating on the pre-update note is correct".)  Sharing withdrawn after    *)
(* the check does not stop the write.  A note written back after its       *)
(* delete is excepted: a check that finds no file lets the call go on.     *)
TenantsApart ==
  /\ \A i \in DOMAIN notes : Kin(notes[i], i)
  /\ \A d \in Desks, i \in DOMAIN notes \ revived : Writes(d, i) => notes[i].ws \in scribe[d].may

(* Links: a lesson or a capture points only at other notes that were once  *)
(* written, wherever a crash cuts a harvest, unless a user gave it other   *)
(* links, and the lessons of a harvest that came to its end all point at   *)
(* each other, unless a user rewrote or deleted them or a patch failed.    *)
(* (lib.rs of core/memory: "orphans at worst, never dangling".)            *)
LinksReach ==
  /\ \A i \in DOMAIN notes \ relinked :
       minted[i].by # "create" => notes[i].links \subseteq Minted \ {i}
  /\ \A batch \in meshed : \A i \in (batch \cap DOMAIN notes) \ touched :
       batch \ {i} \subseteq notes[i].links

(* A run harvested or captured again adds nothing: no lesson is there      *)
(* twice, and no outcome, unless two harvests or captures overlapped or an *)
(* update wrote a deleted note back.                                       *)
RepeatsAddNothing ==
  ~overlapped /\ revived = {} =>
    \A i, k \in DOMAIN notes : i # k =>
      /\ minted[i].by = "lesson" /\ minted[k].by = "lesson" => notes[i].title # notes[k].title
      /\ notes[i].run = notes[k].run => notes[i].run = NoRun
=============================================================================
