------------------------- MODULE SharedMemoryProofs -------------------------
(***************************************************************************)
(* Proofs about SharedMemory, for any workspaces, threads, runs, lessons   *)
(* and notes: that tenants stay apart, that no link dangles, and that a    *)
(* run harvested or captured again adds nothing.                           *)
(*                                                                         *)
(* None of the three is inductive: an update holds a copy of a note in its *)
(* memory, a check of the tenant holds only until the file is deleted and  *)
(* written back, and a harvest works from a listing that grows old.  Fits, *)
(* Weaves and Knows say what a thread may rely on between its steps.       *)
(***************************************************************************)
EXTENDS SharedMemory, SequenceTheorems, TLAPS

\* The check allows the write, or the note was written back after its delete.
MayWrite(w, i) == i \in revived \/ minted[i].note.ws \in w.may

\* What the thread may rely on when w is its operation.
Fits(s, w) ==
  /\ w.step \in {"check", "read", "replace", "unlink"} => w.id \in Minted
  /\ w.step = "check" => s \in Desks
  /\ w.step \in {"read", "replace", "unlink"} /\ s \in Desks =>
       w.id \notin DOMAIN notes \/ MayWrite(w, w.id)
  /\ w.step = "replace" => Kin(w.note, w.id)
  /\ w.step \in {"next", "count", "write"} => w.op \in {"create", "lesson", "capture"}
  /\ w.step \in {"next", "mesh"} => s \in Harvesters
  /\ s \in Harvesters => w.step \notin {"check", "unlink"}
  /\ s \in Harvesters /\ w.step \in {"mesh", "read", "replace"} => w.op = "mesh"
  /\ s \in Capturers => w.step \in {"idle", "count", "write"}
  /\ \A k \in DOMAIN w.wrote : w.wrote[k] \in Minted
  /\ \A k \in DOMAIN w.left : w.left[k] \in Minted

ThreadsFit == \A s \in Scribes : Fits(s, scribe[s])

StampsKept == \A i \in DOMAIN notes : Kin(notes[i], i)

TenantInv == MemoryTypeOK /\ StampsKept /\ ThreadsFit

-----------------------------------------------------------------------------
(* Notes, records of work, and the ids of notes. *)

LEMMA NoteTyped ==
  ASSUME NEW title \in Lessons \cup {OwnTitle}, NEW links \in SUBSET Nat,
         NEW ws \in Desks \cup {Global}, NEW origin \in Desks \cup {Unstamped, LessonWriter},
         NEW r \in MemoryRuns \cup {NoRun}
  PROVE  Note(title, links, ws, origin, r) \in NoteType
  BY DEF Note, NoteType

LEMMA NoWorkTyped == NoWork \in WorkType /\ NoNote \in NoteType
  <1>1. NoNote \in NoteType  BY NoteTyped DEF NoNote
  <1>2. QED  BY <1>1 DEF NoWork, WorkType

LEMMA LinkableIds == MemoryTypeOK => Linkable \subseteq Nat
  BY DEF MemoryTypeOK, Linkable, NoSuchNote, Minted

LEMMA ThreadsApart ==
  /\ \A u \in Users : u \notin Harvesters /\ u \notin Capturers /\ u \in Scribes
  /\ \A h \in Harvesters : h \in Scribes /\ h \notin Capturers
  /\ \A s \in Scribes : s \in Users \/ s \in Harvesters \/ s \in Capturers
  /\ Unstamped \notin Desks /\ LessonWriter \notin Desks
  BY MemoryAssumption DEF Users, Scribes

\* What the store may do behind a thread: mint notes, and write back none but
\* those it counts as revived.
Grows ==
  /\ Minted \subseteq Minted' /\ revived \subseteq revived'
  /\ \A i \in Minted : minted'[i].note = minted[i].note
  /\ DOMAIN notes' \cap Minted \subseteq DOMAIN notes \cup revived'

LEMMA FitsStays ==
  ASSUME NEW s \in Scribes, NEW w \in WorkType, Fits(s, w), Grows
  PROVE  Fits(s, w)'
  <1>1. \A i \in Minted : MayWrite(w, i) => MayWrite(w, i)'
    BY DEF MayWrite, Grows
  <1>2. \A i \in Minted : Kin(w.note, i) => Kin(w.note, i)'
    BY DEF Kin, Grows
  <1>3. (w.step \in {"read", "replace", "unlink"} /\ s \in Desks =>
           w.id \notin DOMAIN notes \/ MayWrite(w, w.id))'
    <2> SUFFICES ASSUME w.step \in {"read", "replace", "unlink"}, s \in Desks,
                        w.id \in DOMAIN notes'
                 PROVE  MayWrite(w, w.id)'
      OBVIOUS
    <2>1. w.id \in Minted  BY DEF Fits
    <2>2. CASE w.id \in DOMAIN notes  BY <1>1, <2>1, <2>2 DEF Fits
    <2>3. CASE w.id \in revived'  BY <2>3 DEF MayWrite
    <2> QED  BY <2>1, <2>2, <2>3 DEF Grows
  <1>4. Minted \subseteq Minted'  BY DEF Grows
  <1> QED  BY <1>1, <1>2, <1>3, <1>4 DEF Fits

LEMMA HeldStays ==
  ASSUME ThreadsFit, scribe \in [Scribes -> WorkType], Grows,
         NEW s \in Scribes, NEW w \in WorkType, Work(s, w), Fits(s, w)'
  PROVE  ThreadsFit'
  <1> SUFFICES ASSUME NEW t \in Scribes PROVE Fits(t, scribe[t])'
    BY DEF ThreadsFit
  <1>1. CASE t = s
    <2>1. scribe'[t] = w  BY <1>1 DEF Work
    <2> QED  BY <1>1, <2>1 DEF Fits, Kin, MayWrite
  <1>2. CASE t # s
    <2>1. PICK v \in WorkType : v = scribe[t]  OBVIOUS
    <2>2. Fits(t, v)  BY <2>1 DEF ThreadsFit
    <2>3. Fits(t, v)'  BY <2>2, FitsStays
    <2>4. scribe'[t] = v  BY <1>2, <2>1 DEF Work
    <2> QED  BY <2>3, <2>4 DEF Fits, Kin, MayWrite
  <1> QED  BY <1>1, <1>2

\* A step that leaves the store alone.
LEMMA ThreadStep ==
  ASSUME TenantInv, NEW s \in Scribes, NEW w \in WorkType, Work(s, w), Fits(s, w),
         UNCHANGED <<notes, minted, revived>>,
         ops' \in Nat, touched' \subseteq Minted, relinked' \subseteq Minted,
         meshed' \subseteq SUBSET NoteIds, overlapped' \in BOOLEAN, openDesks' \subseteq Desks
  PROVE  TenantInv'
  <1>1. Grows  BY DEF Grows, Minted
  <1>2. Fits(s, w)'  BY <1>1, FitsStays
  <1>3. ThreadsFit'  BY <1>1, <1>2, HeldStays DEF TenantInv, MemoryTypeOK
  <1>4. StampsKept'  BY DEF TenantInv, StampsKept, Kin
  <1>5. MemoryTypeOK'  BY DEF TenantInv, MemoryTypeOK, Work, Minted
  <1> QED  BY <1>3, <1>4, <1>5 DEF TenantInv

-----------------------------------------------------------------------------
(* The steps that leave the store alone.                                   *)

LEMMA RestKeepsTenants ==
  ASSUME TenantInv, NEW s \in Scribes, Work(s, NoWork),
         UNCHANGED <<notes, minted, revived>>,
         ops' \in Nat, touched' \subseteq Minted, relinked' \subseteq Minted,
         meshed' \subseteq SUBSET NoteIds, overlapped' \in BOOLEAN, openDesks' \subseteq Desks
  PROVE  TenantInv'
  <1>1. Fits(s, NoWork)  BY DEF Fits, NoWork
  <1> QED  BY <1>1, NoWorkTyped, ThreadStep

LEMMA BeginCreateKeeps ==
  ASSUME TenantInv, NEW u \in Scribes, BeginCreate(u)
  PROVE  TenantInv'
  <1>0. PICK links \in SUBSET Linkable :
          Work(u, [NoWork EXCEPT !.step = "count", !.op = "create",
                     !.note = IF u = Editor THEN Note(OwnTitle, links, Global, Unstamped, NoRun)
                                            ELSE Note(OwnTitle, links, u, u, NoRun)])
    BY DEF BeginCreate, Start
  <1> DEFINE draft == IF u = Editor THEN Note(OwnTitle, links, Global, Unstamped, NoRun)
                                    ELSE Note(OwnTitle, links, u, u, NoRun)
             w == [NoWork EXCEPT !.step = "count", !.op = "create", !.note = draft]
  <1>1. u \in Users /\ Work(u, w) /\ ops' = ops + 1  BY <1>0 DEF BeginCreate, Start
  <1>2. draft \in NoteType
    <2>1. links \in SUBSET Nat  BY LinkableIds DEF TenantInv
    <2>2. CASE u = Editor  BY <2>1, <2>2, NoteTyped
    <2>3. CASE u # Editor  BY <1>1, <2>1, <2>3, NoteTyped DEF Users
    <2> QED  BY <2>2, <2>3
  <1>4. w \in WorkType  BY <1>2, NoWorkTyped DEF WorkType
  <1>5. Fits(u, w)
    <2>1. /\ w.step = "count" /\ w.op = "create" /\ w.note = draft
          /\ w.wrote = <<>> /\ w.left = <<>>
      BY DEF NoWork
    <2> HIDE DEF w, draft
    <2> QED  BY <1>1, <2>1, ThreadsApart DEF Fits
  <1> HIDE DEF w
  <1> QED  BY <1>1, <1>4, <1>5, ThreadStep DEF BeginCreate, TenantInv, MemoryTypeOK

LEMMA CountNotesKeeps ==
  ASSUME TenantInv, NEW s \in Scribes, CountNotes(s)
  PROVE  TenantInv'
  <1>1. PICK v \in WorkType : v = scribe[s]  BY DEF TenantInv, MemoryTypeOK
  <1>2. Fits(s, v) /\ v.step = "count"  BY <1>1 DEF TenantInv, ThreadsFit, CountNotes, Does
  <1>3. CASE Turn(s, "write")
    <2>1. [v EXCEPT !.step = "write"] \in WorkType  BY DEF WorkType
    <2>2. Fits(s, [v EXCEPT !.step = "write"])  BY <1>2, ThreadsApart DEF Fits, WorkType
    <2> QED  BY <1>1, <1>3, <2>1, <2>2, ThreadStep DEF Turn, CountNotes, TenantInv, MemoryTypeOK
  <1>4. CASE Work(s, Answered(s))
    <2>1. CASE s \in Harvesters
      <3> DEFINE w == [v EXCEPT !.step = IF v.op = "mesh" THEN "mesh" ELSE "next"]
      <3>1. Work(s, w)  BY <1>1, <1>4, <2>1 DEF Answered
      <3>2. w \in WorkType  BY DEF WorkType
      <3>3. Fits(s, w)  BY <1>2, <2>1, ThreadsApart DEF Fits, WorkType
      <3> HIDE DEF w
      <3> QED  BY <3>1, <3>2, <3>3, ThreadStep DEF CountNotes, TenantInv, MemoryTypeOK
    <2>2. CASE s \notin Harvesters
      BY <1>4, <2>2, RestKeepsTenants DEF Answered, CountNotes, TenantInv, MemoryTypeOK
    <2> QED  BY <2>1, <2>2
  <1> QED  BY <1>3, <1>4 DEF CountNotes

LEMMA BeginUpdateKeeps ==
  ASSUME TenantInv, NEW u \in Scribes, BeginUpdate(u)
  PROVE  TenantInv'
  <1>1. PICK id \in Minted, patch \in {<<>>} \cup {<<links>> : links \in SUBSET Linkable} :
          Work(u, [NoWork EXCEPT !.step = IF u = Editor THEN "read" ELSE "check",
                     !.op = "update", !.id = id, !.patch = patch])
    BY DEF BeginUpdate, Start
  <1> DEFINE w == [NoWork EXCEPT !.step = IF u = Editor THEN "read" ELSE "check",
                     !.op = "update", !.id = id, !.patch = patch]
  <1>2. id \in Nat  BY DEF TenantInv, MemoryTypeOK, Minted
  <1>6. patch \in Seq(SUBSET Nat)
    <2>1. Linkable \subseteq Nat  BY LinkableIds DEF TenantInv
    <2>2. CASE patch = <<>>  BY <2>2
    <2>3. CASE patch # <<>>
      <3>1. PICK links \in SUBSET Linkable : patch = <<links>>  BY <2>3
      <3>2. links \in SUBSET Nat  BY <2>1
      <3> QED  BY <3>1, <3>2
    <2> QED  BY <2>2, <2>3
  <1>3. w \in WorkType  BY <1>2, <1>6, NoWorkTyped DEF WorkType
  <1>4. Fits(u, w)
    <2>1. /\ w.step = IF u = Editor THEN "read" ELSE "check"
          /\ w.id = id /\ w.wrote = <<>> /\ w.left = <<>>
      BY DEF NoWork
    <2>2. u \in Users  BY DEF BeginUpdate
    <2> HIDE DEF w
    <2> QED  BY <2>1, <2>2, ThreadsApart, MemoryAssumption DEF Fits, Users
  <1>5. Work(u, w) /\ ops' = ops + 1  BY <1>1 DEF BeginUpdate, Start
  <1> HIDE DEF w
  <1> QED  BY <1>3, <1>4, <1>5, ThreadStep DEF BeginUpdate, TenantInv, MemoryTypeOK

LEMMA BeginDeleteKeeps ==
  ASSUME TenantInv, NEW u \in Scribes, BeginDelete(u)
  PROVE  TenantInv'
  <1>1. PICK id \in Minted :
          Work(u, [NoWork EXCEPT !.step = IF u = Editor THEN "unlink" ELSE "check",
                     !.op = "delete", !.id = id])
    BY DEF BeginDelete, Start
  <1> DEFINE w == [NoWork EXCEPT !.step = IF u = Editor THEN "unlink" ELSE "check",
                     !.op = "delete", !.id = id]
  <1>2. id \in Nat  BY DEF TenantInv, MemoryTypeOK, Minted
  <1>3. w \in WorkType  BY <1>2, NoWorkTyped DEF WorkType
  <1>4. Fits(u, w)
    <2>1. /\ w.step = IF u = Editor THEN "unlink" ELSE "check"
          /\ w.id = id /\ w.wrote = <<>> /\ w.left = <<>>
      BY DEF NoWork
    <2>2. u \in Users  BY DEF BeginDelete
    <2> HIDE DEF w
    <2> QED  BY <2>1, <2>2, ThreadsApart, MemoryAssumption DEF Fits, Users
  <1>5. Work(u, w) /\ ops' = ops + 1  BY <1>1 DEF BeginDelete, Start
  <1> HIDE DEF w
  <1> QED  BY <1>3, <1>4, <1>5, ThreadStep DEF BeginDelete, TenantInv, MemoryTypeOK

\* The look at the tenant is what the later steps rely on.
LEMMA CheckTenantKeeps ==
  ASSUME TenantInv, NEW d \in Scribes, CheckTenant(d)
  PROVE  TenantInv'
  <1>1. PICK v \in WorkType : v = scribe[d]  BY DEF TenantInv, MemoryTypeOK
  <1>2. Fits(d, v) /\ v.step = "check" /\ v.id \in Minted
    BY <1>1 DEF TenantInv, ThreadsFit, CheckTenant, Does, Fits
  <1>3. CASE Work(d, NoWork)  BY <1>3, RestKeepsTenants DEF CheckTenant, TenantInv, MemoryTypeOK
  <1>4. CASE /\ v.id \in DOMAIN notes => notes[v.id].ws \in Sees(d)
             /\ Work(d, [v EXCEPT !.may = Sees(d),
                           !.step = IF v.op = "update" THEN "read" ELSE "unlink"])
    <2> DEFINE w == [v EXCEPT !.may = Sees(d),
                       !.step = IF v.op = "update" THEN "read" ELSE "unlink"]
    <2>1. Work(d, w)  BY <1>4
    <2>0. d \in Desks  BY <1>2 DEF Fits
    <2>9. Sees(d) \in SUBSET (Desks \cup {Global})
      BY <2>0 DEF Sees, TenantInv, MemoryTypeOK
    <2>2. w \in WorkType  BY <2>9 DEF WorkType
    <2>5. /\ w.step \in {"read", "unlink"} /\ w.id = v.id /\ w.wrote = v.wrote /\ w.left = v.left
          /\ w.may = Sees(d)
      BY DEF WorkType
    <2>4. d \notin Harvesters /\ d \notin Capturers
      BY <1>2 DEF Fits
    <2>6. Fits(d, w)
      <3> HIDE DEF w
      <3>1. w.id \in DOMAIN notes => MayWrite(w, w.id)
        BY <1>4, <2>5 DEF MayWrite, TenantInv, StampsKept, Kin
      <3> QED  BY <1>2, <2>4, <2>5, <3>1 DEF Fits
    <2> HIDE DEF w
    <2> QED  BY <2>1, <2>2, <2>6, ThreadStep DEF CheckTenant, TenantInv, MemoryTypeOK
  <1> QED  BY <1>1, <1>3, <1>4 DEF CheckTenant

LEMMA ReadNoteKeeps ==
  ASSUME TenantInv, NEW s \in Scribes, ReadNote(s)
  PROVE  TenantInv'
  <1>1. PICK v \in WorkType : v = scribe[s]  BY DEF TenantInv, MemoryTypeOK
  <1>2. Fits(s, v) /\ v.step = "read" /\ v.id \in Minted
    BY <1>1 DEF TenantInv, ThreadsFit, ReadNote, Does, Fits
  <1>3. CASE v.id \in DOMAIN notes
    <2> DEFINE w == [v EXCEPT !.step = "replace", !.note = notes[v.id]]
    <2>1. Work(s, w)  BY <1>1, <1>3 DEF ReadNote
    <2>2. notes[v.id] \in NoteType  BY <1>3 DEF TenantInv, MemoryTypeOK
    <2>3. w \in WorkType  BY <2>2 DEF WorkType
    <2>4. Kin(notes[v.id], v.id)  BY <1>3 DEF TenantInv, StampsKept
    <2>5. s \in Desks => MayWrite(v, v.id)  BY <1>2, <1>3 DEF Fits
    <2>6. /\ w.step = "replace" /\ w.id = v.id /\ w.note = notes[v.id] /\ w.op = v.op
          /\ w.wrote = v.wrote /\ w.left = v.left /\ w.may = v.may
      BY DEF WorkType
    <2>7. Fits(s, w)
      <3> HIDE DEF w
      <3> QED  BY <1>2, <2>4, <2>5, <2>6 DEF Fits, MayWrite
    <2> HIDE DEF w
    <2> QED  BY <2>1, <2>3, <2>7, ThreadStep DEF ReadNote, TenantInv, MemoryTypeOK
  <1>4. CASE v.id \notin DOMAIN notes
    <2>1. Work(s, Answered(s))  BY <1>1, <1>4 DEF ReadNote
    <2>2. CASE s \in Harvesters
      <3> DEFINE w == [v EXCEPT !.step = "mesh"]
      <3>1. Work(s, w)  BY <1>1, <1>2, <2>1, <2>2 DEF Answered, Fits
      <3>2. w \in WorkType  BY DEF WorkType
      <3>3. Fits(s, w)  BY <1>2, <2>2, ThreadsApart DEF Fits, WorkType
      <3> HIDE DEF w
      <3> QED  BY <3>1, <3>2, <3>3, ThreadStep DEF ReadNote, TenantInv, MemoryTypeOK
    <2>3. CASE s \notin Harvesters
      BY <2>1, <2>3, RestKeepsTenants DEF Answered, ReadNote, TenantInv, MemoryTypeOK
    <2> QED  BY <2>2, <2>3
  <1> QED  BY <1>3, <1>4

LEMMA HarvestKeeps ==
  ASSUME TenantInv, NEW h \in Scribes, Harvest(h)
  PROVE  TenantInv'
  <1>1. PICK todo \in LessonLists, ws \in Desks \cup {Global}, rel \in {{}, DOMAIN notes} :
          Work(h, [NoWork EXCEPT !.step = "next", !.op = "lesson", !.todo = todo, !.rel = rel,
                     !.note = Note(OwnTitle, rel, ws, LessonWriter, NoRun), !.seen = TitlesOnDisk])
    BY DEF Harvest, Start
  <1> DEFINE draft == Note(OwnTitle, rel, ws, LessonWriter, NoRun)
             w == [NoWork EXCEPT !.step = "next", !.op = "lesson", !.todo = todo, !.rel = rel,
                     !.note = draft, !.seen = TitlesOnDisk]
  <1>2. DOMAIN notes \subseteq NoteIds
    BY DEF TenantInv, MemoryTypeOK, Minted, NoteIds
  <1>3. draft \in NoteType
    BY <1>2, NoteTyped DEF NoteIds
  <1>4. TitlesOnDisk \subseteq Lessons \cup {OwnTitle}
    BY DEF TenantInv, MemoryTypeOK, TitlesOnDisk, NoteType
  <1>5. todo \in Seq(Lessons)
    <2>1. CASE \E l \in Lessons : todo = <<l>>  BY <2>1
    <2>2. CASE todo \in Lessons \X Lessons
      <3>1. PICK k, l \in Lessons : todo = <<k, l>>  BY <2>2
      <3> QED  BY <3>1
    <2> QED  BY <2>1, <2>2 DEF LessonLists
  <1>6. w \in WorkType
    <2> HIDE DEF draft
    <2> QED  BY <1>2, <1>3, <1>4, <1>5, NoWorkTyped DEF WorkType
  <1>7. Fits(h, w)
    <2>1. /\ w.step = "next" /\ w.op = "lesson" /\ w.note = draft
          /\ w.wrote = <<>> /\ w.left = <<>>
      BY DEF NoWork
    <2>2. h \in Harvesters  BY DEF Harvest
    <2> HIDE DEF w, draft
    <2> QED  BY <2>1, <2>2, ThreadsApart DEF Fits
  <1>8. Work(h, w) /\ ops' = ops + 1  BY <1>1 DEF Harvest, Start
  <1> HIDE DEF w
  <1> QED  BY <1>6, <1>7, <1>8, ThreadStep DEF Harvest, TenantInv, MemoryTypeOK

LEMMA NextLessonKeeps ==
  ASSUME TenantInv, NEW h \in Scribes, NextLesson(h)
  PROVE  TenantInv'
  <1>1. PICK v \in WorkType : v = scribe[h]  BY DEF TenantInv, MemoryTypeOK
  <1>2. Fits(h, v) /\ v.step = "next" /\ v.todo # <<>> /\ h \in Harvesters
    BY <1>1 DEF TenantInv, ThreadsFit, NextLesson, Does, Fits
  <1> DEFINE title == Head(v.todo)
             w == [v EXCEPT !.todo = Tail(@), !.note.title = title,
                     !.step = IF title \in v.seen THEN "next" ELSE "count"]
  <1>3. Work(h, w)  BY <1>1 DEF NextLesson
  <1>4. title \in Lessons /\ Tail(v.todo) \in Seq(Lessons)
    BY <1>2 DEF WorkType
  <1>5. [v.note EXCEPT !.title = title] \in NoteType  BY <1>4 DEF WorkType, NoteType
  <1>6. w \in WorkType  BY <1>4, <1>5 DEF WorkType
  <1>7. /\ w.step \in {"next", "count"} /\ w.op = v.op /\ w.wrote = v.wrote /\ w.left = v.left
    BY DEF WorkType, NoteType
  <1>8. Fits(h, w)
    <2> HIDE DEF w
    <2> QED  BY <1>2, <1>7, ThreadsApart DEF Fits
  <1> HIDE DEF w
  <1> QED  BY <1>3, <1>6, <1>8, ThreadStep DEF NextLesson, TenantInv, MemoryTypeOK

LEMMA MeshBeginsKeeps ==
  ASSUME TenantInv, NEW h \in Scribes, MeshBegins(h)
  PROVE  TenantInv'
  <1>1. PICK v \in WorkType : v = scribe[h]  BY DEF TenantInv, MemoryTypeOK
  <1>2. Fits(h, v) /\ v.step = "next" /\ h \in Harvesters
    BY <1>1 DEF TenantInv, ThreadsFit, MeshBegins, Does, Fits
  <1>3. CASE Work(h, NoWork)  BY <1>3, RestKeepsTenants DEF MeshBegins, TenantInv, MemoryTypeOK
  <1>4. CASE Work(h, [v EXCEPT !.step = "mesh", !.op = "mesh", !.left = v.wrote])
    <2> DEFINE w == [v EXCEPT !.step = "mesh", !.op = "mesh", !.left = v.wrote]
    <2>1. w \in WorkType  BY DEF WorkType
    <2>2. w.step = "mesh" /\ w.op = "mesh" /\ w.left = v.wrote /\ w.wrote = v.wrote
      BY DEF WorkType
    <2>3. Fits(h, w)
      <3> HIDE DEF w
      <3> QED  BY <1>2, <2>2, ThreadsApart DEF Fits
    <2>4. Work(h, w)  BY <1>4
    <2> HIDE DEF w
    <2> QED  BY <2>1, <2>3, <2>4, ThreadStep DEF MeshBegins, TenantInv, MemoryTypeOK
  <1> QED  BY <1>1, <1>3, <1>4 DEF MeshBegins

LEMMA MeshNextKeeps ==
  ASSUME TenantInv, NEW h \in Scribes, MeshNext(h)
  PROVE  TenantInv'
  <1>1. PICK v \in WorkType : v = scribe[h]  BY DEF TenantInv, MemoryTypeOK
  <1>2. Fits(h, v) /\ v.step = "mesh" /\ v.op = "mesh" /\ h \in Harvesters
    BY <1>1 DEF TenantInv, ThreadsFit, MeshNext, Does, Fits
  <1>3. CASE v.left # <<>> /\ UNCHANGED meshed
             /\ Work(h, [v EXCEPT !.step = "read", !.id = Head(v.left), !.left = Tail(@)])
    <2> DEFINE w == [v EXCEPT !.step = "read", !.id = Head(v.left), !.left = Tail(@)]
    <2>1. v.left \in Seq(NoteIds) /\ v.left # <<>>  BY <1>3 DEF WorkType
    <2>2. Head(v.left) \in Minted  BY <1>2, <2>1 DEF Fits
    <2>3. Head(v.left) \in Nat /\ Tail(v.left) \in Seq(NoteIds)  BY <2>1 DEF NoteIds
    <2>4. w \in WorkType  BY <2>3 DEF WorkType
    <2>5. \A k \in DOMAIN Tail(v.left) : Tail(v.left)[k] \in Minted
      BY <1>2, <2>1 DEF Fits
    <2>6. /\ w.step = "read" /\ w.op = v.op /\ w.id = Head(v.left) /\ w.left = Tail(v.left)
          /\ w.wrote = v.wrote
      BY DEF WorkType
    <2>7. h \notin Desks  BY <1>2, ThreadsApart DEF Users
    <2>8. Fits(h, w)
      <3> HIDE DEF w
      <3> QED  BY <1>2, <2>2, <2>5, <2>6, <2>7, ThreadsApart DEF Fits
    <2>9. Work(h, w)  BY <1>3
    <2> HIDE DEF w
    <2> QED  BY <1>3, <2>4, <2>8, <2>9, ThreadStep DEF MeshNext, TenantInv, MemoryTypeOK
  <1>4. CASE Work(h, NoWork) /\ meshed' = meshed \cup {{v.wrote[k] : k \in DOMAIN v.wrote}}
    <2>1. v.wrote \in Seq(NoteIds)  BY DEF WorkType
    <2>2. {v.wrote[k] : k \in DOMAIN v.wrote} \subseteq NoteIds  BY <2>1
    <2> QED  BY <1>4, <2>2, RestKeepsTenants DEF MeshNext, TenantInv, MemoryTypeOK
  <1> QED  BY <1>1, <1>3, <1>4 DEF MeshNext

LEMMA CaptureKeeps ==
  ASSUME TenantInv, NEW c \in Scribes, Capture(c)
  PROVE  TenantInv'
  <1>1. PICK r \in MemoryRuns, ws \in Desks \cup {Global}, rel \in {{}, DOMAIN notes} :
          /\ Work(c, [NoWork EXCEPT !.step = "count", !.op = "capture",
                       !.note = Note(OwnTitle, rel, ws, Unstamped, r)])
          /\ overlapped' = (overlapped \/ \E k \in Capturers : ~Does(k, "idle") /\ scribe[k].note.run = r)
    BY DEF Capture, Start
  <1> DEFINE draft == Note(OwnTitle, rel, ws, Unstamped, r)
             w == [NoWork EXCEPT !.step = "count", !.op = "capture", !.note = draft]
  <1>2. DOMAIN notes \subseteq NoteIds
    BY DEF TenantInv, MemoryTypeOK, Minted, NoteIds
  <1>3. draft \in NoteType
    BY <1>2, NoteTyped DEF NoteIds
  <1>4. w \in WorkType
    <2> HIDE DEF draft
    <2> QED  BY <1>3, NoWorkTyped DEF WorkType
  <1>5. Fits(c, w)
    <2>1. /\ w.step = "count" /\ w.op = "capture" /\ w.note = draft
          /\ w.wrote = <<>> /\ w.left = <<>>
      BY DEF NoWork
    <2>2. c \in Capturers  BY DEF Capture
    <2> HIDE DEF w, draft
    <2> QED  BY <2>1, <2>2, ThreadsApart DEF Fits
  <1>6. Work(c, w)  BY <1>1
  <1>7. ops' \in Nat /\ overlapped' \in BOOLEAN
    BY <1>1 DEF Capture, Start, TenantInv, MemoryTypeOK
  <1> HIDE DEF w
  <1> QED  BY <1>4, <1>5, <1>6, <1>7, ThreadStep DEF Capture, TenantInv, MemoryTypeOK

LEMMA ScribeDiesKeeps ==
  ASSUME TenantInv, NEW s \in Scribes, ScribeDies(s)
  PROVE  TenantInv'
  BY RestKeepsTenants DEF ScribeDies, TenantInv, MemoryTypeOK

-----------------------------------------------------------------------------
(* The three steps that change the store.                                  *)

LEMMA WriteNewKeeps ==
  ASSUME TenantInv, NEW s \in Scribes, WriteNew(s)
  PROVE  TenantInv'
  <1>1. PICK v \in WorkType : v = scribe[s]  BY DEF TenantInv, MemoryTypeOK
  <1>2. Fits(s, v) /\ v.step = "write"
    BY <1>1 DEF TenantInv, ThreadsFit, WriteNew, Does
  <1> DEFINE again == IF v.op = "mesh" THEN "mesh" ELSE "next"
  <1>0. PICK id : id = Len(minted) + 1  OBVIOUS
  <1>3. CASE /\ notes' = [i \in DOMAIN notes \cup {id} |-> IF i = id THEN v.note ELSE notes[i]]
             /\ minted' = Append(minted, [note |-> v.note, by |-> v.op])
             /\ Work(s, IF s \in Harvesters
                        THEN [Answered(s) EXCEPT !.seen = @ \cup {v.note.title}, !.wrote = Append(@, id)]
                        ELSE NoWork)
    <2>1. minted \in Seq([note : NoteType, by : {"create", "lesson", "capture"}])
      BY DEF TenantInv, MemoryTypeOK
    <2>2. v.op \in {"create", "lesson", "capture"}  BY <1>2 DEF Fits
    <2>3. /\ minted' \in Seq([note : NoteType, by : {"create", "lesson", "capture"}])
          /\ Len(minted') = id /\ id \in Nat \ {0}
          /\ minted'[id].note = v.note
          /\ \A i \in Minted : minted'[i] = minted[i]
      BY <1>0, <1>3, <2>1, <2>2 DEF WorkType, Minted
    <2>4. Minted' = Minted \cup {id} /\ id \notin Minted
      BY <1>0, <2>1, <2>3 DEF Minted
    <2>5. Grows
      <3>1. DOMAIN notes' = DOMAIN notes \cup {id} /\ revived' = revived
        BY <1>3 DEF WriteNew
      <3>2. \A i \in Minted : minted'[i].note = minted[i].note  BY <2>3
      <3> QED  BY <2>4, <3>1, <3>2 DEF Grows
    <2>6. Kin(v.note, id)'
      BY <1>2, <2>3 DEF Kin, Fits
    <2>7. StampsKept'
      <3> SUFFICES ASSUME NEW i \in DOMAIN notes' PROVE Kin(notes[i], i)'
        BY DEF StampsKept
      <3>1. CASE i = id  BY <1>3, <2>6, <3>1 DEF Kin
      <3>2. CASE i # id
        <4>1. i \in DOMAIN notes /\ notes'[i] = notes[i] /\ i \in Minted
          BY <1>3, <3>2 DEF TenantInv, MemoryTypeOK
        <4> QED  BY <2>3, <4>1 DEF WriteNew, TenantInv, StampsKept, Kin
      <3> QED  BY <3>1, <3>2
    <2>8. PICK w \in WorkType : Work(s, w) /\ Fits(s, w)'
      <3>1. CASE s \in Harvesters
        <4> DEFINE w == [v EXCEPT !.step = again, !.seen = @ \cup {v.note.title},
                           !.wrote = Append(@, id)]
        <4>1. Work(s, w)  BY <1>1, <1>3, <3>1 DEF Answered, WorkType
        <4>2. /\ Append(v.wrote, id) \in Seq(NoteIds)
              /\ v.seen \cup {v.note.title} \in SUBSET (Lessons \cup {OwnTitle})
          BY <2>3 DEF WorkType, NoteIds, NoteType
        <4>3. w \in WorkType  BY <4>2 DEF WorkType
        <4>4. \A k \in DOMAIN Append(v.wrote, id) : Append(v.wrote, id)[k] \in Minted'
          BY <1>2, <2>4 DEF Fits, WorkType
        <4>5. /\ w.step = again /\ w.op = v.op /\ w.left = v.left
              /\ w.wrote = Append(v.wrote, id) /\ w.note = v.note
          BY DEF WorkType
        <4>6. PICK x \in WorkType : x = w  BY <4>3
        <4>7. Fits(s, x)'
          <5> HIDE DEF w
          <5> QED  BY <1>2, <2>4, <3>1, <4>4, <4>5, <4>6, ThreadsApart DEF Fits
        <4> QED  BY <4>1, <4>6, <4>7
      <3>2. CASE s \notin Harvesters
        <4>1. Work(s, NoWork)  BY <1>3, <3>2
        <4>2. Fits(s, NoWork)'  BY DEF Fits, NoWork
        <4> QED  BY <4>1, <4>2, NoWorkTyped
      <3> QED  BY <3>1, <3>2
    <2>9. ThreadsFit'
      BY <2>5, <2>8, HeldStays DEF TenantInv, MemoryTypeOK
    <2>10. MemoryTypeOK'
      <3>1. DOMAIN notes' \subseteq Minted' /\ \A i \in DOMAIN notes' : notes'[i] \in NoteType
        BY <1>3, <2>4 DEF TenantInv, MemoryTypeOK, WorkType
      <3>2. scribe' \in [Scribes -> WorkType]
        BY <2>8 DEF TenantInv, MemoryTypeOK, Work
      <3> QED  BY <2>3, <2>4, <3>1, <3>2 DEF WriteNew, TenantInv, MemoryTypeOK
    <2> QED  BY <2>7, <2>9, <2>10 DEF TenantInv
  <1>4. CASE Work(s, Answered(s)) /\ UNCHANGED <<notes, minted>>
    <2>1. CASE s \in Harvesters
      <3> DEFINE w == [v EXCEPT !.step = again]
      <3>1. Work(s, w)  BY <1>1, <1>4, <2>1 DEF Answered
      <3>2. w \in WorkType  BY DEF WorkType
      <3>3. Fits(s, w)  BY <1>2, <2>1, ThreadsApart DEF Fits, WorkType
      <3> HIDE DEF w
      <3> QED  BY <1>4, <3>1, <3>2, <3>3, ThreadStep DEF WriteNew, TenantInv, MemoryTypeOK
    <2>2. CASE s \notin Harvesters
      BY <1>4, <2>2, RestKeepsTenants DEF Answered, WriteNew, TenantInv, MemoryTypeOK
    <2> QED  BY <2>1, <2>2
  <1> QED  BY <1>0, <1>1, <1>3, <1>4 DEF WriteNew

LEMMA ReplaceNoteKeeps ==
  ASSUME TenantInv, NEW s \in Scribes, ReplaceNote(s)
  PROVE  TenantInv'
  <1>1. PICK v \in WorkType : v = scribe[s]  BY DEF TenantInv, MemoryTypeOK
  <1>2. Fits(s, v) /\ v.step = "replace" /\ v.id \in Minted /\ Kin(v.note, v.id)
    BY <1>1 DEF TenantInv, ThreadsFit, ReplaceNote, Does, Fits
  <1>3. PICK w \in WorkType : Work(s, w) /\ Fits(s, w)
    <2>1. CASE s \in Harvesters
      <3> DEFINE x == [v EXCEPT !.step = "mesh"]
      <3>1. Work(s, x)  BY <1>1, <1>2, <2>1 DEF ReplaceNote, Answered, Fits
      <3>2. x \in WorkType  BY DEF WorkType
      <3>3. Fits(s, x)  BY <1>2, <2>1, ThreadsApart DEF Fits, WorkType
      <3> QED  BY <3>1, <3>2, <3>3
    <2>2. CASE s \notin Harvesters
      <3>1. Work(s, NoWork)  BY <2>2 DEF ReplaceNote, Answered
      <3>2. Fits(s, NoWork)  BY DEF Fits, NoWork
      <3> QED  BY <3>1, <3>2, NoWorkTyped
    <2> QED  BY <2>1, <2>2
  <1>4. /\ Minted' = Minted /\ minted' = minted /\ touched' \subseteq Minted
        /\ relinked' \subseteq Minted /\ openDesks' = openDesks
        /\ ops' = ops /\ meshed' = meshed /\ overlapped' = overlapped
    BY <1>1, <1>2 DEF ReplaceNote, Minted, TenantInv, MemoryTypeOK
  <1>5. CASE UNCHANGED <<notes, revived>>
    BY <1>3, <1>4, <1>5, ThreadStep DEF TenantInv, MemoryTypeOK
  <1>6. CASE /\ notes' = [i \in DOMAIN notes \cup {v.id} |-> IF i = v.id THEN Patched(s) ELSE notes[i]]
             /\ revived' = revived \cup ({v.id} \ DOMAIN notes)
    <2>1. Grows  BY <1>4, <1>6 DEF Grows
    <2>2. Fits(s, w)'  BY <1>3, <2>1, FitsStays
    <2>3. ThreadsFit'  BY <1>3, <2>1, <2>2, HeldStays DEF TenantInv, MemoryTypeOK
    \* The copy changes nothing but its links.
    <2>4. /\ Patched(s) \in NoteType
          /\ Patched(s).ws = v.note.ws /\ Patched(s).origin = v.note.origin
          /\ Patched(s).run = v.note.run
      <3>1. CASE s \in Harvesters
        <4>1. LinkPlan(v.wrote, v.rel, v.id) \subseteq Nat
          BY DEF LinkPlan, WorkType, NoteIds
        <4>2. Patched(s) = [v.note EXCEPT !.links = LinkPlan(v.wrote, v.rel, v.id)]
          BY <1>1, <3>1 DEF Patched
        <4>3. v.note \in NoteType  BY DEF WorkType
        <4> HIDE DEF LinkPlan
        <4> QED  BY <4>1, <4>2, <4>3 DEF NoteType
      <3>2. CASE s \notin Harvesters
        <4>1. Patched(s) = [v.note EXCEPT !.links = IF v.patch = <<>> THEN @ ELSE v.patch[1]]
          BY <1>1, <3>2 DEF Patched
        <4>2. v.note \in NoteType /\ v.patch \in Seq(SUBSET Nat)  BY DEF WorkType
        <4>3. v.patch # <<>> => v.patch[1] \in SUBSET Nat  BY <4>2
        <4> QED  BY <4>1, <4>2, <4>3 DEF NoteType
      <3> QED  BY <3>1, <3>2
    <2>5. Kin(Patched(s), v.id)
      BY <1>2, <2>4 DEF Kin, MayWrite, Fits
    <2>6. StampsKept'
      <3> SUFFICES ASSUME NEW i \in DOMAIN notes' PROVE Kin(notes[i], i)'
        BY DEF StampsKept
      <3>1. CASE i = v.id
        <4>1. notes'[i] = Patched(s)  BY <1>6, <3>1
        <4> QED  BY <1>4, <1>6, <2>5, <3>1, <4>1 DEF Kin
      <3>2. CASE i # v.id
        <4>1. i \in DOMAIN notes /\ notes'[i] = notes[i]  BY <1>6, <3>2
        <4> QED  BY <1>4, <1>6, <4>1 DEF TenantInv, StampsKept, Kin
      <3> QED  BY <3>1, <3>2
    <2>7. MemoryTypeOK'
      <3>1. DOMAIN notes' \subseteq Minted' /\ \A i \in DOMAIN notes' : notes'[i] \in NoteType
        BY <1>2, <1>4, <1>6, <2>4 DEF TenantInv, MemoryTypeOK
      <3>2. scribe' \in [Scribes -> WorkType]
        BY <1>3 DEF TenantInv, MemoryTypeOK, Work
      <3> QED  BY <1>2, <1>4, <1>6, <3>1, <3>2 DEF TenantInv, MemoryTypeOK
    <2> QED  BY <2>3, <2>6, <2>7 DEF TenantInv
  <1> QED  BY <1>1, <1>5, <1>6 DEF ReplaceNote

LEMMA UnlinkNoteKeeps ==
  ASSUME TenantInv, NEW u \in Scribes, UnlinkNote(u)
  PROVE  TenantInv'
  <1>1. scribe[u].id \in Minted
    BY DEF TenantInv, ThreadsFit, UnlinkNote, Does, Fits
  <1>2. /\ notes' = [i \in DOMAIN notes \ {scribe[u].id} |-> notes[i]]
        /\ UNCHANGED <<minted, revived, relinked, ops, meshed, overlapped, openDesks>>
        /\ touched' \subseteq Minted /\ Work(u, NoWork)
    BY <1>1 DEF UnlinkNote, TenantInv, MemoryTypeOK
  <1>3. Grows  BY <1>2 DEF Grows, Minted
  <1>4. Fits(u, NoWork)'  BY DEF Fits, NoWork
  <1>5. ThreadsFit'  BY <1>2, <1>3, <1>4, NoWorkTyped, HeldStays DEF TenantInv, MemoryTypeOK
  <1>6. StampsKept'  BY <1>2 DEF TenantInv, StampsKept, Kin
  <1>7. MemoryTypeOK'  BY <1>2, NoWorkTyped DEF TenantInv, MemoryTypeOK, Work, Minted
  <1> QED  BY <1>5, <1>6, <1>7 DEF TenantInv

-----------------------------------------------------------------------------
LEMMA TenantInvStarts == MemoryInit => TenantInv
  <1> SUFFICES ASSUME MemoryInit PROVE TenantInv
    OBVIOUS
  <1>1. \A s \in Scribes : Fits(s, NoWork)  BY DEF Fits, NoWork
  <1>2. ThreadsFit  BY <1>1 DEF ThreadsFit, MemoryInit
  <1>3. StampsKept  BY DEF StampsKept, MemoryInit
  <1>4. MemoryTypeOK
    <2>1. DOMAIN notes = {} /\ minted = <<>>  BY DEF MemoryInit
    <2>2. scribe \in [Scribes -> WorkType]  BY NoWorkTyped DEF MemoryInit
    <2>3. minted \in Seq([note : NoteType, by : {"create", "lesson", "capture"}])
      BY <2>1
    <2>4. /\ ops = 0 /\ revived = {} /\ touched = {} /\ relinked = {} /\ meshed = {}
          /\ overlapped = FALSE /\ openDesks = {}
      BY DEF MemoryInit
    <2> QED  BY <2>1, <2>2, <2>3, <2>4 DEF MemoryTypeOK
  <1> QED  BY <1>2, <1>3, <1>4 DEF TenantInv

\* What the change of a workspace's sharing leaves alone.
memoryOwn == <<notes, minted, scribe, ops, revived, touched, relinked, meshed, overlapped>>

LEMMA TenantInvKeeps == TenantInv /\ [MemoryNext]_memvars => TenantInv'
  <1> SUFFICES ASSUME TenantInv, [MemoryNext]_memvars PROVE TenantInv'
    OBVIOUS
  <1>1. ASSUME NEW s \in Scribes, ScribeStep(s) PROVE TenantInv'
    BY <1>1, BeginCreateKeeps, CountNotesKeeps, WriteNewKeeps, BeginUpdateKeeps,
       CheckTenantKeeps, ReadNoteKeeps, ReplaceNoteKeeps, BeginDeleteKeeps, UnlinkNoteKeeps,
       HarvestKeeps, NextLessonKeeps, MeshBeginsKeeps, MeshNextKeeps, CaptureKeeps
       DEF ScribeStep
  <1>2. ASSUME NEW s \in Scribes, ScribeDies(s) PROVE TenantInv'
    BY <1>2, ScribeDiesKeeps
  <1>3. CASE UNCHANGED memoryOwn /\ openDesks' \subseteq Desks
    BY <1>3 DEF memoryOwn, TenantInv, MemoryTypeOK, StampsKept, ThreadsFit, Fits, Kin, MayWrite,
                Minted
  <1>4. openDesks \subseteq Desks  BY DEF TenantInv, MemoryTypeOK
  <1>5. ASSUME NEW d \in Desks, FlipSharing(d) PROVE TenantInv'
    BY <1>3, <1>4, <1>5 DEF FlipSharing, memoryOwn
  <1>6. CASE UNCHANGED memvars  BY <1>3, <1>4, <1>6 DEF memvars, memoryOwn
  <1> QED  BY <1>1, <1>2, <1>5, <1>6 DEF MemoryNext

(* In every reachable state of the note store the variables have their     *)
(* types and every thread holds what Fits says: whatever copies and checks *)
(* of racing sidecars, harvests and deletes are under way.                 *)
THEOREM TenantInvHolds == MemorySpec => []TenantInv
  BY TenantInvStarts, TenantInvKeeps, PTL DEF MemorySpec

(* A note keeps the workspace, creator and run it was first written with,  *)
(* and a sidecar comes to rewrite or delete only notes of workspaces that  *)
(* its own could see when it checked, or written back after their delete:  *)
(* for any number of workspaces, threads, notes and runs, whosever sharing *)
(* is switched meanwhile.                                                  *)
THEOREM TenantsStayApart == MemorySpec => []TenantsApart
  <1>1. ASSUME TenantInv PROVE TenantsApart
    <2>1. \A i \in DOMAIN notes : Kin(notes[i], i)  BY <1>1 DEF TenantInv, StampsKept
    <2>2. ASSUME NEW d \in Desks, NEW i \in DOMAIN notes \ revived, Writes(d, i)
          PROVE  notes[i].ws \in scribe[d].may
      <3>1. Fits(d, scribe[d])  BY <1>1, ThreadsApart DEF TenantInv, ThreadsFit, Scribes, Users
      <3>2. minted[i].note.ws \in scribe[d].may  BY <2>2, <3>1 DEF Fits, Writes, MayWrite
      <3> QED  BY <2>1, <3>2 DEF Kin
    <2> QED  BY <2>1, <2>2 DEF TenantsApart
  <1> QED  BY <1>1, TenantInvHolds, PTL

-----------------------------------------------------------------------------
(* The links between notes, and what a repeated harvest may rely on.       *)

Ids(q) == {q[k] : k \in DOMAIN q}

\* What a thread's operation w says about links: of the note in its hand, and
\* of the lessons it wrote, once it links them with each other.
Weaves(s, w) ==
  /\ w.rel \subseteq Minted
  /\ w.step \in {"next", "count", "write"} => w.note.links \subseteq Minted \/ w.op = "create"
  /\ w.step = "replace" => w.id \in Minted
  /\ w.step = "replace" /\ w.id \notin relinked /\ minted[w.id].by # "create" =>
       w.note.links \subseteq Minted \ {w.id}
  /\ Ids(w.left) \subseteq Ids(w.wrote)
  /\ s \in Harvesters /\ w.step \in {"read", "replace"} => w.id \in Ids(w.wrote)
  /\ s \in Harvesters /\ w.step \in {"mesh", "read", "replace"} =>
       \A i \in Ids(w.wrote) \ touched :
         \/ i \in Ids(w.left)
         \/ w.step # "mesh" /\ i = w.id
         \/ Ids(w.wrote) \ {i} \subseteq notes[i].links

Aims == \A i \in DOMAIN notes \ relinked :
          minted[i].by # "create" => notes[i].links \subseteq Minted \ {i}
LostIsTouched == Minted \ DOMAIN notes \subseteq touched
\* Nobody else rewrites the lessons of a harvest but users.
LessonsApart ==
  /\ \A s, t \in Scribes : s # t => Ids(scribe[s].wrote) \cap Ids(scribe[t].wrote) = {}
  /\ \A batch \in meshed :
       batch \subseteq Minted /\ \A s \in Scribes : batch \cap Ids(scribe[s].wrote) = {}
Meshes == \A batch \in meshed : \A i \in batch \ touched : batch \ {i} \subseteq notes[i].links

LinkInv ==
  /\ Aims /\ LostIsTouched /\ LessonsApart /\ Meshes
  /\ \A s \in Scribes : Weaves(s, scribe[s])

\* What a harvest or a capture knows of the disk, if nobody overlaps it.
Clean == ~overlapped /\ revived = {}
Knows(s, w) ==
  /\ s \in Harvesters /\ w.step \in {"next", "count", "write"} =>
       /\ w.op = "lesson"
       /\ Clean => \A i \in DOMAIN notes : minted[i].by = "lesson" => notes[i].title \in w.seen
  /\ s \in Harvesters /\ w.step \in {"count", "write"} => w.note.title \notin w.seen
  /\ s \notin Harvesters /\ w.step \in {"count", "write"} => w.op # "lesson"
  /\ s \notin Capturers /\ w.step \in {"next", "count", "write"} => w.note.run = NoRun
  /\ w.step = "replace" => w.note.title = minted[w.id].note.title
  /\ s \in Capturers /\ w.step \in {"count", "write"} =>
       w.note.run # NoRun /\ (Clean => \A i \in DOMAIN notes : notes[i].run # w.note.run)

Alone ==
  ~overlapped =>
    /\ \A g, h \in Harvesters : g # h => Does(g, "idle") \/ Does(h, "idle")
    /\ \A c, d \in Capturers :
         c # d => Does(c, "idle") \/ Does(d, "idle") \/ scribe[c].note.run # scribe[d].note.run
TitlesKept == \A i \in DOMAIN notes : notes[i].title = minted[i].note.title

RepeatInv ==
  /\ Alone /\ TitlesKept /\ RepeatsAddNothing
  /\ \A s \in Scribes : Knows(s, scribe[s])

NotesInv == TenantInv /\ LinkInv /\ RepeatInv

-----------------------------------------------------------------------------
(* What other threads hold outlives a step.                                *)

LEMMA Hand ==
  ASSUME NotesInv, NEW s \in Scribes
  PROVE  /\ scribe[s] \in WorkType /\ Fits(s, scribe[s]) /\ Weaves(s, scribe[s])
         /\ Knows(s, scribe[s])
         /\ Ids(scribe[s].wrote) \subseteq Minted
  <1>1. scribe[s] \in WorkType  BY DEF NotesInv, TenantInv, MemoryTypeOK
  <1>2. Fits(s, scribe[s])  BY DEF NotesInv, TenantInv, ThreadsFit
  <1>3. Weaves(s, scribe[s]) /\ Knows(s, scribe[s])  BY DEF NotesInv, LinkInv, RepeatInv
  <1>4. Ids(scribe[s].wrote) \subseteq Minted  BY <1>2 DEF Fits, Ids
  <1> QED  BY <1>1, <1>2, <1>3, <1>4

LEMMA WeavesStays ==
  ASSUME NEW t \in Scribes, NEW v \in WorkType, Weaves(t, v),
         Minted \subseteq Minted', touched \subseteq touched', relinked \subseteq relinked',
         \A i \in Minted : minted'[i] = minted[i],
         \A i \in Ids(v.wrote) \ touched' : notes'[i].links = notes[i].links
  PROVE  Weaves(t, v)'
  <1>1. (t \in Harvesters /\ v.step \in {"mesh", "read", "replace"} =>
           \A i \in Ids(v.wrote) \ touched :
             \/ i \in Ids(v.left)
             \/ v.step # "mesh" /\ i = v.id
             \/ Ids(v.wrote) \ {i} \subseteq notes[i].links)'
    BY DEF Weaves, Ids
  <1>2. v.step = "replace" => v.id \in Minted /\ minted'[v.id].by = minted[v.id].by
    BY DEF Weaves
  <1> QED  BY <1>1, <1>2 DEF Weaves, Ids

LEMMA LinksStay ==
  ASSUME NotesInv, NEW s \in Scribes, NEW w \in WorkType, Work(s, w), Weaves(s, w)',
         Minted \subseteq Minted', touched \subseteq touched', relinked \subseteq relinked',
         \A i \in Minted : minted'[i] = minted[i],
         Aims', LostIsTouched', LessonsApart', Meshes',
         \A t \in Scribes \ {s} : \A i \in Ids(scribe[t].wrote) \ touched' :
           notes'[i].links = notes[i].links
  PROVE  LinkInv'
  <1> SUFFICES ASSUME NEW t \in Scribes PROVE Weaves(t, scribe[t])'
    BY DEF LinkInv
  <1>0. scribe \in [Scribes -> WorkType]  BY DEF NotesInv, TenantInv, MemoryTypeOK
  <1>1. CASE t = s
    <2>1. scribe'[t] = w  BY <1>0, <1>1 DEF Work
    <2> QED  BY <1>1, <2>1 DEF Weaves, Ids
  <1>2. CASE t # s
    <2>1. PICK v \in WorkType : v = scribe[t] /\ Weaves(t, v)  BY Hand
    <2>2. Weaves(t, v)'  BY <1>2, <2>1, WeavesStays
    <2>3. scribe'[t] = v  BY <1>0, <1>2, <2>1 DEF Work
    <2> QED  BY <2>2, <2>3 DEF Weaves, Ids
  <1> QED  BY <1>1, <1>2

LEMMA LessonsStayApart ==
  ASSUME NotesInv, NEW s \in Scribes, NEW w \in WorkType, Work(s, w),
         Ids(w.wrote) \subseteq Ids(scribe[s].wrote), Minted \subseteq Minted', meshed' = meshed
  PROVE  LessonsApart'
  <1>1. scribe \in [Scribes -> WorkType]  BY DEF NotesInv, TenantInv, MemoryTypeOK
  <1>2. \A t \in Scribes : Ids(scribe'[t].wrote) \subseteq Ids(scribe[t].wrote)
    BY <1>1 DEF Work
  <1>3. LessonsApart  BY DEF NotesInv, LinkInv
  <1>4. \A t \in Scribes : Ids(scribe[t].wrote)' = Ids(scribe'[t].wrote)  BY DEF Ids
  <1> HIDE DEF Ids
  <1> QED  BY <1>2, <1>3, <1>4 DEF LessonsApart

\* Notes keep their titles and runs, so fewer of them repeat no more.
LEMMA FewerRepeatLess ==
  ASSUME NotesInv, TenantInv', TitlesKept', minted' = minted,
         Clean' => Clean /\ DOMAIN notes' \subseteq DOMAIN notes
  PROVE  /\ RepeatsAddNothing'
         /\ \A t \in Scribes, v \in WorkType : Knows(t, v) => Knows(t, v)'
  <1>1. ASSUME Clean', NEW i \in DOMAIN notes'
        PROVE  /\ i \in DOMAIN notes /\ notes'[i].title = notes[i].title
               /\ notes'[i].run = notes[i].run
    <2>1. i \in DOMAIN notes  BY <1>1
    <2>2. notes[i].title = minted[i].note.title /\ notes[i].run = minted[i].note.run
      BY <2>1 DEF NotesInv, TenantInv, StampsKept, Kin, RepeatInv, TitlesKept
    <2>3. notes'[i].title = minted[i].note.title /\ notes'[i].run = minted[i].note.run
      BY <1>1 DEF TenantInv, StampsKept, Kin, TitlesKept
    <2> QED  BY <2>1, <2>2, <2>3
  <1>2. RepeatsAddNothing'
    <2> SUFFICES ASSUME Clean' PROVE RepeatsAddNothing'
      BY DEF RepeatsAddNothing, Clean
    <2>1. Clean /\ RepeatsAddNothing  BY DEF NotesInv, RepeatInv
    <2> QED  BY <1>1, <2>1 DEF RepeatsAddNothing, Clean
  <1>3. ASSUME NEW t \in Scribes, NEW v \in WorkType, Knows(t, v) PROVE Knows(t, v)'
    <2>1. Clean' => \A i \in DOMAIN notes' :
            /\ i \in DOMAIN notes /\ notes'[i].title = notes[i].title
            /\ notes'[i].run = notes[i].run
      BY <1>1
    <2>2. Clean' => Clean  OBVIOUS
    <2> HIDE DEF Clean
    <2> QED  BY <1>3, <2>1, <2>2 DEF Knows
  <1> QED  BY <1>2, <1>3

LEMMA RepeatStays ==
  ASSUME NotesInv, NEW s \in Scribes, NEW w \in WorkType, Work(s, w), Knows(s, w)',
         Alone', TitlesKept', RepeatsAddNothing',
         \A t \in Scribes \ {s} : \A v \in WorkType : Knows(t, v) => Knows(t, v)'
  PROVE  RepeatInv'
  <1> SUFFICES ASSUME NEW t \in Scribes PROVE Knows(t, scribe[t])'
    BY DEF RepeatInv
  <1>0. scribe \in [Scribes -> WorkType]  BY DEF NotesInv, TenantInv, MemoryTypeOK
  <1>1. CASE t = s
    <2>1. scribe'[t] = w  BY <1>0, <1>1 DEF Work
    <2> QED  BY <1>1, <2>1 DEF Knows, Clean
  <1>2. CASE t # s
    <2>1. PICK v \in WorkType : v = scribe[t] /\ Knows(t, v)  BY Hand
    <2>2. Knows(t, v)'  BY <1>2, <2>1
    <2>3. scribe'[t] = v  BY <1>0, <1>2, <2>1 DEF Work
    <2> QED  BY <2>2, <2>3 DEF Knows, Clean
  <1> QED  BY <1>1, <1>2

\* A thread that goes on, stops, or is a user's.
Continues(s, w) ==
  \/ w.step = "idle" \/ s \in Users
  \/ scribe[s].step # "idle" /\ (s \in Harvesters \/ w.note.run = scribe[s].note.run)

LEMMA AloneStays ==
  ASSUME NotesInv, NEW s \in Scribes, NEW w \in WorkType, Work(s, w), Continues(s, w),
         overlapped' = overlapped
  PROVE  Alone'
  <1>1. scribe \in [Scribes -> WorkType]  BY DEF NotesInv, TenantInv, MemoryTypeOK
  <1>2. /\ scribe'[s] = w /\ \A t \in Scribes : t # s => scribe'[t] = scribe[t]
    BY <1>1 DEF Work
  <1>3. /\ \A h \in Harvesters : h \in Scribes /\ h \notin Users
        /\ \A c \in Capturers : c \in Scribes /\ c \notin Users /\ c \notin Harvesters
    BY ThreadsApart, MemoryAssumption DEF Users, Scribes
  <1>4. Alone  BY DEF NotesInv, RepeatInv
  <1> QED  BY <1>2, <1>3, <1>4 DEF Alone, Does, Continues

\* A step that leaves the store alone.
LEMMA ThreadMoves ==
  ASSUME NotesInv, TenantInv', NEW s \in Scribes, NEW w \in WorkType, Work(s, w),
         Weaves(s, w), Knows(s, w), Continues(s, w),
         Ids(w.wrote) \subseteq Ids(scribe[s].wrote),
         UNCHANGED <<notes, minted, revived, touched, relinked, meshed, overlapped>>
  PROVE  NotesInv'
  <1>1. Minted' = Minted /\ Clean' = Clean  BY DEF Minted, Clean
  <1>2. LinkInv'
    <2>1. LessonsApart'  BY <1>1, LessonsStayApart
    <2>2. Weaves(s, w)'  BY <1>1, WeavesStays
    <2>3. Aims' /\ LostIsTouched' /\ Meshes'
      BY <1>1 DEF NotesInv, LinkInv, Aims, LostIsTouched, Meshes
    <2> QED  BY <1>1, <2>1, <2>2, <2>3, LinksStay
  <1>3. RepeatInv'
    <2>1. TitlesKept'  BY DEF NotesInv, RepeatInv, TitlesKept
    <2>2. /\ RepeatsAddNothing'
          /\ \A t \in Scribes, v \in WorkType : Knows(t, v) => Knows(t, v)'
      BY <1>1, <2>1, FewerRepeatLess
    <2>3. Alone'  BY AloneStays
    <2> QED  BY <2>1, <2>2, <2>3, RepeatStays
  <1> QED  BY <1>2, <1>3 DEF NotesInv

LEMMA ThreadRests ==
  ASSUME NotesInv, TenantInv', NEW s \in Scribes, Work(s, NoWork),
         UNCHANGED <<notes, minted, revived, touched, relinked, meshed, overlapped>>
  PROVE  NotesInv'
  <1>1. Weaves(s, NoWork) /\ Knows(s, NoWork) /\ Continues(s, NoWork)
    BY DEF Weaves, Knows, Continues, NoWork, Ids
  <1>2. Ids(NoWork.wrote) = {}  BY DEF NoWork, Ids
  <1> QED  BY <1>1, <1>2, NoWorkTyped, ThreadMoves

-----------------------------------------------------------------------------
(* The steps of a thread, for its links and its repeats.                   *)

\* The thread's new work, whatever the action made of it.
LEMMA NewWork ==
  ASSUME TenantInv', NEW s \in Scribes, NEW w, scribe \in [Scribes -> WorkType], Work(s, w)
  PROVE  w \in WorkType
  <1>1. scribe'[s] = w  BY DEF Work
  <1> QED  BY <1>1 DEF TenantInv, MemoryTypeOK

\* A user begins an operation.
LEMMA UserBegins ==
  ASSUME NotesInv, TenantInv', NEW u \in Users, NEW w, Work(u, w),
         w.rel = {} /\ w.wrote = <<>> /\ w.left = <<>>,
         \/ w.step \in {"check", "read", "unlink"}
         \/ w.step = "count" /\ w.op = "create" /\ w.note.run = NoRun,
         UNCHANGED <<notes, minted, revived, touched, relinked, meshed, overlapped>>
  PROVE  NotesInv'
  <1>0. u \in Scribes /\ u \notin Harvesters /\ u \notin Capturers  BY ThreadsApart
  <1>1. w \in WorkType  BY <1>0, NewWork DEF NotesInv, TenantInv, MemoryTypeOK
  <1>2. Weaves(u, w)  BY <1>0 DEF Weaves, Ids
  <1>3. Knows(u, w)  BY <1>0 DEF Knows
  <1>4. Continues(u, w)  BY DEF Continues
  <1>5. Ids(w.wrote) = {}  BY DEF Ids
  <1> QED  BY <1>0, <1>1, <1>2, <1>3, <1>4, <1>5, ThreadMoves

LEMMA BeginsKeep ==
  ASSUME NotesInv, TenantInv', NEW u \in Scribes,
         BeginCreate(u) \/ BeginUpdate(u) \/ BeginDelete(u)
  PROVE  NotesInv'
  <1>1. CASE BeginCreate(u)
    <2>4. PICK links \in SUBSET Linkable :
            Work(u, [NoWork EXCEPT !.step = "count", !.op = "create",
                       !.note = IF u = Editor THEN Note(OwnTitle, links, Global, Unstamped, NoRun)
                                              ELSE Note(OwnTitle, links, u, u, NoRun)])
      BY <1>1 DEF BeginCreate, Start
    <2> DEFINE draft == IF u = Editor THEN Note(OwnTitle, links, Global, Unstamped, NoRun)
                                      ELSE Note(OwnTitle, links, u, u, NoRun)
               w == [NoWork EXCEPT !.step = "count", !.op = "create", !.note = draft]
    <2>1. u \in Users /\ Work(u, w)  BY <1>1, <2>4 DEF BeginCreate
    <2>2. draft.run = NoRun  BY DEF Note
    <2>3. /\ w.step = "count" /\ w.op = "create" /\ w.note = draft
          /\ w.rel = {} /\ w.wrote = <<>> /\ w.left = <<>>
      BY DEF NoWork
    <2> HIDE DEF w, draft
    <2> QED  BY <1>1, <2>1, <2>2, <2>3, UserBegins DEF BeginCreate
  <1>2. CASE BeginUpdate(u)
    <2>1. PICK id \in Minted, patch \in {<<>>} \cup {<<links>> : links \in SUBSET Linkable} :
            Work(u, [NoWork EXCEPT !.step = IF u = Editor THEN "read" ELSE "check",
                       !.op = "update", !.id = id, !.patch = patch])
      BY <1>2 DEF BeginUpdate, Start
    <2> DEFINE w == [NoWork EXCEPT !.step = IF u = Editor THEN "read" ELSE "check",
                       !.op = "update", !.id = id, !.patch = patch]
    <2>2. /\ w.step \in {"check", "read"}
          /\ w.rel = {} /\ w.wrote = <<>> /\ w.left = <<>>
      BY DEF NoWork
    <2>3. Work(u, w) /\ u \in Users  BY <1>2, <2>1 DEF BeginUpdate
    <2> HIDE DEF w
    <2> QED  BY <1>2, <2>2, <2>3, UserBegins DEF BeginUpdate
  <1>3. CASE BeginDelete(u)
    <2>1. PICK id \in Minted :
            Work(u, [NoWork EXCEPT !.step = IF u = Editor THEN "unlink" ELSE "check",
                       !.op = "delete", !.id = id])
      BY <1>3 DEF BeginDelete, Start
    <2> DEFINE w == [NoWork EXCEPT !.step = IF u = Editor THEN "unlink" ELSE "check",
                       !.op = "delete", !.id = id]
    <2>2. /\ w.step \in {"check", "unlink"}
          /\ w.rel = {} /\ w.wrote = <<>> /\ w.left = <<>>
      BY DEF NoWork
    <2>3. Work(u, w) /\ u \in Users  BY <1>3, <2>1 DEF BeginDelete
    <2> HIDE DEF w
    <2> QED  BY <1>3, <2>2, <2>3, UserBegins DEF BeginDelete
  <1> QED  BY <1>1, <1>2, <1>3

\* A thread goes on with what it has in hand, or its write failed.
LEMMA GoesOn ==
  ASSUME NotesInv, TenantInv', NEW s \in Scribes, Work(s, Answered(s)),
         Does(s, "count") \/ Does(s, "write"),
         UNCHANGED <<notes, minted, revived, touched, relinked, meshed, overlapped>>
  PROVE  NotesInv'
  <1>1. CASE s \in Harvesters
    <2>1. PICK v \in WorkType :
            v = scribe[s] /\ Fits(s, v) /\ Weaves(s, v) /\ Knows(s, v)
      BY Hand
    <2> DEFINE w == [v EXCEPT !.step = "next"]
    <2>2. v.step \in {"count", "write"} /\ v.op = "lesson"
      BY <1>1, <2>1 DEF Does, Knows
    <2>3. Work(s, w)  BY <1>1, <2>1, <2>2 DEF Answered
    <2>4. w \in WorkType  BY DEF WorkType
    <2>5. /\ w.step = "next" /\ w.op = v.op /\ w.note = v.note /\ w.rel = v.rel
          /\ w.wrote = v.wrote /\ w.left = v.left /\ w.seen = v.seen
      BY DEF WorkType
    <2> HIDE DEF w
    <2>6. s \notin Capturers  BY <1>1, ThreadsApart
    <2>7. Weaves(s, w)  BY <2>1, <2>2, <2>5 DEF Weaves
    <2>8. Knows(s, w)  BY <1>1, <2>1, <2>2, <2>5, <2>6 DEF Knows
    <2>9. Continues(s, w)  BY <2>1, <2>2, <2>5 DEF Continues
    <2> QED  BY <2>1, <2>3, <2>4, <2>5, <2>7, <2>8, <2>9, ThreadMoves
  <1>2. CASE s \notin Harvesters  BY <1>2, ThreadRests DEF Answered
  <1> QED  BY <1>1, <1>2

LEMMA CountsKeep ==
  ASSUME NotesInv, TenantInv', NEW s \in Scribes, CountNotes(s)
  PROVE  NotesInv'
  <1>1. CASE Turn(s, "write")
    <2>1. PICK v \in WorkType :
            v = scribe[s] /\ Fits(s, v) /\ Weaves(s, v) /\ Knows(s, v)
      BY Hand
    <2> DEFINE w == [v EXCEPT !.step = "write"]
    <2>2. v.step = "count"  BY <2>1 DEF CountNotes, Does
    <2>3. Work(s, w)  BY <1>1, <2>1 DEF Turn
    <2>4. w \in WorkType  BY DEF WorkType
    <2>5. /\ w.step = "write" /\ w.op = v.op /\ w.note = v.note /\ w.rel = v.rel
          /\ w.wrote = v.wrote /\ w.left = v.left /\ w.seen = v.seen
      BY DEF WorkType
    <2> HIDE DEF w
    <2>7. Weaves(s, w)  BY <2>1, <2>2, <2>5 DEF Weaves
    <2>8. Knows(s, w)  BY <2>1, <2>2, <2>5 DEF Knows
    <2>9. Continues(s, w)  BY <2>1, <2>2, <2>5 DEF Continues
    <2> QED  BY <2>1, <2>3, <2>4, <2>5, <2>7, <2>8, <2>9, ThreadMoves DEF CountNotes
  <1>2. CASE Work(s, Answered(s))  BY <1>2, GoesOn DEF CountNotes
  <1> QED  BY <1>1, <1>2 DEF CountNotes

LEMMA ChecksKeep ==
  ASSUME NotesInv, TenantInv', NEW d \in Scribes, CheckTenant(d)
  PROVE  NotesInv'
  <1>1. CASE Work(d, NoWork)  BY <1>1, ThreadRests DEF CheckTenant
  <1>2. CASE Work(d, [scribe[d] EXCEPT !.may = Sees(d),
                        !.step = IF scribe[d].op = "update" THEN "read" ELSE "unlink"])
    <2>1. PICK v \in WorkType :
            v = scribe[d] /\ Fits(d, v) /\ Weaves(d, v) /\ Knows(d, v)
      BY Hand
    <2> DEFINE w == [v EXCEPT !.may = Sees(d),
                       !.step = IF v.op = "update" THEN "read" ELSE "unlink"]
    <2>2. v.step = "check"  BY <2>1 DEF CheckTenant, Does
    <2>3. Work(d, w)  BY <1>2, <2>1
    <2>4. w \in WorkType  BY <2>3, NewWork DEF NotesInv, TenantInv, MemoryTypeOK
    <2>5. /\ w.step \in {"read", "unlink"} /\ w.rel = v.rel /\ w.note = v.note
          /\ w.wrote = v.wrote /\ w.left = v.left
      BY DEF WorkType
    <2> HIDE DEF w
    <2>6. d \notin Harvesters /\ d \notin Capturers  BY <2>1, <2>2 DEF Fits
    <2>7. Weaves(d, w)  BY <2>1, <2>5, <2>6 DEF Weaves
    <2>8. Knows(d, w)  BY <2>5, <2>6 DEF Knows
    <2>9. Continues(d, w)  BY <2>1, <2>2, <2>5 DEF Continues
    <2> QED  BY <2>1, <2>3, <2>4, <2>5, <2>7, <2>8, <2>9, ThreadMoves DEF CheckTenant
  <1> QED  BY <1>1, <1>2 DEF CheckTenant

LEMMA ReadsKeep ==
  ASSUME NotesInv, TenantInv', NEW s \in Scribes, ReadNote(s)
  PROVE  NotesInv'
  <1>1. PICK v \in WorkType :
          v = scribe[s] /\ Fits(s, v) /\ Weaves(s, v) /\ Knows(s, v)
    BY Hand
  <1>2. v.step = "read" /\ v.id \in Minted  BY <1>1 DEF ReadNote, Does, Fits
  <1>3. s \notin Capturers  BY <1>1, <1>2 DEF Fits
  <1>4. CASE v.id \in DOMAIN notes
    <2> DEFINE w == [v EXCEPT !.step = "replace", !.note = notes[v.id]]
    <2>1. Work(s, w)  BY <1>1, <1>4 DEF ReadNote
    <2>2. w \in WorkType  BY <2>1, NewWork DEF NotesInv, TenantInv, MemoryTypeOK
    <2>3. /\ w.step = "replace" /\ w.id = v.id /\ w.note = notes[v.id] /\ w.rel = v.rel
          /\ w.wrote = v.wrote /\ w.left = v.left
      BY DEF WorkType
    <2> HIDE DEF w
    <2>4. /\ v.id \notin relinked /\ minted[v.id].by # "create" =>
               notes[v.id].links \subseteq Minted \ {v.id}
          /\ notes[v.id].title = minted[v.id].note.title
      BY <1>4 DEF NotesInv, LinkInv, Aims, RepeatInv, TitlesKept
    <2>7. Weaves(s, w)  BY <1>1, <1>2, <2>3, <2>4 DEF Weaves
    <2>8. Knows(s, w)  BY <1>3, <2>3, <2>4 DEF Knows
    <2>9. Continues(s, w)  BY <1>1, <1>2, <1>3, ThreadsApart DEF Continues
    <2> QED  BY <1>1, <2>1, <2>2, <2>3, <2>7, <2>8, <2>9, ThreadMoves DEF ReadNote
  <1>5. CASE v.id \notin DOMAIN notes
    <2>1. Work(s, Answered(s))  BY <1>1, <1>5 DEF ReadNote
    <2>2. CASE s \in Harvesters
      <3> DEFINE w == [v EXCEPT !.step = "mesh"]
      <3>1. Work(s, w)  BY <1>1, <1>2, <2>1, <2>2 DEF Answered, Fits
      <3>2. w \in WorkType  BY DEF WorkType
      <3>3. /\ w.step = "mesh" /\ w.rel = v.rel /\ w.note = v.note /\ w.wrote = v.wrote
            /\ w.left = v.left
        BY DEF WorkType
      <3> HIDE DEF w
      <3>4. v.id \in touched
        BY <1>2, <1>5 DEF NotesInv, LinkInv, LostIsTouched
      <3>5. Weaves(s, w)  BY <1>1, <1>2, <2>2, <3>3, <3>4 DEF Weaves
      <3>6. Knows(s, w)  BY <3>3 DEF Knows
      <3>7. Continues(s, w)  BY <1>1, <1>2, <3>3 DEF Continues
      <3> QED  BY <1>1, <3>1, <3>2, <3>3, <3>5, <3>6, <3>7, ThreadMoves DEF ReadNote
    <2>3. CASE s \notin Harvesters  BY <2>1, <2>3, ThreadRests DEF Answered, ReadNote
    <2> QED  BY <2>2, <2>3
  <1> QED  BY <1>4, <1>5

\* A harvest or a capture begins: it knows the listing of its caller.
LEMMA HarvestsKeep ==
  ASSUME NotesInv, TenantInv', NEW h \in Scribes, Harvest(h)
  PROVE  NotesInv'
  <1>1. PICK todo \in LessonLists, ws \in Desks \cup {Global}, rel \in {{}, DOMAIN notes} :
          Work(h, [NoWork EXCEPT !.step = "next", !.op = "lesson", !.todo = todo, !.rel = rel,
                     !.note = Note(OwnTitle, rel, ws, LessonWriter, NoRun), !.seen = TitlesOnDisk])
    BY DEF Harvest, Start
  <1>0. PICK titles : titles = TitlesOnDisk  OBVIOUS
  <1> DEFINE draft == Note(OwnTitle, rel, ws, LessonWriter, NoRun)
             w == [NoWork EXCEPT !.step = "next", !.op = "lesson", !.todo = todo, !.rel = rel,
                     !.note = draft, !.seen = titles]
  <1>2. Work(h, w)  BY <1>0, <1>1
  <1>3. w \in WorkType  BY <1>2, NewWork DEF NotesInv, TenantInv, MemoryTypeOK
  <1>4. draft.links = rel /\ draft.run = NoRun  BY DEF Note
  <1>5. /\ w.step = "next" /\ w.op = "lesson" /\ w.note = draft /\ w.rel = rel
        /\ w.seen = titles /\ w.wrote = <<>> /\ w.left = <<>>
    BY DEF NoWork
  <1> HIDE DEF w, draft
  <1>6. rel \subseteq Minted /\ Minted' = Minted
    BY DEF NotesInv, TenantInv, MemoryTypeOK, Harvest, Minted
  <1>7. h \in Harvesters /\ h \notin Capturers  BY ThreadsApart DEF Harvest
  <1>8. Ids(w.wrote) = {}  BY <1>5 DEF Ids
  <1>9. LinkInv'
    <2>1. Weaves(h, w)  BY <1>4, <1>5, <1>6 DEF Weaves, Ids
    <2>2. Weaves(h, w)'  BY <1>3, <1>6, <2>1, WeavesStays DEF Harvest
    <2>3. LessonsApart'  BY <1>2, <1>3, <1>6, <1>8, LessonsStayApart DEF Harvest
    <2>4. Aims' /\ LostIsTouched' /\ Meshes'
      BY <1>6 DEF Harvest, NotesInv, LinkInv, Aims, LostIsTouched, Meshes
    <2> QED  BY <1>2, <1>3, <1>6, <2>2, <2>3, <2>4, LinksStay DEF Harvest
  <1>10. RepeatInv'
    <2>1. TitlesKept'  BY DEF Harvest, NotesInv, RepeatInv, TitlesKept
    <2>2. Clean' => Clean  BY DEF Harvest, Clean
    <2>3. /\ RepeatsAddNothing'
          /\ \A t \in Scribes, x \in WorkType : Knows(t, x) => Knows(t, x)'
      BY <2>1, <2>2, FewerRepeatLess DEF Harvest
    <2>4. Knows(h, w)  BY <1>0, <1>4, <1>5, <1>7 DEF Knows, TitlesOnDisk
    <2>5. Knows(h, w)'  BY <1>3, <2>3, <2>4
    <2>6. Alone'
      <3>1. scribe \in [Scribes -> WorkType]  BY DEF NotesInv, TenantInv, MemoryTypeOK
      <3>2. \A t \in Scribes : t # h => scribe'[t] = scribe[t]
        BY <1>2, <3>1 DEF Work
      <3>3. /\ \A g \in Harvesters : g \in Scribes
            /\ \A c \in Capturers : c \in Scribes /\ c # h
        BY <1>7 DEF Scribes
      <3>4. Alone  BY DEF NotesInv, RepeatInv
      <3>5. overlapped' = (overlapped \/ \E k \in Harvesters : ~Does(k, "idle"))
        BY DEF Harvest
      <3>6. ~overlapped' => ~overlapped /\ \A k \in Harvesters : Does(k, "idle")
        BY <3>5 DEF NotesInv, TenantInv, MemoryTypeOK
      <3> QED  BY <3>2, <3>3, <3>4, <3>6 DEF Alone, Does
    <2> QED  BY <1>2, <1>3, <2>1, <2>3, <2>5, <2>6, RepeatStays
  <1> QED  BY <1>9, <1>10 DEF NotesInv

LEMMA CapturesKeep ==
  ASSUME NotesInv, TenantInv', NEW c \in Scribes, Capture(c)
  PROVE  NotesInv'
  <1>1. PICK r \in MemoryRuns, ws \in Desks \cup {Global}, rel \in {{}, DOMAIN notes} :
          /\ \A i \in DOMAIN notes : notes[i].run # r
          /\ Work(c, [NoWork EXCEPT !.step = "count", !.op = "capture",
                       !.note = Note(OwnTitle, rel, ws, Unstamped, r)])
          /\ overlapped' = (overlapped \/ \E k \in Capturers : ~Does(k, "idle") /\ scribe[k].note.run = r)
    BY DEF Capture, Start
  <1> DEFINE draft == Note(OwnTitle, rel, ws, Unstamped, r)
             w == [NoWork EXCEPT !.step = "count", !.op = "capture", !.note = draft]
  <1>2. Work(c, w)  BY <1>1
  <1>3. w \in WorkType  BY <1>2, NewWork DEF NotesInv, TenantInv, MemoryTypeOK
  <1>4. draft.links = rel /\ draft.run = r  BY DEF Note
  <1>5. /\ w.step = "count" /\ w.op = "capture" /\ w.note = draft /\ w.rel = {}
        /\ w.wrote = <<>> /\ w.left = <<>>
    BY DEF NoWork
  <1> HIDE DEF w, draft
  <1>6. rel \subseteq Minted /\ Minted' = Minted
    BY DEF NotesInv, TenantInv, MemoryTypeOK, Capture, Minted
  <1>7. c \in Capturers /\ c \notin Harvesters  BY ThreadsApart DEF Capture
  <1>8. Ids(w.wrote) = {}  BY <1>5 DEF Ids
  <1>9. LinkInv'
    <2>1. Weaves(c, w)  BY <1>4, <1>5, <1>6, <1>7 DEF Weaves, Ids
    <2>2. Weaves(c, w)'  BY <1>3, <1>6, <2>1, WeavesStays DEF Capture
    <2>3. LessonsApart'  BY <1>2, <1>3, <1>6, <1>8, LessonsStayApart DEF Capture
    <2>4. Aims' /\ LostIsTouched' /\ Meshes'
      BY <1>6 DEF Capture, NotesInv, LinkInv, Aims, LostIsTouched, Meshes
    <2> QED  BY <1>2, <1>3, <1>6, <2>2, <2>3, <2>4, LinksStay DEF Capture
  <1>10. RepeatInv'
    <2>1. TitlesKept'  BY DEF Capture, NotesInv, RepeatInv, TitlesKept
    <2>2. Clean' => Clean  BY DEF Capture, Clean
    <2>3. /\ RepeatsAddNothing'
          /\ \A t \in Scribes, x \in WorkType : Knows(t, x) => Knows(t, x)'
      BY <2>1, <2>2, FewerRepeatLess DEF Capture
    <2>4. Knows(c, w)  BY <1>1, <1>4, <1>5, <1>7, MemoryAssumption DEF Knows
    <2>5. Knows(c, w)'  BY <1>3, <2>3, <2>4
    <2>6. Alone'
      <3>1. scribe \in [Scribes -> WorkType]  BY DEF NotesInv, TenantInv, MemoryTypeOK
      <3>2. scribe'[c] = w /\ \A t \in Scribes : t # c => scribe'[t] = scribe[t]
        BY <1>2, <3>1 DEF Work
      <3>3. /\ \A g \in Harvesters : g \in Scribes /\ g # c
            /\ \A k \in Capturers : k \in Scribes
        BY <1>7 DEF Scribes
      <3>4. Alone  BY DEF NotesInv, RepeatInv
      <3>5. ~overlapped' => /\ ~overlapped
                            /\ \A k \in Capturers : Does(k, "idle") \/ scribe[k].note.run # r
        BY <1>1 DEF NotesInv, TenantInv, MemoryTypeOK
      <3> QED  BY <1>4, <1>5, <3>2, <3>3, <3>4, <3>5 DEF Alone, Does
    <2> QED  BY <1>2, <1>3, <2>1, <2>3, <2>5, <2>6, RepeatStays
  <1> QED  BY <1>9, <1>10 DEF NotesInv

LEMMA NextLessonsKeep ==
  ASSUME NotesInv, TenantInv', NEW h \in Scribes, NextLesson(h)
  PROVE  NotesInv'
  <1>1. PICK v \in WorkType :
          v = scribe[h] /\ Fits(h, v) /\ Weaves(h, v) /\ Knows(h, v)
    BY Hand
  <1>2. v.step = "next" /\ v.todo # <<>>  BY <1>1 DEF NextLesson, Does
  <1>3. h \in Harvesters /\ h \notin Capturers  BY <1>1, <1>2, ThreadsApart DEF Fits
  <1> DEFINE title == Head(v.todo)
             w == [v EXCEPT !.todo = Tail(@), !.note.title = title,
                     !.step = IF title \in v.seen THEN "next" ELSE "count"]
  <1>4. Work(h, w)  BY <1>1 DEF NextLesson
  <1>5. w \in WorkType  BY <1>4, NewWork DEF NotesInv, TenantInv, MemoryTypeOK
  <1>6. /\ w.step = IF title \in v.seen THEN "next" ELSE "count"
        /\ w.op = v.op /\ w.rel = v.rel /\ w.wrote = v.wrote /\ w.left = v.left
        /\ w.seen = v.seen
        /\ w.note.title = title /\ w.note.links = v.note.links /\ w.note.run = v.note.run
    BY DEF WorkType, NoteType
  <1> HIDE DEF w, title
  <1>7. Weaves(h, w)  BY <1>1, <1>2, <1>6 DEF Weaves
  <1>8. Knows(h, w)  BY <1>1, <1>2, <1>3, <1>6 DEF Knows
  <1>9. Continues(h, w)  BY <1>1, <1>2, <1>3 DEF Continues
  <1> QED  BY <1>1, <1>4, <1>5, <1>6, <1>7, <1>8, <1>9, ThreadMoves DEF NextLesson

LEMMA MeshBeginsKeep ==
  ASSUME NotesInv, TenantInv', NEW h \in Scribes, MeshBegins(h)
  PROVE  NotesInv'
  <1>1. PICK v \in WorkType :
          v = scribe[h] /\ Fits(h, v) /\ Weaves(h, v) /\ Knows(h, v)
    BY Hand
  <1>2. v.step = "next"  BY <1>1 DEF MeshBegins, Does
  <1>3. h \in Harvesters  BY <1>1, <1>2 DEF Fits
  <1>4. CASE Work(h, NoWork)  BY <1>4, ThreadRests DEF MeshBegins
  <1>5. CASE Work(h, [v EXCEPT !.step = "mesh", !.op = "mesh", !.left = v.wrote])
    <2> DEFINE w == [v EXCEPT !.step = "mesh", !.op = "mesh", !.left = v.wrote]
    <2>1. Work(h, w)  BY <1>5
    <2>2. w \in WorkType  BY <2>1, NewWork DEF NotesInv, TenantInv, MemoryTypeOK
    <2>3. w.step = "mesh" /\ w.left = v.wrote /\ w.wrote = v.wrote /\ w.rel = v.rel
      BY DEF WorkType
    <2> HIDE DEF w
    <2>4. Weaves(h, w)  BY <1>1, <2>3 DEF Weaves
    <2>5. Knows(h, w)  BY <2>3 DEF Knows
    <2>6. Continues(h, w)  BY <1>1, <1>2, <1>3 DEF Continues
    <2> QED  BY <1>1, <2>1, <2>2, <2>3, <2>4, <2>5, <2>6, ThreadMoves DEF MeshBegins
  <1> QED  BY <1>1, <1>4, <1>5 DEF MeshBegins

\* The harvest takes the next of its lessons, or all of them are linked.
LEMMA MeshNextsKeep ==
  ASSUME NotesInv, TenantInv', NEW h \in Scribes, MeshNext(h)
  PROVE  NotesInv'
  <1>1. PICK v \in WorkType :
          v = scribe[h] /\ Fits(h, v) /\ Weaves(h, v) /\ Knows(h, v)
    BY Hand
  <1>2. v.step = "mesh"  BY <1>1 DEF MeshNext, Does
  <1>3. h \in Harvesters /\ h \notin Capturers  BY <1>1, <1>2, ThreadsApart DEF Fits
  <1>4. CASE v.left # <<>> /\ UNCHANGED meshed
             /\ Work(h, [v EXCEPT !.step = "read", !.id = Head(v.left), !.left = Tail(@)])
    <2> DEFINE w == [v EXCEPT !.step = "read", !.id = Head(v.left), !.left = Tail(@)]
    <2>1. Work(h, w)  BY <1>4
    <2>2. w \in WorkType  BY <2>1, NewWork DEF NotesInv, TenantInv, MemoryTypeOK
    <2>3. /\ w.step = "read" /\ w.id = Head(v.left) /\ w.left = Tail(v.left)
          /\ w.wrote = v.wrote /\ w.rel = v.rel
      BY DEF WorkType
    <2> HIDE DEF w
    <2>4. v.left \in Seq(NoteIds) /\ v.left # <<>>  BY <1>4 DEF WorkType
    <2>5. Ids(v.left) = {Head(v.left)} \cup Ids(Tail(v.left))
      <3>1. ASSUME NEW k \in DOMAIN v.left
            PROVE  v.left[k] = Head(v.left) \/ \E j \in DOMAIN Tail(v.left) : v.left[k] = Tail(v.left)[j]
        <4>1. CASE k = 1  BY <2>4, <4>1
        <4>2. CASE k # 1
          <5>1. k - 1 \in DOMAIN Tail(v.left) /\ Tail(v.left)[k - 1] = v.left[k]
            BY <2>4, <4>2
          <5> QED  BY <5>1
        <4> QED  BY <4>1, <4>2
      <3>2. ASSUME NEW j \in DOMAIN Tail(v.left)
            PROVE  \E k \in DOMAIN v.left : v.left[k] = Tail(v.left)[j]
        <4>1. j + 1 \in DOMAIN v.left /\ v.left[j + 1] = Tail(v.left)[j]  BY <2>4
        <4> QED  BY <4>1
      <3>3. 1 \in DOMAIN v.left /\ v.left[1] = Head(v.left)  BY <2>4
      <3> QED  BY <3>1, <3>2, <3>3 DEF Ids
    <2>6. Weaves(h, w)  BY <1>1, <1>2, <2>3, <2>5 DEF Weaves
    <2>7. Knows(h, w)  BY <2>3 DEF Knows
    <2>8. Continues(h, w)  BY <1>1, <1>2, <1>3 DEF Continues
    <2> QED  BY <1>1, <1>4, <2>1, <2>2, <2>3, <2>6, <2>7, <2>8, ThreadMoves DEF MeshNext
  <1>5. CASE v.left = <<>> /\ Work(h, NoWork) /\ meshed' = meshed \cup {Ids(v.wrote)}
    <2>1. Minted' = Minted /\ Clean' = Clean  BY DEF Minted, Clean, MeshNext
    <2>2. Ids(NoWork.wrote) = {}  BY DEF NoWork, Ids
    <2>3. LinkInv'
      <3>1. Weaves(h, NoWork)  BY DEF Weaves, NoWork, Ids
      <3>2. Weaves(h, NoWork)'  BY <2>1, <3>1, NoWorkTyped, WeavesStays DEF MeshNext
      <3>3. \A i \in Ids(v.wrote) \ touched : Ids(v.wrote) \ {i} \subseteq notes[i].links
        BY <1>1, <1>2, <1>3, <1>5 DEF Weaves, Ids
      <3>4. LessonsApart'
        <4>1. scribe \in [Scribes -> WorkType]  BY DEF NotesInv, TenantInv, MemoryTypeOK
        <4>2. /\ scribe'[h] = NoWork
              /\ \A t \in Scribes : t # h => scribe'[t] = scribe[t]
          BY <1>5, <4>1 DEF Work
        <4>3. LessonsApart  BY DEF NotesInv, LinkInv
        <4>4. \A t \in Scribes : Ids(scribe[t].wrote)' = Ids(scribe'[t].wrote)  BY DEF Ids
        <4>5. Ids(v.wrote) \subseteq Minted  BY <1>1, Hand
        <4> HIDE DEF Ids
        <4> QED  BY <1>1, <1>5, <2>1, <2>2, <4>2, <4>3, <4>4, <4>5 DEF LessonsApart
      <3>5. Meshes'
        <4>1. Meshes /\ notes' = notes /\ touched' = touched
          BY DEF MeshNext, NotesInv, LinkInv
        <4> HIDE DEF Ids
        <4> QED  BY <1>5, <3>3, <4>1 DEF Meshes
      <3>6. Aims' /\ LostIsTouched'
        BY <2>1 DEF MeshNext, NotesInv, LinkInv, Aims, LostIsTouched
      <3> QED  BY <1>5, <2>1, <3>2, <3>4, <3>5, <3>6, NoWorkTyped, LinksStay DEF MeshNext
    <2>4. RepeatInv'
      <3>1. TitlesKept'  BY DEF MeshNext, NotesInv, RepeatInv, TitlesKept
      <3>2. /\ RepeatsAddNothing'
            /\ \A t \in Scribes, x \in WorkType : Knows(t, x) => Knows(t, x)'
        BY <2>1, <3>1, FewerRepeatLess DEF MeshNext
      <3>3. Knows(h, NoWork)'  BY DEF Knows, NoWork
      <3>4. Alone'
        <4>1. Continues(h, NoWork)  BY DEF Continues, NoWork
        <4> QED  BY <1>5, <4>1, NoWorkTyped, AloneStays DEF MeshNext
      <3> QED  BY <1>5, <3>1, <3>2, <3>3, <3>4, NoWorkTyped, RepeatStays
    <2> QED  BY <2>3, <2>4 DEF NotesInv
  <1> QED  BY <1>1, <1>4, <1>5 DEF MeshNext, Ids

\* A note is written under an id nobody had.
LEMMA WritesKeep ==
  ASSUME NotesInv, TenantInv', NEW s \in Scribes, WriteNew(s)
  PROVE  NotesInv'
  <1>1. PICK v \in WorkType :
          v = scribe[s] /\ Fits(s, v) /\ Weaves(s, v) /\ Knows(s, v)
    BY Hand
  <1>2. v.step = "write"  BY <1>1 DEF WriteNew, Does
  <1>3. PICK id : id = Len(minted) + 1  OBVIOUS
  <1>4. CASE Work(s, Answered(s)) /\ UNCHANGED <<notes, minted>>
    BY <1>1, <1>2, <1>4, GoesOn DEF WriteNew, Does
  <1>5. CASE /\ notes' = [i \in DOMAIN notes \cup {id} |-> IF i = id THEN v.note ELSE notes[i]]
             /\ minted' = Append(minted, [note |-> v.note, by |-> v.op])
             /\ Work(s, IF s \in Harvesters
                        THEN [Answered(s) EXCEPT !.seen = @ \cup {v.note.title}, !.wrote = Append(@, id)]
                        ELSE NoWork)
    <2>1. /\ minted \in Seq([note : NoteType, by : {"create", "lesson", "capture"}])
          /\ v.op \in {"create", "lesson", "capture"}
      BY <1>1, <1>2 DEF NotesInv, TenantInv, MemoryTypeOK, Fits
    <2>2. /\ minted'[id].note = v.note /\ minted'[id].by = v.op
          /\ \A i \in Minted : minted'[i] = minted[i]
          /\ Minted' = Minted \cup {id} /\ id \notin Minted
      <3>1. v.note \in NoteType  BY DEF WorkType
      <3> DEFINE new == [note |-> v.note, by |-> v.op]
      <3>2. new \in [note : NoteType, by : {"create", "lesson", "capture"}]  BY <2>1, <3>1
      <3>3. minted' = Append(minted, new)  BY <1>5
      <3>4. new.note = v.note /\ new.by = v.op  OBVIOUS
      <3> HIDE DEF new
      <3> QED  BY <1>3, <2>1, <3>2, <3>3, <3>4 DEF Minted
    <2>3. /\ DOMAIN notes' = DOMAIN notes \cup {id} /\ notes'[id] = v.note
          /\ id \notin DOMAIN notes
          /\ \A i \in DOMAIN notes : notes'[i] = notes[i] /\ i \in Minted
      BY <1>5, <2>2 DEF NotesInv, TenantInv, MemoryTypeOK
    <2>4. UNCHANGED <<ops, revived, touched, relinked, meshed, overlapped>>  BY DEF WriteNew
    <2>5. \A i \in Minted \ touched : notes'[i].links = notes[i].links
      BY <2>3 DEF NotesInv, LinkInv, LostIsTouched
    <2>6. PICK w \in WorkType :
            /\ Work(s, w)
            /\ \/ w = NoWork
               \/ /\ s \in Harvesters /\ v.op = "lesson" /\ w.step = "next" /\ w.op = "lesson"
                  /\ w.rel = v.rel /\ w.left = v.left /\ w.note = v.note
                  /\ w.seen = v.seen \cup {v.note.title} /\ w.wrote = Append(v.wrote, id)
      <3>1. CASE s \notin Harvesters  BY <1>5, <3>1, NoWorkTyped
      <3>2. CASE s \in Harvesters
        <4> DEFINE w == [v EXCEPT !.step = "next", !.seen = @ \cup {v.note.title},
                           !.wrote = Append(@, id)]
        <4>1. v.op = "lesson"  BY <1>1, <1>2, <3>2 DEF Knows
        <4>2. Work(s, w)  BY <1>1, <1>5, <3>2, <4>1 DEF Answered, WorkType
        <4>3. w \in WorkType  BY <4>2, NewWork DEF NotesInv, TenantInv, MemoryTypeOK
        <4>4. /\ w.step = "next" /\ w.op = v.op /\ w.rel = v.rel /\ w.left = v.left
              /\ w.note = v.note /\ w.seen = v.seen \cup {v.note.title}
              /\ w.wrote = Append(v.wrote, id)
          BY DEF WorkType
        <4> HIDE DEF w
        <4> QED  BY <3>2, <4>1, <4>2, <4>3, <4>4
      <3> QED  BY <3>1, <3>2
    <2>7. Ids(w.wrote) \subseteq Ids(v.wrote) \cup {id}
          /\ (w # NoWork => Ids(v.wrote) \subseteq Ids(w.wrote))
      <3>1. CASE w = NoWork  BY <3>1 DEF NoWork, Ids
      <3>2. CASE w.wrote = Append(v.wrote, id)
        <4>1. v.wrote \in Seq(NoteIds)  BY DEF WorkType
        <4>2. /\ \A k \in DOMAIN Append(v.wrote, id) :
                   Append(v.wrote, id)[k] = id \/ (k \in DOMAIN v.wrote /\ Append(v.wrote, id)[k] = v.wrote[k])
              /\ \A k \in DOMAIN v.wrote :
                   k \in DOMAIN Append(v.wrote, id) /\ Append(v.wrote, id)[k] = v.wrote[k]
          BY <4>1
        <4> QED  BY <3>2, <4>2 DEF Ids
      <3> QED  BY <2>6, <3>1, <3>2
    <2>8. scribe \in [Scribes -> WorkType]  BY DEF NotesInv, TenantInv, MemoryTypeOK
    <2>9. /\ scribe'[s] = w
          /\ \A t \in Scribes : t # s => scribe'[t] = scribe[t]
      BY <2>6, <2>8 DEF Work
    <2>10. LinkInv'
      <3>1. Weaves(s, w)'
        <4>1. CASE w = NoWork  BY <4>1 DEF Weaves, NoWork, Ids
        <4>2. CASE w # NoWork
          <5>1. /\ w.step = "next" /\ w.rel = v.rel /\ w.left = v.left /\ w.note = v.note
                /\ v.op = "lesson"
            BY <2>6, <4>2
          <5>2. v.rel \subseteq Minted /\ (v.note.links \subseteq Minted \/ v.op = "create")
                /\ Ids(v.left) \subseteq Ids(v.wrote)
            BY <1>1, <1>2 DEF Weaves
          <5>3. Ids(w.left) \subseteq Ids(w.wrote)  BY <2>7, <4>2, <5>1, <5>2 DEF Ids
          <5> QED  BY <2>2, <5>1, <5>2, <5>3 DEF Weaves, Ids
        <4> QED  BY <4>1, <4>2
      <3>2. LessonsApart'
        <4>1. LessonsApart  BY DEF NotesInv, LinkInv
        <4>2. \A t \in Scribes : Ids(scribe[t].wrote)' = Ids(scribe'[t].wrote)  BY DEF Ids
        <4>3. \A t \in Scribes : Ids(scribe[t].wrote) \subseteq Minted  BY Hand
        <4>4. \A t \in Scribes : t # s => id \notin Ids(scribe[t].wrote)
          BY <2>2, <4>3
        <4> HIDE DEF Ids
        <4>5. ASSUME NEW t \in Scribes, NEW u \in Scribes, t # u
              PROVE  Ids(scribe'[t].wrote) \cap Ids(scribe'[u].wrote) = {}
          <5>1. Ids(scribe[t].wrote) \cap Ids(scribe[u].wrote) = {}
            BY <4>1, <4>5 DEF LessonsApart
          <5>2. CASE t = s  BY <1>1, <2>7, <2>9, <4>4, <4>5, <5>1, <5>2
          <5>3. CASE u = s  BY <1>1, <2>7, <2>9, <4>4, <4>5, <5>1, <5>3
          <5>4. CASE t # s /\ u # s  BY <2>9, <5>1, <5>4
          <5> QED  BY <5>2, <5>3, <5>4
        <4>6. ASSUME NEW batch \in meshed, NEW t \in Scribes
              PROVE  batch \subseteq Minted' /\ batch \cap Ids(scribe'[t].wrote) = {}
          <5>1. batch \subseteq Minted /\ batch \cap Ids(scribe[t].wrote) = {}
            BY <4>1 DEF LessonsApart
          <5>2. CASE t = s  BY <1>1, <2>2, <2>7, <2>9, <5>1, <5>2
          <5>3. CASE t # s  BY <2>2, <2>9, <5>1, <5>3
          <5> QED  BY <5>2, <5>3
        <4> QED  BY <2>4, <4>2, <4>5, <4>6 DEF LessonsApart
      <3>3. Aims'
        <4>1. v.op # "create" => v.note.links \subseteq Minted  BY <1>1, <1>2 DEF Weaves
        <4> QED  BY <2>2, <2>3, <2>4, <4>1 DEF NotesInv, LinkInv, Aims
      <3>4. LostIsTouched'  BY <2>2, <2>3, <2>4 DEF NotesInv, LinkInv, LostIsTouched
      <3>5. Meshes'
        <4>1. \A batch \in meshed : batch \subseteq Minted
          BY DEF NotesInv, LinkInv, LessonsApart, Fits
        <4> QED  BY <2>4, <2>5, <4>1 DEF NotesInv, LinkInv, Meshes
      <3>6. \A t \in Scribes \ {s} : \A i \in Ids(scribe[t].wrote) \ touched' :
              notes'[i].links = notes[i].links
        <4>1. \A t \in Scribes : Ids(scribe[t].wrote) \subseteq Minted  BY Hand
        <4> QED  BY <2>4, <2>5, <4>1
      <3> QED  BY <2>2, <2>4, <2>6, <3>1, <3>2, <3>3, <3>4, <3>5, <3>6, LinksStay
    <2>11. RepeatInv'
      <3>1. Clean' = Clean  BY <2>4 DEF Clean
      <3>2. TitlesKept'  BY <2>2, <2>3 DEF NotesInv, RepeatInv, TitlesKept
      <3>3. s \in Harvesters => s \notin Capturers  BY ThreadsApart
      <3>4. ASSUME Clean, NEW i \in DOMAIN notes
            PROVE  /\ v.op = "lesson" /\ minted[i].by = "lesson" => notes[i].title # v.note.title
                   /\ notes[i].run = v.note.run => v.note.run = NoRun
        BY <1>1, <1>2, <3>4 DEF Knows
      <3>5. RepeatsAddNothing'
        <4> SUFFICES ASSUME Clean, NEW i \in DOMAIN notes', NEW k \in DOMAIN notes', i # k
                     PROVE  /\ minted'[i].by = "lesson" /\ minted'[k].by = "lesson"
                                 => notes'[i].title # notes'[k].title
                            /\ notes'[i].run = notes'[k].run => notes'[i].run = NoRun
          BY <3>1 DEF RepeatsAddNothing, Clean
        <4>1. CASE i = id  BY <2>2, <2>3, <3>4, <4>1
        <4>2. CASE k = id  BY <2>2, <2>3, <3>4, <4>2
        <4>3. CASE i # id /\ k # id
          <5>1. RepeatsAddNothing  BY DEF NotesInv, RepeatInv
          <5> QED  BY <2>2, <2>3, <4>3, <5>1 DEF RepeatsAddNothing, Clean
        <4> QED  BY <4>1, <4>2, <4>3
      <3>6. Alone
        BY DEF NotesInv, RepeatInv
      <3>7. Alone'
        <4>1. Continues(s, w)
          <5>1. CASE w = NoWork  BY <5>1 DEF Continues, NoWork
          <5>2. CASE w # NoWork  BY <1>1, <1>2, <2>6, <5>2 DEF Continues
          <5> QED  BY <5>1, <5>2
        <4> QED  BY <2>4, <2>6, <4>1, AloneStays
      <3>8. Knows(s, w)'
        <4>1. CASE w = NoWork  BY <4>1 DEF Knows, NoWork
        <4>2. CASE w # NoWork
          <5>1. /\ s \in Harvesters /\ w.step = "next" /\ w.op = "lesson"
                /\ w.note = v.note /\ w.seen = v.seen \cup {v.note.title}
            BY <2>6, <4>2
          <5>2. v.note.run = NoRun  BY <1>1, <1>2, <3>3, <5>1 DEF Knows
          <5>3. Clean => \A i \in DOMAIN notes' : minted'[i].by = "lesson" => notes'[i].title \in w.seen
            BY <1>1, <1>2, <2>2, <2>3, <5>1 DEF Knows
          <5> HIDE DEF Clean
          <5> QED  BY <3>1, <3>3, <5>1, <5>2, <5>3 DEF Knows
        <4> QED  BY <4>1, <4>2
      <3>9. ASSUME NEW t \in Scribes \ {s} PROVE Knows(t, scribe[t])'
        <4>1. PICK x \in WorkType :
                x = scribe[t] /\ Fits(t, x) /\ Knows(t, x)
          BY Hand
        <4>2. scribe'[t] = x  BY <2>9, <4>1
        <4>3. x.step = "replace" => x.id \in Minted  BY <4>1 DEF Fits
        <4>4. ASSUME Clean, t \in Harvesters, x.step \in {"next", "count", "write"}
              PROVE  v.op # "lesson"
          <5>1. s \notin Harvesters  BY <1>1, <1>2, <3>6, <4>1, <4>4 DEF Alone, Does, Clean
          <5> QED  BY <1>1, <1>2, <5>1 DEF Knows
        <4>5. ASSUME Clean, t \in Capturers, x.step \in {"count", "write"}
              PROVE  v.note.run # x.note.run
          <5>1. x.note.run # NoRun  BY <4>1, <4>5 DEF Knows
          <5>2. CASE s \in Capturers
            BY <1>1, <1>2, <3>6, <4>1, <4>5, <5>2 DEF Alone, Does, Clean
          <5>3. CASE s \notin Capturers  BY <1>1, <1>2, <5>1, <5>3 DEF Knows
          <5> QED  BY <5>2, <5>3
        <4>6. t \in Harvesters /\ x.step \in {"next", "count", "write"} /\ Clean =>
                \A i \in DOMAIN notes' : minted'[i].by = "lesson" => notes'[i].title \in x.seen
          BY <2>2, <2>3, <4>1, <4>4 DEF Knows
        <4>7. t \in Capturers /\ x.step \in {"count", "write"} /\ Clean =>
                \A i \in DOMAIN notes' : notes'[i].run # x.note.run
          BY <2>3, <4>1, <4>5 DEF Knows
        <4>8. x.step = "replace" => minted'[x.id].note = minted[x.id].note
          BY <2>2, <4>3
        <4> HIDE DEF Clean
        <4>9. Knows(t, x)'  BY <3>1, <4>1, <4>6, <4>7, <4>8 DEF Knows
        <4> QED  BY <4>2, <4>9 DEF Knows, Clean
      <3>10. Knows(s, scribe[s])'  BY <2>9, <3>8 DEF Knows, Clean
      <3> QED  BY <3>2, <3>5, <3>7, <3>9, <3>10 DEF RepeatInv
    <2> QED  BY <2>10, <2>11 DEF NotesInv
  <1> QED  BY <1>1, <1>3, <1>4, <1>5 DEF WriteNew

\* A copy written back: by a harvest over a lesson of its own, with links to
\* the others, or by a user.
LEMMA ReplacesKeep ==
  ASSUME NotesInv, TenantInv', NEW s \in Scribes, ReplaceNote(s)
  PROVE  NotesInv'
  <1>1. PICK v \in WorkType :
          v = scribe[s] /\ Fits(s, v) /\ Weaves(s, v) /\ Knows(s, v)
    BY Hand
  <1>2. v.step = "replace" /\ v.id \in Minted  BY <1>1 DEF ReplaceNote, Does, Fits
  <1>3. /\ s \in Users \/ s \in Harvesters
        /\ s \in Users => s \notin Harvesters
    BY <1>1, <1>2, ThreadsApart DEF Fits
  <1>4. /\ Minted' = Minted /\ minted' = minted /\ touched \subseteq touched'
        /\ relinked \subseteq relinked'
        /\ touched' \subseteq touched \cup {v.id}
        /\ ops' = ops /\ meshed' = meshed /\ overlapped' = overlapped
        /\ Work(s, Answered(s))
    BY <1>1 DEF ReplaceNote, Minted
  <1>5. PICK w \in WorkType :
          /\ Work(s, w)
          /\ \/ w = NoWork /\ s \in Users
             \/ /\ s \in Harvesters /\ w.step = "mesh"
                /\ w.rel = v.rel /\ w.left = v.left /\ w.wrote = v.wrote
    <2>1. CASE s \in Harvesters
      <3> DEFINE w == [v EXCEPT !.step = "mesh"]
      <3>1. Work(s, w)  BY <1>1, <1>2, <1>4, <2>1 DEF Answered, Fits
      <3>2. w \in WorkType  BY <3>1, NewWork DEF NotesInv, TenantInv, MemoryTypeOK
      <3>3. w.step = "mesh" /\ w.rel = v.rel /\ w.left = v.left /\ w.wrote = v.wrote
        BY DEF WorkType
      <3> QED  BY <2>1, <3>1, <3>2, <3>3
    <2>2. CASE s \notin Harvesters  BY <1>3, <1>4, <2>2, NoWorkTyped DEF Answered
    <2> QED  BY <2>1, <2>2
  \* What happened to the note, and to no other.
  <1>6. /\ DOMAIN notes \subseteq DOMAIN notes' /\ DOMAIN notes' \subseteq DOMAIN notes \cup {v.id}
        /\ revived \subseteq revived' /\ (revived' = {} => DOMAIN notes' = DOMAIN notes)
        /\ \A i \in DOMAIN notes' : i # v.id => notes'[i] = notes[i]
        /\ v.id \in DOMAIN notes' =>
             \/ notes'[v.id] = Patched(s)
             \/ v.id \in DOMAIN notes /\ notes'[v.id] = notes[v.id]
        /\ v.id \in touched' \/ (v.id \in DOMAIN notes' /\ notes'[v.id] = Patched(s))
        /\ s \in Users => v.id \in touched'
        /\ v.patch # <<>> /\ v.id \in DOMAIN notes' =>
             v.id \in relinked' \/ (v.id \in DOMAIN notes /\ notes'[v.id] = notes[v.id])
    BY <1>1 DEF ReplaceNote
  <1>7. /\ Patched(s).title = v.note.title
        /\ v.id \notin relinked /\ minted[v.id].by # "create" /\ (s \in Harvesters \/ v.patch = <<>>) =>
             Patched(s).links \subseteq Minted \ {v.id}
        /\ s \in Harvesters => Ids(v.wrote) \ {v.id} \subseteq Patched(s).links
    <2>1. v.note \in NoteType  BY DEF WorkType
    <2>2. CASE s \in Harvesters
      <3>1. Patched(s) = [v.note EXCEPT !.links = LinkPlan(v.wrote, v.rel, v.id)]
        BY <1>1, <2>2 DEF Patched
      <3>2. LinkPlan(v.wrote, v.rel, v.id) = (v.rel \cup Ids(v.wrote)) \ {v.id}
        BY DEF LinkPlan, Ids
      <3>3. Ids(v.wrote) \subseteq Minted /\ v.rel \subseteq Minted
        BY <1>1, Hand DEF Weaves
      <3> HIDE DEF Ids, LinkPlan
      <3> QED  BY <2>1, <3>1, <3>2, <3>3 DEF NoteType
    <2>3. CASE s \notin Harvesters
      <3>1. Patched(s) = [v.note EXCEPT !.links = IF v.patch = <<>> THEN @ ELSE v.patch[1]]
        BY <1>1, <2>3 DEF Patched
      <3>2. v.id \notin relinked /\ minted[v.id].by # "create" =>
              v.note.links \subseteq Minted \ {v.id}
        BY <1>1, <1>2 DEF Weaves
      <3> QED  BY <2>1, <2>3, <3>1, <3>2 DEF NoteType
    <2> QED  BY <2>2, <2>3
  <1>8. LinkInv'
    <2>1. /\ LessonsApart
          /\ \A t \in Scribes : Ids(scribe[t].wrote) \subseteq Minted
          /\ s \in Harvesters => v.id \in Ids(v.wrote)
      BY <1>1, <1>2, Hand DEF NotesInv, LinkInv, Weaves
    \* Only the note's own harvest, or a user, writes it.
    <2>2. \A t \in Scribes \ {s} : \A i \in Ids(scribe[t].wrote) \ touched' :
            notes'[i].links = notes[i].links
      <3> SUFFICES ASSUME NEW t \in Scribes \ {s}, NEW i \in Ids(scribe[t].wrote), i \notin touched'
                   PROVE  notes'[i] = notes[i]
        OBVIOUS
      <3>1. i # v.id
        <4> HIDE DEF Ids
        <4> QED  BY <1>1, <1>3, <1>6, <2>1 DEF LessonsApart
      <3>2. i \in DOMAIN notes
        <4>1. i \in Minted /\ i \notin touched  BY <1>4, <2>1
        <4> QED  BY <4>1 DEF NotesInv, LinkInv, LostIsTouched
      <3> QED  BY <1>6, <3>1, <3>2
    <2>3. Weaves(s, w)'
      <3>1. CASE w = NoWork  BY <3>1 DEF Weaves, NoWork, Ids
      <3>2. CASE s \in Harvesters /\ w.step = "mesh"
                 /\ w.rel = v.rel /\ w.left = v.left /\ w.wrote = v.wrote
        <4>1. ASSUME NEW i \in Ids(v.wrote) \ touched'
              PROVE  i \in Ids(v.left) \/ Ids(v.wrote) \ {i} \subseteq notes'[i].links
          <5>1. CASE i = v.id
            <6>1. notes'[i] = Patched(s)  BY <1>6, <4>1, <5>1
            <6> QED  BY <1>7, <3>2, <5>1, <6>1
          <5>2. CASE i # v.id
            <6>1. i \in Minted /\ i \notin touched  BY <1>1, <1>4, <2>1, <4>1
            <6>2. i \in DOMAIN notes  BY <6>1 DEF NotesInv, LinkInv, LostIsTouched
            <6>3. notes'[i] = notes[i]  BY <1>6, <5>2, <6>2
            <6>4. i \in Ids(v.left) \/ Ids(v.wrote) \ {i} \subseteq notes[i].links
              BY <1>1, <1>2, <3>2, <4>1, <5>2, <6>1 DEF Weaves
            <6> QED  BY <6>3, <6>4
          <5> QED  BY <5>1, <5>2
        <4>2. v.rel \subseteq Minted' /\ Ids(v.left) \subseteq Ids(v.wrote)
          BY <1>1, <1>4 DEF Weaves
        <4>3. /\ Ids(w.left)' = Ids(v.left) /\ Ids(w.wrote)' = Ids(v.wrote)
              /\ Ids(w.left) = Ids(v.left) /\ Ids(w.wrote) = Ids(v.wrote)
          BY <3>2 DEF Ids
        <4> HIDE DEF Ids
        <4> QED  BY <3>2, <4>1, <4>2, <4>3 DEF Weaves
      <3> QED  BY <1>5, <3>1, <3>2
    <2>4. LessonsApart'
      <3>1. Ids(w.wrote) \subseteq Ids(v.wrote)
        <4>1. Ids(NoWork.wrote) = {}  BY DEF NoWork, Ids
        <4> QED  BY <1>5, <4>1
      <3> QED  BY <1>1, <1>4, <1>5, <3>1, LessonsStayApart
    <2>5. Aims'
      <3> SUFFICES ASSUME NEW i \in DOMAIN notes', i \notin relinked', minted[i].by # "create"
                   PROVE  notes'[i].links \subseteq Minted \ {i}
        BY <1>4 DEF Aims
      <3>1. i \in DOMAIN notes => notes[i].links \subseteq Minted \ {i}
        BY <1>4 DEF NotesInv, LinkInv, Aims
      <3>2. CASE i # v.id  BY <1>6, <3>1, <3>2
      <3>3. CASE i = v.id
        <4>1. CASE i \in DOMAIN notes /\ notes'[i] = notes[i]  BY <3>1, <4>1
        <4>2. CASE notes'[i] = Patched(s) /\ ~(i \in DOMAIN notes /\ notes'[i] = notes[i])
          <5>1. s \in Harvesters \/ v.patch = <<>>  BY <1>6, <3>3, <4>2
          <5> QED  BY <1>4, <1>7, <3>3, <4>2, <5>1
        <4> QED  BY <1>6, <3>3, <4>1, <4>2
      <3> QED  BY <3>2, <3>3
    <2>6. LostIsTouched'  BY <1>4, <1>6 DEF NotesInv, LinkInv, LostIsTouched
    <2>7. Meshes'
      <3> SUFFICES ASSUME NEW batch \in meshed, NEW i \in batch, i \notin touched'
                   PROVE  batch \ {i} \subseteq notes'[i].links
        BY <1>4 DEF Meshes
      <3>1. batch \subseteq Minted /\ batch \cap Ids(v.wrote) = {}
        BY <1>1, <2>1 DEF LessonsApart
      <3>2. i # v.id  BY <1>3, <1>6, <2>1, <3>1
      <3>3. i \in DOMAIN notes /\ i \notin touched
        BY <1>4, <3>1 DEF NotesInv, LinkInv, LostIsTouched
      <3>4. batch \ {i} \subseteq notes[i].links
        BY <3>3 DEF NotesInv, LinkInv, Meshes
      <3> QED  BY <1>6, <3>2, <3>3, <3>4
    <2> QED  BY <1>4, <1>5, <2>2, <2>3, <2>4, <2>5, <2>6, <2>7, LinksStay
  <1>9. RepeatInv'
    <2>1. TitlesKept'
      <3>1. v.note.title = minted[v.id].note.title  BY <1>1, <1>2 DEF Knows
      <3> QED  BY <1>4, <1>6, <1>7, <3>1 DEF NotesInv, RepeatInv, TitlesKept
    <2>2. Clean' => Clean /\ DOMAIN notes' \subseteq DOMAIN notes
      BY <1>4, <1>6 DEF Clean
    <2>3. /\ RepeatsAddNothing'
          /\ \A t \in Scribes, x \in WorkType : Knows(t, x) => Knows(t, x)'
      BY <1>4, <2>1, <2>2, FewerRepeatLess
    <2>4. Knows(s, w)'
      <3>1. w.step \in {"idle", "mesh"}  BY <1>5 DEF NoWork
      <3> QED  BY <3>1 DEF Knows
    <2>5. Alone'
      <3>1. Continues(s, w)  BY <1>1, <1>2, <1>5 DEF Continues
      <3> QED  BY <1>4, <1>5, <3>1, AloneStays
    <2> QED  BY <1>5, <2>1, <2>3, <2>4, <2>5, RepeatStays
  <1> QED  BY <1>8, <1>9 DEF NotesInv

LEMMA UnlinksKeep ==
  ASSUME NotesInv, TenantInv', NEW u \in Scribes, UnlinkNote(u)
  PROVE  NotesInv'
  <1>1. /\ DOMAIN notes' = DOMAIN notes \ {scribe[u].id}
        /\ \A i \in DOMAIN notes' : notes'[i] = notes[i]
        /\ touched' = touched \cup {scribe[u].id} /\ Work(u, NoWork)
        /\ UNCHANGED <<minted, ops, revived, relinked, meshed, overlapped>>
    BY DEF UnlinkNote
  <1>2. Minted' = Minted  BY <1>1 DEF Minted
  <1>3. \A i \in Minted \ touched' : i \in DOMAIN notes' /\ notes'[i] = notes[i]
    BY <1>1 DEF NotesInv, LinkInv, LostIsTouched
  <1>4. LinkInv'
    <2>1. \A t \in Scribes : Ids(scribe[t].wrote) \subseteq Minted  BY Hand
    <2>2. Weaves(u, NoWork)'  BY DEF Weaves, NoWork, Ids
    <2>3. LessonsApart'
      <3>1. Ids(NoWork.wrote) = {}  BY DEF NoWork, Ids
      <3> QED  BY <1>1, <1>2, <3>1, NoWorkTyped, LessonsStayApart
    <2>4. Aims' /\ LostIsTouched'
      BY <1>1, <1>2 DEF NotesInv, LinkInv, Aims, LostIsTouched
    <2>5. Meshes'
      <3>1. \A batch \in meshed : batch \subseteq Minted
        BY DEF NotesInv, LinkInv, LessonsApart
      <3> QED  BY <1>1, <1>3, <3>1 DEF NotesInv, LinkInv, Meshes
    <2>6. \A t \in Scribes \ {u} : \A i \in Ids(scribe[t].wrote) \ touched' :
            notes'[i].links = notes[i].links
      BY <1>3, <2>1
    <2> QED  BY <1>1, <1>2, <2>2, <2>3, <2>4, <2>5, <2>6, NoWorkTyped, LinksStay
  <1>5. RepeatInv'
    <2>1. TitlesKept'  BY <1>1 DEF NotesInv, RepeatInv, TitlesKept
    <2>2. Clean' => Clean /\ DOMAIN notes' \subseteq DOMAIN notes  BY <1>1 DEF Clean
    <2>3. /\ RepeatsAddNothing'
          /\ \A t \in Scribes, x \in WorkType : Knows(t, x) => Knows(t, x)'
      BY <1>1, <2>1, <2>2, FewerRepeatLess
    <2>4. Knows(u, NoWork)'  BY DEF Knows, NoWork
    <2>5. Alone'
      <3>1. Continues(u, NoWork)  BY DEF Continues, NoWork
      <3> QED  BY <1>1, <3>1, NoWorkTyped, AloneStays
    <2> QED  BY <1>1, <2>1, <2>3, <2>4, <2>5, NoWorkTyped, RepeatStays
  <1> QED  BY <1>4, <1>5 DEF NotesInv

-----------------------------------------------------------------------------
LEMMA NotesInvStarts == MemoryInit => NotesInv
  <1> SUFFICES ASSUME MemoryInit PROVE NotesInv
    OBVIOUS
  <1>1. \A s \in Scribes : scribe[s] = NoWork  BY DEF MemoryInit
  <1>2. DOMAIN notes = {} /\ Minted = {} /\ meshed = {} /\ touched = {}
    BY DEF MemoryInit, Minted
  <1>3. LinkInv
    <2>1. Aims /\ LostIsTouched /\ Meshes  BY <1>2 DEF Aims, LostIsTouched, Meshes
    <2>2. LessonsApart  BY <1>1, <1>2 DEF LessonsApart, NoWork, Ids
    <2>3. \A s \in Scribes : Weaves(s, scribe[s])  BY <1>1 DEF Weaves, NoWork, Ids
    <2> QED  BY <2>1, <2>2, <2>3 DEF LinkInv
  <1>4. RepeatInv
    <2>1. /\ \A h \in Harvesters : Does(h, "idle")
          /\ \A c \in Capturers : Does(c, "idle")
      BY <1>1 DEF Does, NoWork, Scribes
    <2>2. Alone  BY <2>1 DEF Alone
    <2>3. TitlesKept /\ RepeatsAddNothing  BY <1>2 DEF TitlesKept, RepeatsAddNothing
    <2>4. \A s \in Scribes : Knows(s, scribe[s])  BY <1>1 DEF Knows, NoWork
    <2> QED  BY <2>2, <2>3, <2>4 DEF RepeatInv
  <1> QED  BY <1>3, <1>4, TenantInvStarts DEF NotesInv

LEMMA NotesInvKeeps == NotesInv /\ [MemoryNext]_memvars => NotesInv'
  <1> SUFFICES ASSUME NotesInv, [MemoryNext]_memvars PROVE NotesInv'
    OBVIOUS
  <1>0. TenantInv'  BY TenantInvKeeps DEF NotesInv
  <1>1. ASSUME NEW s \in Scribes, ScribeStep(s) PROVE NotesInv'
    BY <1>0, <1>1, BeginsKeep, CountsKeep, WritesKeep, ChecksKeep, ReadsKeep, ReplacesKeep,
       UnlinksKeep, HarvestsKeep, NextLessonsKeep, MeshBeginsKeep, MeshNextsKeep, CapturesKeep
       DEF ScribeStep
  <1>2. ASSUME NEW s \in Scribes, ScribeDies(s) PROVE NotesInv'
    BY <1>0, <1>2, ThreadRests DEF ScribeDies
  <1>3. CASE UNCHANGED memoryOwn
    <2>1. LinkInv'
      <3>1. Minted' = Minted /\ scribe' = scribe  BY <1>3 DEF memoryOwn, Minted
      <3>2. ASSUME NEW s \in Scribes PROVE Weaves(s, scribe[s])'
        <4>1. PICK v \in WorkType : v = scribe[s] /\ Weaves(s, v)  BY Hand
        <4>2. Weaves(s, v)'  BY <1>3, <3>1, <4>1, WeavesStays DEF memoryOwn
        <4> QED  BY <3>1, <4>1, <4>2 DEF Weaves, Ids
      <3>3. Aims' /\ LostIsTouched' /\ Meshes'
        BY <1>3, <3>1 DEF memoryOwn, NotesInv, LinkInv, Aims, LostIsTouched, Meshes
      <3>4. LessonsApart'
        BY <1>3, <3>1 DEF memoryOwn, NotesInv, LinkInv, LessonsApart, Ids
      <3> QED  BY <3>2, <3>3, <3>4 DEF LinkInv
    <2>2. RepeatInv'
      BY <1>3 DEF memoryOwn, NotesInv, RepeatInv, Alone, TitlesKept, RepeatsAddNothing, Knows,
                  Clean, Does
    <2> QED  BY <1>0, <2>1, <2>2 DEF NotesInv
  <1>4. ASSUME NEW d \in Desks, FlipSharing(d) PROVE NotesInv'
    BY <1>3, <1>4 DEF FlipSharing, memoryOwn
  <1>5. CASE UNCHANGED memvars  BY <1>3, <1>5 DEF memvars, memoryOwn
  <1> QED  BY <1>1, <1>2, <1>4, <1>5 DEF MemoryNext

(* Whatever harvests, captures, sidecars and deletes are under way, every  *)
(* thread holds what Fits, Weaves and Knows say of its operation.          *)
THEOREM NotesInvHolds == MemorySpec => []NotesInv
  BY NotesInvStarts, NotesInvKeeps, PTL DEF MemorySpec

(* No lesson and no capture dangles, wherever a process dies in a harvest, *)
(* unless a user gave it links, and the lessons of a harvest that came to  *)
(* its end all point at each other, unless a user rewrote or deleted them  *)
(* or a patch failed: for any number of harvests at a time, although they  *)
(* write their links note by note, and for any links users give.           *)
THEOREM LinksAlwaysReach == MemorySpec => []LinksReach
  <1>1. NotesInv => LinksReach
    BY DEF NotesInv, LinkInv, Aims, Meshes, LinksReach
  <1> QED  BY <1>1, NotesInvHolds, PTL

(* A run harvested or captured again adds nothing, as long as no two       *)
(* harvests and no two captures of a run overlapped and no update wrote a  *)
(* deleted note back: the listing of the caller stays an upper bound of    *)
(* what its own writes have to look at.                                    *)
THEOREM RepeatsNeverAdd == MemorySpec => []RepeatsAddNothing
  <1>1. NotesInv => RepeatsAddNothing  BY DEF NotesInv, RepeatInv
  <1> QED  BY <1>1, NotesInvHolds, PTL
=============================================================================
