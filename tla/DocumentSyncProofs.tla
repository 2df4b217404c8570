------------------------- MODULE DocumentSyncProofs -------------------------
(***************************************************************************)
(* What DocumentSync promises of the journal and of the user's bytes, for  *)
(* every graph of revisions, every set of paths and contents and every     *)
(* number of edits, notifications and crashes.                             *)
(***************************************************************************)
EXTENDS DocumentSync, JournalProofs

FileType == [content : Content \cup {None}, stamp : Nat]

FilesSound == disk \in [Path -> FileType] /\ clock \in Nat /\ \A p \in Path : disk[p].stamp <= clock

ViewSound ==
  /\ view \in [path : Path \cup {None}, captured : Content \cup {None}, stamp : Nat, dirty : BOOLEAN]
  /\ view # NoView => view.path \in Path

Note == [path : Path, predecessor : Content \cup {None}, content : Content]

\* What saved() is given can be captured, and an inventory names no predecessor.
WorkSound ==
  /\ queue \in Seq(Note)
  /\ work # NoWork =>
       /\ work.path \in Path /\ work.content \in Content
       /\ work.predecessor \in Content \cup {None}
       /\ work.inventory \in BOOLEAN /\ (work.inventory => work.predecessor = None)

ScanField == {"phase", "todo", "seen", "captured", "base", "retry", "again"}

\* From the reading on, what was seen are files; a deletion is of one.
ScanSound(s) ==
  /\ DOMAIN s = ScanField
  /\ s.todo \subseteq Path /\ DOMAIN s.seen \subseteq Path
  /\ \A p \in DOMAIN s.seen : s.seen[p].content \in Content \cup {None}
  /\ s.phase \in {"read", "capture"} =>
       s.todo \subseteq DOMAIN s.seen /\ \A p \in DOMAIN s.seen : s.seen[p].content \in Content
  /\ s.phase \in {"protect", "check", "tombstone"} =>
       s.base \in Revision /\ ContentOf[s.base] \in Content

\* The bytes a revision leaves at its path, and that they are in File History.
BytesOf(r) == IF r = None THEN None ELSE ContentOf[r]
Kept(target, content) ==
  ApplyOperation(target) \in DOMAIN history /\ history[ApplyOperation(target)].content = content

HistorySound ==
  \A o \in DOMAIN history : history[o].content \in Content /\ history[o].path \in Path

\* An intent's preimage is its base's bytes, and is in File History.
IntentsSound ==
  \A o \in DOMAIN journal.intents :
    LET i == journal.intents[o]
    IN  i.source = BytesOf(i.expected) /\ (i.source # None => Kept(o, i.source))

Underway == {"recheck", "inspect", "publish", "remove", "verify", "reload", "finish"}

AppType ==
  [pc : {"idle", "offer", "enter", "observe", "protect", "prepare"} \cup Underway,
   target : Revision \cup {None}, expected : Revision \cup {None}, source : FileType,
   prepared : BOOLEAN, published : BOOLEAN, lock : BOOLEAN, live : BOOLEAN]

\* What the application has established when it is at a step.
AppSound(a) ==
  /\ a \in AppType
  /\ a.target \in Rows(journal) \cup {None} /\ (a.pc # "idle" => a.target \in Rows(journal))
  /\ a.pc \in {"protect", "prepare"} => a.source.content = BytesOf(a.expected)
  /\ a.pc = "prepare" /\ ~Absent(a.source) => Kept(a.target, a.source.content)
  /\ a.pc \in Underway =>
       a.target \in Pending(journal) /\ a.expected = journal.intents[a.target].expected
  /\ a.pc \in {"publish", "remove"} /\ ~Absent(a.source) =>
       a.source.content = journal.intents[a.target].source
  /\ a.live => view.path \in Path /\ ~view.dirty
  /\ a.pc = "reload" => a.live

\* The inductive invariant.
IInv ==
  /\ Consistent(journal) /\ journal.applied # None
  /\ FilesSound /\ ViewSound /\ WorkSound /\ ScanSound(scan)
  /\ HistorySound /\ IntentsSound /\ AppSound(app)

---------------------------------------------------------------------------
\* File History forgets nothing.
HistoryKept == \A o \in DOMAIN history : o \in DOMAIN history' /\ history'[o] = history[o]

(***************************************************************************)
(* What the application has established lasts while others work: journal   *)
(* transactions of others add revisions and leave the intents, and nothing *)
(* leaves File History.                                                    *)
(***************************************************************************)
LEMMA AppKept ==
  ASSUME IInv, app' = app, Rows(journal) \subseteq Rows(journal'), journal'.intents = journal.intents,
         HistoryKept, app.live => view'.path \in Path /\ ~view'.dirty
  PROVE  IntentsSound' /\ AppSound(app)'
<1>1. \A t, c : Kept(t, c) => Kept(t, c)'
  BY DEF Kept, HistoryKept, ApplyOperation
<1>2. IntentsSound'
  BY <1>1 DEF IInv, IntentsSound, BytesOf
<1>3. Pending(journal)' = Pending(journal) /\ Rows(journal)' = Rows(journal')
  BY DEF Pending, Rows
<1>4. AppSound(app)
  BY DEF IInv
<1>5. AppSound(app)'
  BY <1>1, <1>3, <1>4 DEF AppSound, BytesOf, Absent
<1> QED BY <1>2, <1>5

(***************************************************************************)
(* Writing a file gives it a stamp that no file had.                       *)
(***************************************************************************)
LEMMA WroteSound ==
  ASSUME FilesSound, NEW p \in Path, NEW c \in Content \cup {None}, Wrote(p, c)
  PROVE  FilesSound'
<1>1. disk' = [disk EXCEPT ![p] = File(c, clock + 1)] /\ clock' = clock + 1
  BY DEF Wrote
<1>2. File(c, clock + 1) \in FileType /\ File(c, clock + 1).stamp = clock + 1
  BY DEF FilesSound, FileType, File
<1>3. disk' \in [Path -> FileType]
  BY <1>1, <1>2 DEF FilesSound
<1>4. \A q \in Path : disk[q].stamp \in Nat /\ disk[q].stamp <= clock
  BY DEF FilesSound, FileType
<1>5. ASSUME NEW q \in Path PROVE disk'[q].stamp <= clock + 1
  <2>1. disk'[q] = IF q = p THEN File(c, clock + 1) ELSE disk[q]
    BY <1>1 DEF FilesSound
  <2> QED BY <1>2, <1>4, <2>1 DEF FilesSound
<1> QED BY <1>1, <1>3, <1>5 DEF FilesSound

(***************************************************************************)
(* What the user does to files and buffers leaves the rest as it is.       *)
(***************************************************************************)
LEMMA UserFrame ==
  ASSUME IInv, UNCHANGED <<journal, history, work, scan, app>>, FilesSound', ViewSound',
         queue' \in Seq(Note), app.live => view'.path \in Path /\ ~view'.dirty
  PROVE  IInv'
<1>1. HistoryKept /\ Rows(journal) \subseteq Rows(journal') /\ journal'.intents = journal.intents
  BY DEF HistoryKept
<1>2. IntentsSound' /\ AppSound(app)'
  BY <1>1, AppKept
<1>3. WorkSound' /\ ScanSound(scan)' /\ HistorySound'
  BY DEF IInv, WorkSound, NoWork, ScanSound, HistorySound
<1>4. Consistent(journal)' /\ journal'.applied # None
  BY DEF IInv
<1> QED BY <1>2, <1>3, <1>4 DEF IInv

(***************************************************************************)
(* The editor and the programs beside it.                                  *)
(***************************************************************************)
LEMMA UserInductive ==
  ASSUME IInv, UserStep
  PROVE  IInv'
<1>0. /\ FilesSound /\ ViewSound /\ queue \in Seq(Note) /\ (app.live => view.path \in Path /\ ~view.dirty)
      /\ view \in [path : Path \cup {None}, captured : Content \cup {None}, stamp : Nat, dirty : BOOLEAN]
  BY DEF IInv, WorkSound, AppSound, ViewSound
<1>1. ASSUME NEW path \in Path, Open(path) PROVE IInv'
  <2>1. /\ UNCHANGED <<journal, disk, clock, history, queue, work, scan, app>>
        /\ view = NoView
        /\ view' = [NoView EXCEPT !.path = path, !.captured = disk[path].content, !.stamp = disk[path].stamp]
    BY <1>1 DEF Open
  <2>2. disk[path].content \in Content \cup {None} /\ disk[path].stamp \in Nat
    BY <1>0 DEF FilesSound, FileType
  <2>3. FilesSound'
    BY <1>0, <2>1 DEF FilesSound
  <2>4. ViewSound' /\ view'.path \in Path /\ ~view'.dirty
    <3>1. NoView \in [path : Path \cup {None}, captured : Content \cup {None}, stamp : Nat, dirty : BOOLEAN]
      BY DEF NoView
    <3> DEFINE v == NoView
               c == disk[path].content
               n == disk[path].stamp
    <3> HIDE DEF v, c, n
    <3>2. \A w : w = [v EXCEPT !.path = path, !.captured = c, !.stamp = n] =>
            /\ w \in [path : Path \cup {None}, captured : Content \cup {None}, stamp : Nat, dirty : BOOLEAN]
            /\ w.path \in Path /\ w.dirty = v.dirty
      BY <2>2, <3>1 DEF v, c, n
    <3>3. ~v.dirty
      BY DEF v, NoView
    <3> QED BY <2>1, <3>2, <3>3 DEF ViewSound, v, c, n
  <2> QED BY <1>0, <2>1, <2>3, <2>4, UserFrame
<1>2. CASE Type
  <2>1. /\ UNCHANGED <<journal, disk, clock, history, queue, work, scan, app>>
        /\ view # NoView /\ ~app.live /\ view' = [view EXCEPT !.dirty = TRUE]
    BY <1>2 DEF Type
  <2>2. FilesSound'
    BY <1>0, <2>1 DEF FilesSound
  <2>3. ViewSound'
    BY <1>0, <2>1 DEF ViewSound
  <2> QED BY <1>0, <2>1, <2>2, <2>3, UserFrame
<1>3. CASE Close
  <2>1. /\ UNCHANGED <<journal, disk, clock, history, queue, work, scan, app>>
        /\ ~app.live /\ view' = NoView
    BY <1>3 DEF Close
  <2>2. FilesSound'
    BY <1>0, <2>1 DEF FilesSound
  <2>3. ViewSound'
    BY <2>1 DEF ViewSound, NoView
  <2> QED BY <1>0, <2>1, <2>2, <2>3, UserFrame
<1>4. ASSUME NEW content \in UserContent, Save(content) PROVE IInv'
  <2> DEFINE note == [path |-> view.path, predecessor |-> view.captured, content |-> content]
  <2>1. /\ UNCHANGED <<journal, history, work, scan, app>>
        /\ view.dirty /\ ~app.live /\ Wrote(view.path, content)
        /\ view' = [view EXCEPT !.captured = content, !.stamp = clock + 1, !.dirty = FALSE]
        /\ queue' = IF Len(queue) < MaxQueue THEN Append(queue, note) ELSE queue
    BY <1>4 DEF Save, Notified
  <2>2. content \in Content /\ view.path \in Path
    <3>1. view # NoView
      BY <2>1 DEF NoView
    <3> QED BY <1>0, <3>1, SyncAssumption DEF ViewSound
  <2>3. FilesSound'
    BY <1>0, <2>1, <2>2, WroteSound
  <2>4. clock \in Nat
    BY <1>0 DEF FilesSound
  <2>5. view' \in [path : Path \cup {None}, captured : Content \cup {None}, stamp : Nat, dirty : BOOLEAN]
        /\ view'.path = view.path
    <3> DEFINE n == clock + 1
    <3>1. n \in Nat /\ content \in Content \cup {None}
      BY <2>2, <2>4
    <3> HIDE DEF n
    <3>2. view' = [view EXCEPT !.captured = content, !.stamp = n, !.dirty = FALSE]
      BY <2>1 DEF n
    <3> QED BY <1>0, <3>1, <3>2
  <2>6. ViewSound'
    BY <2>2, <2>5 DEF ViewSound
  <2>7. note \in Note
    BY <1>0, <2>2 DEF Note
  <2> HIDE DEF note
  <2>8. queue' \in Seq(Note)
    BY <1>0, <2>1, <2>7
  <2> QED BY <2>1, <2>3, <2>6, <2>8, UserFrame
<1>5. ASSUME NEW path \in Path, NEW content \in UserContent \cup {None}, ExternalWrite(path, content) PROVE IInv'
  <2>1. UNCHANGED <<journal, history, view, queue, work, scan, app>> /\ Wrote(path, content)
    BY <1>5 DEF ExternalWrite
  <2>2. content \in Content \cup {None}
    BY SyncAssumption
  <2>3. FilesSound' /\ ViewSound'
    BY <1>0, <2>1, <2>2, WroteSound DEF ViewSound, NoView
  <2> QED BY <1>0, <2>1, <2>3, UserFrame
<1>6. ASSUME NEW from \in Path, NEW to \in Path, ExternalMove(from, to) PROVE IInv'
  <2> DEFINE gone == File(None, clock + 1)
             here == File(disk[from].content, clock + 1)
  <2>1. /\ UNCHANGED <<journal, history, view, queue, work, scan, app>> /\ clock' = clock + 1
        /\ disk' = [disk EXCEPT ![from] = gone, ![to] = here]
    BY <1>6 DEF ExternalMove
  <2>2. /\ gone \in FileType /\ here \in FileType /\ gone.stamp = clock + 1 /\ here.stamp = clock + 1
        /\ clock \in Nat
    BY <1>0 DEF FilesSound, FileType, File
  <2> HIDE DEF gone, here
  <2>3. \A q \in Path : disk[q] \in FileType /\ disk[q].stamp \in Nat /\ disk[q].stamp <= clock
    BY <1>0 DEF FilesSound, FileType
  <2>4. disk' \in [Path -> FileType] /\ \A q \in Path : disk'[q] \in {gone, here, disk[q]}
    BY <1>0, <2>1, <2>2 DEF FilesSound
  <2>5. \A q \in Path : disk'[q].stamp <= clock + 1
    BY <2>2, <2>3, <2>4
  <2>6. FilesSound'
    BY <2>1, <2>2, <2>4, <2>5 DEF FilesSound
  <2>7. ViewSound'
    BY <1>0, <2>1 DEF ViewSound, NoView
  <2> QED BY <1>0, <2>1, <2>6, <2>7, UserFrame
<1> QED BY <1>1, <1>2, <1>3, <1>4, <1>5, <1>6 DEF UserStep

(***************************************************************************)
(* capture_saved leaves the intents, and every revision stays known.       *)
(***************************************************************************)
LEMMA CapturedTables ==
  ASSUME NEW j, Consistent(j), NEW id \in Revision
  PROVE  Captured(j, id).intents = j.intents /\ Rows(j) \subseteq Rows(Captured(j, id))
<1> DEFINE i == IF id \in Rows(j) THEN j ELSE Inserted(j, id)
<1>0. DOMAIN j = {"rowid", "tip", "approved", "eligible", "applied", "intents"}
  BY DEF Consistent, JournalType
<1>1. DOMAIN i = DOMAIN j /\ i.intents = j.intents /\ Rows(j) \subseteq Rows(i)
  BY <1>0 DEF Inserted, Rows
<1>2. Captured(j, id) = [i EXCEPT !.applied = id]
  BY DEF Captured
<1> HIDE DEF i
<1> QED BY <1>0, <1>1, <1>2 DEF Rows

(***************************************************************************)
(* The exchange delivers a revision.                                       *)
(***************************************************************************)
LEMMA ReceiveInductive ==
  ASSUME IInv, NEW r \in Incoming, ReceiveRevision(r)
  PROVE  IInv'
<1>1. /\ CanReceive(journal, r) /\ journal' = Inserted(journal, r) /\ r \in Revision
      /\ UNCHANGED <<disk, clock, history, view, queue, work, scan, app>>
  BY SyncAssumption DEF ReceiveRevision
<1>2. /\ Consistent(journal') /\ journal'.applied = journal.applied
      /\ Rows(journal) \subseteq Rows(journal') /\ journal'.intents = journal.intents
  BY <1>1, InsertedConsistent DEF IInv
<1>3. HistoryKept /\ (app.live => view'.path \in Path /\ ~view'.dirty)
  BY <1>1 DEF HistoryKept, IInv, AppSound
<1>4. IntentsSound' /\ AppSound(app)'
  BY <1>1, <1>2, <1>3, AppKept
<1>5. FilesSound' /\ ViewSound' /\ WorkSound' /\ ScanSound(scan)' /\ HistorySound'
  BY <1>1 DEF IInv, FilesSound, ViewSound, NoView, WorkSound, NoWork, ScanSound, HistorySound
<1> QED BY <1>2, <1>4, <1>5 DEF IInv

(***************************************************************************)
(* An idle application, scan and worker are sound.                         *)
(***************************************************************************)
LEMMA IdleSound ==
  /\ ScanSound(NoScan)
  /\ NoApp \in AppType /\ AppSound(NoApp)
  /\ NoApp.pc = "idle" /\ NoApp.target = None /\ ~NoApp.live
<1>1. /\ NoApp \in AppType /\ NoApp.pc = "idle" /\ NoApp.target = None /\ ~NoApp.live
  BY DEF NoApp, AppType, FileType, File
<1>2. AppSound(NoApp)
  BY <1>1 DEF AppSound, Underway
<1>3. ScanSound(NoScan)
  BY DEF NoScan, ScanSound, ScanField
<1> QED BY <1>1, <1>2, <1>3

(***************************************************************************)
(* A crash keeps the journal, the files and the history.                   *)
(***************************************************************************)
LEMMA CrashInductive ==
  ASSUME IInv, Crash
  PROVE  IInv'
<1>1. /\ view' = NoView /\ queue' = <<>> /\ work' = NoWork /\ scan' = NoScan /\ app' = NoApp
      /\ UNCHANGED <<journal, disk, clock, history>>
  BY DEF Crash
<1>2. ViewSound' /\ WorkSound'
  BY <1>1 DEF ViewSound, NoView, WorkSound, NoWork
<1>3. ScanSound(scan)'
  BY <1>1, IdleSound DEF ScanSound
<1>4. AppSound(app)'
  <2>1. app'.pc = "idle" /\ app'.target = None /\ ~app'.live /\ app' \in AppType
    BY <1>1, IdleSound
  <2> QED BY <2>1 DEF AppSound, Underway
<1>5. FilesSound' /\ HistorySound' /\ IntentsSound' /\ Consistent(journal)' /\ journal'.applied # None
  BY <1>1 DEF IInv, FilesSound, HistorySound, IntentsSound, Kept, BytesOf
<1> QED BY <1>2, <1>3, <1>4, <1>5 DEF IInv

---------------------------------------------------------------------------
(***************************************************************************)
(* The worker's steps leave files, buffers and the application alone.      *)
(***************************************************************************)
LEMMA CaptureFrame ==
  ASSUME IInv, UNCHANGED <<disk, clock, view, app>>, Consistent(journal'), journal'.applied # None,
         Rows(journal) \subseteq Rows(journal'), journal'.intents = journal.intents,
         HistoryKept, HistorySound', WorkSound', ScanSound(scan')
  PROVE  IInv'
<1>1. app.live => view'.path \in Path /\ ~view'.dirty
  BY DEF IInv, AppSound
<1>2. IntentsSound' /\ AppSound(app)'
  BY <1>1, AppKept
<1>3. FilesSound' /\ ViewSound'
  BY DEF IInv, FilesSound, ViewSound, NoView
<1>4. ScanSound(scan)'
  BY DEF ScanSound
<1> QED BY <1>2, <1>3, <1>4 DEF IInv

(***************************************************************************)
(* A scan that goes on with less to do, or ends.                           *)
(***************************************************************************)
LEMMA ScanOn ==
  ASSUME NEW s, NEW t, ScanSound(s), DOMAIN t = DOMAIN s, t.seen = s.seen, t.base = s.base,
         t.todo \subseteq s.todo, t.phase = s.phase \/ t.phase = "end"
  PROVE  ScanSound(t)
BY DEF ScanSound

(***************************************************************************)
(* The ways a scan goes on.                                                *)
(***************************************************************************)
LEMMA ScanGoesOn ==
  ASSUME NEW s, ScanSound(s)
  PROVE  /\ \A path, success : ScanSound(ScanResult(s, path, success))
         /\ ScanSound([s EXCEPT !.again = TRUE])
         /\ ScanSound([s EXCEPT !.phase = "end"])
         /\ ScanSound([s EXCEPT !.phase = "end", !.retry = TRUE])
<1>0. DOMAIN s = ScanField
  BY DEF ScanSound
<1>1. ASSUME NEW path, NEW success PROVE ScanSound(ScanResult(s, path, success))
  <2> DEFINE t == ScanResult(s, path, success)
  <2>1. /\ DOMAIN t = DOMAIN s /\ t.seen = s.seen /\ t.base = s.base /\ t.todo \subseteq s.todo
        /\ t.phase = s.phase
    BY <1>0 DEF ScanResult, ScanField
  <2> HIDE DEF t
  <2> QED BY <2>1, ScanOn DEF t
<1>2. ScanSound([s EXCEPT !.again = TRUE])
  <2> DEFINE t == [s EXCEPT !.again = TRUE]
  <2>1. /\ DOMAIN t = DOMAIN s /\ t.seen = s.seen /\ t.base = s.base /\ t.todo \subseteq s.todo
        /\ t.phase = s.phase
    BY <1>0 DEF ScanField
  <2> HIDE DEF t
  <2> QED BY <2>1, ScanOn DEF t
<1>3. ScanSound([s EXCEPT !.phase = "end"])
  <2> DEFINE t == [s EXCEPT !.phase = "end"]
  <2>1. /\ DOMAIN t = DOMAIN s /\ t.seen = s.seen /\ t.base = s.base /\ t.todo \subseteq s.todo
        /\ t.phase = "end"
    BY <1>0 DEF ScanField
  <2> HIDE DEF t
  <2> QED BY <2>1, ScanOn DEF t
<1>4. ScanSound([s EXCEPT !.phase = "end", !.retry = TRUE])
  <2> DEFINE t == [s EXCEPT !.phase = "end", !.retry = TRUE]
  <2>1. /\ DOMAIN t = DOMAIN s /\ t.seen = s.seen /\ t.base = s.base /\ t.todo \subseteq s.todo
        /\ t.phase = "end"
    BY <1>0 DEF ScanField
  <2> HIDE DEF t
  <2> QED BY <2>1, ScanOn DEF t
<1> QED BY <1>1, <1>2, <1>3, <1>4

(***************************************************************************)
(* schedule_inventory only marks the scan.                                 *)
(***************************************************************************)
LEMMA ScheduleSound ==
  ASSUME NEW s, ScanSound(s), Schedule(s)
  PROVE  ScanSound(scan')
BY ScanGoesOn DEF Schedule

(***************************************************************************)
(* What a capture records: a revision of the path and the bytes it was     *)
(* given, on top of the applied one.                                       *)
(***************************************************************************)
LEMMA SnapshotFacts ==
  ASSUME IInv, NEW o \in {Self, Baseline}, NEW path \in Path, NEW c \in Content \cup {None},
         SnapshotId(o, path, c, journal.applied) \in Revision
  PROVE  LET id == SnapshotId(o, path, c, journal.applied)
         IN  PathOf[id] = path /\ ContentOf[id] = c /\ ParentsOf[id] = CaptureParents(journal.applied)
<1>1. CaptureParents(journal.applied) \in {{}} \cup {{r} : r \in Revision}
  BY DEF IInv, Consistent, JournalType, CaptureParents
<1>2. o \in Member
  BY DeviceAssumption
<1> QED BY <1>1, <1>2, GraphAssumption DEF SnapshotId

(***************************************************************************)
(* A capture keeps the journal consistent and its intents as they are.     *)
(***************************************************************************)
LEMMA CaptureSound ==
  ASSUME IInv, NEW o \in {Self, Baseline}, NEW path \in Path, NEW c \in Content \cup {None},
         SnapshotId(o, path, c, journal.applied) \in Revision,
         CaptureAdmitted(journal, journal.applied),
         journal' = Captured(journal, SnapshotId(o, path, c, journal.applied))
  PROVE  /\ Consistent(journal') /\ journal'.applied # None
         /\ Rows(journal) \subseteq Rows(journal') /\ journal'.intents = journal.intents
<1> DEFINE id == SnapshotId(o, path, c, journal.applied)
<1>1. id \in Revision /\ ParentsOf[id] = CaptureParents(journal.applied) /\ Consistent(journal) /\ id # None
  BY SnapshotFacts, GraphAssumption DEF IInv
<1> HIDE DEF id
<1>2. journal' = Captured(journal, id)
  BY DEF id
<1> QED BY <1>1, <1>2, CapturedConsistent, CapturedTables

(***************************************************************************)
(* A notification reaches saved().                                         *)
(***************************************************************************)
LEMMA SavedStartInductive ==
  ASSUME IInv, SavedStart
  PROVE  IInv'
<1> DEFINE note == Head(queue)
           w == Saving(note.path, note.content, note.predecessor, FALSE)
<1>1. /\ queue # <<>> /\ queue' = Tail(queue) /\ work' \in {NoWork, w}
      /\ UNCHANGED <<journal, history, scan, disk, clock, view, app>>
  BY DEF SavedStart, elsewhere
<1>2. queue \in Seq(Note) /\ note \in Note /\ queue' \in Seq(Note)
  BY <1>1 DEF IInv, WorkSound
<1>3. /\ w.path \in Path /\ w.content \in Content /\ w.predecessor \in Content \cup {None}
      /\ w.inventory = FALSE
  BY <1>2 DEF Saving, Note
<1> HIDE DEF w
<1>4. WorkSound'
  BY <1>1, <1>2, <1>3 DEF WorkSound, NoWork
<1>5. HistoryKept /\ HistorySound' /\ ScanSound(scan')
  BY <1>1 DEF IInv, HistoryKept, HistorySound
<1> QED BY <1>1, <1>4, <1>5, CaptureFrame DEF IInv

(***************************************************************************)
(* capture_saved, for a notification or for a file of the inventory.       *)
(***************************************************************************)
LEMMA SavedCaptureInductive ==
  ASSUME IInv, SavedCapture
  PROVE  IInv'
<1> DEFINE w == work
           id == SnapshotId(CaptureOrigin(w), w.path, w.content, w.expected)
           result(success) == IF w.inventory THEN ScanResult(scan, w.path, success) ELSE scan
<1>1. /\ work # NoWork /\ work' = NoWork /\ UNCHANGED <<history, queue, disk, clock, view, app>>
      /\ \/ journal' = journal
         \/ /\ journal.applied = w.expected /\ CaptureAdmitted(journal, w.expected)
            /\ id \in Revision /\ journal' = Captured(journal, id)
      /\ \/ \E success \in BOOLEAN : scan' = result(success)
         \/ Schedule(result(FALSE))
  BY DEF SavedCapture, elsewhere
<1>2. WorkSound'
  BY <1>1 DEF IInv, WorkSound, NoWork
<1>3. ScanSound(scan')
  <2>1. ScanSound(scan)
    BY DEF IInv
  <2>2. \A success : ScanSound(result(success))
    BY <2>1, ScanGoesOn
  <2> HIDE DEF result
  <2> QED BY <1>1, <2>2, ScheduleSound
<1>4. /\ Consistent(journal') /\ journal'.applied # None
      /\ Rows(journal) \subseteq Rows(journal') /\ journal'.intents = journal.intents
  <2>1. CASE journal' = journal
    BY <2>1 DEF IInv
  <2>2. CASE /\ journal.applied = w.expected /\ CaptureAdmitted(journal, w.expected)
             /\ id \in Revision /\ journal' = Captured(journal, id)
    <3>1. CaptureOrigin(w) \in {Self, Baseline} /\ w.path \in Path /\ w.content \in Content \cup {None}
      BY <1>1 DEF CaptureOrigin, IInv, WorkSound
    <3> QED BY <2>2, <3>1, CaptureSound
  <2> QED BY <1>1, <2>1, <2>2
<1>5. HistoryKept /\ HistorySound'
  BY <1>1 DEF IInv, HistoryKept, HistorySound
<1> QED BY <1>1, <1>2, <1>3, <1>4, <1>5, CaptureFrame

(***************************************************************************)
(* A step of the inventory that writes neither journal nor history.        *)
(***************************************************************************)
LEMMA ScanFrame ==
  ASSUME IInv, UNCHANGED <<journal, history, disk, clock, view, app>>, WorkSound', ScanSound(scan')
  PROVE  IInv'
<1>1. HistoryKept /\ HistorySound'
  BY DEF IInv, HistoryKept, HistorySound
<1> QED BY <1>1, CaptureFrame DEF IInv

(***************************************************************************)
(* Listing and reading.  What is read is a file when the reading is over.  *)
(***************************************************************************)
LEMMA ScanReadInductive ==
  ASSUME IInv, ScanStart \/ PollWatch \/ ScanReadDone
               \/ \E path \in Path : ScanList(path) \/ ScanRead(path)
  PROVE  IInv'
<1>0. /\ ScanSound(scan) /\ DOMAIN scan = ScanField
      /\ \A p \in Path : disk[p].content \in Content \cup {None}
  BY DEF IInv, ScanSound, FilesSound, FileType
<1>1. UNCHANGED <<journal, history, disk, clock, view, app, queue, work>>
  BY DEF ScanStart, PollWatch, ScanReadDone, ScanList, ScanRead, elsewhere
<1>2. WorkSound'
  BY <1>1 DEF IInv, WorkSound, NoWork
<1>3. CASE ScanStart
  <2>1. scan' = [NoScan EXCEPT !.phase = "list", !.todo = Path]
    BY <1>3 DEF ScanStart
  <2>2. DOMAIN NoScan = ScanField /\ DOMAIN NoScan.seen = {}
    BY DEF NoScan, ScanField
  <2> DEFINE s == NoScan
  <2> HIDE DEF s
  <2>3. DOMAIN scan' = ScanField /\ scan'.phase = "list" /\ scan'.todo = Path /\ scan'.seen = s.seen
    BY <2>1, <2>2 DEF s, ScanField
  <2>4. ScanSound(scan')
    BY <2>2, <2>3 DEF s, ScanSound
  <2> QED BY <1>1, <1>2, <2>4, ScanFrame
<1>4. CASE PollWatch
  <2>1. scan' = scan
    BY <1>4 DEF PollWatch
  <2> QED BY <1>0, <1>1, <1>2, <2>1, ScanFrame
<1>5. ASSUME NEW path \in Path, ScanList(path) PROVE IInv'
  <2> DEFINE rest == scan.todo \ {path}
             seen == [p \in DOMAIN scan.seen \cup {path} |-> IF p = path THEN disk[p] ELSE scan.seen[p]]
             found == {p \in DOMAIN seen : ~Absent(seen[p])}
             file == [p \in found |-> seen[p]]
  <2>1. /\ scan.phase = "list"
        /\ scan' = IF rest # {} THEN [scan EXCEPT !.todo = rest, !.seen = seen]
                   ELSE [scan EXCEPT !.phase = "read", !.todo = found, !.seen = file]
    BY <1>5 DEF ScanList
  <2>2. DOMAIN seen \subseteq Path /\ \A p \in DOMAIN seen : seen[p].content \in Content \cup {None}
    BY <1>0 DEF ScanSound
  <2> HIDE DEF seen
  <2>3. DOMAIN file = found /\ found \subseteq Path /\ \A p \in found : file[p].content \in Content
    BY <2>2 DEF Absent
  <2>4. rest \subseteq Path
    BY <1>0 DEF ScanSound
  <2> HIDE DEF found, file, rest
  <2>5. CASE rest # {}
    <3>1. DOMAIN scan' = ScanField /\ scan'.phase = "list" /\ scan'.todo = rest /\ scan'.seen = seen
      BY <1>0, <2>1, <2>5 DEF ScanField
    <3>2. ScanSound(scan')
      BY <2>2, <2>4, <3>1 DEF ScanSound
    <3> QED BY <1>1, <1>2, <3>2, ScanFrame
  <2>6. CASE rest = {}
    <3>1. DOMAIN scan' = ScanField /\ scan'.phase = "read" /\ scan'.todo = found /\ scan'.seen = file
      BY <1>0, <2>1, <2>6 DEF ScanField
    <3>2. ScanSound(scan')
      BY <2>3, <3>1 DEF ScanSound
    <3> QED BY <1>1, <1>2, <3>2, ScanFrame
  <2> QED BY <2>5, <2>6
<1>6. ASSUME NEW path \in Path, ScanRead(path) PROVE IInv'
  <2> DEFINE less == [p \in DOMAIN scan.seen \ {path} |-> scan.seen[p]]
  <2>0. /\ scan.phase = "read" /\ scan.todo \subseteq DOMAIN scan.seen /\ DOMAIN scan.seen \subseteq Path
        /\ \A p \in DOMAIN scan.seen : scan.seen[p].content \in Content
    BY <1>0, <1>6 DEF ScanRead, ScanSound
  <2>1. CASE disk[path] # scan.seen[path]
    <3>1. scan' = [scan EXCEPT !.todo = @ \ {path}, !.retry = TRUE, !.seen = less]
      BY <1>6, <2>1 DEF ScanRead
    <3>2. DOMAIN less = DOMAIN scan.seen \ {path} /\ \A p \in DOMAIN less : less[p] = scan.seen[p]
      OBVIOUS
    <3> HIDE DEF less
    <3>3. /\ DOMAIN scan' = ScanField /\ scan'.phase = "read" /\ scan'.todo = scan.todo \ {path}
          /\ scan'.seen = less
      BY <1>0, <2>0, <3>1 DEF ScanField
    <3>4. ScanSound(scan')
      BY <2>0, <3>2, <3>3 DEF ScanSound
    <3> QED BY <1>1, <1>2, <3>4, ScanFrame
  <2>2. CASE disk[path] = scan.seen[path]
    <3> DEFINE c == IF Cached(path) THEN scan.captured \cup {path} ELSE scan.captured
    <3>1. scan' = [scan EXCEPT !.todo = @ \ {path}, !.captured = c]
      BY <1>6, <2>2 DEF ScanRead
    <3> HIDE DEF c
    <3>2. /\ DOMAIN scan' = DOMAIN scan /\ scan'.phase = scan.phase /\ scan'.todo \subseteq scan.todo
          /\ scan'.seen = scan.seen /\ scan'.base = scan.base
      BY <1>0, <2>0, <3>1 DEF ScanField
    <3>3. ScanSound(scan')
      BY <1>0, <3>2, ScanOn
    <3> QED BY <1>1, <1>2, <3>3, ScanFrame
  <2> QED BY <2>1, <2>2
<1>7. CASE ScanReadDone
  <2>1. /\ scan.phase = "read"
        /\ \/ scan' = [scan EXCEPT !.phase = "end", !.captured = {}, !.retry = TRUE]
           \/ scan' = [scan EXCEPT !.phase = "capture", !.todo = DOMAIN scan.seen \ scan.captured]
    BY <1>7 DEF ScanReadDone
  <2>2. CASE scan' = [scan EXCEPT !.phase = "end", !.captured = {}, !.retry = TRUE]
    <3>1. /\ DOMAIN scan' = DOMAIN scan /\ scan'.phase = "end" /\ scan'.todo = scan.todo
          /\ scan'.seen = scan.seen /\ scan'.base = scan.base
      BY <1>0, <2>2 DEF ScanField
    <3>2. ScanSound(scan')
      BY <1>0, <3>1, ScanOn
    <3> QED BY <1>1, <1>2, <3>2, ScanFrame
  <2>3. CASE scan' = [scan EXCEPT !.phase = "capture", !.todo = DOMAIN scan.seen \ scan.captured]
    <3>1. /\ DOMAIN scan' = DOMAIN scan /\ scan'.phase = "capture"
          /\ scan'.todo = DOMAIN scan.seen \ scan.captured /\ scan'.seen = scan.seen
      BY <1>0, <2>3 DEF ScanField
    <3>2. ScanSound(scan')
      BY <1>0, <2>1, <3>1 DEF ScanSound
    <3> QED BY <1>1, <1>2, <3>2, ScanFrame
  <2> QED BY <2>1, <2>2, <2>3
<1> QED BY <1>3, <1>4, <1>5, <1>6, <1>7

(***************************************************************************)
(* The inventory hands a file to saved().                                  *)
(***************************************************************************)
LEMMA ScanCaptureInductive ==
  ASSUME IInv, NEW path \in Path, ScanCapture(path)
  PROVE  IInv'
<1> DEFINE w == Saving(path, scan.seen[path].content, None, TRUE)
           s == ScanResult(scan, path, FALSE)
<1>1. /\ UNCHANGED <<journal, history, queue, disk, clock, view, app>> /\ work = NoWork
      /\ scan.phase = "capture" /\ path \in scan.todo
      /\ \/ scan' = s /\ work' = work
         \/ Schedule(s) /\ work' = work
         \/ scan' = scan /\ work' = w
  BY DEF ScanCapture, elsewhere
<1>2. ScanSound(scan) /\ ScanSound(s)
  BY ScanGoesOn DEF IInv
<1>3. scan.seen[path].content \in Content
  BY <1>1, <1>2 DEF ScanSound
<1>4. w.path = path /\ w.content \in Content /\ w.predecessor = None /\ w.inventory = TRUE
  BY <1>3 DEF Saving
<1> HIDE DEF w, s
<1>5. WorkSound'
  BY <1>1, <1>4 DEF IInv, WorkSound, NoWork
<1>6. ScanSound(scan')
  BY <1>1, <1>2, ScheduleSound
<1> QED BY <1>1, <1>5, <1>6, ScanFrame

(***************************************************************************)
(* history.protect keeps what is there.                                    *)
(***************************************************************************)
LEMMA ProtectSound ==
  ASSUME HistorySound, NEW o, NEW path \in Path, NEW c \in Content, CanProtect(o, path, c),
         Protect(o, path, c)
  PROVE  /\ HistoryKept /\ HistorySound' /\ o \in DOMAIN history' /\ history'[o].content = c
<1>1. Version(path, c).content = c /\ Version(path, c).path = path
  BY DEF Version
<1>2. /\ DOMAIN history' = DOMAIN history \cup {o}
      /\ \A x \in DOMAIN history' : history'[x] = IF x = o THEN Version(path, c) ELSE history[x]
  BY DEF Protect
<1>3. HistoryKept
  BY <1>2 DEF HistoryKept, CanProtect
<1> QED BY <1>1, <1>2, <1>3 DEF HistorySound

(***************************************************************************)
(* reconcile_deletions.                                                    *)
(***************************************************************************)
LEMMA DeletionsInductive ==
  ASSUME IInv, ScanDeletions \/ ProtectDeleted \/ CheckDeleted \/ CaptureDeleted \/ ScanEnd
  PROVE  IInv'
<1>0. /\ ScanSound(scan) /\ DOMAIN scan = ScanField /\ ScanSound(Deferred)
      /\ ScanSound([scan EXCEPT !.phase = "end"])
  BY ScanGoesOn DEF IInv, ScanSound, Deferred
<1>1. UNCHANGED <<disk, clock, view, app, queue, work>>
  BY DEF ScanDeletions, ProtectDeleted, CheckDeleted, CaptureDeleted, ScanEnd, elsewhere
<1>2. WorkSound'
  BY <1>1 DEF IInv, WorkSound, NoWork
<1>3. ASSUME NEW ph \in {"protect", "check", "tombstone"}, NEW base \in Revision, ContentOf[base] \in Content,
             scan' = [scan EXCEPT !.phase = ph, !.base = base]
      PROVE  ScanSound(scan')
  <2>1. /\ DOMAIN scan' = ScanField /\ scan'.phase = ph /\ scan'.base = base /\ scan'.todo = scan.todo
        /\ scan'.seen = scan.seen
    BY <1>0, <1>3 DEF ScanField
  <2> QED BY <1>0, <1>3, <2>1 DEF ScanSound
<1>4. CASE ScanDeletions
  <2> DEFINE base == journal.applied
  <2>1. /\ UNCHANGED <<journal, history>>
        /\ \/ Schedule(Deferred)
           \/ /\ ContentOf[base] # None
              /\ scan' \in {[scan EXCEPT !.phase = "protect", !.base = base], Deferred}
           \/ scan' = [scan EXCEPT !.phase = "end"]
    BY <1>4 DEF ScanDeletions
  <2>2. base \in Revision /\ ContentOf[base] \in Content \cup {None}
    BY GraphAssumption DEF IInv, Consistent, JournalType
  <2>3. ScanSound(scan')
    BY <1>0, <1>3, <2>1, <2>2, ScheduleSound
  <2> QED BY <1>1, <1>2, <2>1, <2>3, ScanFrame
<1>5. ASSUME scan.phase \in {"protect", "check", "tombstone"}
      PROVE  /\ scan.base \in Revision /\ ContentOf[scan.base] \in Content /\ PathOf[scan.base] \in Path
             /\ \A ph : [scan EXCEPT !.phase = ph] = [scan EXCEPT !.phase = ph, !.base = scan.base]
  BY <1>0, <1>5, GraphAssumption DEF ScanSound, ScanField
<1>6. CASE ProtectDeleted
  <2> DEFINE o == DeleteOperation(scan.base)
             path == PathOf[scan.base]
             c == ContentOf[scan.base]
  <2>1. /\ scan.phase = "protect" /\ UNCHANGED journal
        /\ \/ CanProtect(o, path, c) /\ Protect(o, path, c) /\ scan' = [scan EXCEPT !.phase = "check"]
           \/ scan' = Deferred /\ UNCHANGED history
    BY <1>6 DEF ProtectDeleted
  <2>2. path \in Path /\ c \in Content /\ HistorySound
    BY <1>5, <2>1 DEF IInv
  <2>3. HistoryKept /\ HistorySound'
    <3>1. CASE UNCHANGED history
      BY <2>2, <3>1 DEF HistoryKept, HistorySound
    <3>2. CASE CanProtect(o, path, c) /\ Protect(o, path, c)
      <4> HIDE DEF o, path, c
      <4> QED BY <2>2, <3>2, ProtectSound
    <3> QED BY <2>1, <3>1, <3>2
  <2>4. ScanSound(scan')
    BY <1>0, <1>3, <1>5, <2>1
  <2> QED BY <1>1, <1>2, <2>1, <2>3, <2>4, CaptureFrame DEF IInv
<1>7. CASE CheckDeleted
  <2>1. /\ scan.phase = "check" /\ UNCHANGED <<journal, history>>
        /\ \/ Schedule(Deferred)
           \/ scan' \in {[scan EXCEPT !.phase = "tombstone"], Deferred}
    BY <1>7 DEF CheckDeleted
  <2>2. ScanSound(scan')
    BY <1>0, <1>3, <1>5, <2>1, ScheduleSound
  <2> QED BY <1>1, <1>2, <2>1, <2>2, ScanFrame
<1>8. CASE CaptureDeleted
  <2> DEFINE id == SnapshotId(Self, PathOf[scan.base], None, scan.base)
  <2>1. /\ scan.phase = "tombstone" /\ UNCHANGED history
        /\ \/ /\ CaptureAdmitted(journal, scan.base) /\ id \in Revision
              /\ journal' = Captured(journal, id) /\ scan' = [scan EXCEPT !.phase = "end"]
           \/ scan' = Deferred /\ UNCHANGED journal
    BY <1>8 DEF CaptureDeleted
  <2>2. /\ Consistent(journal') /\ journal'.applied # None
        /\ Rows(journal) \subseteq Rows(journal') /\ journal'.intents = journal.intents
    <3>1. CASE UNCHANGED journal
      BY <3>1 DEF IInv
    <3>2. CASE CaptureAdmitted(journal, scan.base) /\ id \in Revision /\ journal' = Captured(journal, id)
      <4>1. journal.applied = scan.base
        BY <3>2 DEF CaptureAdmitted
      <4> QED BY <1>5, <2>1, <3>2, <4>1, CaptureSound
    <3> QED BY <2>1, <3>1, <3>2
  <2>3. ScanSound(scan') /\ HistoryKept /\ HistorySound'
    BY <1>0, <2>1 DEF HistoryKept, IInv, HistorySound
  <2> QED BY <1>1, <1>2, <2>2, <2>3, CaptureFrame
<1>9. CASE ScanEnd
  <2>1. scan' = NoScan /\ UNCHANGED <<journal, history>>
    BY <1>9 DEF ScanEnd
  <2> QED BY <1>1, <1>2, <2>1, IdleSound, ScanFrame
<1> QED BY <1>4, <1>6, <1>7, <1>8, <1>9

---------------------------------------------------------------------------
(***************************************************************************)
(* A step of the application that only notes where it is.                  *)
(***************************************************************************)
LEMMA ApplyFrame ==
  ASSUME IInv, UNCHANGED <<journal, disk, clock, history, view, queue, work, scan>>, AppSound(app')
  PROVE  IInv'
<1>1. AppSound(app)'
  BY DEF AppSound, Kept, Absent, BytesOf, Pending, Rows
<1>2. FilesSound' /\ ViewSound' /\ WorkSound' /\ ScanSound(scan)' /\ HistorySound' /\ IntentsSound'
  BY DEF IInv, FilesSound, ViewSound, NoView, WorkSound, NoWork, ScanSound, HistorySound, IntentsSound,
         Kept, BytesOf
<1>3. Consistent(journal)' /\ journal'.applied # None
  BY DEF IInv
<1> QED BY <1>1, <1>2, <1>3 DEF IInv

(***************************************************************************)
(* An attempt that ends with an exception, or is offered to the owner of   *)
(* the document.                                                           *)
(***************************************************************************)
LEMMA ThrowInductive ==
  ASSUME IInv, Throw
  PROVE  IInv'
<1>1. app' = NoApp /\ UNCHANGED <<journal, disk, clock, history, view, queue, work, scan>>
  BY DEF Throw, files, workerState
<1> QED BY <1>1, IdleSound, ApplyFrame

(***************************************************************************)
(* An attempt is deferred; its intent may be taken back.                   *)
(***************************************************************************)
LEMMA DeferInductive ==
  ASSUME IInv, Defer, app.pc # "idle"
  PROVE  IInv'
<1> DEFINE offer == [NoApp EXCEPT !.pc = "offer", !.target = app.target]
<1>1. /\ journal' = journal \/ (CanAbandon(journal, app.target) /\ journal' = Abandoned(journal, app.target))
      /\ app' \in {NoApp, offer}
      /\ UNCHANGED <<disk, clock, history, view, queue, work, scan>>
  BY DEF Defer, files, workerState
<1>2. /\ Consistent(journal') /\ journal'.applied = journal.applied /\ Rows(journal') = Rows(journal)
      /\ DOMAIN journal'.intents \subseteq DOMAIN journal.intents
      /\ \A o \in DOMAIN journal'.intents : journal'.intents[o] = journal.intents[o]
  <2>1. CASE journal' = journal
    BY <2>1 DEF IInv
  <2>2. CASE CanAbandon(journal, app.target) /\ journal' = Abandoned(journal, app.target)
    <3>1. Consistent(journal') /\ journal'.applied = journal.applied
      BY <2>2, AbandonedConsistent DEF IInv
    <3>2. /\ journal'.rowid = journal.rowid
          /\ journal'.intents = [o \in DOMAIN journal.intents \ {app.target} |-> journal.intents[o]]
      BY <2>2 DEF IInv, Consistent, JournalType, Abandoned
    <3> QED BY <3>1, <3>2 DEF Rows
  <2> QED BY <1>1, <2>1, <2>2
<1>3. IntentsSound'
  <2>1. \A t, c : Kept(t, c) => Kept(t, c)'
    BY <1>1 DEF Kept, ApplyOperation
  <2> QED BY <1>2, <2>1 DEF IInv, IntentsSound, BytesOf
<1>4. AppSound(app)'
  <2>1. app.target \in Rows(journal) /\ app.target \in Revision
    BY DEF IInv, AppSound, Consistent, JournalType
  <2>2. /\ NoApp \in AppType /\ NoApp.pc = "idle" /\ NoApp.target = None /\ ~NoApp.live
    BY IdleSound
  <2>3. offer \in AppType /\ offer.pc = "offer" /\ offer.target = app.target /\ ~offer.live
    <3> DEFINE x == NoApp
               t == app.target
    <3> HIDE DEF x, t
    <3>1. /\ x \in AppType /\ ~x.live /\ t \in Revision \cup {None}
          /\ "offer" \in {"idle", "offer", "enter", "observe", "protect", "prepare"} \cup Underway
      BY <2>1, <2>2 DEF x, t
    <3>2. \A y : y = [x EXCEPT !.pc = "offer", !.target = t] =>
            y \in AppType /\ y.pc = "offer" /\ y.target = t /\ ~y.live
      BY <3>1 DEF AppType
    <3> QED BY <3>2 DEF x, t
  <2> HIDE DEF offer
  <2>4. /\ app' \in AppType /\ app'.pc \in {"idle", "offer"} /\ ~app'.live
        /\ app'.target \in Rows(journal) \cup {None} /\ (app'.pc # "idle" => app'.target \in Rows(journal))
    BY <1>1, <2>1, <2>2, <2>3
  <2> QED BY <1>2, <2>4 DEF AppSound, Underway, Rows
<1>5. FilesSound' /\ ViewSound' /\ WorkSound' /\ ScanSound(scan)' /\ HistorySound'
  BY <1>1 DEF IInv, FilesSound, ViewSound, NoView, WorkSound, NoWork, ScanSound, HistorySound
<1> QED BY <1>2, <1>3, <1>4, <1>5 DEF IInv

(***************************************************************************)
(* The application record with another program counter.                    *)
(***************************************************************************)
LEMMA AppFields ==
  ASSUME IInv
  PROVE  /\ app \in AppType
         /\ DOMAIN app = {"pc", "target", "expected", "source", "prepared", "published", "lock", "live"}
         /\ app.pc # "idle" => app.target \in Rows(journal) /\ app.target \in Revision
         /\ app.expected \in Revision \cup {None} /\ app.source.content \in Content \cup {None}
         /\ journal.applied \in Revision /\ BytesOf(journal.applied) = ContentOf[journal.applied]
<1>1. app \in AppType /\ (app.pc # "idle" => app.target \in Rows(journal))
  BY DEF IInv, AppSound
<1>2. DOMAIN app = {"pc", "target", "expected", "source", "prepared", "published", "lock", "live"}
  BY <1>1 DEF AppType
<1>3. app.expected \in Revision \cup {None} /\ app.source.content \in Content \cup {None}
  BY <1>1 DEF AppType, FileType
<1>4. Rows(journal) \subseteq Revision /\ journal.applied \in Revision
  BY DEF IInv, Consistent, JournalType
<1> QED BY <1>1, <1>2, <1>3, <1>4, GraphAssumption DEF BytesOf

(***************************************************************************)
(* An application begins, or is taken up by the owner of the document.     *)
(***************************************************************************)
LEMMA BeginInductive ==
  ASSUME IInv, BeginApplication \/ BeginLive
  PROVE  IInv'
<1>1. CASE BeginApplication
  <2>1. PICK target \in Pending(journal) \cup Candidates(journal) :
          app' = [NoApp EXCEPT !.pc = "enter", !.target = target]
    BY <1>1 DEF BeginApplication
  <2>2. target \in Rows(journal) /\ target \in Revision
    BY DEF IInv, Consistent, JournalType, Pending, Candidates, Heads
  <2>3. app' \in AppType /\ app'.pc = "enter" /\ app'.target = target /\ ~app'.live
    <3> DEFINE x == NoApp
    <3> HIDE DEF x
    <3>1. x \in AppType /\ ~x.live
      BY IdleSound DEF x
    <3>2. \A y : y = [x EXCEPT !.pc = "enter", !.target = target] =>
            y \in AppType /\ y.pc = "enter" /\ y.target = target /\ ~y.live
      BY <2>2, <3>1 DEF AppType
    <3> QED BY <2>1, <3>2 DEF x
  <2>4. AppSound(app')
    BY <2>2, <2>3 DEF AppSound, Underway
  <2>5. UNCHANGED <<journal, disk, clock, history, view, queue, work, scan>>
    BY <1>1 DEF BeginApplication, files, workerState
  <2> QED BY <2>4, <2>5, ApplyFrame
<1>2. CASE BeginLive
  <2>1. /\ app.pc = "offer" /\ OwnerQualifies /\ app' = [app EXCEPT !.pc = "enter", !.live = TRUE]
        /\ UNCHANGED <<journal, disk, clock, history, view, queue, work, scan>>
    BY <1>2 DEF BeginLive, At, files, workerState
  <2>2. app' \in AppType /\ app'.pc = "enter" /\ app'.target = app.target /\ app'.target \in Rows(journal)
    BY <2>1, AppFields DEF AppType
  <2>3. view.path \in Path /\ ~view.dirty
    BY <2>1, AppFields, GraphAssumption DEF OwnerQualifies, OpenAt
  <2>4. AppSound(app')
    BY <2>2, <2>3 DEF AppSound, Underway
  <2> QED BY <2>1, <2>4, ApplyFrame
<1> QED BY <1>1, <1>2

(***************************************************************************)
(* The attempt succeeded and is over.                                      *)
(***************************************************************************)
LEMMA CompleteInductive ==
  ASSUME IInv, Complete, UNCHANGED <<journal, disk, clock, history, view>>
  PROVE  IInv'
<1>1. app' = NoApp /\ UNCHANGED <<queue, work, scan>>
  BY DEF Complete
<1> QED BY <1>1, IdleSound, ApplyFrame

(***************************************************************************)
(* The target's intent, if there is one, is unfinished from here on.       *)
(***************************************************************************)
LEMMA EnterInductive ==
  ASSUME IInv, Enter
  PROVE  IInv'
<1> DEFINE expected == IF HasIntent THEN ThisIntent.expected ELSE journal.applied
           done == IF HasIntent THEN ThisIntent.completed ELSE expected = app.target
           pc == IF HasIntent THEN "recheck" ELSE "observe"
<1>1. \/ Complete /\ UNCHANGED <<journal, disk, clock, history, view>>
      \/ Throw
      \/ /\ ~done /\ app' = [app EXCEPT !.expected = expected, !.pc = pc] /\ app.pc = "enter"
         /\ UNCHANGED <<journal, disk, clock, history, view, queue, work, scan>>
  BY DEF Enter, At, files, workerState
<1>2. CASE /\ ~done /\ app' = [app EXCEPT !.expected = expected, !.pc = pc] /\ app.pc = "enter"
           /\ UNCHANGED <<journal, disk, clock, history, view, queue, work, scan>>
  <2>1. expected \in Revision \cup {None}
    BY AppFields DEF HasIntent, ThisIntent, IInv, Consistent, JournalType, Intent
  <2>2. pc = "recheck" => app.target \in Pending(journal) /\ expected = journal.intents[app.target].expected
    BY <1>2 DEF HasIntent, ThisIntent, Pending
  <2>3. pc \in {"recheck", "observe"}
    OBVIOUS
  <2> HIDE DEF expected, pc, done
  <2>4. /\ app' \in AppType /\ app'.pc = pc /\ app'.target = app.target /\ app'.expected = expected
        /\ app'.live = app.live /\ app.target \in Rows(journal)
    <3>1. pc \in {"idle", "offer", "enter", "observe", "protect", "prepare"} \cup Underway
      BY <2>3 DEF Underway
    <3> QED BY <1>2, <2>1, <3>1, AppFields DEF AppType
  <2>5. AppSound(app')
    BY <2>2, <2>3, <2>4 DEF AppSound, Underway, IInv
  <2> QED BY <1>2, <2>5, ApplyFrame
<1> QED BY <1>1, <1>2, ThrowInductive, CompleteInductive

(***************************************************************************)
(* The source is observed: it holds what the applied revision left.        *)
(***************************************************************************)
LEMMA ObserveInductive ==
  ASSUME IInv, ObserveSource
  PROVE  IInv'
<1> DEFINE source == disk[SourcePath]
<1>1. \/ Throw
      \/ /\ app.pc = "observe" /\ source.content = BytesOf(app.expected)
         /\ app' = [app EXCEPT !.source = source, !.pc = "protect"]
         /\ UNCHANGED <<journal, disk, clock, history, view, queue, work, scan>>
  BY DEF ObserveSource, At, files, workerState, BytesOf
<1>2. CASE /\ app.pc = "observe" /\ source.content = BytesOf(app.expected)
           /\ app' = [app EXCEPT !.source = source, !.pc = "protect"]
           /\ UNCHANGED <<journal, disk, clock, history, view, queue, work, scan>>
  <2>1. SourcePath \in Path
    BY <1>2, AppFields, GraphAssumption DEF SourcePath
  <2>2. source \in FileType
    BY <2>1 DEF IInv, FilesSound
  <2> HIDE DEF source
  <2>3. /\ app' \in AppType /\ app'.pc = "protect" /\ app'.target = app.target
        /\ app'.expected = app.expected /\ app'.source = source /\ app'.live = app.live
        /\ app.target \in Rows(journal)
    BY <1>2, <2>2, AppFields DEF AppType
  <2>4. AppSound(app')
    BY <1>2, <2>3 DEF AppSound, Underway, IInv
  <2> QED BY <1>2, <2>4, ApplyFrame
<1> QED BY <1>1, <1>2, ThrowInductive

(***************************************************************************)
(* The source is in File History before anything is prepared.              *)
(***************************************************************************)
LEMMA ProtectInductive ==
  ASSUME IInv, ProtectSource
  PROVE  IInv'
<1> DEFINE o == ApplyOperation(app.target)
           c == app.source.content
           path == SourcePath
<1>1. \/ Throw
      \/ /\ app.pc = "protect" /\ app' = [app EXCEPT !.pc = "prepare"]
         /\ \/ c = None /\ UNCHANGED history
            \/ c # None /\ CanProtect(o, path, c) /\ Protect(o, path, c)
         /\ UNCHANGED <<journal, disk, clock, view, queue, work, scan>>
  BY DEF ProtectSource, At, Goto, Absent, Operation, files, workerState
<1>2. CASE /\ app.pc = "protect" /\ app' = [app EXCEPT !.pc = "prepare"]
           /\ \/ c = None /\ UNCHANGED history
              \/ c # None /\ CanProtect(o, path, c) /\ Protect(o, path, c)
           /\ UNCHANGED <<journal, disk, clock, view, queue, work, scan>>
  <2>1. /\ path \in Path /\ c \in Content \cup {None} /\ app.target \in Rows(journal)
        /\ c = BytesOf(app.expected)
    <3>1. path \in Path /\ c \in Content \cup {None} /\ app.target \in Rows(journal)
      BY <1>2, AppFields, GraphAssumption DEF SourcePath
    <3> QED BY <1>2, <3>1 DEF IInv, AppSound
  <2>2. HistoryKept /\ HistorySound' /\ (c # None => o \in DOMAIN history' /\ history'[o].content = c)
    <3>1. CASE c = None /\ UNCHANGED history
      BY <3>1 DEF IInv, HistoryKept, HistorySound
    <3>2. CASE c # None /\ CanProtect(o, path, c) /\ Protect(o, path, c)
      <4>1. c \in Content /\ HistorySound
        BY <2>1, <3>2 DEF IInv
      <4> HIDE DEF o, c, path
      <4> QED BY <2>1, <3>2, <4>1, ProtectSound
    <3> QED BY <1>2, <3>1, <3>2
  <2>3. /\ app' \in AppType /\ app'.pc = "prepare" /\ app'.target = app.target
        /\ app'.expected = app.expected /\ app'.source = app.source /\ app'.live = app.live
    BY <1>2, AppFields DEF AppType
  <2>4. AppSound(app)'
    <3>1. c # None => Kept(app.target, c)'
      <4>1. app'.target = app.target /\ app'.source.content = c
        BY <2>3
      <4> QED BY <2>2, <4>1 DEF Kept, ApplyOperation
    <3>2. (app'.live => view'.path \in Path /\ ~view'.dirty) /\ Rows(journal)' = Rows(journal)
      BY <1>2, <2>3 DEF IInv, AppSound, Rows
    <3> QED BY <2>1, <2>3, <3>1, <3>2 DEF AppSound, Underway, Absent, BytesOf
  <2>5. IntentsSound'
    <3>1. \A t, d : Kept(t, d) => Kept(t, d)'
      BY <2>2 DEF Kept, HistoryKept, ApplyOperation
    <3> QED BY <1>2, <3>1 DEF IInv, IntentsSound, BytesOf
  <2>6. FilesSound' /\ ViewSound' /\ WorkSound' /\ ScanSound(scan)' /\ Consistent(journal)' /\ journal'.applied # None
    BY <1>2 DEF IInv, FilesSound, ViewSound, NoView, WorkSound, NoWork, ScanSound
  <2> QED BY <2>2, <2>4, <2>5, <2>6 DEF IInv
<1> QED BY <1>1, <1>2, ThrowInductive

(***************************************************************************)
(* prepare_apply records the preimage that File History holds.             *)
(***************************************************************************)
LEMMA PrepareInductive ==
  ASSUME IInv, PrepareIntent
  PROVE  IInv'
<1> DEFINE t == app.target
           c == app.source.content
           new == [expected |-> app.expected, source |-> c, completed |-> FALSE]
<1>1. \/ Throw
      \/ /\ app.pc = "prepare" /\ CanPrepare(journal, t, app.expected, SourcePath)
         /\ journal' = Prepared(journal, t, app.expected, c)
         /\ app' = [app EXCEPT !.prepared = TRUE, !.pc = "recheck"]
         /\ UNCHANGED <<disk, clock, history, view, queue, work, scan>>
  BY DEF PrepareIntent, MayPrepare, At, files, workerState
<1>2. CASE /\ app.pc = "prepare" /\ CanPrepare(journal, t, app.expected, SourcePath)
           /\ journal' = Prepared(journal, t, app.expected, c)
           /\ app' = [app EXCEPT !.prepared = TRUE, !.pc = "recheck"]
           /\ UNCHANGED <<disk, clock, history, view, queue, work, scan>>
  <2>1. /\ t \in Revision /\ t \in Rows(journal) /\ c \in Content \cup {None} /\ app.expected = journal.applied
        /\ c = BytesOf(app.expected) /\ (c # None => Kept(t, c)) /\ t \notin DOMAIN journal.intents
    <3>1. /\ t \in Revision /\ t \in Rows(journal) /\ c \in Content \cup {None} /\ app.expected = journal.applied
          /\ t \notin DOMAIN journal.intents
      BY <1>2, AppFields DEF CanPrepare
    <3> QED BY <1>2, <3>1 DEF IInv, AppSound, Absent
  <2>2. Consistent(journal') /\ journal'.applied = journal.applied
    BY <1>2, <2>1, PreparedConsistent DEF IInv
  <2>3. /\ journal'.rowid = journal.rowid
        /\ journal'.intents = [o \in DOMAIN journal.intents \cup {t} |-> IF o = t THEN new ELSE journal.intents[o]]
    BY <1>2 DEF IInv, Consistent, JournalType, Prepared
  <2>4. new.expected = app.expected /\ new.source = c /\ new.completed = FALSE
    OBVIOUS
  <2> HIDE DEF new, c
  <2>5. /\ DOMAIN journal'.intents = DOMAIN journal.intents \cup {t} /\ journal'.intents[t] = new
        /\ \A o \in DOMAIN journal.intents : journal'.intents[o] = journal.intents[o]
    BY <2>1, <2>3
  <2>6. t \in Pending(journal') /\ Rows(journal') = Rows(journal)
    BY <2>3, <2>4, <2>5 DEF Pending, Rows
  <2>7. IntentsSound'
    <3> DEFINE Recorded0(i, o) == /\ i.source = BytesOf(i.expected)
                                  /\ i.source # None =>
                                       /\ ApplyOperation(o) \in DOMAIN history
                                       /\ history[ApplyOperation(o)].content = i.source
    <3>1. Recorded0(new, t)
      BY <2>1, <2>4 DEF Kept
    <3>2. \A o \in DOMAIN journal.intents : Recorded0(journal.intents[o], o)
      BY DEF IInv, IntentsSound, Kept
    <3> HIDE DEF Recorded0
    <3>3. \A o \in DOMAIN journal'.intents : Recorded0(journal'.intents[o], o)
      BY <2>5, <3>1, <3>2
    <3> QED BY <1>2, <3>3 DEF Recorded0, IntentsSound, BytesOf, Kept, ApplyOperation
  <2>8. AppSound(app)'
    <3>1. /\ app' \in AppType /\ app'.pc = "recheck" /\ app'.target = t
          /\ app'.expected = app.expected /\ app'.live = app.live
      BY <1>2, AppFields DEF AppType, Underway
    <3>2. app'.live => view'.path \in Path /\ ~view'.dirty
      BY <1>2, <3>1 DEF IInv, AppSound
    <3>3. app'.expected = journal'.intents[app'.target].expected /\ app'.target \in Pending(journal')
      BY <2>4, <2>5, <2>6, <3>1
    <3> QED BY <2>1, <2>6, <3>1, <3>2, <3>3 DEF AppSound, Underway, Pending, Rows
  <2>9. FilesSound' /\ ViewSound' /\ WorkSound' /\ ScanSound(scan)' /\ HistorySound'
    BY <1>2 DEF IInv, FilesSound, ViewSound, NoView, WorkSound, NoWork, ScanSound, HistorySound
  <2> QED BY <2>2, <2>7, <2>8, <2>9 DEF IInv
<1> QED BY <1>1, <1>2, ThrowInductive

(***************************************************************************)
(* The steps on an unfinished intent: a step to another one changes where  *)
(* the application is and nothing it has established.                      *)
(***************************************************************************)
LEMMA UnderwayKept ==
  ASSUME IInv, NEW a, app.pc \in Underway, a \in AppType, a.pc \in Underway,
         a.target = app.target, a.expected = app.expected, a.live = app.live,
         a.pc \in {"publish", "remove"} /\ ~Absent(a.source) =>
           a.source.content = journal.intents[app.target].source,
         a.pc = "reload" => a.live
  PROVE  AppSound(a)
<1>1. /\ app.target \in Rows(journal) /\ app.target \in Pending(journal)
      /\ app.expected = journal.intents[app.target].expected
      /\ app.live => view.path \in Path /\ ~view.dirty
  BY DEF IInv, AppSound, Underway
<1> QED BY <1>1 DEF AppSound, Underway

(***************************************************************************)
(* The intent is checked again, and what is left to do is determined.      *)
(***************************************************************************)
LEMMA InspectInductive ==
  ASSUME IInv, RecheckIntent \/ Inspect
  PROVE  IInv'
<1>1. CASE RecheckIntent
  <2>1. \/ Throw
        \/ /\ app.pc = "recheck" /\ app' = [app EXCEPT !.pc = "inspect"]
           /\ UNCHANGED <<journal, disk, clock, history, view, queue, work, scan>>
    BY <1>1 DEF RecheckIntent, At, Goto, files, workerState
  <2>2. CASE /\ app.pc = "recheck" /\ app' = [app EXCEPT !.pc = "inspect"]
             /\ UNCHANGED <<journal, disk, clock, history, view, queue, work, scan>>
    <3>1. /\ app' \in AppType /\ app'.pc = "inspect" /\ app'.target = app.target
          /\ app'.expected = app.expected /\ app'.live = app.live
      BY <2>2, AppFields DEF AppType, Underway
    <3>2. AppSound(app')
      <4>1. app.pc \in Underway /\ app'.pc \in Underway
        BY <2>2, <3>1 DEF Underway
      <4>2. ~(app'.pc \in {"publish", "remove"}) /\ app'.pc # "reload"
        BY <3>1
      <4> QED BY <3>1, <4>1, <4>2, UnderwayKept
    <3> QED BY <2>2, <3>2, ApplyFrame
  <2> QED BY <2>1, <2>2, ThrowInductive
<1>2. CASE Inspect
  <2> DEFINE source == disk[SourcePath]
             deleted == ContentOf[app.target] = None
             installed == ~deleted /\ disk[TargetPath].content = ContentOf[app.target]
             next == IF ~deleted /\ ~installed THEN "publish"
                     ELSE IF (deleted \/ Renamed) /\ ~Absent(source) THEN "remove"
                     ELSE "verify"
  <2>1. \/ Throw
        \/ /\ app.pc = "inspect" /\ ~Changed(source, installed)
           /\ app' = [app EXCEPT !.source = source, !.pc = next]
           /\ UNCHANGED <<journal, disk, clock, history, view, queue, work, scan>>
    BY <1>2 DEF Inspect, At, files, workerState
  <2>2. CASE /\ app.pc = "inspect" /\ ~Changed(source, installed)
             /\ app' = [app EXCEPT !.source = source, !.pc = next]
             /\ UNCHANGED <<journal, disk, clock, history, view, queue, work, scan>>
    <3>1. source \in FileType
      <4>1. SourcePath \in Path
        BY <2>2, AppFields, GraphAssumption DEF SourcePath
      <4> QED BY <4>1 DEF IInv, FilesSound
    <3>2. next \in {"publish", "remove", "verify"}
      OBVIOUS
    <3>3. next \in {"publish", "remove"} /\ ~Absent(source) => source.content = journal.intents[app.target].source
      BY <2>2 DEF Changed, ThisIntent
    <3> HIDE DEF source, next
    <3>4. /\ app' \in AppType /\ app'.pc = next /\ app'.target = app.target /\ app'.source = source
          /\ app'.expected = app.expected /\ app'.live = app.live
      <4>1. next \in {"idle", "offer", "enter", "observe", "protect", "prepare"} \cup Underway
        BY <3>2 DEF Underway
      <4> QED BY <2>2, <3>1, <4>1, AppFields DEF AppType
    <3>5. AppSound(app')
      <4>1. app.pc \in Underway /\ app'.pc \in Underway
        BY <2>2, <3>2, <3>4 DEF Underway
      <4>2. app'.pc \in {"publish", "remove"} /\ ~Absent(app'.source) =>
              app'.source.content = journal.intents[app.target].source
        BY <3>3, <3>4
      <4>3. app'.pc # "reload"
        BY <3>2, <3>4
      <4> QED BY <3>4, <4>1, <4>2, <4>3, UnderwayKept
    <3> QED BY <2>2, <3>5, ApplyFrame
  <2> QED BY <2>1, <2>2, ThrowInductive
<1> QED BY <1>1, <1>2

(***************************************************************************)
(* The target is installed, its old file removed, the result verified and  *)
(* taken over by the open buffer.                                          *)
(***************************************************************************)
LEMMA PublishInductive ==
  ASSUME IInv, Publish \/ RemoveSource \/ Verify \/ Reload
  PROVE  IInv'
<1>0. /\ app.pc \in Underway => TargetPath \in Path /\ SourcePath \in Path
      /\ app.pc \in Underway => ContentOf[app.target] \in Content \cup {None}
  BY AppFields, GraphAssumption DEF TargetPath, SourcePath, Underway
<1>1. ASSUME app.pc \in Underway, app' \in AppType, app'.pc \in Underway, app'.target = app.target,
             app'.expected = app.expected, app'.source = app.source, app'.live = app.live,
             app'.pc = "publish" => app.pc = "publish", app'.pc = "remove" => app.pc \in {"publish", "remove"},
             app'.pc = "reload" => app'.live
      PROVE  AppSound(app')
  <2>1. app.pc \in {"publish", "remove"} /\ ~Absent(app.source) =>
          app.source.content = journal.intents[app.target].source
    BY DEF IInv, AppSound
  <2> QED BY <1>1, <2>1, UnderwayKept
<1>2. ASSUME AppSound(app'), FilesSound', ViewSound', app'.live => view'.path \in Path /\ ~view'.dirty,
             UNCHANGED <<journal, history, queue, work, scan>>
      PROVE  IInv'
  <2>1. AppSound(app)'
    BY <1>2 DEF AppSound, Kept, Absent, BytesOf, Pending, Rows
  <2>2. WorkSound' /\ ScanSound(scan)' /\ HistorySound' /\ IntentsSound'
    BY <1>2 DEF IInv, WorkSound, NoWork, ScanSound, HistorySound, IntentsSound, Kept, BytesOf
  <2> QED BY <1>2, <2>1, <2>2 DEF IInv
<1>3. app.live => view.path \in Path /\ ~view.dirty
  BY DEF IInv, AppSound
<1>4. CASE Publish
  <2> DEFINE pc == IF Renamed /\ ~Absent(app.source) THEN "remove" ELSE "verify"
  <2>1. \/ Throw
        \/ /\ app.pc = "publish" /\ Wrote(TargetPath, ContentOf[app.target])
           /\ app' = [app EXCEPT !.published = TRUE, !.lock = TRUE, !.pc = pc]
           /\ UNCHANGED <<journal, history, view, queue, work, scan>>
    BY <1>4 DEF Publish, Installed, At, workerState
  <2>2. CASE /\ app.pc = "publish" /\ Wrote(TargetPath, ContentOf[app.target])
             /\ app' = [app EXCEPT !.published = TRUE, !.lock = TRUE, !.pc = pc]
             /\ UNCHANGED <<journal, history, view, queue, work, scan>>
    <3>1. pc \in {"remove", "verify"}
      OBVIOUS
    <3> HIDE DEF pc
    <3>2. /\ app' \in AppType /\ app'.pc = pc /\ app'.target = app.target /\ app'.source = app.source
          /\ app'.expected = app.expected /\ app'.live = app.live
      <4>1. pc \in {"idle", "offer", "enter", "observe", "protect", "prepare"} \cup Underway
        BY <3>1 DEF Underway
      <4> QED BY <2>2, <4>1, AppFields DEF AppType
    <3>3. AppSound(app')
      BY <1>1, <2>2, <3>1, <3>2 DEF Underway
    <3>4. FilesSound' /\ ViewSound'
      <4>1. TargetPath \in Path /\ ContentOf[app.target] \in Content \cup {None} /\ FilesSound
        BY <1>0, <2>2 DEF Underway, IInv
      <4>2. FilesSound'
        BY <2>2, <4>1, WroteSound
      <4> QED BY <2>2, <4>2 DEF IInv, ViewSound, NoView
    <3> QED BY <1>2, <1>3, <2>2, <3>2, <3>3, <3>4
  <2> QED BY <2>1, <2>2, ThrowInductive
<1>5. CASE RemoveSource
  <2>1. \/ Throw
        \/ /\ app.pc = "remove" /\ Wrote(SourcePath, None)
           /\ app' = [app EXCEPT !.published = TRUE, !.lock = TRUE, !.pc = "verify"]
           /\ UNCHANGED <<journal, history, view, queue, work, scan>>
    BY <1>5 DEF RemoveSource, Installed, At, workerState
  <2>2. CASE /\ app.pc = "remove" /\ Wrote(SourcePath, None)
             /\ app' = [app EXCEPT !.published = TRUE, !.lock = TRUE, !.pc = "verify"]
             /\ UNCHANGED <<journal, history, view, queue, work, scan>>
    <3>2. /\ app' \in AppType /\ app'.pc = "verify" /\ app'.target = app.target /\ app'.source = app.source
          /\ app'.expected = app.expected /\ app'.live = app.live
      BY <2>2, AppFields DEF AppType, Underway
    <3>3. AppSound(app')
      BY <1>1, <2>2, <3>2 DEF Underway
    <3>4. FilesSound' /\ ViewSound'
      <4>1. SourcePath \in Path /\ None \in Content \cup {None} /\ FilesSound
        BY <1>0, <2>2 DEF Underway, IInv
      <4>2. FilesSound'
        BY <2>2, <4>1, WroteSound
      <4> QED BY <2>2, <4>2 DEF IInv, ViewSound, NoView
    <3> QED BY <1>2, <1>3, <2>2, <3>2, <3>3, <3>4
  <2> QED BY <2>1, <2>2, ThrowInductive
<1>6. CASE Verify
  <2> DEFINE pc == IF app.live THEN "reload" ELSE "finish"
             lock == ~app.live
  <2>1. \/ Throw
        \/ /\ app.pc = "verify" /\ app' = [app EXCEPT !.lock = lock, !.pc = pc]
           /\ UNCHANGED <<journal, disk, clock, history, view, queue, work, scan>>
    BY <1>6 DEF Verify, At, files, workerState
  <2>2. CASE /\ app.pc = "verify" /\ app' = [app EXCEPT !.lock = lock, !.pc = pc]
             /\ UNCHANGED <<journal, disk, clock, history, view, queue, work, scan>>
    <3>1. pc \in {"reload", "finish"} /\ lock \in BOOLEAN /\ (pc = "reload" => app.live)
      OBVIOUS
    <3> HIDE DEF pc, lock
    <3>2. /\ app' \in AppType /\ app'.pc = pc /\ app'.target = app.target /\ app'.source = app.source
          /\ app'.expected = app.expected /\ app'.live = app.live
      <4>1. pc \in {"idle", "offer", "enter", "observe", "protect", "prepare"} \cup Underway
        BY <3>1 DEF Underway
      <4> QED BY <2>2, <3>1, <4>1, AppFields DEF AppType
    <3>3. AppSound(app')
      BY <1>1, <2>2, <3>1, <3>2 DEF Underway
    <3> QED BY <2>2, <3>3, ApplyFrame
  <2> QED BY <2>1, <2>2, ThrowInductive
<1>7. CASE Reload
  <2>1. \/ Throw
        \/ /\ app.pc = "reload" /\ app' = [app EXCEPT !.pc = "finish"]
           /\ \/ view' = view
              \/ view' = [view EXCEPT !.captured = disk[TargetPath].content,
                                      !.stamp = disk[TargetPath].stamp]
           /\ UNCHANGED <<journal, disk, clock, history, queue, work, scan>>
    BY <1>7 DEF Reload, At, Goto, files, workerState
  <2>2. CASE /\ app.pc = "reload" /\ app' = [app EXCEPT !.pc = "finish"]
             /\ \/ view' = view
                \/ view' = [view EXCEPT !.captured = disk[TargetPath].content,
                                        !.stamp = disk[TargetPath].stamp]
             /\ UNCHANGED <<journal, disk, clock, history, queue, work, scan>>
    <3>2. /\ app' \in AppType /\ app'.pc = "finish" /\ app'.target = app.target /\ app'.source = app.source
          /\ app'.expected = app.expected /\ app'.live = app.live
      BY <2>2, AppFields DEF AppType, Underway
    <3>3. AppSound(app')
      BY <1>1, <2>2, <3>2 DEF Underway
    <3>4. /\ view' \in [path : Path \cup {None}, captured : Content \cup {None}, stamp : Nat, dirty : BOOLEAN]
          /\ view'.path = view.path /\ view'.dirty = view.dirty
      <4>1. disk[TargetPath].content \in Content \cup {None} /\ disk[TargetPath].stamp \in Nat
        BY <1>0, <2>2 DEF Underway, IInv, FilesSound, FileType
      <4>2. view \in [path : Path \cup {None}, captured : Content \cup {None}, stamp : Nat, dirty : BOOLEAN]
        BY DEF IInv, ViewSound
      <4> QED BY <2>2, <4>1, <4>2
    <3>5. FilesSound'
      BY <2>2 DEF IInv, FilesSound
    <3>6. ViewSound'
      <4>1. CASE view' = view
        BY <4>1 DEF IInv, ViewSound, NoView
      <4>2. CASE view # NoView
        BY <3>4, <4>2 DEF IInv, ViewSound
      <4>3. CASE view = NoView /\ app.live
        BY <1>3, <3>4, <4>3 DEF ViewSound
      <4>4. CASE ~app.live
        BY <2>2, <4>4 DEF IInv, AppSound
      <4> QED BY <4>1, <4>2, <4>3, <4>4
    <3> QED BY <1>2, <1>3, <2>2, <3>2, <3>3, <3>4, <3>5, <3>6
  <2> QED BY <2>1, <2>2, ThrowInductive
<1> QED BY <1>4, <1>5, <1>6, <1>7

(***************************************************************************)
(* The application is finished in the journal: the intent keeps its base   *)
(* and preimage.                                                           *)
(***************************************************************************)
LEMMA FinishInductive ==
  ASSUME IInv, Finish
  PROVE  IInv'
<1> DEFINE t == app.target
           j == Finished(journal, t)
<1>1. \/ Throw
      \/ /\ CanFinish(journal, t, ContentOf[t]) /\ journal' = j /\ app' = NoApp
         /\ view' = view \/ view' = NoView
         /\ UNCHANGED <<disk, clock, history, queue, work, scan>>
  BY DEF Finish, Complete, files
<1>2. CASE /\ CanFinish(journal, t, ContentOf[t]) /\ journal' = j /\ app' = NoApp
           /\ view' = view \/ view' = NoView
           /\ UNCHANGED <<disk, clock, history, queue, work, scan>>
  <2>1. t \in DOMAIN journal.intents /\ t \in Revision /\ t # None
    BY <1>2, GraphAssumption DEF CanFinish, Pending, IInv, Consistent, JournalType
  <2>2. Consistent(j) /\ j.applied = t
    <3> HIDE DEF t
    <3> QED BY <1>2, FinishedConsistent DEF IInv
  <2>3. /\ j.intents = [journal.intents EXCEPT ![t] = [journal.intents[t] EXCEPT !.completed = TRUE]]
        /\ journal.intents \in [DOMAIN journal.intents -> Intent]
    BY DEF IInv, Consistent, JournalType, Finished
  <2> HIDE DEF j, t
  <2>4. /\ DOMAIN j.intents = DOMAIN journal.intents
        /\ \A o \in DOMAIN journal.intents :
             /\ j.intents[o].source = journal.intents[o].source
             /\ j.intents[o].expected = journal.intents[o].expected
    BY <2>1, <2>3 DEF Intent
  <2>5. IntentsSound'
    BY <1>2, <2>4 DEF IInv, IntentsSound, BytesOf, Kept, ApplyOperation
  <2>6. ViewSound'
    <3>1. CASE view' = view
      BY <3>1 DEF IInv, ViewSound, NoView
    <3>2. CASE view' = NoView
      BY <3>2 DEF ViewSound, NoView
    <3> QED BY <1>2, <3>1, <3>2
  <2>7. AppSound(app)'
    <3>1. app'.pc = "idle" /\ app'.target = None /\ ~app'.live /\ app' \in AppType
      BY <1>2, IdleSound
    <3> QED BY <3>1 DEF AppSound, Underway
  <2>8. FilesSound' /\ WorkSound' /\ ScanSound(scan)' /\ HistorySound'
    BY <1>2 DEF IInv, FilesSound, WorkSound, NoWork, ScanSound, HistorySound
  <2> QED BY <1>2, <2>1, <2>2, <2>5, <2>6, <2>7, <2>8 DEF IInv
<1> QED BY <1>1, <1>2, ThrowInductive

(***************************************************************************)
(* Every step of the application thread and every interruption of it.      *)
(***************************************************************************)
LEMMA ApplyInductive ==
  ASSUME IInv, ApplyStep \/ Disturbance
  PROVE  IInv'
<1>1. CASE EnterOpen \/ GateOpen \/ Interrupt
  BY <1>1, DeferInductive DEF EnterOpen, GateOpen, Interrupt, At
<1>2. CASE DeclineLive \/ LiveTimeout
  BY <1>2, ThrowInductive DEF DeclineLive, LiveTimeout
<1> QED BY <1>1, <1>2, BeginInductive, EnterInductive, ObserveInductive, ProtectInductive,
           PrepareInductive, InspectInductive, PublishInductive, FinishInductive
        DEF ApplyStep, Disturbance

(***************************************************************************)
(* Every step of the worker.                                               *)
(***************************************************************************)
LEMMA CaptureInductive ==
  ASSUME IInv, CaptureStep
  PROVE  IInv'
BY SavedStartInductive, SavedCaptureInductive, ScanReadInductive, ScanCaptureInductive, DeletionsInductive
   DEF CaptureStep, ScanStep

(***************************************************************************)
(* A step of anyone, or none.                                              *)
(***************************************************************************)
LEMMA NextInductive ==
  ASSUME IInv, [Next]_vars
  PROVE  IInv'
<1>1. CASE UNCHANGED vars
  <2>1. /\ UNCHANGED <<journal, disk, clock, history, view, queue, work, scan, app>>
    BY <1>1 DEF vars
  <2> QED BY <2>1, ApplyFrame DEF IInv
<1> QED BY <1>1, UserInductive, ReceiveInductive, CrashInductive, CaptureInductive, ApplyInductive DEF Next

(***************************************************************************)
(* The device starts with the genesis captured and its file in place.      *)
(***************************************************************************)
LEMMA InitInductive ==
  ASSUME Init
  PROVE  IInv
<1>1. /\ journal = [Inserted(EmptyJournal, Genesis) EXCEPT !.applied = Genesis]
      /\ disk = [p \in Path |-> IF p = PathOf[Genesis] THEN File(ContentOf[Genesis], 1) ELSE File(None, 0)]
      /\ clock = 1 /\ history = [o \in {} |-> None]
      /\ view = NoView /\ queue = <<>> /\ work = NoWork /\ scan = NoScan /\ app = NoApp
  BY DEF Init
<1>2. /\ Genesis \in Revision /\ ParentsOf[Genesis] = {} /\ ContentOf[Genesis] \in Content /\ Genesis # None
      /\ ContentOf[Genesis] \in Content \cup {None}
  BY SyncAssumption, GraphAssumption
<1>3. Consistent(journal) /\ journal.applied # None /\ journal.intents = [o \in {} |-> 0]
  <2>1. journal = Captured(EmptyJournal, Genesis)
    BY <1>1 DEF Captured, Rows, EmptyJournal
  <2>2. /\ EmptyJournal.applied = None /\ CaptureAdmitted(EmptyJournal, None) /\ CaptureParents(None) = {}
        /\ EmptyJournal.intents = [o \in {} |-> 0]
    BY DEF EmptyJournal, CaptureAdmitted, Pending, CaptureParents
  <2>3. Consistent(Captured(EmptyJournal, Genesis)) /\ Captured(EmptyJournal, Genesis).applied = Genesis
    <3>1. /\ CaptureAdmitted(EmptyJournal, EmptyJournal.applied)
          /\ ParentsOf[Genesis] = CaptureParents(EmptyJournal.applied)
      BY <1>2, <2>2
    <3> QED BY <1>2, <3>1, EmptyConsistent, CapturedConsistent
  <2>4. Captured(EmptyJournal, Genesis).intents = EmptyJournal.intents
    BY <1>2, EmptyConsistent, CapturedTables
  <2> QED BY <1>2, <2>1, <2>2, <2>3, <2>4
<1>4. FilesSound
  <2>1. File(ContentOf[Genesis], 1) \in FileType /\ File(None, 0) \in FileType
    BY <1>2 DEF File, FileType
  <2>2. disk \in [Path -> FileType]
    BY <1>1, <2>1
  <2>3. \A p \in Path : disk[p].stamp <= 1
    BY <1>1 DEF File
  <2> QED BY <1>1, <2>2, <2>3 DEF FilesSound
<1>5. ViewSound /\ WorkSound /\ HistorySound /\ IntentsSound
  BY <1>1, <1>3 DEF ViewSound, NoView, WorkSound, HistorySound, IntentsSound
<1>6. ScanSound(scan) /\ AppSound(app)
  BY <1>1, IdleSound
<1> QED BY <1>3, <1>4, <1>5, <1>6 DEF IInv

(***************************************************************************)
(* The inductive invariant holds in every reachable state.                 *)
(***************************************************************************)
THEOREM Inductive == Spec => []IInv
<1>1. IInv /\ [Next]_vars => IInv'
  BY NextInductive
<1>2. Init => IInv
  BY InitInductive
<1> QED BY <1>1, <1>2, PTL DEF Spec

(***************************************************************************)
(* What the threads hold are always paths, contents and known revisions,   *)
(* and no file is newer than the last write.                               *)
(***************************************************************************)
THEOREM TypeCorrect == Spec => []TypeOK
<1>1. ASSUME IInv PROVE TypeOK
  <2>1. JournalType(journal) /\ app.target \in Rows(journal) \cup {None}
    BY <1>1 DEF IInv, Consistent, AppSound
  <2>2. ASSUME NEW p \in Path PROVE disk[p].content \in Content \cup {None} /\ disk[p].stamp \in 0..clock
    <3>1. disk[p] \in FileType /\ clock \in Nat /\ disk[p].stamp <= clock
      BY <1>1 DEF IInv, FilesSound
    <3>2. disk[p].content \in Content \cup {None} /\ disk[p].stamp \in Nat
      BY <3>1 DEF FileType
    <3> QED BY <3>1, <3>2
  <2>3. view.path \in Path \cup {None} /\ view.captured \in Content \cup {None}
    BY <1>1 DEF IInv, ViewSound
  <2>4. \A o \in DOMAIN history : history[o].content \in Content /\ history[o].path \in Path
    BY <1>1 DEF IInv, HistorySound
  <2>5. scan.todo \subseteq Path /\ DOMAIN scan.seen \subseteq Path
    BY <1>1 DEF IInv, ScanSound
  <2> QED BY <2>1, <2>2, <2>3, <2>4, <2>5 DEF TypeOK
<1> QED BY <1>1, Inductive, PTL

---------------------------------------------------------------------------
(***************************************************************************)
(* What the invariant says of an intent under way: its base is applied,    *)
(* its preimage is the base's bytes and is in File History.                *)
(***************************************************************************)
LEMMA PreimageFacts ==
  ASSUME IInv, app.pc \in {"publish", "remove"}, ~Absent(app.source)
  PROVE  app.source.content \in ProtectedContents /\ app.source.content = ContentOf[journal.applied]
<1> DEFINE i == journal.intents[app.target]
<1>1. app.target \in Pending(journal) /\ app.source.content = i.source
  BY DEF IInv, AppSound, Underway
<1>2. i.expected = journal.applied /\ journal.applied # None
  BY <1>1 DEF IInv, Consistent, Resumable
<1>3. i.source = BytesOf(i.expected) /\ (i.source # None => Kept(app.target, i.source))
  BY <1>1 DEF IInv, IntentsSound, Pending
<1> HIDE DEF i
<1>4. app.source.content = ContentOf[journal.applied]
  BY <1>1, <1>2, <1>3 DEF BytesOf
<1>5. Kept(app.target, app.source.content)
  BY <1>1, <1>3 DEF Absent
<1> QED BY <1>4, <1>5 DEF Kept, ProtectedContents

(***************************************************************************)
(* A step that moves the application and changes a file installs the       *)
(* target or removes its old file; every other one leaves the files.       *)
(***************************************************************************)
LEMMA OnlyInstalls ==
  ASSUME Next, app' # app, disk' # disk
  PROVE  Publish \/ RemoveSource
<1>1. CASE UserStep
  BY <1>1 DEF UserStep, Open, Type, Close, Save, ExternalWrite, ExternalMove
<1>2. CASE (\E r \in Incoming : ReceiveRevision(r)) \/ Crash
  BY <1>2 DEF ReceiveRevision, Crash
<1>3. CASE CaptureStep
  BY <1>3 DEF CaptureStep, ScanStep, SavedStart, SavedCapture, PollWatch, ScanStart, ScanList, ScanRead,
              ScanReadDone, ScanCapture, ScanDeletions, ProtectDeleted, CheckDeleted, CaptureDeleted, ScanEnd,
              elsewhere
<1>4. CASE ApplyStep
  BY <1>4 DEF ApplyStep, BeginApplication, Enter, EnterOpen, ObserveSource, ProtectSource, PrepareIntent,
              RecheckIntent, Inspect, Verify, GateOpen, Reload, Finish, BeginLive, DeclineLive,
              Throw, Defer, files
<1>5. CASE Disturbance
  BY <1>5 DEF Disturbance, Interrupt, LiveTimeout, Throw, Defer, files
<1> QED BY <1>1, <1>2, <1>3, <1>4, <1>5 DEF Next

(***************************************************************************)
(* A file that the application replaces or removes holds exactly the       *)
(* applied revision, is protected in File History, and is not the file of  *)
(* a buffer with unsaved changes or of one that does not take part,        *)
(* whatever falls between the checks of apply_document_on_disk.            *)
(***************************************************************************)
THEOREM UserBytesSurvive == Spec => PreimageSafe
<1> DEFINE Safe(p) == /\ disk[p].content \in ProtectedContents
                      /\ disk[p].content = ContentOf[journal.applied]
                      /\ OpenAt(p) => app.live /\ ~view.dirty
<1>1. ASSUME IInv, Next, app' # app, NEW p \in Path, ~Absent(disk[p]), disk'[p] # disk[p]
      PROVE  Safe(p)
  <2>0. disk \in [Path -> FileType] /\ (app.live => ~view.dirty)
    BY <1>1 DEF IInv, FilesSound, AppSound
  <2>1. CASE Publish
    <3>1. /\ app.pc = "publish" /\ Closed /\ (PreimageHeld \/ disk' = disk)
          /\ disk' = disk \/ \E f : disk' = [disk EXCEPT ![TargetPath] = f]
      BY <2>1 DEF Publish, At, Installed, Wrote, Throw, files
    <3>2. p = TargetPath /\ PreimageHeld
      BY <1>1, <2>0, <3>1
    <3>3. ~Absent(app.source) /\ p = SourcePath /\ disk[p] = app.source
      BY <1>1, <3>2 DEF PreimageHeld, Renamed
    <3>4. OpenAt(p) => app.live
      BY <3>1, <3>2 DEF Closed
    <3> QED BY <1>1, <2>0, <3>1, <3>3, <3>4, PreimageFacts
  <2>2. CASE RemoveSource
    <3>1. /\ app.pc = "remove" /\ Closed /\ (disk[SourcePath] = app.source \/ disk' = disk)
          /\ disk' = disk \/ \E f : disk' = [disk EXCEPT ![SourcePath] = f]
      BY <2>2 DEF RemoveSource, At, Installed, Wrote, Throw, files
    <3>2. p = SourcePath /\ disk[p] = app.source
      BY <1>1, <2>0, <3>1
    <3>3. OpenAt(p) => app.live
      BY <3>1, <3>2 DEF Closed
    <3> QED BY <1>1, <2>0, <3>1, <3>2, <3>3, PreimageFacts
  <2> QED BY <1>1, <2>1, <2>2, OnlyInstalls
<1>2. IInv /\ [Next]_vars =>
        [app' # app => \A p \in Path : ~Absent(disk[p]) /\ disk'[p] # disk[p] => Safe(p)]_vars
  BY <1>1
<1> QED BY <1>2, Inductive, PTL DEF Spec, PreimageSafe

---------------------------------------------------------------------------
(***************************************************************************)
(* The store's transactions are the journal's own operators.               *)
(***************************************************************************)
LEMMA StoreRows ==
  \A j : /\ Store!Rows(j) = Rows(j) /\ Store!Pending(j) = Pending(j)
         /\ \A r : Store!Admissible(j, r) = Admissible(j, r)
BY DEF Store!Rows, Rows, Store!Pending, Pending, Store!Admissible, Admissible, Store!IsMerge, IsMerge

(***************************************************************************)
(* Receiving and capturing.                                                *)
(***************************************************************************)
LEMMA StoreInserts ==
  \A j, r : /\ Store!CanReceive(j, r) = CanReceive(j, r)
            /\ Store!Inserted(j, r) = Inserted(j, r)
            /\ Store!Captured(j, r) = Captured(j, r)
<1>1. \A j, r : Store!CanReceive(j, r) = CanReceive(j, r) /\ Store!Inserted(j, r) = Inserted(j, r)
  BY StoreRows DEF Store!CanReceive, CanReceive, Store!Inserted, Inserted
<1> QED BY <1>1, StoreRows DEF Store!Captured, Captured

(***************************************************************************)
(* The conditions of a capture.                                            *)
(***************************************************************************)
LEMMA StoreCaptures ==
  /\ \A j, e : Store!CaptureAdmitted(j, e) = CaptureAdmitted(j, e)
  /\ \A e, p, c : Store!Unchanged(e, p, c) = Unchanged(e, p, c)
  /\ \A e, c : Store!PredecessorMatches(e, c) = PredecessorMatches(e, c)
  /\ \A o, p, c, e : Store!SnapshotId(o, p, c, e) = SnapshotId(o, p, c, e)
BY StoreRows DEF Store!CaptureAdmitted, CaptureAdmitted, Store!Unchanged, Unchanged,
   Store!PredecessorMatches, PredecessorMatches, Store!SnapshotId, SnapshotId,
   Store!CaptureParents, CaptureParents

(***************************************************************************)
(* Applications.                                                           *)
(***************************************************************************)
LEMMA StoreApplies ==
  /\ \A j, t, e, p : Store!CanPrepare(j, t, e, p) = CanPrepare(j, t, e, p)
  /\ \A j, t, e, c : Store!Prepared(j, t, e, c) = Prepared(j, t, e, c)
  /\ \A j, t : Store!CanAbandon(j, t) = CanAbandon(j, t) /\ Store!Abandoned(j, t) = Abandoned(j, t)
  /\ \A j, t, c : Store!CanFinish(j, t, c) = CanFinish(j, t, c)
  /\ \A j, t : Store!Finished(j, t) = Finished(j, t)
BY StoreRows DEF Store!CanPrepare, CanPrepare, Store!Prepared, Prepared, Store!StrictAncestor, StrictAncestor,
   Store!CanAbandon, CanAbandon, Store!Abandoned, Abandoned, Store!CanFinish, CanFinish,
   Store!Finished, Finished

(***************************************************************************)
(* A capture by the worker is capture_saved, of the applied revision it    *)
(* has read, and never of the shared genesis.                              *)
(***************************************************************************)
LEMMA CaptureIsStoreStep ==
  ASSUME IInv, SavedCapture \/ CaptureDeleted, journal' # journal
  PROVE  Store!Next
<1>1. journal.applied # None /\ Self # Baseline
  BY DeviceAssumption DEF IInv
<1>2. CASE SavedCapture
  <2> DEFINE id == SnapshotId(Self, work.path, work.content, journal.applied)
  <2>1. /\ work # NoWork /\ journal.applied = work.expected /\ CaptureAdmitted(journal, work.expected)
        /\ ~Unchanged(work.expected, work.path, work.content)
        /\ PredecessorMatches(work.expected, work.predecessor)
        /\ SnapshotId(CaptureOrigin(work), work.path, work.content, work.expected) \in Revision
        /\ journal' = Captured(journal, SnapshotId(CaptureOrigin(work), work.path, work.content, work.expected))
    BY <1>2 DEF SavedCapture
  <2>2. CaptureOrigin(work) = Self
    BY <1>1, <2>1 DEF CaptureOrigin
  <2>3. work.path \in Path /\ work.content \in Content /\ work.predecessor \in Content \cup {None}
        /\ work.content # None
    BY <2>1, GraphAssumption DEF IInv, WorkSound
  <2>4. id \in Revision /\ journal' = Captured(journal, id)
    BY <2>1, <2>2
  <2>5. Store!CaptureSaved(Self, work.path, work.content, work.predecessor)
    BY <1>1, <2>1, <2>3, <2>4, StoreInserts, StoreCaptures DEF Store!CaptureSaved
  <2> QED BY <2>3, <2>5 DEF Store!Next
<1>3. CASE CaptureDeleted
  <2> DEFINE base == journal.applied
             path == PathOf[base]
             id == SnapshotId(Self, path, None, base)
  <2>1. /\ scan.phase = "tombstone" /\ CaptureAdmitted(journal, scan.base)
        /\ SnapshotId(Self, PathOf[scan.base], None, scan.base) \in Revision
        /\ journal' = Captured(journal, SnapshotId(Self, PathOf[scan.base], None, scan.base))
    BY <1>3 DEF CaptureDeleted
  <2>2. scan.base = base
    BY <2>1 DEF CaptureAdmitted
  <2>3. base \in Revision /\ ContentOf[base] # None /\ path \in Path
    BY <2>1, <2>2, GraphAssumption DEF IInv, ScanSound
  <2>4. CaptureAdmitted(journal, base) /\ id \in Revision /\ journal' = Captured(journal, id)
    BY <2>1, <2>2
  <2>5. ~Unchanged(base, path, None) /\ PredecessorMatches(base, None)
    BY <2>3 DEF Unchanged, PredecessorMatches
  <2>6. Store!CaptureSaved(Self, path, None, None)
    BY <1>1, <2>4, <2>5, StoreInserts, StoreCaptures DEF Store!CaptureSaved
  <2> QED BY <2>3, <2>6 DEF Store!Next
<1> QED BY <1>2, <1>3

(***************************************************************************)
(* The application changes the journal by preparing, abandoning and        *)
(* finishing the intent of its target.                                     *)
(***************************************************************************)
LEMMA ApplyIsStoreStep ==
  ASSUME IInv, PrepareIntent \/ Defer \/ Finish, journal' # journal
  PROVE  Store!Next
<1>1. CASE PrepareIntent
  <2> DEFINE t == app.target
  <2>1. /\ app.pc = "prepare" /\ CanPrepare(journal, t, app.expected, SourcePath)
        /\ journal' = Prepared(journal, t, app.expected, app.source.content)
    BY <1>1 DEF PrepareIntent, MayPrepare, At, Throw
  <2>2. app.expected = journal.applied /\ t \in Revision
    BY <2>1, AppFields DEF CanPrepare
  <2>3. app.source.content = IF journal.applied = None THEN None ELSE ContentOf[journal.applied]
    BY <2>1, <2>2 DEF IInv, AppSound, BytesOf
  <2>4. SourcePath = IF journal.applied = None THEN PathOf[t] ELSE PathOf[journal.applied]
    BY <2>2 DEF SourcePath
  <2> HIDE DEF t
  <2>5. Store!PrepareApply(t)
    BY <2>1, <2>2, <2>3, <2>4, StoreApplies DEF Store!PrepareApply
  <2> QED BY <2>2, <2>5 DEF Store!Next
<1>2. CASE Defer
  <2>1. CanAbandon(journal, app.target) /\ journal' = Abandoned(journal, app.target)
    BY <1>2 DEF Defer
  <2>2. app.target \in Revision
    BY <2>1 DEF CanAbandon, Pending, IInv, Consistent, JournalType
  <2>3. Store!AbandonUnpublishedApply(app.target)
    BY <2>1, StoreApplies DEF Store!AbandonUnpublishedApply
  <2> QED BY <2>2, <2>3 DEF Store!Next
<1>3. CASE Finish
  <2>1. CanFinish(journal, app.target, ContentOf[app.target]) /\ journal' = Finished(journal, app.target)
    BY <1>3 DEF Finish, Throw
  <2>2. app.target \in Revision /\ ContentOf[app.target] \in Content \cup {None}
    BY <2>1, GraphAssumption DEF CanFinish, Pending, IInv, Consistent, JournalType
  <2>3. Store!FinishApply(app.target, ContentOf[app.target])
    BY <2>1, StoreApplies DEF Store!FinishApply
  <2> QED BY <2>2, <2>3 DEF Store!Next
<1> QED BY <1>1, <1>2, <1>3

(***************************************************************************)
(* Only these write the journal.                                           *)
(***************************************************************************)
LEMMA OnlyTransactions ==
  ASSUME Next, journal' # journal
  PROVE  (\E r \in Incoming : ReceiveRevision(r)) \/ SavedCapture \/ CaptureDeleted
         \/ PrepareIntent \/ Defer \/ Finish
<1>1. CASE UserStep
  BY <1>1 DEF UserStep, Open, Type, Close, Save, ExternalWrite, ExternalMove
<1>2. CASE Crash
  BY <1>2 DEF Crash
<1>3. CASE CaptureStep
  BY <1>3 DEF CaptureStep, ScanStep, SavedStart, PollWatch, ScanStart, ScanList, ScanRead,
              ScanReadDone, ScanCapture, ScanDeletions, ProtectDeleted, CheckDeleted, ScanEnd
<1>4. CASE ApplyStep
  BY <1>4 DEF ApplyStep, BeginApplication, Enter, EnterOpen, ObserveSource, ProtectSource,
              RecheckIntent, Inspect, Publish, RemoveSource, Verify, GateOpen, Reload, BeginLive, DeclineLive,
              Throw
<1>5. CASE Disturbance
  BY <1>5 DEF Disturbance, Interrupt, LiveTimeout, Throw
<1> QED BY <1>1, <1>2, <1>3, <1>4, <1>5 DEF Next

(***************************************************************************)
(* Whatever the threads interleave, the journal only changes by a          *)
(* transaction of revision_store with arguments that it allows: what the   *)
(* caller read before it called still holds or the transaction refuses.    *)
(***************************************************************************)
THEOREM JournalByTransactions == Spec => JournalSteps
<1>1. ASSUME IInv, Next, journal' # journal PROVE Store!Next
  <2>1. ASSUME NEW r \in Incoming, ReceiveRevision(r) PROVE Store!Next
    <3>1. r \in Revision /\ CanReceive(journal, r) /\ journal' = Inserted(journal, r)
      BY <2>1, SyncAssumption DEF ReceiveRevision
    <3>2. Store!Receive(r)
      BY <3>1, StoreInserts DEF Store!Receive
    <3> QED BY <3>1, <3>2 DEF Store!Next
  <2> QED BY <1>1, <2>1, OnlyTransactions, CaptureIsStoreStep, ApplyIsStoreStep
<1>2. IInv /\ [Next]_vars => [journal' # journal => Store!Next]_vars
  BY <1>1 DEF vars
<1> QED BY <1>2, Inductive, PTL DEF Spec, JournalSteps


---------------------------------------------------------------------------
(***************************************************************************)
(* What the worker knows of the files: that each one it takes for captured *)
(* holds what is applied, and that it misses no other once the Vault is    *)
(* inventoried and the watch is quiet.                                     *)
(***************************************************************************)

(***************************************************************************)
(* The worker takes the file at p, as it is now, for captured: the cache   *)
(* or the inventory in progress has its stamp.                             *)
(***************************************************************************)
Marked(p) ==
  /\ ~Absent(disk[p])
  /\ \/ published[p] = disk[p].stamp
     \/ p \in scan.captured \cap DOMAIN scan.seen /\ scan.seen[p].stamp = disk[p].stamp

Empty == \A p \in Path : Absent(disk[p])

\* Such a file holds what is applied.
MarkedIsApplied ==
  \A p \in Path : Marked(p) => PathOf[journal.applied] = p /\ ContentOf[journal.applied] = disk[p].content

\* A stamp tells a file from every earlier one at its path.
StampsKnown ==
  /\ \A p \in Path : ~Absent(disk[p]) => disk[p].stamp > 0
  /\ \A p \in Path : published[p] \in Nat /\ published[p] <= clock
  /\ \A p \in DOMAIN scan.seen :
       /\ scan.seen[p].stamp \in Nat /\ scan.seen[p].stamp <= clock
       /\ scan.seen[p].stamp = disk[p].stamp => scan.seen[p] = disk[p]

\* What saved() found before it calls capture_saved.
WorkMarks ==
  work # NoWork =>
    /\ work.expected \in Revision
    /\ ~work.inventory => work.predecessor # None
    /\ ContentOf[work.expected] # None /\ PathOf[work.expected] # work.path => ~Marked(PathOf[work.expected])
    /\ work.inventory =>
         /\ scan.phase = "capture" /\ work.path \in DOMAIN scan.seen
         /\ work.content = scan.seen[work.path].content
         /\ Marked(work.path) => disk[work.path].content = work.content

Verified == {"reload", "finish"}

\* What the application verified and nobody wrote since is what it applies.
AppMarks ==
  app.pc \in Verified =>
    \A p \in {SourcePath, TargetPath} :
      Marked(p) => p = TargetPath /\ disk[p].content = ContentOf[app.target]

Phase == {"idle", "list", "read", "capture", "protect", "check", "tombstone", "end"}

\* No application runs during an inventory.
ScanAlone ==
  /\ scan.phase \in Phase /\ (scan.phase = "idle" => scan = NoScan)
  /\ scan # NoScan => app = NoApp /\ ~inventoried

\* What was listed has not changed since, or the watch has seen it.
ListSound ==
  scan.phase = "list" =>
    /\ scan.captured = {} /\ Path \subseteq scan.todo \cup DOMAIN scan.seen
    /\ \A p \in DOMAIN scan.seen : p \in watched /\ (~stale => disk[p] = scan.seen[p])

SeenSound ==
  scan.phase \notin {"idle", "list"} =>
    /\ Path \subseteq watched
    /\ \A p \in DOMAIN scan.seen : ~Absent(scan.seen[p])
    /\ ~stale => /\ \A p \in DOMAIN scan.seen : disk[p] = scan.seen[p]
                 /\ ~scan.retry => \A p \in Path \ DOMAIN scan.seen : Absent(disk[p])

\* An inventory that need not be repeated has captured all that it met.
ScanComplete ==
  /\ scan.phase = "capture" /\ ~scan.retry => DOMAIN scan.seen \subseteq scan.todo \cup scan.captured
  /\ scan.phase \in {"protect", "check", "tombstone"} => ~scan.retry /\ DOMAIN scan.seen = {} /\ work = NoWork
  /\ scan.phase = "tombstone" => ~Marked(PathOf[scan.base])
  /\ scan.phase = "end" /\ ~scan.retry =>
       /\ DOMAIN scan.seen \subseteq scan.captured
       /\ ~stale /\ DOMAIN scan.seen = {} => ContentOf[journal.applied] = None

\* After it the worker knows every file, until the watch reports a change.
Known ==
  inventoried =>
    /\ Path \subseteq watched
    /\ ~stale => /\ \A p \in Path : ~Absent(disk[p]) => Marked(p)
                 /\ Empty => ContentOf[journal.applied] = None

Marks == MarkedIsApplied /\ StampsKnown /\ WorkMarks /\ AppMarks
Scans == ScanAlone /\ ListSound /\ SeenSound /\ ScanComplete /\ Known

\* The inductive invariant.
CInv == IInv /\ ~Restored /\ Marks /\ Scans

---------------------------------------------------------------------------
(***************************************************************************)
(* A file that stays marked was marked, with the same content.             *)
(***************************************************************************)
MarksShrink == \A p \in Path : Marked(p)' => Marked(p) /\ disk'[p] = disk[p]

(***************************************************************************)
(* Marks that only shrink keep what is true of them, while nothing is      *)
(* applied.                                                                *)
(***************************************************************************)
LEMMA ShrinkKeeps ==
  ASSUME IInv, Marks, MarksShrink, journal'.applied = journal.applied
  PROVE  /\ MarkedIsApplied'
         /\ work' = work /\ (work # NoWork /\ work.inventory => scan' = scan) => WorkMarks'
         /\ UNCHANGED <<app.pc, app.target, app.expected>> => AppMarks'
<1>1. MarkedIsApplied'
  BY DEF Marks, MarkedIsApplied, MarksShrink
<1>2. ASSUME work' = work, work # NoWork /\ work.inventory => scan' = scan PROVE WorkMarks'
  <2>1. CASE work = NoWork
    BY <1>2, <2>1 DEF WorkMarks, NoWork
  <2>2. CASE work # NoWork
    <3>1. work.path \in Path /\ work.expected \in Revision /\ PathOf[work.expected] \in Path
      BY <2>2, GraphAssumption DEF IInv, WorkSound, Marks, WorkMarks
    <3>2. PICK p \in Path, q \in Path : p = PathOf[work.expected] /\ q = work.path
      BY <3>1
    <3>3. (Marked(p)' => Marked(p)) /\ (Marked(q)' => Marked(q) /\ disk'[q] = disk[q])
      BY DEF MarksShrink
    <3>4. WorkMarks
      BY DEF Marks
    <3> QED BY <1>2, <2>2, <3>1, <3>2, <3>3, <3>4 DEF WorkMarks
  <2> QED BY <2>1, <2>2
<1>3. ASSUME UNCHANGED <<app.pc, app.target, app.expected>> PROVE AppMarks'
  <2>1. SUFFICES ASSUME app.pc \in Verified, NEW p \in {SourcePath, TargetPath}, Marked(p)'
                 PROVE  p = TargetPath /\ disk'[p].content = ContentOf[app.target]
    <3>1. SourcePath' = SourcePath /\ TargetPath' = TargetPath
      BY <1>3 DEF SourcePath, TargetPath
    <3> QED BY <1>3, <3>1 DEF AppMarks, Verified
  <2>2. p \in Path
    BY <2>1, AppFields, GraphAssumption DEF SourcePath, TargetPath, Verified
  <2> QED BY <2>1, <2>2 DEF Marks, AppMarks, MarksShrink
<1> QED BY <1>1, <1>2, <1>3

FilesMarks == StampsKnown /\ MarkedIsApplied /\ WorkMarks /\ ListSound /\ SeenSound /\ ScanComplete /\ Known

\* The files at ps are written.
Rewritten(ps) ==
  /\ clock' = clock + 1
  /\ \A p \in Path : IF p \in ps THEN disk'[p].stamp = clock + 1 ELSE disk'[p] = disk[p]
  /\ Touched(ps)

(***************************************************************************)
(* A file that is written is no longer marked, and where the watch is      *)
(* registered it has seen it.                                              *)
(***************************************************************************)
LEMMA WriteKeeps ==
  ASSUME CInv, NEW ps \in SUBSET Path, Rewritten(ps),
         UNCHANGED <<journal, scan, work, published, watched, inventoried>>
  PROVE  MarksShrink /\ FilesMarks'
<1>1. /\ IInv /\ Marks /\ Scans /\ StampsKnown /\ clock \in Nat /\ \A p \in Path : disk[p].stamp \in Nat
      /\ DOMAIN scan.seen \subseteq Path
  BY DEF CInv, Marks, IInv, FilesSound, FileType, ScanSound
<1>2. /\ scan' = scan /\ published' = published /\ clock' = clock + 1
      /\ \A p \in Path : p \in ps => disk'[p].stamp = clock + 1
      /\ \A p \in Path : p \notin ps => disk'[p] = disk[p]
      /\ stale' = (stale \/ ps \cap watched # {})
  BY DEF Rewritten, Touched
<1>3. MarksShrink
  <2>1. ASSUME NEW p \in Path, p \in ps PROVE ~Marked(p)'
    <3>1. published[p] <= clock /\ (p \in DOMAIN scan.seen => scan.seen[p].stamp <= clock)
          /\ published[p] \in Nat /\ (p \in DOMAIN scan.seen => scan.seen[p].stamp \in Nat)
      BY <1>1 DEF StampsKnown
    <3>2. disk'[p].stamp = clock + 1
      BY <1>2, <2>1
    <3>3. published[p] # clock + 1 /\ (p \in DOMAIN scan.seen => scan.seen[p].stamp # clock + 1)
      BY <1>1, <3>1
    <3> QED BY <1>2, <3>2, <3>3 DEF Marked
  <2>2. ASSUME NEW p \in Path, p \notin ps PROVE Marked(p)' => Marked(p) /\ disk'[p] = disk[p]
    BY <1>2, <2>2 DEF Marked, Absent
  <2> QED BY <2>1, <2>2 DEF MarksShrink
<1>4. StampsKnown'
  <2>1. ASSUME NEW p \in Path PROVE ~Absent(disk'[p]) => disk'[p].stamp > 0
    BY <1>1, <1>2 DEF StampsKnown
  <2>2. ASSUME NEW p \in Path PROVE published'[p] \in Nat /\ published'[p] <= clock'
    BY <1>1, <1>2 DEF StampsKnown
  <2>3. ASSUME NEW p \in DOMAIN scan.seen
        PROVE  /\ scan.seen[p].stamp \in Nat /\ scan.seen[p].stamp <= clock'
               /\ scan.seen[p].stamp = disk'[p].stamp => scan.seen[p] = disk'[p]
    <3>1. /\ p \in Path /\ scan.seen[p].stamp \in Nat /\ scan.seen[p].stamp <= clock
          /\ scan.seen[p].stamp = disk[p].stamp => scan.seen[p] = disk[p]
      BY <1>1 DEF StampsKnown
    <3>2. scan.seen[p].stamp # clock + 1 /\ scan.seen[p].stamp <= clock'
      BY <1>1, <1>2, <3>1
    <3> QED BY <1>2, <3>1, <3>2
  <2> QED BY <1>2, <2>1, <2>2, <2>3 DEF StampsKnown, Absent
<1>5. MarkedIsApplied' /\ WorkMarks'
  BY <1>1, <1>3, ShrinkKeeps
<1>6. ListSound'
  BY <1>1, <1>2 DEF Scans, ListSound
<1>7. SeenSound'
  BY <1>1, <1>2 DEF Scans, SeenSound, Absent
<1>8. ScanComplete'
  <2>1. scan.phase = "tombstone" => PathOf[scan.base] \in Path
    BY <1>1, GraphAssumption DEF IInv, ScanSound
  <2>2. scan.phase = "tombstone" => ~Marked(PathOf[scan.base])'
    BY <1>1, <1>2, <1>3, <2>1 DEF MarksShrink, Scans, ScanComplete
  <2> QED BY <1>1, <1>2, <2>2 DEF Scans, ScanComplete, NoWork
<1>9. Known'
  <2>1. SUFFICES ASSUME inventoried PROVE Known'
    BY DEF Known
  <2>2. Path \subseteq watched
    BY <1>1, <2>1 DEF Scans, Known
  <2>3. CASE ps = {}
    <3>1. /\ (stale' <=> stale) /\ (\A p \in Path : disk'[p] = disk[p])
      BY <1>2, <2>3
    <3>2. ASSUME NEW p \in Path PROVE Marked(p)' <=> Marked(p)
      BY <1>2, <3>1 DEF Marked, Absent
    <3>3. Known
      BY <1>1 DEF Scans
    <3> QED BY <3>1, <3>2, <3>3 DEF Known, Empty, Absent
  <2>4. CASE ps # {}
    <3>1. stale'
      BY <1>2, <2>2, <2>4
    <3> QED BY <2>2, <3>1 DEF Known
  <2> QED BY <2>3, <2>4
<1> QED BY <1>3, <1>4, <1>5, <1>6, <1>7, <1>8, <1>9 DEF FilesMarks

(***************************************************************************)
(* What neither files, inventory nor applied revision notice.              *)
(***************************************************************************)
Unnoticed ==
  /\ UNCHANGED <<disk, clock, stale, scan, work, published, watched>>
  /\ journal'.applied = journal.applied /\ (inventoried' => inventoried)

(***************************************************************************)
(* A step that the inventory cannot notice leaves what it knows.           *)
(***************************************************************************)
LEMMA UnnoticedKeeps ==
  ASSUME CInv, Unnoticed
  PROVE  MarksShrink /\ FilesMarks'
<1>1. IInv /\ Marks /\ Scans /\ StampsKnown
  BY DEF CInv, Marks
<1>2. /\ disk' = disk /\ clock' = clock /\ stale' = stale /\ scan' = scan /\ work' = work
      /\ published' = published /\ watched' = watched /\ journal'.applied = journal.applied
  BY DEF Unnoticed
<1>3. \A p : Marked(p)' <=> Marked(p)
  BY <1>2 DEF Marked, Absent
<1>4. MarksShrink
  BY <1>2, <1>3 DEF MarksShrink
<1>5. MarkedIsApplied' /\ WorkMarks'
  BY <1>1, <1>2, <1>4, ShrinkKeeps
<1>6. StampsKnown' /\ ListSound' /\ SeenSound' /\ ScanComplete'
  BY <1>1, <1>2, <1>3 DEF StampsKnown, Scans, ListSound, SeenSound, ScanComplete, Absent, NoWork
<1>7. Known'
  BY <1>1, <1>2, <1>3 DEF Scans, Known, Empty, Absent, Unnoticed
<1> QED BY <1>4, <1>5, <1>6, <1>7 DEF FilesMarks

\* What a step must leave besides the marks.
Rest == AppMarks /\ ScanAlone

(***************************************************************************)
(* The user, the peers' deliveries and a crash.                            *)
(***************************************************************************)
LEMMA UserKeeps ==
  ASSUME CInv, UserStep
  PROVE  FilesMarks' /\ Rest'
<1>1. /\ IInv /\ Marks /\ ScanAlone /\ disk \in [Path -> FileType]
      /\ view # NoView => view.path \in Path
  BY DEF CInv, Scans, IInv, FilesSound, ViewSound
<1>2. /\ UNCHANGED <<journal, scan, work, published, watched, inventoried, app>>
      /\ UNCHANGED <<disk, clock, stale>> \/ \E ps \in SUBSET Path : Rewritten(ps)
  <2>1. CASE (\E path \in Path : Open(path)) \/ Type \/ Close
    BY <2>1 DEF Open, Type, Close, tracking, watching
  <2>2. ASSUME NEW content, Save(content)
        PROVE  /\ UNCHANGED <<journal, scan, work, published, watched, inventoried, app>>
               /\ Rewritten({view.path}) /\ {view.path} \in SUBSET Path
    <3>1. view.path \in Path
      BY <1>1, <2>2 DEF Save, NoView
    <3> QED BY <1>1, <2>2, <3>1 DEF Save, tracking, Wrote, File, Rewritten
  <2>3. ASSUME NEW path \in Path, NEW content, ExternalWrite(path, content)
        PROVE  /\ UNCHANGED <<journal, scan, work, published, watched, inventoried, app>>
               /\ Rewritten({path})
    BY <1>1, <2>3 DEF ExternalWrite, tracking, Wrote, File, Rewritten
  <2>4. ASSUME NEW from \in Path, NEW to \in Path, ExternalMove(from, to)
        PROVE  /\ UNCHANGED <<journal, scan, work, published, watched, inventoried, app>>
               /\ Rewritten({from, to})
    BY <1>1, <2>4 DEF ExternalMove, tracking, File, Rewritten
  <2> QED BY <2>1, <2>2, <2>3, <2>4 DEF UserStep
<1>3. MarksShrink /\ FilesMarks'
  <2>1. CASE UNCHANGED <<disk, clock, stale>>
    BY <1>2, <2>1, UnnoticedKeeps DEF Unnoticed
  <2>2. ASSUME NEW ps \in SUBSET Path, Rewritten(ps) PROVE MarksShrink /\ FilesMarks'
    BY <1>2, <2>2, WriteKeeps
  <2> QED BY <1>2, <2>1, <2>2
<1>4. AppMarks'
  BY <1>1, <1>2, <1>3, ShrinkKeeps
<1>5. ScanAlone'
  BY <1>1, <1>2 DEF ScanAlone, NoScan, NoApp, File
<1> QED BY <1>3, <1>4, <1>5 DEF Rest

(***************************************************************************)
(* A revision of a peer enters the journal and reaches no file.            *)
(***************************************************************************)
LEMMA ReceiveKeeps ==
  ASSUME CInv, NEW r \in Incoming, ReceiveRevision(r)
  PROVE  FilesMarks' /\ Rest'
<1>1. IInv /\ Marks /\ ScanAlone
  BY DEF CInv, Scans
<1>2. /\ UNCHANGED <<scan, work, published, watched, inventoried, app, disk, clock, stale>>
      /\ journal' = Inserted(journal, r) /\ DOMAIN journal = {"rowid", "tip", "approved", "eligible", "applied", "intents"}
  BY <1>1 DEF ReceiveRevision, tracking, watching, IInv, Consistent, JournalType
<1>3. journal'.applied = journal.applied
  BY <1>2 DEF Inserted
<1>4. MarksShrink /\ FilesMarks'
  BY <1>2, <1>3, UnnoticedKeeps DEF Unnoticed
<1>5. AppMarks'
  BY <1>1, <1>2, <1>3, <1>4, ShrinkKeeps
<1>6. ScanAlone'
  BY <1>1, <1>2 DEF ScanAlone, NoScan, NoApp, File
<1> QED BY <1>4, <1>5, <1>6 DEF Rest

(***************************************************************************)
(* A crash forgets the watch, the inventory and the notifications, and     *)
(* with them what they were known to know.                                 *)
(***************************************************************************)
LEMMA CrashKeeps ==
  ASSUME CInv, Crash
  PROVE  FilesMarks' /\ Rest'
<1>1. /\ work' = NoWork /\ scan' = NoScan /\ app' = NoApp /\ ~inventoried'
      /\ published' = [p \in Path |-> 0] /\ disk' = disk /\ clock' = clock
  BY DEF Crash
<1>2. /\ NoScan.phase = "idle" /\ DOMAIN NoScan.seen = {} /\ NoApp.pc = "idle" /\ NoScan.captured = {}
  BY DEF NoScan, NoApp
<1>3. StampsKnown /\ clock \in Nat /\ \A p \in Path : disk[p].stamp \in Nat
  BY DEF CInv, Marks, IInv, FilesSound, FileType
<1>4. StampsKnown'
  <2>1. scan'.seen = NoScan.seen /\ DOMAIN scan'.seen = {} /\ \A p \in Path : published'[p] = 0
    BY <1>1, <1>2
  <2> QED BY <1>1, <1>3, <2>1 DEF StampsKnown, Absent
<1>5. MarkedIsApplied'
  <2>1. ASSUME NEW p \in Path PROVE ~Marked(p)'
    <3>1. published'[p] = 0 /\ scan'.captured = {} /\ (~Absent(disk'[p]) => disk'[p].stamp > 0)
      BY <1>1, <1>2, <1>3 DEF StampsKnown
    <3> QED BY <1>1, <1>3, <3>1 DEF Marked
  <2> QED BY <2>1 DEF MarkedIsApplied
<1>6. WorkMarks' /\ AppMarks' /\ ScanAlone' /\ ListSound' /\ SeenSound' /\ ScanComplete' /\ Known'
  <2>1. scan'.phase = "idle" /\ app'.pc = "idle"
    BY <1>1, <1>2
  <2>2. WorkMarks'
    BY <1>1 DEF WorkMarks, NoWork
  <2>3. ScanAlone'
    BY <1>1, <2>1 DEF ScanAlone, Phase, NoScan
  <2> QED BY <1>1, <2>1, <2>2, <2>3 DEF AppMarks, Verified, ListSound, SeenSound, ScanComplete, Known
<1> QED BY <1>4, <1>5, <1>6 DEF FilesMarks, Rest

(***************************************************************************)
(* An application runs while no inventory does.                            *)
(***************************************************************************)
LEMMA ApplyAlone ==
  ASSUME CInv, ApplyStep \/ Disturbance
  PROVE  scan = NoScan /\ scan' = scan /\ work' = work /\ ScanAlone'
<1>1. ScanAlone /\ NoApp.pc = "idle" /\ NoScan.phase = "idle"
  BY DEF CInv, Scans, NoApp, NoScan
<1>2. app.pc # "idle" => scan = NoScan
  BY <1>1 DEF ScanAlone
<1>3. scan = NoScan
  BY <1>2 DEF ApplyStep, Disturbance, BeginApplication, Enter, EnterOpen, ObserveSource, ProtectSource,
     PrepareIntent, RecheckIntent, Inspect, Publish, RemoveSource, Verify, GateOpen, Reload, Finish, BeginLive,
     DeclineLive, Interrupt, LiveTimeout, At
<1>4. scan' = scan /\ work' = work
  BY DEF ApplyStep, Disturbance, BeginApplication, Enter, EnterOpen, ObserveSource, ProtectSource,
     PrepareIntent, RecheckIntent, Inspect, Publish, RemoveSource, Verify, GateOpen, Reload, Finish, BeginLive,
     DeclineLive, Interrupt, LiveTimeout, Throw, Defer, Complete, workerState
<1>5. ScanAlone'
  <2>1. scan'.phase = "idle" /\ scan' = NoScan
    BY <1>1, <1>3, <1>4
  <2> QED BY <2>1 DEF ScanAlone, Phase, NoScan
<1> QED BY <1>3, <1>4, <1>5

\* A step of the application before or after it has verified the result.
Quiet == Unnoticed /\ app'.pc \notin Verified

(***************************************************************************)
(* Attempts that end.                                                      *)
(***************************************************************************)
LEMMA EndsQuiet ==
  ASSUME CInv, Throw \/ Defer \/ (Complete /\ UNCHANGED <<journal, files>>)
  PROVE  Quiet
<1>1. NoApp.pc = "idle" /\ [NoApp EXCEPT !.pc = "offer", !.target = app.target].pc = "offer"
  BY DEF NoApp
<1>2. /\ UNCHANGED <<disk, clock, stale, scan, work, published, watched>> /\ (inventoried' => inventoried)
      /\ app' \in {NoApp, [NoApp EXCEPT !.pc = "offer", !.target = app.target]}
      /\ journal' \in {journal, Abandoned(journal, app.target)}
  BY DEF Throw, Defer, Complete, files, workerState, tracking
<1>3. Abandoned(journal, app.target).applied = journal.applied
  BY DEF CInv, IInv, Consistent, JournalType, Abandoned
<1> QED BY <1>1, <1>2, <1>3 DEF Quiet, Unnoticed, Verified

(***************************************************************************)
(* Steps that prepare, observe or decide.                                  *)
(***************************************************************************)
LEMMA StepsQuiet ==
  ASSUME CInv, \/ BeginApplication \/ Enter \/ EnterOpen \/ ObserveSource \/ ProtectSource \/ PrepareIntent
               \/ RecheckIntent \/ Inspect \/ GateOpen \/ Interrupt \/ BeginLive \/ DeclineLive \/ LiveTimeout
  PROVE  Quiet
<1>0. DOMAIN app = {"pc", "target", "expected", "source", "prepared", "published", "lock", "live"}
  BY AppFields DEF CInv
<1>1. ASSUME UNCHANGED <<files, workerState>>, journal'.applied = journal.applied, app'.pc \notin Verified
      PROVE  Quiet
  BY <1>1 DEF files, workerState, tracking, Quiet, Unnoticed
<1>2. CASE BeginApplication
  <2>1. PICK target : app' = [NoApp EXCEPT !.pc = "enter", !.target = target]
    BY <1>2 DEF BeginApplication
  <2>2. app'.pc = "enter"
    BY <2>1 DEF NoApp
  <2> QED BY <1>1, <1>2, <2>2 DEF BeginApplication, Verified
<1>3. CASE Enter
  <2>1. \/ Throw
        \/ Complete /\ UNCHANGED <<journal, files>>
        \/ app'.pc \in {"recheck", "observe"} /\ UNCHANGED <<files, workerState, journal>>
    BY <1>0, <1>3 DEF Enter
  <2> QED BY <1>1, <2>1, EndsQuiet DEF Verified
<1>4. CASE EnterOpen \/ GateOpen \/ Interrupt \/ DeclineLive \/ LiveTimeout
  BY <1>4, EndsQuiet DEF EnterOpen, GateOpen, Interrupt, DeclineLive, LiveTimeout
<1>5. CASE ObserveSource \/ ProtectSource \/ RecheckIntent \/ Inspect \/ BeginLive
  <2>1. \/ Throw
        \/ /\ app'.pc \in {"protect", "prepare", "inspect", "publish", "remove", "verify", "enter"}
           /\ UNCHANGED <<files, workerState, journal>>
    <3>1. CASE ObserveSource
      BY <1>0, <3>1 DEF ObserveSource
    <3>2. CASE ProtectSource
      BY <1>0, <3>2 DEF ProtectSource, Goto
    <3>3. CASE RecheckIntent
      BY <1>0, <3>3 DEF RecheckIntent, Goto
    <3>4. CASE Inspect
      BY <1>0, <3>4 DEF Inspect
    <3>5. CASE BeginLive
      BY <1>0, <3>5 DEF BeginLive
    <3> QED BY <1>5, <3>1, <3>2, <3>3, <3>4, <3>5
  <2> QED BY <1>1, <2>1, EndsQuiet DEF Verified
<1>6. CASE PrepareIntent
  <2>1. \/ Throw
        \/ /\ app'.pc = "recheck" /\ UNCHANGED <<files, workerState>>
           /\ journal' = Prepared(journal, app.target, app.expected, app.source.content)
    BY <1>0, <1>6 DEF PrepareIntent
  <2>2. Prepared(journal, app.target, app.expected, app.source.content).applied = journal.applied
    BY DEF CInv, IInv, Consistent, JournalType, Prepared
  <2> QED BY <1>1, <2>1, <2>2, EndsQuiet DEF Verified
<1> QED BY <1>2, <1>3, <1>4, <1>5, <1>6

(***************************************************************************)
(* A quiet step of the application leaves what the inventory knows.        *)
(***************************************************************************)
LEMMA QuietKeeps ==
  ASSUME CInv, Quiet, ScanAlone'
  PROVE  FilesMarks' /\ Rest'
<1>1. FilesMarks'
  BY UnnoticedKeeps DEF Quiet
<1> QED BY <1>1 DEF Rest, AppMarks, Quiet

(***************************************************************************)
(* The steps that write a file.                                            *)
(***************************************************************************)
LEMMA InstallKeeps ==
  ASSUME CInv, Publish \/ RemoveSource
  PROVE  FilesMarks' /\ Rest'
<1>0. /\ DOMAIN app = {"pc", "target", "expected", "source", "prepared", "published", "lock", "live"}
      /\ disk \in [Path -> FileType] /\ ScanAlone'
  <2>1. IInv
    BY DEF CInv
  <2> QED BY <2>1, AppFields, ApplyAlone DEF IInv, FilesSound, ApplyStep
<1>1. CASE Throw
  BY <1>0, <1>1, EndsQuiet, QuietKeeps
<1>2. CASE ~Throw
  <2>1. /\ UNCHANGED <<journal, scan, work, published, watched, inventoried>> /\ app'.pc \in {"remove", "verify"}
        /\ \E path \in {SourcePath, TargetPath} : \E c : Wrote(path, c)
        /\ SourcePath \in Path /\ TargetPath \in Path
    <3>1. app.pc # "idle" /\ IInv
      BY <1>2 DEF Publish, RemoveSource, At, CInv
    <3>2. SourcePath \in Path /\ TargetPath \in Path
      BY <3>1, AppFields, GraphAssumption DEF SourcePath, TargetPath
    <3>3. CASE Publish
      BY <1>0, <1>2, <3>2, <3>3 DEF Publish, Installed, workerState, tracking
    <3>4. CASE RemoveSource
      BY <1>0, <1>2, <3>2, <3>4 DEF RemoveSource, Installed, workerState, tracking
    <3> QED BY <3>3, <3>4
  <2>2. PICK path \in Path : \E c : Wrote(path, c)
    BY <2>1
  <2>3. Rewritten({path})
    BY <1>0, <2>2 DEF Wrote, Rewritten, File
  <2>4. FilesMarks'
    BY <2>1, <2>3, WriteKeeps
  <2> QED BY <1>0, <2>1, <2>4 DEF Rest, AppMarks, Verified
<1> QED BY <1>1, <1>2

(***************************************************************************)
(* The final observation, and what follows it.                             *)
(***************************************************************************)
LEMMA VerifyKeeps ==
  ASSUME CInv, Verify \/ Reload
  PROVE  FilesMarks' /\ Rest'
<1>0. /\ DOMAIN app = {"pc", "target", "expected", "source", "prepared", "published", "lock", "live"}
      /\ ScanAlone'
  <2>1. IInv
    BY DEF CInv
  <2> QED BY <2>1, AppFields, ApplyAlone DEF ApplyStep
<1>1. CASE Throw
  BY <1>0, <1>1, EndsQuiet, QuietKeeps
<1>2. CASE ~Throw
  <2>1. /\ Unnoticed /\ app'.target = app.target /\ app'.expected = app.expected
        /\ app'.pc \in Verified
        /\ \/ /\ app.pc = "verify" /\ disk[TargetPath].content = ContentOf[app.target]
              /\ Renamed => Absent(disk[SourcePath])
           \/ app.pc = "reload"
    <3>1. CASE Verify
      BY <1>0, <1>2, <3>1 DEF Verify, At, files, workerState, tracking, Unnoticed, Verified
    <3>2. CASE Reload
      BY <1>0, <1>2, <3>2 DEF Reload, At, Goto, files, workerState, tracking, Unnoticed, Verified
    <3> QED BY <3>1, <3>2
  <2>2. FilesMarks' /\ MarksShrink
    BY <2>1, UnnoticedKeeps
  <2>3. SourcePath' = SourcePath /\ TargetPath' = TargetPath
    BY <2>1 DEF SourcePath, TargetPath
  <2>4. SourcePath \in Path /\ TargetPath \in Path
    <3>1. IInv /\ app.pc # "idle"
      BY <2>1 DEF CInv
    <3> QED BY <3>1, AppFields, GraphAssumption DEF SourcePath, TargetPath
  <2>5. ASSUME NEW p \in {SourcePath, TargetPath}, Marked(p)'
        PROVE  p = TargetPath /\ disk'[p].content = ContentOf[app.target]
    <3>1. Marked(p) /\ disk'[p] = disk[p] /\ ~Absent(disk[p])
      BY <2>2, <2>4, <2>5 DEF MarksShrink, Marked
    <3>2. CASE app.pc = "reload"
      BY <3>1, <3>2 DEF CInv, Marks, AppMarks, Verified
    <3>3. CASE app.pc # "reload"
      BY <2>1, <3>1, <3>3 DEF Renamed
    <3> QED BY <3>2, <3>3
  <2>6. AppMarks'
    BY <2>1, <2>3, <2>5 DEF AppMarks
  <2> QED BY <1>0, <2>2, <2>6 DEF Rest
<1> QED BY <1>1, <1>2

(***************************************************************************)
(* The application is recorded: a file that is still marked is the one     *)
(* that was verified.                                                      *)
(***************************************************************************)
LEMMA FinishKeeps ==
  ASSUME CInv, Finish
  PROVE  FilesMarks' /\ Rest'
<1>0. ScanAlone' /\ scan = NoScan /\ scan' = scan /\ work' = work /\ IInv
  BY ApplyAlone DEF ApplyStep, CInv
<1>1. CASE Throw
  BY <1>0, <1>1, EndsQuiet, QuietKeeps
<1>2. CASE ~Throw
  <2>1. /\ app.pc = "finish" /\ CanFinish(journal, app.target, ContentOf[app.target])
        /\ journal' = Finished(journal, app.target) /\ app' = NoApp /\ ~inventoried'
        /\ UNCHANGED <<disk, clock, stale, published, watched>>
    BY <1>2 DEF Finish, At, Complete, files
  <2>2. journal'.applied = app.target /\ app.expected = journal.applied /\ app.expected # None
    <3>1. journal'.applied = app.target
      BY <1>0, <2>1 DEF Finished, IInv, Consistent, JournalType
    <3>2. app.expected = journal.intents[app.target].expected /\ journal.applied # None
      BY <1>0, <2>1 DEF IInv, AppSound, Underway
    <3> QED BY <2>1, <3>1, <3>2 DEF CanFinish
  <2>3. \A p : Marked(p)' <=> Marked(p)
    BY <1>0, <2>1 DEF Marked, Absent
  <2>4. MarkedIsApplied'
    <3>1. ASSUME NEW p \in Path, Marked(p) PROVE PathOf[app.target] = p /\ ContentOf[app.target] = disk[p].content
      <4>1. SourcePath = p
        BY <2>2, <3>1 DEF CInv, Marks, MarkedIsApplied, SourcePath
      <4>2. p = TargetPath /\ disk[p].content = ContentOf[app.target]
        BY <2>1, <3>1, <4>1 DEF CInv, Marks, AppMarks, Verified
      <4> QED BY <4>2 DEF TargetPath
    <3> QED BY <2>1, <2>2, <2>3, <3>1 DEF MarkedIsApplied
  <2>5. WorkMarks' /\ StampsKnown'
    BY <1>0, <2>1, <2>3 DEF CInv, Marks, WorkMarks, NoWork, StampsKnown, Absent
  <2>6. scan'.phase = "idle" /\ app'.pc = "idle"
    BY <1>0, <2>1 DEF NoScan, NoApp
  <2>7. ListSound' /\ SeenSound' /\ ScanComplete' /\ Known' /\ AppMarks'
    BY <2>1, <2>6 DEF ListSound, SeenSound, ScanComplete, Known, AppMarks, Verified
  <2> QED BY <1>0, <2>4, <2>5, <2>7 DEF FilesMarks, Rest
<1> QED BY <1>1, <1>2

(***************************************************************************)
(* The application, whatever interrupts it, leaves the inventory right     *)
(* about the files.                                                        *)
(***************************************************************************)
LEMMA ApplyKeeps ==
  ASSUME CInv, ApplyStep \/ Disturbance
  PROVE  FilesMarks' /\ Rest'
<1>1. CASE Publish \/ RemoveSource
  BY <1>1, InstallKeeps
<1>2. CASE Verify \/ Reload
  BY <1>2, VerifyKeeps
<1>3. CASE Finish
  BY <1>3, FinishKeeps
<1>4. CASE Quiet
  BY <1>4, QuietKeeps, ApplyAlone
<1> QED BY <1>1, <1>2, <1>3, <1>4, StepsQuiet DEF ApplyStep, Disturbance

(***************************************************************************)
(* What the worker's step leaves alone when it neither marks a file nor    *)
(* starts or ends an inventory.                                            *)
(***************************************************************************)
LEMMA AppMarksKept ==
  ASSUME CInv, UNCHANGED <<disk, app>>, scan = NoScan => MarksShrink
  PROVE  AppMarks'
<1>1. /\ IInv /\ Marks /\ ScanAlone /\ NoApp.pc = "idle"
      /\ SourcePath' = SourcePath /\ TargetPath' = TargetPath
  BY DEF CInv, Scans, NoApp, SourcePath, TargetPath
<1>2. CASE scan # NoScan
  BY <1>1, <1>2 DEF ScanAlone, AppMarks, Verified
<1>3. CASE scan = NoScan
  <2>1. ASSUME app.pc \in Verified PROVE SourcePath \in Path /\ TargetPath \in Path
    BY <1>1, <2>1, AppFields, GraphAssumption DEF SourcePath, TargetPath, Verified
  <2> QED BY <1>1, <1>3, <2>1 DEF AppMarks, Marks, MarksShrink
<1> QED BY <1>2, <1>3

(***************************************************************************)
(* A notification that saved() does not refuse finds no marked file at the *)
(* path of the applied revision, unless that is the path that was saved.   *)
(***************************************************************************)
LEMMA SavedStartKeeps ==
  ASSUME CInv, SavedStart
  PROVE  FilesMarks' /\ Rest'
<1> DEFINE note == Head(queue)
           w == Saving(note.path, note.content, note.predecessor, FALSE)
<1>1. /\ work = NoWork /\ scan.phase \notin {"protect", "check", "tombstone"}
      /\ \/ work' = NoWork
         \/ /\ work' = w /\ ~SecondPath(note.path)
            /\ ~(journal.applied # None /\ note.predecessor = None)
      /\ UNCHANGED <<journal, scan, inventoried, published, disk, clock, watched, stale, app>>
  BY DEF SavedStart, elsewhere, tracking, watching
<1>2. IInv /\ Marks /\ Scans /\ journal.applied \in Revision /\ journal.applied # None
  BY DEF CInv, IInv, Consistent, JournalType
<1>3. \A p : Marked(p)' <=> Marked(p)
  BY <1>1 DEF Marked, Absent
<1>4. StampsKnown' /\ MarkedIsApplied' /\ ListSound' /\ SeenSound' /\ ScanComplete' /\ Known' /\ ScanAlone'
  BY <1>1, <1>2, <1>3 DEF Marks, Scans, StampsKnown, MarkedIsApplied, ListSound, SeenSound, ScanComplete,
     Known, ScanAlone, Empty, Absent, NoScan, NoApp, NoWork, File
<1>5. MarksShrink
  BY <1>1, <1>3 DEF MarksShrink
<1>6. AppMarks'
  BY <1>1, <1>5, AppMarksKept
<1>7. WorkMarks'
  <2>1. CASE work' = NoWork
    BY <2>1 DEF WorkMarks, NoWork
  <2>2. CASE /\ work' = w /\ ~SecondPath(note.path)
             /\ ~(journal.applied # None /\ note.predecessor = None)
    <3>1. /\ w.path = note.path /\ w.predecessor = note.predecessor /\ w.expected = journal.applied
          /\ w.inventory = FALSE
      BY DEF Saving
    <3> HIDE DEF w
    <3>2. ContentOf[journal.applied] # None /\ PathOf[journal.applied] # note.path
            => ~Marked(PathOf[journal.applied])
      BY <1>2, <2>2 DEF SecondPath, Marked
    <3> HIDE DEF note
    <3> QED BY <1>2, <1>3, <2>2, <3>1, <3>2 DEF WorkMarks
  <2> QED BY <1>1, <2>1, <2>2
<1> QED BY <1>4, <1>6, <1>7 DEF FilesMarks, Rest

(***************************************************************************)
(* The fields of an inventory that goes on.                                *)
(***************************************************************************)
LEMMA ScanFields ==
  ASSUME NEW s, DOMAIN s = ScanField
  PROVE  /\ \A path, success :
              LET t == ScanResult(s, path, success)
              IN  /\ DOMAIN t = ScanField /\ t.phase = s.phase /\ t.seen = s.seen /\ t.base = s.base
                  /\ t.todo = s.todo \ {path}
                  /\ t.captured = IF success THEN s.captured \cup {path} ELSE s.captured
                  /\ t.retry <=> (s.retry \/ ~success)
         /\ LET t == [s EXCEPT !.again = TRUE]
            IN  /\ DOMAIN t = ScanField /\ t.phase = s.phase /\ t.seen = s.seen /\ t.base = s.base
                /\ t.todo = s.todo /\ t.captured = s.captured /\ (t.retry <=> s.retry)
BY DEF ScanResult, ScanField

(***************************************************************************)
(* schedule() changes which round follows, never what this one saw.        *)
(***************************************************************************)
LEMMA ScheduleFields ==
  ASSUME NEW s, DOMAIN s = ScanField, Schedule(s)
  PROVE  /\ ~inventoried' /\ (s = NoScan => scan' = NoScan)
         /\ scan'.phase = s.phase /\ scan'.seen = s.seen /\ scan'.base = s.base
         /\ scan'.todo = s.todo /\ scan'.captured = s.captured /\ (scan'.retry <=> s.retry)
BY ScanFields DEF Schedule

(***************************************************************************)
(* The ways capture_saved ends: the inventory in progress goes on, with    *)
(* the file captured or to be repeated, and the applied revision is what   *)
(* it was or the snapshot.                                                 *)
(***************************************************************************)
CaptureRecorded ==
  /\ work.expected = journal.applied
  /\ CaptureAdmitted(journal, work.expected)
  /\ ~Unchanged(work.expected, work.path, work.content)
  /\ PredecessorMatches(work.expected, work.predecessor)
  /\ PathOf[journal'.applied] = work.path /\ ContentOf[journal'.applied] = work.content
  /\ journal'.intents = journal.intents
  /\ work.inventory => work.path \in scan'.captured

(***************************************************************************)
(* capture_saved ends in one of them, and repeats the inventory rather     *)
(* than take a file it did not record for captured.                        *)
(***************************************************************************)
LEMMA SavedCaptureOutcome ==
  ASSUME CInv, SavedCapture
  PROVE  /\ work # NoWork /\ work' = NoWork
         /\ UNCHANGED <<history, queue, disk, clock, view, watched, stale, app, authored, published>>
         /\ inventoried' => inventoried
         /\ scan = NoScan => scan' = NoScan
         /\ scan'.phase = scan.phase /\ scan'.seen = scan.seen /\ scan'.base = scan.base
         /\ scan'.retry \/ ~scan.retry
         /\ ~work.inventory => scan'.todo = scan.todo /\ scan'.captured = scan.captured
         /\ work.inventory =>
              /\ scan'.todo = scan.todo \ {work.path}
              /\ \/ scan'.retry /\ scan'.captured = scan.captured /\ journal' = journal
                 \/ scan'.captured = scan.captured \cup {work.path}
         /\ \/ /\ journal' = journal
               /\ work.inventory => \/ scan'.retry /\ scan'.captured = scan.captured
                                    \/ Unchanged(journal.applied, work.path, work.content)
            \/ CaptureRecorded
<1> DEFINE id == SnapshotId(CaptureOrigin(work), work.path, work.content, work.expected)
           result(success) == IF work.inventory THEN ScanResult(scan, work.path, success) ELSE scan
           moved == journal.applied # work.expected
           throws == ~moved /\ ~CaptureAdmitted(journal, work.expected)
           same == Unchanged(work.expected, work.path, work.content)
           foreign == ~same /\ ~PredecessorMatches(work.expected, work.predecessor)
<1>1. IInv /\ WorkMarks /\ DOMAIN scan = ScanField /\ NoScan.phase = "idle"
  BY DEF CInv, Marks, IInv, ScanSound, NoScan
<1>2. /\ work # NoWork /\ work' = NoWork
      /\ UNCHANGED <<history, queue, disk, clock, view, watched, stale, app, authored, published>>
      /\ \/ /\ ~moved /\ same /\ scan' = result(TRUE) /\ journal' = journal /\ inventoried' = inventoried
         \/ /\ ~moved /\ ~throws /\ ~same /\ ~foreign /\ id \in Revision
            /\ journal' = Captured(journal, id) /\ scan' = result(TRUE) /\ inventoried' = inventoried
         \/ Schedule(result(FALSE)) /\ journal' = journal
         \/ scan' = result(FALSE) /\ journal' = journal /\ inventoried' = inventoried
  BY DEF SavedCapture, elsewhere, tracking, watching
<1>3. \A success \in BOOLEAN :
        LET t == result(success)
        IN  /\ DOMAIN t = ScanField /\ t.phase = scan.phase /\ t.seen = scan.seen /\ t.base = scan.base
            /\ ~work.inventory => t = scan
            /\ work.inventory =>
                 /\ t.todo = scan.todo \ {work.path}
                 /\ t.captured = IF success THEN scan.captured \cup {work.path} ELSE scan.captured
                 /\ t.retry <=> (scan.retry \/ ~success)
  <2> TAKE success \in BOOLEAN
  <2> DEFINE u == ScanResult(scan, work.path, success)
  <2>1. /\ DOMAIN u = ScanField /\ u.phase = scan.phase /\ u.seen = scan.seen /\ u.base = scan.base
        /\ u.todo = scan.todo \ {work.path}
        /\ u.captured = IF success THEN scan.captured \cup {work.path} ELSE scan.captured
        /\ u.retry <=> (scan.retry \/ ~success)
    BY <1>1, ScanFields
  <2>2. result(success) = IF work.inventory THEN u ELSE scan
    OBVIOUS
  <2> HIDE DEF u, result
  <2>3. CASE work.inventory
    BY <2>1, <2>2, <2>3
  <2>4. CASE ~work.inventory
    BY <1>1, <2>2, <2>4
  <2> QED BY <2>3, <2>4
<1>4. work.inventory => scan # NoScan
  BY <1>1, <1>2 DEF WorkMarks
<1>5. CASE /\ ~moved /\ same /\ scan' = result(TRUE) /\ journal' = journal /\ inventoried' = inventoried
  <2> HIDE DEF result
  <2> QED BY <1>2, <1>3, <1>4, <1>5
<1>6. CASE /\ ~moved /\ ~throws /\ ~same /\ ~foreign /\ id \in Revision
           /\ journal' = Captured(journal, id) /\ scan' = result(TRUE) /\ inventoried' = inventoried
  <2>1. CaptureOrigin(work) \in {Self, Baseline} /\ work.path \in Path /\ work.content \in Content \cup {None}
    BY <1>1, <1>2 DEF CaptureOrigin, IInv, WorkSound
  <2>2. PathOf[id] = work.path /\ ContentOf[id] = work.content
    BY <1>1, <1>6, <2>1, SnapshotFacts
  <2>3. journal'.applied = id /\ journal'.intents = journal.intents
    <3>1. id \in Revision /\ Consistent(journal) /\ DOMAIN journal = {"rowid", "tip", "approved", "eligible", "applied", "intents"}
      BY <1>1, <1>6 DEF IInv, Consistent, JournalType
    <3> HIDE DEF id
    <3>2. Captured(journal, id).intents = journal.intents
      BY <3>1, CapturedTables
    <3>3. Captured(journal, id).applied = id
      BY <3>1 DEF Captured, Inserted
    <3> QED BY <1>6, <3>2, <3>3
  <2>4. work.inventory => work.path \in scan'.captured
    <3> HIDE DEF result
    <3> QED BY <1>3, <1>6
  <2>5. CaptureRecorded
    BY <1>6, <2>2, <2>3, <2>4 DEF CaptureRecorded
  <2> HIDE DEF result
  <2> QED BY <1>2, <1>3, <1>4, <1>6, <2>5
<1>7. CASE Schedule(result(FALSE)) /\ journal' = journal
  <2> DEFINE t == result(FALSE)
  <2>1. /\ DOMAIN t = ScanField /\ t.phase = scan.phase /\ t.seen = scan.seen /\ t.base = scan.base
        /\ ~work.inventory => t = scan
        /\ work.inventory =>
             /\ t.todo = scan.todo \ {work.path} /\ t.captured = scan.captured /\ t.retry
    <3> HIDE DEF result
    <3> QED BY <1>3
  <2>2. Schedule(t)
    BY <1>7
  <2> HIDE DEF t, result
  <2>3. /\ ~inventoried' /\ (t = NoScan => scan' = NoScan)
        /\ scan'.phase = t.phase /\ scan'.seen = t.seen /\ scan'.base = t.base
        /\ scan'.todo = t.todo /\ scan'.captured = t.captured /\ (scan'.retry <=> t.retry)
    BY <2>1, <2>2, ScheduleFields
  <2> QED BY <1>2, <1>4, <1>7, <2>1, <2>3
<1>8. CASE scan' = result(FALSE) /\ journal' = journal /\ inventoried' = inventoried
  <2> HIDE DEF result
  <2> QED BY <1>2, <1>3, <1>4, <1>8
<1> HIDE DEF moved, throws, same, foreign, id, result
<1> QED BY <1>2, <1>5, <1>6, <1>7, <1>8

(***************************************************************************)
(* The snapshot of a notification follows the revision that the save       *)
(* replaced, so no marked file is left: it would hold the replaced bytes   *)
(* at the saved path, or saved() would have refused it.  The snapshot of   *)
(* an inventory is the file that it marks.                                 *)
(***************************************************************************)
LEMMA SavedCaptureKeeps ==
  ASSUME CInv, SavedCapture
  PROVE  FilesMarks' /\ Rest'
<1>1. /\ work # NoWork /\ work' = NoWork
      /\ UNCHANGED <<disk, clock, watched, stale, app, published>>
      /\ inventoried' => inventoried
      /\ scan = NoScan => scan' = NoScan
      /\ scan'.phase = scan.phase /\ scan'.seen = scan.seen /\ scan'.base = scan.base
      /\ scan'.retry \/ ~scan.retry
      /\ ~work.inventory => scan'.todo = scan.todo /\ scan'.captured = scan.captured
      /\ work.inventory =>
           /\ scan'.todo = scan.todo \ {work.path}
           /\ \/ scan'.retry /\ scan'.captured = scan.captured /\ journal' = journal
              \/ scan'.captured = scan.captured \cup {work.path}
      /\ \/ /\ journal' = journal
            /\ work.inventory => \/ scan'.retry /\ scan'.captured = scan.captured
                                 \/ Unchanged(journal.applied, work.path, work.content)
         \/ CaptureRecorded
  BY SavedCaptureOutcome
<1>2. /\ IInv /\ Marks /\ Scans /\ ~Restored /\ work.path \in Path /\ work.content \in Content
      /\ work.expected \in Revision /\ work.expected # None
      /\ DOMAIN scan.seen \subseteq Path /\ journal.applied # None
      /\ ~work.inventory => work.predecessor # None
      /\ work.inventory => scan.phase = "capture" /\ work.path \in DOMAIN scan.seen
                           /\ work.content = scan.seen[work.path].content
                           /\ (Marked(work.path) => disk[work.path].content = work.content)
  BY <1>1, GraphAssumption DEF CInv, IInv, WorkSound, Marks, WorkMarks, ScanSound
<1>3. ASSUME CaptureRecorded, NEW p \in Path, Marked(p)
      PROVE  work.inventory /\ p = work.path
  <2>1. PathOf[journal.applied] = p /\ ContentOf[journal.applied] = disk[p].content /\ disk[p].content # None
    BY <1>2, <1>3 DEF Marks, MarkedIsApplied, Marked, Absent
  <2>2. p = work.path
    BY <1>1, <1>2, <1>3, <2>1 DEF CaptureRecorded, Marks, WorkMarks
  <2>3. ASSUME ~work.inventory PROVE FALSE
    <3>1. disk[work.path].content = work.predecessor /\ ~Absent(disk[work.path])
      BY <1>2, <1>3, <2>1, <2>2, <2>3 DEF CaptureRecorded, PredecessorMatches, Marked
    <3>2. work \in Notices
      BY <1>1, <2>3 DEF Notices
    <3> QED BY <1>2, <3>1, <3>2 DEF Restored
  <2> QED BY <2>2, <2>3
<1>4. CaptureRecorded /\ ~work.inventory => ContentOf[journal.applied] # None
  BY <1>2 DEF CaptureRecorded, PredecessorMatches
<1>5. ASSUME NEW p \in Path, Marked(p)', ~Marked(p)
      PROVE  /\ work.inventory /\ p = work.path /\ disk[p].content = work.content
             /\ ~(scan'.captured = scan.captured)
  <2>1. p \in scan'.captured /\ p \notin scan.captured /\ p \in DOMAIN scan.seen
        /\ scan.seen[p].stamp = disk[p].stamp
    BY <1>1, <1>5 DEF Marked, Absent
  <2>2. scan.seen[p] = disk[p]
    BY <1>2, <2>1 DEF Marks, StampsKnown
  <2> QED BY <1>1, <1>2, <2>1, <2>2
<1>6. ASSUME NEW p \in Path, Marked(p)' PROVE Marked(p) \/ (work.inventory /\ p = work.path)
  BY <1>5, <1>6
<1>7. MarkedIsApplied'
  <2>1. SUFFICES ASSUME NEW p \in Path, Marked(p)'
                 PROVE  PathOf[journal'.applied] = p /\ ContentOf[journal'.applied] = disk[p].content
    BY <1>1 DEF MarkedIsApplied
  <2>2. CASE CaptureRecorded
    <3>1. work.inventory /\ p = work.path /\ disk[p].content = work.content
      BY <1>2, <1>3, <1>5, <2>1, <2>2
    <3> QED BY <2>2, <3>1 DEF CaptureRecorded
  <2>3. CASE ~CaptureRecorded
    <3>1. journal' = journal
      BY <1>1, <2>3
    <3>2. CASE Marked(p)
      BY <1>2, <2>1, <3>1, <3>2 DEF Marks, MarkedIsApplied
    <3>3. CASE ~Marked(p)
      BY <1>1, <1>5, <2>1, <2>3, <3>1, <3>3 DEF Unchanged
    <3> QED BY <3>2, <3>3
  <2> QED BY <2>2, <2>3
<1>8. StampsKnown' /\ WorkMarks' /\ ListSound' /\ SeenSound'
  BY <1>1, <1>2 DEF Marks, StampsKnown, WorkMarks, Scans, ListSound, SeenSound, Absent, NoWork
<1>9. ScanComplete'
  <2>1. scan.phase \notin {"protect", "check", "tombstone"}
    BY <1>1, <1>2 DEF Scans, ScanComplete
  <2>2. scan.phase = "end" => ~work.inventory
    BY <1>2
  <2>3. CASE scan.phase = "capture"
    BY <1>1, <1>2, <2>3 DEF Scans, ScanComplete
  <2>4. CASE scan.phase = "end"
    BY <1>1, <1>2, <1>4, <2>2, <2>4 DEF Scans, ScanComplete
  <2>5. CASE scan.phase \notin {"capture", "end"}
    BY <1>1, <2>1, <2>5 DEF ScanComplete
  <2> QED BY <2>3, <2>4, <2>5
<1>10. Known' /\ ScanAlone'
  <2>1. ASSUME inventoried PROVE scan = NoScan /\ ~work.inventory
    <3>1. scan = NoScan /\ NoScan.phase = "idle"
      BY <1>2, <2>1 DEF Scans, ScanAlone, NoScan
    <3> QED BY <1>2, <3>1
  <2>2. ScanAlone'
    BY <1>1, <1>2 DEF Scans, ScanAlone, NoScan, NoApp, File
  <2>3. Known'
    <3>1. SUFFICES ASSUME inventoried, inventoried' PROVE Known'
      BY <1>1 DEF Known
    <3>2. \A p : Marked(p)' <=> Marked(p)
      BY <1>1, <2>1, <3>1 DEF Marked, Absent
    <3>3. /\ Path \subseteq watched'
          /\ ~stale' => \A p \in Path : ~Absent(disk'[p]) => Marked(p)'
          /\ Empty' <=> Empty
      BY <1>1, <1>2, <3>1, <3>2 DEF Scans, Known, Empty, Absent
    <3>4. ~stale /\ Empty => ContentOf[journal'.applied] = None
      BY <1>1, <1>2, <1>4, <2>1, <3>1 DEF Scans, Known
    <3> QED BY <1>1, <3>3, <3>4 DEF Known
  <2> QED BY <2>2, <2>3
<1>11. AppMarks'
  <2>1. ASSUME scan = NoScan PROVE MarksShrink
    <3>1. scan.phase = "idle"
      BY <2>1 DEF NoScan
    <3>2. scan'.captured = scan.captured
      BY <1>1, <1>2, <3>1
    <3> QED BY <1>1, <1>5, <3>2 DEF MarksShrink
  <2> QED BY <1>1, <2>1, AppMarksKept
<1> QED BY <1>7, <1>8, <1>9, <1>10, <1>11 DEF FilesMarks, Rest

(***************************************************************************)
(* An inventory step that leaves the journal and marks no file.            *)
(***************************************************************************)
LEMMA ScanShrinks ==
  ASSUME CInv, UNCHANGED <<journal, disk, app>>, app = NoApp \/ scan # NoScan, MarksShrink
  PROVE  MarkedIsApplied' /\ AppMarks' /\ (work' = work /\ (work # NoWork /\ work.inventory => scan' = scan) => WorkMarks')
<1>1. IInv /\ Marks
  BY DEF CInv
<1>2. MarkedIsApplied' /\ (work' = work /\ (work # NoWork /\ work.inventory => scan' = scan) => WorkMarks')
  BY <1>1, ShrinkKeeps
<1>3. AppMarks'
  BY AppMarksKept
<1> QED BY <1>2, <1>3

(***************************************************************************)
(* A new inventory starts from nothing.                                    *)
(***************************************************************************)
LEMMA ScanStartKeeps ==
  ASSUME CInv, ScanStart
  PROVE  FilesMarks' /\ Rest'
<1>1. /\ app = NoApp /\ work = NoWork /\ ~inventoried /\ ~stale'
      /\ scan' = [NoScan EXCEPT !.phase = "list", !.todo = Path]
      /\ UNCHANGED <<journal, disk, clock, work, inventoried, published, watched, app>>
  BY DEF ScanStart, tracking
<1>2. scan'.phase = "list" /\ scan'.todo = Path /\ scan'.captured = {} /\ DOMAIN scan'.seen = {}
  BY <1>1 DEF NoScan
<1>3. StampsKnown
  BY DEF CInv, Marks
<1>4. MarksShrink
  BY <1>1, <1>2 DEF MarksShrink, Marked, Absent
<1>5. MarkedIsApplied' /\ AppMarks'
  BY <1>1, <1>4, ScanShrinks
<1>6. WorkMarks' /\ StampsKnown'
  BY <1>1, <1>2, <1>3 DEF WorkMarks, NoWork, StampsKnown, Absent
<1>7. ListSound' /\ SeenSound' /\ ScanComplete' /\ Known'
  BY <1>1, <1>2 DEF ListSound, SeenSound, ScanComplete, Known
<1>8. ScanAlone'
  BY <1>1, <1>2 DEF ScanAlone, Phase, NoApp, File
<1> QED BY <1>5, <1>6, <1>7, <1>8 DEF FilesMarks, Rest

(***************************************************************************)
(* The watch's report: every change made since makes the inventory stale.  *)
(***************************************************************************)
LEMMA PollKeeps ==
  ASSUME CInv, PollWatch
  PROVE  FilesMarks' /\ Rest'
<1>1. /\ scan = NoScan /\ ~inventoried' /\ app = NoApp
      /\ UNCHANGED <<journal, disk, clock, work, scan, stale, published, watched, app>>
  BY DEF PollWatch, elsewhere, watching
<1>2. FilesMarks' /\ MarksShrink
  BY <1>1, UnnoticedKeeps DEF Unnoticed
<1>3. AppMarks'
  BY <1>1, <1>2, ScanShrinks
<1>4. ScanAlone'
  BY <1>1 DEF ScanAlone, Phase, NoScan, CInv, Scans
<1> QED BY <1>2, <1>3, <1>4 DEF Rest

(***************************************************************************)
(* A directory is registered before it is listed: until the watch reports  *)
(* something the listing is true.                                          *)
(***************************************************************************)
LEMMA ScanListKeeps ==
  ASSUME CInv, NEW path \in Path, ScanList(path)
  PROVE  FilesMarks' /\ Rest'
<1> DEFINE rest == scan.todo \ {path}
           seen == [p \in DOMAIN scan.seen \cup {path} |-> IF p = path THEN disk[p] ELSE scan.seen[p]]
           found == {p \in DOMAIN seen : ~Absent(seen[p])}
<1>1. /\ scan.phase = "list" /\ path \in scan.todo /\ watched' = watched \cup {path}
      /\ scan' = IF rest # {} THEN [scan EXCEPT !.todo = rest, !.seen = seen]
                 ELSE [scan EXCEPT !.phase = "read", !.todo = found, !.seen = [p \in found |-> seen[p]]]
      /\ UNCHANGED <<journal, disk, clock, work, inventoried, published, stale, app>>
  BY DEF ScanList, Registered, tracking
<1>2. /\ IInv /\ Marks /\ Scans /\ DOMAIN scan = ScanField /\ DOMAIN scan.seen \subseteq Path
      /\ \A p \in Path : disk[p].stamp \in Nat /\ disk[p].stamp <= clock
      /\ scan.captured = {} /\ Path \subseteq scan.todo \cup DOMAIN scan.seen
      /\ \A p \in DOMAIN scan.seen : p \in watched /\ (~stale => disk[p] = scan.seen[p])
      /\ scan # NoScan /\ ~inventoried /\ app = NoApp
  BY <1>1 DEF CInv, IInv, ScanSound, FilesSound, FileType, Scans, ListSound, ScanAlone, NoScan
<1>3. /\ scan'.captured = {} /\ DOMAIN scan' = ScanField
      /\ \/ rest # {} /\ scan'.phase = "list" /\ scan'.todo = rest /\ scan'.seen = seen
         \/ rest = {} /\ scan'.phase = "read" /\ scan'.seen = [p \in found |-> seen[p]]
  <2> HIDE DEF seen, found, rest
  <2> QED BY <1>1, <1>2 DEF ScanField
<1>4. /\ DOMAIN seen = DOMAIN scan.seen \cup {path} /\ found \subseteq DOMAIN seen
      /\ \A p \in DOMAIN seen : seen[p] = disk[p] \/ (p \in DOMAIN scan.seen /\ seen[p] = scan.seen[p])
      /\ ~stale => \A p \in DOMAIN seen : disk[p] = seen[p]
      /\ \A p \in found : ~Absent(seen[p])
      /\ \A p \in DOMAIN seen \ found : Absent(seen[p])
  BY <1>2
<1> HIDE DEF seen, found
<1>5. DOMAIN scan'.seen \subseteq DOMAIN seen /\ \A p \in DOMAIN scan'.seen : scan'.seen[p] = seen[p]
  BY <1>3, <1>4
<1>6. MarksShrink
  BY <1>1, <1>3 DEF MarksShrink, Marked, Absent
<1>7. MarkedIsApplied' /\ AppMarks' /\ WorkMarks'
  <2>1. work # NoWork /\ work.inventory => FALSE
    BY <1>1, <1>2 DEF Marks, WorkMarks
  <2> QED BY <1>1, <1>2, <1>6, <2>1, ScanShrinks
<1>8. StampsKnown'
  <2>1. ASSUME NEW p \in DOMAIN scan'.seen
        PROVE  /\ scan'.seen[p].stamp \in Nat /\ scan'.seen[p].stamp <= clock
               /\ scan'.seen[p].stamp = disk[p].stamp => scan'.seen[p] = disk[p]
    <3>1. p \in Path /\ scan'.seen[p] = seen[p] /\ p \in DOMAIN seen
      BY <1>2, <1>4, <1>5
    <3>2. CASE seen[p] = disk[p]
      BY <1>2, <3>1, <3>2
    <3>3. CASE p \in DOMAIN scan.seen /\ seen[p] = scan.seen[p]
      BY <1>2, <3>1, <3>3 DEF Marks, StampsKnown
    <3> QED BY <1>4, <3>1, <3>2, <3>3
  <2> QED BY <1>1, <1>2, <2>1 DEF Marks, StampsKnown, Absent
<1>9. ListSound'
  <2>1. SUFFICES ASSUME scan'.phase = "list" PROVE ListSound'
    BY DEF ListSound
  <2> QED BY <1>1, <1>2, <1>3, <1>4, <2>1 DEF ListSound
<1>10. SeenSound'
  <2>1. SUFFICES ASSUME rest = {}, scan'.seen = [p \in found |-> seen[p]] PROVE SeenSound'
    BY <1>3 DEF SeenSound
  <2>2. Path \subseteq DOMAIN seen /\ Path \subseteq watched'
    BY <1>1, <1>2, <1>4, <2>1
  <2>3. \A p \in DOMAIN scan'.seen : ~Absent(scan'.seen[p])
    BY <1>4, <2>1
  <2>4. ~stale => /\ \A p \in DOMAIN scan'.seen : disk[p] = scan'.seen[p]
                  /\ \A p \in Path \ DOMAIN scan'.seen : Absent(disk[p])
    BY <1>4, <2>1, <2>2
  <2> QED BY <1>1, <2>2, <2>3, <2>4 DEF SeenSound, Absent
<1>11. ScanComplete' /\ Known' /\ ScanAlone'
  BY <1>1, <1>2, <1>3 DEF ScanComplete, Known, ScanAlone, Phase, NoScan, NoApp, File
<1> QED BY <1>7, <1>8, <1>9, <1>10, <1>11 DEF FilesMarks, Rest

(***************************************************************************)
(* A file that is dropped asks for another inventory; one that is taken    *)
(* from the cache was already marked.                                      *)
(***************************************************************************)
LEMMA ScanReadKeeps ==
  ASSUME CInv, ScanReadDone \/ \E path \in Path : ScanRead(path)
  PROVE  FilesMarks' /\ Rest'
<1>1. /\ scan.phase = "read"
      /\ UNCHANGED <<journal, disk, clock, work, inventoried, published, watched, stale, app>>
  BY DEF ScanReadDone, ScanRead, elsewhere, tracking, watching
<1>2. /\ IInv /\ Marks /\ Scans /\ DOMAIN scan = ScanField /\ DOMAIN scan.seen \subseteq Path
      /\ scan # NoScan /\ ~inventoried /\ app = NoApp
      /\ Path \subseteq watched /\ \A p \in DOMAIN scan.seen : ~Absent(scan.seen[p])
      /\ ~stale => /\ \A p \in DOMAIN scan.seen : disk[p] = scan.seen[p]
                   /\ ~scan.retry => \A p \in Path \ DOMAIN scan.seen : Absent(disk[p])
  BY <1>1 DEF CInv, IInv, ScanSound, Scans, SeenSound, ScanAlone, NoScan
<1>3. /\ DOMAIN scan'.seen \subseteq DOMAIN scan.seen /\ \A p \in DOMAIN scan'.seen : scan'.seen[p] = scan.seen[p]
      /\ \/ scan'.retry
         \/ scan'.seen = scan.seen /\ ~scan.retry
         \/ scan'.seen = scan.seen /\ scan'.retry
      /\ \A p \in scan'.captured : p \in scan.captured \/ (p \in Path /\ published[p] = disk[p].stamp)
      /\ \/ scan'.phase = "read"
         \/ scan'.phase = "capture" /\ DOMAIN scan'.seen \subseteq scan'.todo \cup scan'.captured
         \/ scan'.phase = "end" /\ scan'.retry
  <2>1. CASE ScanReadDone
    <3> DEFINE found == DOMAIN scan.seen
    <3>1. scan' = [scan EXCEPT !.phase = "end", !.captured = {}, !.retry = TRUE]
          \/ scan' = [scan EXCEPT !.phase = "capture", !.todo = found \ scan.captured]
      BY <2>1 DEF ScanReadDone
    <3> QED BY <1>2, <3>1 DEF ScanField
  <2>2. ASSUME NEW path \in Path, ScanRead(path)
        PROVE  /\ scan'.phase = "read"
               /\ DOMAIN scan'.seen \subseteq DOMAIN scan.seen /\ \A p \in DOMAIN scan'.seen : scan'.seen[p] = scan.seen[p]
               /\ \/ scan'.retry
                  \/ scan'.seen = scan.seen /\ ~scan.retry
               /\ \A p \in scan'.captured : p \in scan.captured \/ (p = path /\ published[p] = disk[p].stamp)
    <3> DEFINE less == [p \in DOMAIN scan.seen \ {path} |-> scan.seen[p]]
               more == IF Cached(path) THEN scan.captured \cup {path} ELSE scan.captured
    <3>1. \/ scan' = [scan EXCEPT !.todo = @ \ {path}, !.retry = TRUE, !.seen = less]
          \/ scan' = [scan EXCEPT !.todo = @ \ {path}, !.captured = more]
      BY <2>2 DEF ScanRead
    <3>2. \A p \in more : p \in scan.captured \/ (p = path /\ published[p] = disk[p].stamp)
      BY DEF Cached
    <3>3. DOMAIN less \subseteq DOMAIN scan.seen /\ \A p \in DOMAIN less : less[p] = scan.seen[p]
      OBVIOUS
    <3> HIDE DEF less, more
    <3>4. CASE scan' = [scan EXCEPT !.todo = @ \ {path}, !.retry = TRUE, !.seen = less]
      BY <1>1, <1>2, <3>3, <3>4 DEF ScanField
    <3>5. CASE scan' = [scan EXCEPT !.todo = @ \ {path}, !.captured = more]
      <4>1. scan'.phase = scan.phase /\ scan'.seen = scan.seen /\ (scan'.retry <=> scan.retry) /\ scan'.captured = more
        BY <1>2, <3>5 DEF ScanField
      <4> QED BY <1>1, <3>2, <4>1
    <3> QED BY <3>1, <3>4, <3>5
  <2> QED BY <2>1, <2>2, <1>1 DEF ScanReadDone, ScanRead
<1>4. MarksShrink
  BY <1>1, <1>3 DEF MarksShrink, Marked, Absent
<1>5. MarkedIsApplied' /\ AppMarks' /\ WorkMarks'
  <2>1. work # NoWork /\ work.inventory => FALSE
    BY <1>1, <1>2 DEF Marks, WorkMarks
  <2> QED BY <1>1, <1>2, <1>4, <2>1, ScanShrinks
<1>6. StampsKnown'
  BY <1>1, <1>2, <1>3 DEF Marks, StampsKnown, Absent
<1>7. ListSound' /\ SeenSound' /\ ScanComplete'
  BY <1>1, <1>2, <1>3 DEF ListSound, SeenSound, ScanComplete, Absent
<1>8. Known' /\ ScanAlone'
  BY <1>1, <1>2, <1>3 DEF Known, ScanAlone, Phase, NoScan, NoApp, File
<1> QED BY <1>5, <1>6, <1>7, <1>8 DEF FilesMarks, Rest

(***************************************************************************)
(* What is handed to saved() is the file that was read.                    *)
(***************************************************************************)
LEMMA ScanCaptureKeeps ==
  ASSUME CInv, NEW path \in Path, ScanCapture(path)
  PROVE  FilesMarks' /\ Rest'
<1> DEFINE failed == ScanResult(scan, path, FALSE)
           w == Saving(path, scan.seen[path].content, None, TRUE)
<1>1. /\ scan.phase = "capture" /\ path \in scan.todo /\ work = NoWork
      /\ UNCHANGED <<journal, disk, clock, published, watched, stale, app>>
      /\ \/ work' = work /\ scan' = failed /\ inventoried' = inventoried
         \/ work' = work /\ Schedule(failed)
         \/ /\ work' = w /\ scan' = scan /\ inventoried' = inventoried
            /\ disk[path] = scan.seen[path] /\ ~SecondPath(path)
  BY DEF ScanCapture, elsewhere, watching
<1>2. /\ IInv /\ Marks /\ Scans /\ DOMAIN scan = ScanField /\ path \in DOMAIN scan.seen
      /\ scan # NoScan /\ ~inventoried /\ app = NoApp /\ journal.applied \in Revision
  BY <1>1 DEF CInv, IInv, ScanSound, Scans, ScanAlone, NoScan, Consistent, JournalType
<1>3. /\ ~inventoried' /\ scan'.phase = "capture" /\ scan'.seen = scan.seen /\ scan'.captured = scan.captured
      /\ scan'.retry \/ scan' = scan
  <2>1. /\ DOMAIN failed = ScanField /\ failed.phase = scan.phase /\ failed.seen = scan.seen
        /\ failed.captured = scan.captured /\ (failed.retry <=> TRUE)
    BY <1>2 DEF ScanResult, ScanField
  <2> HIDE DEF failed
  <2>2. CASE Schedule(failed)
    BY <1>1, <2>1, <2>2, ScheduleFields
  <2>3. CASE scan' = failed /\ inventoried' = inventoried
    <3>1. scan'.retry
      BY <2>1, <2>3
    <3> QED BY <1>1, <1>2, <2>1, <2>3, <3>1
  <2>4. CASE scan' = scan /\ inventoried' = inventoried
    BY <1>1, <1>2, <2>4
  <2> QED BY <1>1, <2>2, <2>3, <2>4
<1>4. (\A p : Marked(p)' <=> Marked(p)) /\ MarksShrink
  BY <1>1, <1>3 DEF MarksShrink, Marked, Absent
<1>5. MarkedIsApplied' /\ AppMarks'
  BY <1>1, <1>2, <1>4, ScanShrinks
<1>6. WorkMarks'
  <2>1. CASE work' = work
    BY <1>1, <2>1 DEF WorkMarks, NoWork
  <2>2. CASE work' # work
    <3>1. work' = w /\ scan' = scan /\ disk[path] = scan.seen[path] /\ ~SecondPath(path)
      BY <1>1, <2>2
    <3>2. /\ w.path = path /\ w.expected = journal.applied /\ w.content = scan.seen[path].content
          /\ w.inventory
      BY DEF Saving
    <3> HIDE DEF w
    <3>3. ContentOf[journal.applied] # None /\ PathOf[journal.applied] # path => ~Marked(PathOf[journal.applied])
      BY <1>2, <3>1, GraphAssumption DEF SecondPath, Marked
    <3> QED BY <1>1, <1>2, <1>4, <3>1, <3>2, <3>3 DEF WorkMarks
  <2> QED BY <2>1, <2>2
<1>7. StampsKnown' /\ ListSound' /\ SeenSound'
  BY <1>1, <1>2, <1>3 DEF Marks, StampsKnown, Scans, ListSound, SeenSound, Absent
<1>8. ScanComplete'
  BY <1>1, <1>2, <1>3 DEF Scans, ScanComplete
<1>9. Known' /\ ScanAlone'
  BY <1>1, <1>2, <1>3 DEF Known, ScanAlone, Phase, NoScan, NoApp, File
<1> QED BY <1>5, <1>6, <1>7, <1>8, <1>9 DEF FilesMarks, Rest

(***************************************************************************)
(* An inventory that goes on to a deletion has met no file and missed      *)
(* none; it ends there only with a retry, or because nothing is missing.   *)
(***************************************************************************)
LEMMA DeletionsOutcome ==
  ASSUME CInv, ScanDeletions \/ ProtectDeleted \/ CheckDeleted
  PROVE  /\ scan # NoScan /\ work = NoWork /\ ~inventoried'
         /\ UNCHANGED <<journal, disk, clock, work, published, watched, stale, app>>
         /\ scan'.seen = scan.seen /\ scan'.captured = scan.captured
         /\ scan.phase \in {"capture", "protect", "check"} /\ scan'.phase \in {"protect", "check", "tombstone", "end"}
         /\ scan'.retry \/ ~scan.retry
         /\ scan'.phase = "end" /\ ~scan'.retry =>
              scan.phase = "capture" /\ scan.todo = {} /\ (~stale /\ DOMAIN scan.seen = {} => ContentOf[journal.applied] = None)
         /\ scan'.phase # "end" => ~scan'.retry /\ DOMAIN scan.seen = {}
         /\ scan'.phase = "tombstone" => Absent(disk[PathOf[scan'.base]])
<1>1. /\ IInv /\ Scans /\ DOMAIN scan = ScanField /\ journal.applied # None
      /\ scan.phase \in {"capture", "protect", "check"} /\ scan # NoScan /\ ~inventoried
      /\ UNCHANGED <<journal, disk, clock, work, published, watched, stale, app>>
  <2>1. scan.phase \in {"capture", "protect", "check"} /\ NoScan.phase = "idle"
    BY DEF ScanDeletions, ProtectDeleted, CheckDeleted, NoScan
  <2> QED BY <2>1 DEF CInv, IInv, ScanSound, Scans, ScanAlone, ScanDeletions, ProtectDeleted, CheckDeleted,
          elsewhere, watching, tracking
<1>2. work = NoWork
  BY <1>1 DEF Scans, ScanComplete, ScanDeletions, ProtectDeleted, CheckDeleted
<1>3. /\ DOMAIN Deferred = ScanField /\ Deferred.phase = "end" /\ Deferred.seen = scan.seen
      /\ Deferred.captured = scan.captured /\ (Deferred.retry <=> TRUE)
  BY <1>1 DEF Deferred, ScanField
<1>4. CASE /\ ~inventoried' /\ scan'.seen = scan.seen /\ scan'.captured = scan.captured
           /\ scan'.phase = "end" /\ scan'.retry
  BY <1>1, <1>2, <1>4
<1>5. Schedule(Deferred) => ~inventoried' /\ scan'.seen = scan.seen /\ scan'.captured = scan.captured
                              /\ scan'.phase = "end" /\ scan'.retry
  <2> HIDE DEF Deferred
  <2> QED BY <1>3, ScheduleFields
<1>6. scan' = Deferred /\ inventoried' = inventoried =>
        ~inventoried' /\ scan'.seen = scan.seen /\ scan'.captured = scan.captured /\ scan'.phase = "end" /\ scan'.retry
  <2> HIDE DEF Deferred
  <2>1. SUFFICES ASSUME scan' = Deferred, inventoried' = inventoried
                 PROVE  ~inventoried' /\ scan'.seen = scan.seen /\ scan'.captured = scan.captured
                          /\ scan'.phase = "end" /\ scan'.retry
    OBVIOUS
  <2>2. scan'.retry
    BY <1>3, <2>1
  <2> QED BY <1>1, <1>3, <2>1, <2>2
<1>7. CASE ScanDeletions
  <2>1. /\ scan.phase = "capture" /\ scan.todo = {}
        /\ \/ Schedule(Deferred)
           \/ scan' = Deferred /\ inventoried' = inventoried
           \/ /\ scan' = [scan EXCEPT !.phase = "protect", !.base = journal.applied] /\ inventoried' = inventoried
              /\ ~scan.retry /\ DOMAIN scan.seen = {}
           \/ /\ scan' = [scan EXCEPT !.phase = "end"] /\ inventoried' = inventoried
              /\ \/ scan.retry
                 \/ ~(journal.applied # None /\ ContentOf[journal.applied] # None /\ DOMAIN scan.seen = {})
    BY <1>7 DEF ScanDeletions
  <2>2. CASE /\ scan' = [scan EXCEPT !.phase = "protect", !.base = journal.applied] /\ inventoried' = inventoried
             /\ ~scan.retry /\ DOMAIN scan.seen = {}
    <3>1. scan'.phase = "protect" /\ scan'.seen = scan.seen /\ scan'.captured = scan.captured /\ (scan'.retry <=> scan.retry)
      BY <1>1, <2>2 DEF ScanField
    <3> QED BY <1>1, <1>2, <2>2, <3>1
  <2>3. CASE /\ scan' = [scan EXCEPT !.phase = "end"] /\ inventoried' = inventoried
             /\ \/ scan.retry
                \/ ~(journal.applied # None /\ ContentOf[journal.applied] # None /\ DOMAIN scan.seen = {})
    <3>1. scan'.phase = "end" /\ scan'.seen = scan.seen /\ scan'.captured = scan.captured /\ (scan'.retry <=> scan.retry)
      BY <1>1, <2>3 DEF ScanField
    <3> QED BY <1>1, <1>2, <2>1, <2>3, <3>1
  <2> QED BY <1>4, <1>5, <1>6, <2>1, <2>2, <2>3
<1>8. CASE ProtectDeleted \/ CheckDeleted
  <2>1. scan.phase \in {"protect", "check"} /\ ~scan.retry /\ DOMAIN scan.seen = {}
    BY <1>1, <1>8 DEF ProtectDeleted, CheckDeleted, Scans, ScanComplete
  <2>2. \/ Schedule(Deferred)
        \/ scan' = Deferred /\ inventoried' = inventoried
        \/ scan' = [scan EXCEPT !.phase = "check"] /\ inventoried' = inventoried
        \/ scan' = [scan EXCEPT !.phase = "tombstone"] /\ inventoried' = inventoried /\ Absent(disk[PathOf[scan.base]])
    BY <1>8 DEF ProtectDeleted, CheckDeleted, MissingSource, tracking
  <2>3. CASE scan' = [scan EXCEPT !.phase = "check"] /\ inventoried' = inventoried
    <3>1. scan'.phase = "check" /\ scan'.seen = scan.seen /\ scan'.captured = scan.captured /\ (scan'.retry <=> scan.retry)
      BY <1>1, <2>3 DEF ScanField
    <3> QED BY <1>1, <1>2, <2>1, <2>3, <3>1
  <2>4. CASE scan' = [scan EXCEPT !.phase = "tombstone"] /\ inventoried' = inventoried /\ Absent(disk[PathOf[scan.base]])
    <3>1. /\ scan'.phase = "tombstone" /\ scan'.seen = scan.seen /\ scan'.captured = scan.captured
          /\ (scan'.retry <=> scan.retry) /\ scan'.base = scan.base
      BY <1>1, <2>4 DEF ScanField
    <3> QED BY <1>1, <1>2, <2>1, <2>4, <3>1
  <2> QED BY <1>4, <1>5, <1>6, <2>2, <2>3, <2>4
<1> QED BY <1>7, <1>8

(***************************************************************************)
(* The search for the applied revision's file, and the protection of its   *)
(* last bytes in File History.                                             *)
(***************************************************************************)
LEMMA DeletionsKeep ==
  ASSUME CInv, ScanDeletions \/ ProtectDeleted \/ CheckDeleted
  PROVE  FilesMarks' /\ Rest'
<1>1. /\ scan # NoScan /\ work = NoWork /\ ~inventoried'
      /\ UNCHANGED <<journal, disk, clock, work, published, watched, stale, app>>
      /\ scan'.seen = scan.seen /\ scan'.captured = scan.captured
      /\ scan.phase \in {"capture", "protect", "check"} /\ scan'.phase \in {"protect", "check", "tombstone", "end"}
      /\ scan'.retry \/ ~scan.retry
      /\ scan'.phase = "end" /\ ~scan'.retry =>
           scan.phase = "capture" /\ scan.todo = {} /\ (~stale /\ DOMAIN scan.seen = {} => ContentOf[journal.applied] = None)
      /\ scan'.phase # "end" => ~scan'.retry /\ DOMAIN scan.seen = {}
      /\ scan'.phase = "tombstone" => Absent(disk[PathOf[scan'.base]])
  BY DeletionsOutcome
<1>2. Marks /\ Scans /\ app = NoApp /\ ~inventoried
  BY <1>1 DEF CInv, Scans, ScanAlone
<1>3. (\A p : Marked(p)' <=> Marked(p)) /\ MarksShrink
  BY <1>1 DEF MarksShrink, Marked, Absent
<1>4. MarkedIsApplied' /\ AppMarks'
  BY <1>1, <1>2, <1>3, ScanShrinks
<1>5. WorkMarks' /\ StampsKnown' /\ ListSound' /\ SeenSound'
  BY <1>1, <1>2 DEF WorkMarks, NoWork, Marks, StampsKnown, Scans, ListSound, SeenSound, Absent
<1>6. ScanComplete'
  <2>1. scan'.phase = "tombstone" => ~Marked(PathOf[scan'.base])
    BY <1>1 DEF Marked
  <2>2. ~Marked(PathOf[scan'.base]) => ~Marked(PathOf[scan.base])'
    BY <1>3
  <2> QED BY <1>1, <1>2, <2>1, <2>2 DEF Scans, ScanComplete, NoWork
<1>7. Known' /\ ScanAlone'
  BY <1>1, <1>2 DEF Known, ScanAlone, Phase, NoApp, File
<1> QED BY <1>4, <1>5, <1>6, <1>7 DEF FilesMarks, Rest

(***************************************************************************)
(* A tombstone follows the applied revision, and no file is left marked.   *)
(***************************************************************************)
LEMMA CaptureDeletedKeeps ==
  ASSUME CInv, CaptureDeleted
  PROVE  FilesMarks' /\ Rest'
<1> DEFINE id == SnapshotId(Self, PathOf[scan.base], None, scan.base)
<1>1. /\ scan.phase = "tombstone"
      /\ \/ /\ CaptureAdmitted(journal, scan.base) /\ id \in Revision /\ journal' = Captured(journal, id)
            /\ scan' = [scan EXCEPT !.phase = "end"]
         \/ scan' = Deferred /\ journal' = journal
      /\ UNCHANGED <<disk, clock, work, inventoried, published, watched, stale, app>>
  BY DEF CaptureDeleted, elsewhere, tracking, watching
<1>2. /\ IInv /\ Marks /\ Scans /\ DOMAIN scan = ScanField /\ scan.base \in Revision
      /\ scan # NoScan /\ ~inventoried /\ app = NoApp /\ work = NoWork
      /\ ~Marked(PathOf[scan.base]) /\ DOMAIN scan.seen = {} /\ ~scan.retry
  BY <1>1 DEF CInv, IInv, ScanSound, Scans, ScanComplete, ScanAlone, NoScan
<1>3. /\ scan'.phase = "end" /\ scan'.seen = scan.seen /\ scan'.captured = scan.captured
      /\ scan'.retry => scan' = Deferred
  <2>1. CASE scan' = [scan EXCEPT !.phase = "end"]
    <3>1. scan'.phase = "end" /\ scan'.seen = scan.seen /\ scan'.captured = scan.captured /\ (scan'.retry <=> scan.retry)
      BY <1>2, <2>1 DEF ScanField
    <3> QED BY <1>2, <3>1
  <2>2. CASE scan' = Deferred
    BY <1>2, <2>2 DEF Deferred, ScanField
  <2> QED BY <1>1, <2>1, <2>2
<1>4. \A p : Marked(p)' <=> Marked(p)
  BY <1>1, <1>3 DEF Marked, Absent
<1>5. CaptureAdmitted(journal, scan.base) /\ id \in Revision /\ journal' = Captured(journal, id) =>
        /\ \A p \in Path : ~Marked(p)
        /\ ContentOf[journal'.applied] = None
  <2>1. SUFFICES ASSUME CaptureAdmitted(journal, scan.base), id \in Revision, journal' = Captured(journal, id)
                 PROVE  (\A p \in Path : ~Marked(p)) /\ ContentOf[journal'.applied] = None
    OBVIOUS
  <2>2. journal.applied = scan.base
    BY <2>1 DEF CaptureAdmitted
  <2>3. \A p \in Path : ~Marked(p)
    BY <1>2, <2>2 DEF Marks, MarkedIsApplied
  <2>4. ContentOf[id] = None
    BY <1>2, <2>1, <2>2, SnapshotFacts, GraphAssumption
  <2>5. journal'.applied = id
    <3> HIDE DEF id
    <3> QED BY <1>2, <2>1 DEF Captured, Inserted, IInv, Consistent, JournalType
  <2> QED BY <2>3, <2>4, <2>5
<1> HIDE DEF id
<1>6. MarkedIsApplied'
  BY <1>1, <1>2, <1>4, <1>5 DEF Marks, MarkedIsApplied
<1>7. AppMarks'
  BY <1>1, <1>2, AppMarksKept
<1>8. WorkMarks' /\ StampsKnown' /\ ListSound' /\ SeenSound'
  BY <1>1, <1>2, <1>3 DEF WorkMarks, NoWork, Marks, StampsKnown, Scans, ListSound, SeenSound, Absent
<1>9. ScanComplete'
  <2>1. scan' = Deferred => scan'.retry
    BY <1>2 DEF Deferred, ScanField
  <2> QED BY <1>1, <1>2, <1>3, <1>5, <2>1 DEF ScanComplete
<1>10. Known' /\ ScanAlone'
  BY <1>1, <1>2, <1>3 DEF Known, ScanAlone, Phase, NoApp, File
<1> QED BY <1>6, <1>7, <1>8, <1>9, <1>10 DEF FilesMarks, Rest

(***************************************************************************)
(* The end of an inventory publishes what it captured: if none of it has   *)
(* to be repeated, every file is marked until the watch reports a change.  *)
(***************************************************************************)
LEMMA ScanEndKeeps ==
  ASSUME CInv, ScanEnd
  PROVE  FilesMarks' /\ Rest'
<1>1. /\ scan.phase = "end" /\ scan' = NoScan
      /\ inventoried' => ~scan.retry
      /\ published' = [p \in Path |->
           IF p \in DOMAIN scan.seen \cap scan.captured THEN scan.seen[p].stamp ELSE 0]
      /\ UNCHANGED <<journal, disk, clock, work, watched, stale, app>>
  BY DEF ScanEnd, elsewhere, watching
<1>2. /\ IInv /\ Marks /\ Scans /\ scan # NoScan /\ app = NoApp /\ DOMAIN scan.seen \subseteq Path
      /\ scan'.phase = "idle" /\ DOMAIN scan'.seen = {} /\ scan'.captured = {}
      /\ clock \in Nat /\ \A p \in Path : disk[p].stamp \in Nat
  BY <1>1 DEF CInv, IInv, ScanSound, Scans, ScanAlone, NoScan, FilesSound, FileType
<1>3. MarksShrink
  <2>1. SUFFICES ASSUME NEW p \in Path, Marked(p)' PROVE Marked(p)
    BY <1>1 DEF MarksShrink
  <2>2. ~Absent(disk[p]) /\ published'[p] = disk[p].stamp /\ disk[p].stamp > 0
    BY <1>1, <1>2, <2>1 DEF Marked, Absent, Marks, StampsKnown
  <2>3. p \in DOMAIN scan.seen \cap scan.captured /\ scan.seen[p].stamp = disk[p].stamp
    BY <1>1, <1>2, <2>2
  <2> QED BY <2>2, <2>3 DEF Marked
<1>4. MarkedIsApplied' /\ AppMarks' /\ WorkMarks'
  <2>1. work # NoWork /\ work.inventory => FALSE
    BY <1>1, <1>2 DEF Marks, WorkMarks
  <2> QED BY <1>1, <1>2, <1>3, <2>1, ScanShrinks
<1>5. StampsKnown'
  <2>1. ASSUME NEW p \in Path PROVE published'[p] \in Nat /\ published'[p] <= clock
    BY <1>1, <1>2 DEF Marks, StampsKnown
  <2> QED BY <1>1, <1>2, <2>1 DEF Marks, StampsKnown, Absent
<1>6. Known'
  <2>1. SUFFICES ASSUME inventoried' PROVE Known'
    BY DEF Known
  <2>2. /\ ~scan.retry /\ Path \subseteq watched /\ DOMAIN scan.seen \subseteq scan.captured
        /\ ~stale /\ DOMAIN scan.seen = {} => ContentOf[journal.applied] = None
        /\ \A p \in DOMAIN scan.seen : ~Absent(scan.seen[p])
        /\ ~stale => /\ \A p \in DOMAIN scan.seen : disk[p] = scan.seen[p]
                     /\ \A p \in Path \ DOMAIN scan.seen : Absent(disk[p])
    BY <1>1, <1>2, <2>1 DEF Scans, ScanComplete, SeenSound
  <2>3. ASSUME ~stale, NEW p \in Path, ~Absent(disk[p]) PROVE Marked(p)'
    <3>1. p \in DOMAIN scan.seen \cap scan.captured /\ scan.seen[p] = disk[p]
      BY <2>2, <2>3
    <3> QED BY <1>1, <2>3, <3>1 DEF Marked, Absent
  <2>4. ~stale /\ Empty => ContentOf[journal.applied] = None
    BY <1>2, <2>2 DEF Empty
  <2> QED BY <1>1, <2>2, <2>3, <2>4 DEF Known, Empty, Absent
<1>7. ListSound' /\ SeenSound' /\ ScanComplete' /\ ScanAlone'
  BY <1>1, <1>2 DEF ListSound, SeenSound, ScanComplete, ScanAlone, Phase
<1> QED BY <1>4, <1>5, <1>6, <1>7 DEF FilesMarks, Rest

(***************************************************************************)
(* Capture, the whole of sync_worker's steps, leaves the inventory right   *)
(* about the files.                                                        *)
(***************************************************************************)
LEMMA CaptureKeeps ==
  ASSUME CInv, CaptureStep
  PROVE  FilesMarks' /\ Rest'
BY SavedStartKeeps, SavedCaptureKeeps, PollKeeps, ScanStartKeeps, ScanListKeeps, ScanReadKeeps, ScanCaptureKeeps,
   DeletionsKeep, CaptureDeletedKeeps, ScanEndKeeps DEF CaptureStep, ScanStep

(***************************************************************************)
(* A step of anyone, or none, after which no replaced bytes are back.      *)
(***************************************************************************)
LEMMA MarksInductive ==
  ASSUME CInv, [Next /\ ~Restored']_vars
  PROVE  CInv'
<1>1. IInv'
  BY NextInductive DEF CInv
<1>2. CASE UNCHANGED vars
  <2>1. UNCHANGED <<journal, disk, clock, stale, scan, work, published, watched, inventoried, queue, app>>
    BY <1>2 DEF vars, tracking, watching
  <2>2. FilesMarks' /\ MarksShrink
    BY <2>1, UnnoticedKeeps DEF Unnoticed
  <2>3. AppMarks'
    BY <2>1, <2>2, AppMarksKept
  <2>4. ScanAlone' /\ ~Restored'
    BY <2>1 DEF CInv, Scans, ScanAlone, NoScan, NoApp, File, Restored, Notices, NoWork, Absent
  <2> QED BY <1>1, <2>2, <2>3, <2>4 DEF CInv, Marks, Scans, FilesMarks
<1>3. CASE Next /\ ~Restored'
  <2>1. FilesMarks' /\ Rest'
    BY <1>3, UserKeeps, ReceiveKeeps, CrashKeeps, CaptureKeeps, ApplyKeeps DEF Next
  <2> QED BY <1>1, <1>3, <2>1 DEF CInv, Marks, Scans, FilesMarks, Rest
<1> QED BY <1>2, <1>3

(***************************************************************************)
(* The device starts with nothing inventoried.                             *)
(***************************************************************************)
LEMMA MarksInit ==
  ASSUME Init
  PROVE  CInv
<1>1. /\ IInv /\ queue = <<>> /\ work = NoWork /\ scan = NoScan /\ app = NoApp /\ ~inventoried
      /\ published = [p \in Path |-> 0] /\ clock = 1
      /\ disk = [p \in Path |-> IF p = PathOf[Genesis] THEN File(ContentOf[Genesis], 1) ELSE File(None, 0)]
  BY InitInductive DEF Init
<1>2. scan.phase = "idle" /\ DOMAIN scan.seen = {} /\ scan.captured = {} /\ app.pc = "idle"
  BY <1>1 DEF NoScan, NoApp
<1>3. ~Restored
  BY <1>1 DEF Restored, Notices
<1>4. \A p \in Path : (~Absent(disk[p]) => disk[p].stamp = 1) /\ published[p] = 0
  BY <1>1 DEF Absent, File
<1>5. MarkedIsApplied /\ StampsKnown /\ WorkMarks /\ AppMarks
  BY <1>1, <1>2, <1>4 DEF MarkedIsApplied, Marked, StampsKnown, WorkMarks, AppMarks, Verified
<1>6. Scans
  BY <1>1, <1>2 DEF Scans, ScanAlone, Phase, ListSound, SeenSound, ScanComplete, Known
<1> QED BY <1>1, <1>3, <1>5, <1>6 DEF CInv, Marks

(***************************************************************************)
(* As long as no save is undone while its notification waits, the worker   *)
(* knows which files hold what is applied.                                 *)
(***************************************************************************)
THEOREM MarksHold == UnrestoredSpec => []CInv
<1>1. Init => CInv
  BY MarksInit
<1>2. CInv /\ [Next /\ ~Restored']_vars => CInv'
  BY MarksInductive
<1> QED BY <1>1, <1>2, PTL DEF UnrestoredSpec

(***************************************************************************)
(* When the Vault is inventoried and the watch has seen nothing since, the *)
(* files are those of the applied revision, as long as no save is undone   *)
(* while its notification waits: the watch, the inventory's cache and the  *)
(* comparison with the applied revision make up for all else.              *)
(***************************************************************************)
THEOREM InventoryIsCurrent == Spec /\ []~Restored => []InventoriedIsCurrent
<1>1. ASSUME CInv PROVE InventoriedIsCurrent
  <2>1. SUFFICES ASSUME inventoried, ~stale, NEW p \in Path
                 PROVE  disk[p].content = IF p = PathOf[journal.applied] THEN ContentOf[journal.applied] ELSE None
    BY DEF InventoriedIsCurrent, FilesAreApplied
  <2>2. /\ \A q \in Path : ~Absent(disk[q]) => PathOf[journal.applied] = q /\ ContentOf[journal.applied] = disk[q].content
        /\ Empty => ContentOf[journal.applied] = None
    BY <1>1, <2>1 DEF CInv, Marks, Scans, Known, MarkedIsApplied
  <2>3. CASE ~Absent(disk[p])
    BY <2>2, <2>3
  <2>4. CASE Absent(disk[p])
    <3>1. p = PathOf[journal.applied] => Empty
      BY <2>2, <2>4 DEF Empty
    <3> QED BY <2>2, <2>4, <3>1 DEF Absent
  <2> QED BY <2>3, <2>4
<1>2. [Next]_vars /\ ~Restored' => [Next /\ ~Restored']_vars
  OBVIOUS
<1> QED BY <1>1, <1>2, MarksHold, PTL DEF Spec, UnrestoredSpec

---------------------------------------------------------------------------
(***************************************************************************)
(* Where files come from.  A save in the queue may have been written over by *)
(* an application since; it is refused because the bytes it replaced are not *)
(* those of the applied revision.  What follows says so of every point of a *)
(* capture and of an application.                                          *)
(***************************************************************************)
\* What the user wrote and the application did not write over since.
Mine(p, c) == <<p, c>> \in authored

\* The user removed the document.
Gone == \A p \in Path : Mine(p, None)

\* No unfinished application has written a file.
Settled == Pending(journal) = {} \/ (app.prepared /\ ~app.published)

\* A file is the user's, the applied revision's, or that of an unfinished application.
FilesAuthored ==
  \A p \in Path : ~Absent(disk[p]) =>
    \/ Mine(p, disk[p].content)
    \/ PathOf[journal.applied] = p /\ ContentOf[journal.applied] = disk[p].content
    \/ ~Settled /\ \E t \in Pending(journal) : PathOf[t] = p /\ ContentOf[t] = disk[p].content

\* A document that is applied and has no file was removed by the user.
EmptyAuthored == Settled /\ Empty /\ ContentOf[journal.applied] # None => Gone

\* The same, of the target that the application has verified.
VerifiedAuthored ==
  app.pc \in Verified =>
    /\ \A p \in {SourcePath, TargetPath} : ~Absent(disk[p]) =>
         Mine(p, disk[p].content) \/ (p = TargetPath /\ disk[p].content = ContentOf[app.target])
    /\ Empty /\ ContentOf[app.target] # None => Gone

\* From the i-th on, a queued save was written over by the application.
LateFrom(i) == \E k \in i..Len(queue) : ~Mine(queue[k].path, queue[k].content)

\* These replaced bytes are not those applied, nor those about to be.
Foreign(c) ==
  c # None =>
    /\ Settled => ContentOf[journal.applied] # c
    /\ app.pc \in Verified => ContentOf[app.target] # c

\* A save that was written over does not follow what is applied, and neither
\* does one that was queued before it.
LateForeign ==
  /\ \A i \in 1..Len(queue) : LateFrom(i) => Foreign(queue[i].predecessor)
  /\ work # NoWork /\ ~work.inventory /\ (LateFrom(1) \/ ~Mine(work.path, work.content)) =>
       Foreign(work.predecessor)

\* What the inventory hands to capture_saved, unless it is what is applied.
WorkAuthored ==
  (/\ work # NoWork /\ work.inventory /\ Pending(journal) = {}
   /\ ~Unchanged(work.expected, work.path, work.content)) =>
    /\ Mine(work.path, work.content)
    /\ \A p \in Path : ~Absent(disk[p]) /\ PathOf[work.expected] = p /\ ContentOf[work.expected] = disk[p].content =>
         Mine(p, disk[p].content)
    /\ Empty => Gone
    /\ \A i \in 1..Len(queue) : LateFrom(i) => work.content # queue[i].predecessor

\* A tombstone records what the user removed.
TombAuthored ==
  scan.phase = "tombstone" /\ Pending(journal) = {} /\ journal.applied = scan.base =>
    Gone /\ \A p \in Path : ~Absent(disk[p]) => Mine(p, disk[p].content)

Origins == FilesAuthored /\ EmptyAuthored /\ VerifiedAuthored /\ LateForeign /\ WorkAuthored /\ TombAuthored

\* The inductive invariant.
AInv == CInv /\ ~Echoed /\ Origins

---------------------------------------------------------------------------
\* What is in memory or on disk stays the user's where it was, and whatever
\* appears on disk is the user's.
Grown ==
  /\ authored \subseteq authored'
  /\ \A p \in Path : disk'[p] = disk[p] \/ Absent(disk'[p]) \/ Mine(p, disk[p].content)'
  /\ Empty' => Empty \/ Gone'

\* Notifications are only added, with what the user wrote.
Queued == queue' = queue \/ \E n \in Note : queue' = Append(queue, n) /\ Mine(n.path, n.content)'

\* Nothing is applied and no application comes to be verified.
NoneApplied ==
  /\ journal'.applied = journal.applied
  /\ Settled' => Settled
  /\ Settled \/ Pending(journal) \subseteq Pending(journal)'
  /\ app'.pc \in Verified => app.pc \in Verified /\ UNCHANGED <<app.target, app.expected>>

(***************************************************************************)
(* A queued save that counts as written over did so before.                *)
(***************************************************************************)
LEMMA LateShrinks ==
  ASSUME queue \in Seq(Note), authored \subseteq authored', Queued
  PROVE  /\ \A i \in Nat \ {0} : LateFrom(i)' => LateFrom(i)
         /\ \A i \in 1..Len(queue') : LateFrom(i)' => i \in 1..Len(queue) /\ queue'[i] = queue[i]
<1>1. CASE queue' = queue
  BY <1>1 DEF LateFrom, Mine
<1>2. ASSUME NEW n \in Note, queue' = Append(queue, n), Mine(n.path, n.content)'
      PROVE  /\ \A i \in Nat \ {0} : LateFrom(i)' => LateFrom(i)
             /\ \A i \in 1..Len(queue') : LateFrom(i)' => i \in 1..Len(queue) /\ queue'[i] = queue[i]
  <2>1. /\ Len(queue') = Len(queue) + 1 /\ Len(queue) \in Nat /\ queue'[Len(queue) + 1] = n
        /\ \A i \in 1..Len(queue) : queue'[i] = queue[i]
    BY <1>2
  <2>2. ASSUME NEW i \in Nat \ {0}, LateFrom(i)' PROVE LateFrom(i)
    <3>1. PICK k \in i..Len(queue') : ~Mine(queue[k].path, queue[k].content)'
      BY <2>2 DEF LateFrom
    <3>2. k # Len(queue) + 1
      BY <1>2, <2>1, <3>1 DEF Mine
    <3>3. k \in i..Len(queue) /\ k \in 1..Len(queue)
      BY <2>1, <3>1, <3>2
    <3>4. ~Mine(queue[k].path, queue[k].content)
      BY <2>1, <3>1, <3>3 DEF Mine
    <3> QED BY <3>3, <3>4 DEF LateFrom
  <2>3. ASSUME NEW i \in 1..Len(queue'), LateFrom(i)' PROVE i \in 1..Len(queue) /\ queue'[i] = queue[i]
    <3>1. i \in Nat \ {0} /\ LateFrom(i)
      BY <2>1, <2>2, <2>3
    <3>2. i <= Len(queue)
      BY <2>1, <3>1 DEF LateFrom
    <3> QED BY <2>1, <3>1, <3>2
  <2> QED BY <2>2, <2>3
<1> QED BY <1>1, <1>2 DEF Queued

(***************************************************************************)
(* Where nothing is applied, what is said of files lasts.                  *)
(***************************************************************************)
LEMMA FilesKept ==
  ASSUME IInv, Origins, Grown, NoneApplied
  PROVE  /\ FilesAuthored' /\ EmptyAuthored' /\ VerifiedAuthored'
         /\ \A c : Foreign(c) => Foreign(c)'
<1>1. \A p, c : Mine(p, c) => Mine(p, c)'
  BY DEF Grown, Mine
<1>2. FilesAuthored'
  BY <1>1 DEF Origins, FilesAuthored, Grown, NoneApplied, Absent
<1>3. EmptyAuthored'
  BY <1>1 DEF Origins, EmptyAuthored, Grown, NoneApplied, Gone
<1>4. VerifiedAuthored'
  <2>1. SUFFICES ASSUME app'.pc \in Verified PROVE VerifiedAuthored'
    BY DEF VerifiedAuthored, Verified
  <2>2. app.pc \in Verified /\ UNCHANGED <<app.target, app.expected, SourcePath, TargetPath>>
    BY <2>1 DEF NoneApplied, SourcePath, TargetPath
  <2>3. SourcePath \in Path /\ TargetPath \in Path
    BY <2>2, AppFields, GraphAssumption DEF SourcePath, TargetPath, Verified
  <2>4. VerifiedAuthored
    BY DEF Origins
  <2>5. ASSUME NEW p \in {SourcePath, TargetPath}, ~Absent(disk'[p])
        PROVE  Mine(p, disk[p].content)' \/ (p = TargetPath /\ disk'[p].content = ContentOf[app.target])
    BY <1>1, <2>2, <2>3, <2>4, <2>5 DEF VerifiedAuthored, Grown
  <2>6. Empty' /\ ContentOf[app.target] # None => Gone'
    BY <1>1, <2>2, <2>4 DEF VerifiedAuthored, Grown, Gone
  <2> QED BY <2>2, <2>5, <2>6 DEF VerifiedAuthored, Absent
<1>5. ASSUME NEW c, Foreign(c) PROVE Foreign(c)'
  BY <1>5 DEF Foreign, NoneApplied
<1> QED BY <1>2, <1>3, <1>4, <1>5

(***************************************************************************)
(* And so does what is said of notifications and of the inventory, where   *)
(* the worker takes up nothing.                                            *)
(***************************************************************************)
LEMMA OriginsKept ==
  ASSUME AInv, Grown, NoneApplied, Queued, work' = work \/ work' = NoWork,
         scan' = scan \/ scan'.phase # "tombstone",
         scan = NoScan \/ Pending(journal)' = Pending(journal)
  PROVE  Origins'
<1>1. IInv /\ Origins /\ WorkMarks /\ queue \in Seq(Note)
  BY DEF AInv, CInv, Marks, IInv, WorkSound
<1>2. FilesAuthored' /\ EmptyAuthored' /\ VerifiedAuthored' /\ \A c : Foreign(c) => Foreign(c)'
  BY <1>1, FilesKept
<1>3. \A p, c : Mine(p, c) => Mine(p, c)'
  BY DEF Grown, Mine
<1>4. /\ \A i \in Nat \ {0} : LateFrom(i)' => LateFrom(i)
      /\ \A i \in 1..Len(queue') : LateFrom(i)' => i \in 1..Len(queue) /\ queue'[i] = queue[i] /\ LateFrom(i)
  <2>1. /\ \A i \in Nat \ {0} : LateFrom(i)' => LateFrom(i)
        /\ \A i \in 1..Len(queue') : LateFrom(i)' => i \in 1..Len(queue) /\ queue'[i] = queue[i]
    BY <1>1, LateShrinks DEF Grown
  <2> QED BY <1>1, <2>1
<1>5. LateForeign'
  <2>1. ASSUME NEW i \in 1..Len(queue'), LateFrom(i)' PROVE Foreign(queue[i].predecessor)'
    <3>1. PICK c : c = queue[i].predecessor
      OBVIOUS
    <3>2. Foreign(c) /\ queue'[i].predecessor = c
      BY <1>1, <1>4, <2>1, <3>1 DEF Origins, LateForeign
    <3>3. Foreign(c)'
      BY <1>2, <3>2
    <3> QED BY <3>2, <3>3 DEF Foreign
  <2>2. ASSUME work' # NoWork, ~work'.inventory, LateFrom(1)' \/ ~Mine(work.path, work.content)'
        PROVE  Foreign(work.predecessor)'
    <3>1. work' = work /\ work # NoWork /\ ~work.inventory
      BY <2>2
    <3>2. LateFrom(1) \/ ~Mine(work.path, work.content)
      BY <1>3, <1>4, <2>2, <3>1 DEF Mine
    <3>3. PICK c : c = work.predecessor
      OBVIOUS
    <3>4. Foreign(c)'
      BY <1>1, <1>2, <3>1, <3>2, <3>3 DEF Origins, LateForeign
    <3> QED BY <3>1, <3>3, <3>4 DEF Foreign
  <2> QED BY <2>1, <2>2 DEF LateForeign, NoWork
<1>6. WorkAuthored'
  <2>1. SUFFICES ASSUME work # NoWork, work.inventory, work' = work, Pending(journal)' = {},
                        ~Unchanged(work.expected, work.path, work.content)
                 PROVE  WorkAuthored'
    BY DEF WorkAuthored, NoWork, Unchanged
  <2>2. Pending(journal) = {}
    BY <1>1, <2>1 DEF WorkMarks, NoScan
  <2>3. /\ Mine(work.path, work.content)
        /\ \A p \in Path : ~Absent(disk[p]) /\ PathOf[work.expected] = p /\ ContentOf[work.expected] = disk[p].content =>
             Mine(p, disk[p].content)
        /\ Empty => Gone
        /\ \A i \in 1..Len(queue) : LateFrom(i) => work.content # queue[i].predecessor
    BY <1>1, <2>1, <2>2 DEF Origins, WorkAuthored
  <2>4. ASSUME NEW p \in Path, ~Absent(disk'[p]), PathOf[work.expected] = p, ContentOf[work.expected] = disk'[p].content
        PROVE  Mine(p, disk[p].content)'
    BY <1>3, <2>3, <2>4 DEF Grown
  <2>5. Empty' => Gone'
    BY <1>3, <2>3 DEF Grown, Gone
  <2>6. \A i \in 1..Len(queue') : LateFrom(i)' => work.content # queue'[i].predecessor
    BY <1>4, <2>3
  <2>7. Mine(work.path, work.content)'
    BY <1>3, <2>1, <2>3 DEF Mine
  <2> QED BY <2>1, <2>4, <2>5, <2>6, <2>7 DEF WorkAuthored, Absent, Mine
<1>7. TombAuthored'
  <2>1. SUFFICES ASSUME scan.phase = "tombstone", scan' = scan, Pending(journal) = {}, journal.applied = scan.base
                 PROVE  TombAuthored'
    BY DEF TombAuthored, NoneApplied, NoScan
  <2>2. Gone /\ \A p \in Path : ~Absent(disk[p]) => Mine(p, disk[p].content)
    BY <1>1, <2>1 DEF Origins, TombAuthored
  <2> QED BY <1>3, <2>2 DEF TombAuthored, Grown, Gone, Absent
<1> QED BY <1>2, <1>5, <1>6, <1>7 DEF Origins

(***************************************************************************)
(* A write, a removal or a move by the user makes what it leaves the       *)
(* user's; a save queues what it wrote.                                    *)
(***************************************************************************)
LEMMA UserOrigins ==
  ASSUME AInv, UserStep
  PROVE  Origins'
<1>1. /\ IInv /\ disk \in [Path -> FileType] /\ (view # NoView => view.path \in Path)
      /\ view.captured \in Content \cup {None} /\ queue \in Seq(Note)
      /\ UserContent \subseteq Content /\ None \notin Content
  BY SyncAssumption, GraphAssumption DEF AInv, CInv, IInv, FilesSound, ViewSound, WorkSound
<1>2. UNCHANGED <<journal, work, scan, app>> /\ authored \subseteq authored'
  BY DEF UserStep, Open, Type, Close, Save, ExternalWrite, ExternalMove
<1>3. Grown /\ Queued
  <2>1. CASE (\E path \in Path : Open(path)) \/ Type \/ Close
    BY <2>1 DEF Open, Type, Close, Grown, Queued, Empty, Absent
  <2>2. ASSUME NEW content \in UserContent, Save(content) PROVE Grown /\ Queued
    <3>1. /\ view.path \in Path /\ content \in Content /\ view.captured \in Content \cup {None}
          /\ disk' = [disk EXCEPT ![view.path] = File(content, clock + 1)]
          /\ authored' = authored \cup {<<view.path, content>>}
          /\ Notified(view.path, view.captured, content)
      BY <1>1, <2>2 DEF Save, Wrote, NoView
    <3>2. PICK path \in Path : path = view.path
      BY <3>1
    <3>3. /\ ~Absent(disk'[path]) /\ disk'[path].content = content /\ <<path, content>> \in authored'
          /\ \A p \in Path \ {path} : disk'[p] = disk[p]
      BY <1>1, <3>1, <3>2 DEF File, Absent
    <3>4. Grown
      BY <3>1, <3>3 DEF Grown, Mine, Empty, Absent
    <3>5. Queued
      <4> DEFINE n == [path |-> path, predecessor |-> view.captured, content |-> content]
      <4>1. queue' = queue \/ queue' = Append(queue, n)
        BY <3>1, <3>2 DEF Notified
      <4>2. n \in Note /\ n.path = path /\ n.content = content
        BY <3>1 DEF Note
      <4> HIDE DEF n
      <4>3. PICK m \in Note : m = n
        BY <4>2
      <4> QED BY <3>3, <4>1, <4>2, <4>3 DEF Queued, Mine
    <3> QED BY <3>4, <3>5
  <2>3. ASSUME NEW path \in Path, NEW content \in UserContent \cup {None}, ExternalWrite(path, content)
        PROVE  Grown /\ Queued
    <3>1. /\ disk' = [disk EXCEPT ![path] = File(content, clock + 1)] /\ queue' = queue
          /\ authored' = authored \cup IF content = None THEN {<<p, None>> : p \in Path} ELSE {<<path, content>>}
      BY <2>3 DEF ExternalWrite, Wrote
    <3>2. /\ disk'[path].content = content /\ \A p \in Path \ {path} : disk'[p] = disk[p]
      BY <1>1, <3>1 DEF File
    <3>3. CASE content = None
      <4>1. Gone'
        BY <3>1, <3>3 DEF Gone, Mine
      <4>2. \A p \in Path : disk'[p] = disk[p] \/ Absent(disk'[p])
        BY <3>2, <3>3 DEF Absent
      <4> QED BY <3>1, <4>1, <4>2 DEF Grown, Queued
    <3>4. CASE content # None
      <4>1. <<path, content>> \in authored' /\ ~Absent(disk'[path])
        BY <3>1, <3>2, <3>4 DEF Absent
      <4>2. \A p \in Path : disk'[p] = disk[p] \/ <<p, disk'[p].content>> \in authored'
        BY <3>2, <4>1
      <4> QED BY <3>1, <4>1, <4>2 DEF Grown, Queued, Mine, Empty, Absent
    <3> QED BY <3>3, <3>4
  <2>4. ASSUME NEW from \in Path, NEW to \in Path, ExternalMove(from, to) PROVE Grown /\ Queued
    <3>1. /\ from # to /\ ~Absent(disk[from]) /\ queue' = queue
          /\ disk' = [disk EXCEPT ![from] = File(None, clock + 1), ![to] = File(disk[from].content, clock + 1)]
          /\ authored' = authored \cup {<<to, disk[from].content>>}
      BY <2>4 DEF ExternalMove
    <3>2. /\ disk'[from].content = None /\ disk'[to].content = disk[from].content
          /\ \A p \in Path \ {from, to} : disk'[p] = disk[p]
      BY <1>1, <3>1 DEF File
    <3>3. <<to, disk'[to].content>> \in authored' /\ ~Absent(disk'[to])
      BY <3>1, <3>2 DEF Absent
    <3> QED BY <3>1, <3>2, <3>3 DEF Grown, Queued, Mine, Empty, Absent
  <2> QED BY <2>1, <2>2, <2>3, <2>4 DEF UserStep
<1>4. NoneApplied /\ Pending(journal)' = Pending(journal)
  BY <1>2 DEF NoneApplied, Settled, Pending, NoApp, Verified
<1> QED BY <1>2, <1>3, <1>4, OriginsKept

(***************************************************************************)
(* A revision of a peer says nothing of the user.                          *)
(***************************************************************************)
LEMMA ReceiveOrigins ==
  ASSUME AInv, NEW r \in Incoming, ReceiveRevision(r)
  PROVE  Origins'
<1>1. /\ UNCHANGED <<disk, queue, work, scan, app, authored>> /\ journal' = Inserted(journal, r)
      /\ DOMAIN journal = {"rowid", "tip", "approved", "eligible", "applied", "intents"}
  BY DEF ReceiveRevision, AInv, CInv, IInv, Consistent, JournalType
<1>2. journal'.applied = journal.applied /\ journal'.intents = journal.intents
  BY <1>1 DEF Inserted
<1>3. Grown /\ Queued
  BY <1>1 DEF Grown, Queued, Empty, Absent
<1>4. NoneApplied /\ Pending(journal)' = Pending(journal)
  BY <1>1, <1>2 DEF NoneApplied, Settled, Pending, NoApp, Verified
<1> QED BY <1>1, <1>3, <1>4, OriginsKept

(***************************************************************************)
(* A crash forgets notifications and keeps the files the user wrote.       *)
(***************************************************************************)
LEMMA CrashOrigins ==
  ASSUME AInv, Crash
  PROVE  Origins'
<1>1. /\ queue' = <<>> /\ work' = NoWork /\ scan' = NoScan /\ app' = NoApp
      /\ UNCHANGED <<journal, disk, authored>>
  BY DEF Crash
<1>2. NoApp.pc = "idle" /\ ~NoApp.prepared /\ NoScan.phase = "idle"
  BY DEF NoApp, NoScan
<1>3. Grown
  BY <1>1 DEF Grown, Empty, Absent
<1>4. NoneApplied
  BY <1>1, <1>2 DEF NoneApplied, Settled, Pending, Verified
<1>5. FilesAuthored' /\ EmptyAuthored' /\ VerifiedAuthored'
  BY <1>3, <1>4, FilesKept DEF AInv, CInv
<1>6. LateForeign' /\ WorkAuthored' /\ TombAuthored'
  BY <1>1, <1>2 DEF LateForeign, WorkAuthored, TombAuthored
<1> QED BY <1>5, <1>6 DEF Origins

(***************************************************************************)
(* A step that leaves the journal, the files, the application and the      *)
(* user's record.                                                          *)
(***************************************************************************)
LEMMA StillOrigins ==
  ASSUME UNCHANGED <<journal, disk, app, authored>>
  PROVE  Grown /\ NoneApplied /\ Pending(journal)' = Pending(journal)
BY DEF Grown, NoneApplied, Pending, Settled, Empty, Absent, Verified, NoApp, File

(***************************************************************************)
(* What is true of a queued save stays true of the one that is taken up.   *)
(***************************************************************************)
LEMMA SavedStartOrigins ==
  ASSUME AInv, SavedStart
  PROVE  Origins'
<1> DEFINE note == Head(queue)
           w == Saving(note.path, note.content, note.predecessor, FALSE)
<1>1. /\ queue # <<>> /\ queue' = Tail(queue) /\ work' \in {NoWork, w}
      /\ scan' = scan /\ scan.phase # "tombstone"
      /\ UNCHANGED <<journal, disk, app, authored>>
  BY DEF SavedStart, elsewhere, tracking
<1>2. IInv /\ Origins /\ queue \in Seq(Note) /\ LateForeign
  BY DEF AInv, CInv, IInv, WorkSound, Origins
<1>3. FilesAuthored' /\ EmptyAuthored' /\ VerifiedAuthored' /\ \A c : Foreign(c) => Foreign(c)'
  BY <1>1, <1>2, StillOrigins, FilesKept
<1>4. /\ note = queue[1] /\ Len(queue') = Len(queue) - 1 /\ Len(queue) \in Nat \ {0}
      /\ \A k \in 1..Len(queue') : queue'[k] = queue[k + 1]
  BY <1>1, <1>2
<1>5. ASSUME NEW i \in Nat \ {0}, LateFrom(i)' PROVE LateFrom(i + 1) /\ LateFrom(1)
  <2>1. PICK k \in i..Len(queue') : ~Mine(queue[k].path, queue[k].content)'
    BY <1>5 DEF LateFrom
  <2>2. k + 1 \in (i + 1)..Len(queue) /\ k + 1 \in 1..Len(queue) /\ k \in 1..Len(queue')
    BY <1>4, <2>1
  <2>3. ~Mine(queue[k + 1].path, queue[k + 1].content)
    BY <1>1, <1>4, <2>1, <2>2 DEF Mine
  <2> QED BY <2>2, <2>3 DEF LateFrom
<1>6. ASSUME NEW i \in 1..Len(queue'), LateFrom(i)' PROVE Foreign(queue[i].predecessor)'
  <2>1. PICK c : c = queue[i + 1].predecessor
    OBVIOUS
  <2>2. i + 1 \in 1..Len(queue) /\ LateFrom(i + 1) /\ queue'[i] = queue[i + 1]
    BY <1>4, <1>5, <1>6
  <2>3. Foreign(c)'
    BY <1>2, <1>3, <2>1, <2>2 DEF LateForeign
  <2> QED BY <2>1, <2>2, <2>3 DEF Foreign
<1>7. ASSUME work' # NoWork, LateFrom(1)' \/ ~Mine(work.path, work.content)'
      PROVE  Foreign(work.predecessor)'
  <2>1. work' = w /\ w.path = note.path /\ w.content = note.content /\ w.predecessor = note.predecessor
    BY <1>1, <1>7 DEF Saving
  <2> HIDE DEF w
  <2>2. LateFrom(1)
    <3>1. CASE LateFrom(1)'
      BY <1>5, <3>1
    <3>2. CASE ~Mine(work.path, work.content)'
      <4>1. ~Mine(queue[1].path, queue[1].content)
        BY <1>1, <1>4, <2>1, <3>2 DEF Mine
      <4> QED BY <1>4, <4>1 DEF LateFrom
    <3> QED BY <1>7, <3>1, <3>2
  <2>3. PICK c : c = queue[1].predecessor
    OBVIOUS
  <2>4. Foreign(c)'
    BY <1>2, <1>3, <1>4, <2>2, <2>3 DEF LateForeign
  <2> QED BY <1>4, <2>1, <2>3, <2>4 DEF Foreign
<1>8. w.inventory = FALSE
  BY DEF Saving
<1> HIDE DEF w, note
<1>9. LateForeign' /\ WorkAuthored' /\ TombAuthored'
  <2>1. LateForeign'
    BY <1>6, <1>7 DEF LateForeign, NoWork
  <2>2. WorkAuthored'
    BY <1>1, <1>8 DEF WorkAuthored, NoWork
  <2>3. TombAuthored'
    BY <1>1 DEF TombAuthored
  <2> QED BY <2>1, <2>2, <2>3
<1> QED BY <1>3, <1>9 DEF Origins

(***************************************************************************)
(* What capture_saved records is the user's: a save that was written over  *)
(* does not follow what is applied, and no file holds the replaced bytes.  *)
(***************************************************************************)
LEMMA RecordedIsMine ==
  ASSUME AInv, work # NoWork, CaptureRecorded
  PROVE  /\ Pending(journal) = {} /\ Mine(work.path, work.content)
         /\ \A p \in Path : ~Absent(disk[p]) => Mine(p, disk[p].content)
         /\ Empty /\ ContentOf[journal.applied] # None => Gone
         /\ \A i \in 1..Len(queue) : LateFrom(i) => work.content # queue[i].predecessor
<1>1. /\ IInv /\ WorkMarks /\ Origins /\ ~Echoed /\ Pending(journal) = {} /\ Settled
      /\ work.expected = journal.applied /\ journal.applied # None
  BY DEF AInv, CInv, Marks, IInv, CaptureRecorded, CaptureAdmitted, Settled
<1>2. ASSUME NEW p \in Path, ~Absent(disk[p])
      PROVE  Mine(p, disk[p].content) \/ (PathOf[journal.applied] = p /\ ContentOf[journal.applied] = disk[p].content)
  BY <1>1, <1>2 DEF Origins, FilesAuthored
<1>3. Empty /\ ContentOf[journal.applied] # None => Gone
  BY <1>1 DEF Origins, EmptyAuthored
<1>4. CASE ~work.inventory
  <2>1. work.predecessor # None /\ ContentOf[journal.applied] = work.predecessor
    BY <1>1, <1>4 DEF WorkMarks, CaptureRecorded, PredecessorMatches
  <2>2. ~LateFrom(1) /\ Mine(work.path, work.content)
    BY <1>1, <1>4, <2>1 DEF Origins, LateForeign, Foreign
  <2>3. work \in Notices
    BY <1>4 DEF Notices
  <2>4. \A p \in Path : ~Absent(disk[p]) => disk[p].content # work.predecessor
    BY <1>1, <2>3 DEF Echoed
  <2>5. \A i \in 1..Len(queue) : ~LateFrom(i)
    BY <2>2 DEF LateFrom
  <2> QED BY <1>1, <1>2, <1>3, <2>1, <2>2, <2>4, <2>5
<1>5. CASE work.inventory
  BY <1>1, <1>2, <1>3, <1>5 DEF Origins, WorkAuthored, CaptureRecorded
<1> QED BY <1>4, <1>5

(***************************************************************************)
(* A snapshot of the user's is applied and nothing is unfinished.          *)
(***************************************************************************)
LEMMA SnapshotOrigins ==
  ASSUME AInv, UNCHANGED <<disk, authored, queue, app>>, work' = NoWork, Pending(journal) = {},
         journal'.intents = journal.intents, scan'.phase # "tombstone",
         \A p \in Path : ~Absent(disk[p]) => Mine(p, disk[p].content),
         Empty /\ ContentOf[journal'.applied] # None => Gone,
         \A i \in 1..Len(queue) : LateFrom(i) =>
           queue[i].predecessor = None \/ ContentOf[journal'.applied] # queue[i].predecessor
  PROVE  Origins'
<1>1. Pending(journal)' = {} /\ \A i : LateFrom(i)' => LateFrom(i)
  BY DEF Pending, LateFrom, Mine
<1>2. app.pc \notin Verified
  BY DEF AInv, CInv, IInv, AppSound, Underway, Verified
<1>3. FilesAuthored' /\ EmptyAuthored' /\ VerifiedAuthored'
  BY <1>2 DEF FilesAuthored, EmptyAuthored, VerifiedAuthored, Mine, Empty, Gone, Absent
<1>4. LateForeign'
  <2>1. ASSUME NEW i \in 1..Len(queue), LateFrom(i)' PROVE Foreign(queue[i].predecessor)'
    BY <1>1, <1>2, <2>1 DEF Foreign
  <2> QED BY <2>1 DEF LateForeign, NoWork
<1>5. WorkAuthored' /\ TombAuthored'
  BY DEF WorkAuthored, TombAuthored, NoWork
<1> QED BY <1>3, <1>4, <1>5 DEF Origins

(***************************************************************************)
(* capture_saved, in any of the ways it ends.                              *)
(***************************************************************************)
LEMMA SavedCaptureOrigins ==
  ASSUME AInv, SavedCapture
  PROVE  Origins'
<1>1. /\ CInv /\ work # NoWork /\ work' = NoWork /\ UNCHANGED <<queue, disk, app, authored>>
      /\ scan'.phase = scan.phase /\ (journal' = journal \/ CaptureRecorded)
  BY SavedCaptureOutcome DEF AInv
<1>2. scan'.phase # "tombstone"
  BY <1>1 DEF CInv, Scans, ScanComplete
<1>3. CASE journal' = journal
  BY <1>1, <1>2, <1>3, StillOrigins, OriginsKept DEF Queued
<1>4. CASE CaptureRecorded
  <2>1. /\ Pending(journal) = {} /\ Mine(work.path, work.content)
        /\ \A p \in Path : ~Absent(disk[p]) => Mine(p, disk[p].content)
        /\ \A i \in 1..Len(queue) : LateFrom(i) => work.content # queue[i].predecessor
    BY <1>1, <1>4, RecordedIsMine
  <2>2. ContentOf[journal'.applied] = work.content /\ journal'.intents = journal.intents
    BY <1>4 DEF CaptureRecorded
  <2>3. Empty /\ ContentOf[journal'.applied] # None => Gone
    <3>1. ContentOf[journal.applied] # None => (Empty => Gone)
      BY <1>1, <1>4, RecordedIsMine
    <3>2. ContentOf[journal.applied] = None /\ Empty => Gone
      <4>1. SUFFICES ASSUME ContentOf[journal.applied] = None, Empty PROVE Gone
        OBVIOUS
      <4>2. work.inventory
        BY <1>1, <1>4, <4>1 DEF CaptureRecorded, PredecessorMatches, CInv, Marks, WorkMarks, IInv
      <4> QED BY <1>1, <1>4, <2>1, <4>1, <4>2 DEF CaptureRecorded, AInv, Origins, WorkAuthored
    <3> QED BY <3>1, <3>2
  <2> QED BY <1>1, <1>2, <2>1, <2>2, <2>3, SnapshotOrigins
<1> QED BY <1>1, <1>3, <1>4

(***************************************************************************)
(* The steps of the inventory that record nothing.                         *)
(***************************************************************************)
LEMMA ScanOrigins ==
  ASSUME AInv, UNCHANGED <<journal, disk, app, authored, queue, work>>,
         scan' = scan \/ scan'.phase # "tombstone"
  PROVE  Origins'
BY StillOrigins, OriginsKept DEF Queued

(***************************************************************************)
(* The inventory's steps up to the capture of a file.                      *)
(***************************************************************************)
LEMMA InventoryOrigins ==
  ASSUME AInv, \/ PollWatch \/ ScanStart \/ ScanReadDone \/ ScanDeletions \/ ProtectDeleted \/ ScanEnd
               \/ \E path \in Path : ScanList(path) \/ ScanRead(path)
  PROVE  Origins'
<1>1. UNCHANGED <<journal, disk, app, authored, queue, work>>
  BY DEF PollWatch, ScanStart, ScanReadDone, ScanDeletions, ProtectDeleted, ScanEnd, ScanList, ScanRead, elsewhere
<1>2. DOMAIN scan = ScanField /\ DOMAIN NoScan = ScanField /\ NoScan.phase = "idle"
  BY DEF AInv, CInv, IInv, ScanSound, NoScan, ScanField
<1>3. DOMAIN Deferred = ScanField /\ Deferred.phase = "end"
  BY <1>2 DEF Deferred, ScanField
<1>4. Schedule(Deferred) => scan'.phase = "end"
  <2> HIDE DEF Deferred
  <2> QED BY <1>3, ScheduleFields
<1>5. CASE PollWatch
  BY <1>1, <1>5, ScanOrigins DEF PollWatch
<1>6. CASE ~PollWatch
  <2>1. ASSUME ScanStart PROVE scan'.phase # "tombstone"
    BY <1>2, <2>1 DEF ScanStart, ScanField
  <2>2. ASSUME ScanReadDone PROVE scan'.phase # "tombstone"
    BY <1>2, <2>2 DEF ScanReadDone, ScanField
  <2>3. ASSUME ScanDeletions PROVE scan'.phase # "tombstone"
    BY <1>2, <1>3, <1>4, <2>3 DEF ScanDeletions, ScanField
  <2>4. ASSUME ProtectDeleted PROVE scan'.phase # "tombstone"
    BY <1>2, <1>3, <2>4 DEF ProtectDeleted, ScanField
  <2>5. ASSUME ScanEnd PROVE scan'.phase # "tombstone"
    BY <1>2, <2>5 DEF ScanEnd
  <2>6. ASSUME NEW path \in Path, ScanList(path) PROVE scan'.phase # "tombstone"
    <3> DEFINE seen == [p \in DOMAIN scan.seen \cup {path} |-> IF p = path THEN disk[p] ELSE scan.seen[p]]
               found == {p \in DOMAIN seen : ~Absent(seen[p])}
               rest == scan.todo \ {path}
    <3>1. /\ scan.phase = "list"
          /\ \/ scan' = [scan EXCEPT !.todo = rest, !.seen = seen]
             \/ scan' = [scan EXCEPT !.phase = "read", !.todo = found, !.seen = [p \in found |-> seen[p]]]
      BY <2>6 DEF ScanList
    <3> HIDE DEF seen, found, rest
    <3> QED BY <1>2, <3>1 DEF ScanField
  <2>7. ASSUME NEW path \in Path, ScanRead(path) PROVE scan'.phase # "tombstone"
    <3> DEFINE less == [p \in DOMAIN scan.seen \ {path} |-> scan.seen[p]]
               more == IF Cached(path) THEN scan.captured \cup {path} ELSE scan.captured
    <3>1. /\ scan.phase = "read"
          /\ \/ scan' = [scan EXCEPT !.todo = @ \ {path}, !.retry = TRUE, !.seen = less]
             \/ scan' = [scan EXCEPT !.todo = @ \ {path}, !.captured = more]
      BY <2>7 DEF ScanRead
    <3> HIDE DEF less, more
    <3> QED BY <1>2, <3>1 DEF ScanField
  <2>8. scan'.phase # "tombstone"
    BY <1>6, <2>1, <2>2, <2>3, <2>4, <2>5, <2>6, <2>7
  <2> QED BY <1>1, <2>8, ScanOrigins
<1> QED BY <1>5, <1>6

(***************************************************************************)
(* A file that is handed to capture_saved is the user's unless it is what  *)
(* is applied, and no other file holds what is applied.                    *)
(***************************************************************************)
LEMMA ScanCaptureOrigins ==
  ASSUME AInv, NEW path \in Path, ScanCapture(path)
  PROVE  Origins'
<1> DEFINE failed == ScanResult(scan, path, FALSE)
           w == Saving(path, scan.seen[path].content, None, TRUE)
<1>1. /\ scan.phase = "capture" /\ path \in scan.todo /\ work = NoWork
      /\ UNCHANGED <<journal, disk, app, authored, queue>>
      /\ \/ work' = work /\ scan' = failed
         \/ work' = work /\ Schedule(failed)
         \/ work' = w /\ scan' = scan /\ disk[path] = scan.seen[path] /\ ~SecondPath(path)
  BY DEF ScanCapture, elsewhere
<1>2. /\ IInv /\ Origins /\ ~Echoed /\ DOMAIN scan = ScanField /\ scan.seen[path].content \in Content
      /\ scan # NoScan /\ app = NoApp /\ journal.applied # None /\ ~NoApp.prepared /\ None \notin Content
      /\ queue \in Seq(Note)
  BY <1>1, GraphAssumption DEF AInv, CInv, IInv, ScanSound, Scans, ScanAlone, NoScan, NoApp, WorkSound
<1>3. CASE work' = work
  <2>1. DOMAIN failed = ScanField /\ failed.phase = scan.phase
    BY <1>2 DEF ScanResult, ScanField
  <2> HIDE DEF failed
  <2>2. Schedule(failed) => scan'.phase = failed.phase
    BY <2>1, ScheduleFields
  <2> HIDE DEF w
  <2>3. scan' = scan \/ scan'.phase # "tombstone"
    BY <1>1, <2>1, <2>2
  <2> QED BY <1>1, <1>3, <2>3, ScanOrigins
<1>4. CASE work' # work
  <2>1. work' = w /\ scan' = scan /\ disk[path] = scan.seen[path] /\ ~SecondPath(path)
    BY <1>1, <1>4
  <2>2. /\ w.path = path /\ w.expected = journal.applied /\ w.content = disk[path].content /\ w.inventory = TRUE
    BY <2>1 DEF Saving
  <2> HIDE DEF w
  <2>3. FilesAuthored' /\ EmptyAuthored' /\ VerifiedAuthored' /\ \A c : Foreign(c) => Foreign(c)'
    BY <1>1, <1>2, StillOrigins, FilesKept
  <2>4. \A i \in 1..Len(queue) : LateFrom(i)' <=> LateFrom(i)
    BY <1>1 DEF LateFrom, Mine
  <2>5. LateForeign'
    <3>1. ASSUME NEW i \in 1..Len(queue), LateFrom(i)' PROVE Foreign(queue[i].predecessor)'
      <4>1. PICK c : c = queue[i].predecessor
        OBVIOUS
      <4>2. Foreign(c)'
        BY <1>2, <2>3, <2>4, <3>1, <4>1 DEF Origins, LateForeign
      <4> QED BY <1>1, <4>1, <4>2 DEF Foreign
    <3> QED BY <1>1, <2>1, <2>2, <3>1 DEF LateForeign
  <2>6. WorkAuthored'
    <3>1. SUFFICES ASSUME Pending(journal) = {}, ~Unchanged(journal.applied, path, disk[path].content)
                   PROVE  /\ Mine(path, disk[path].content)
                          /\ \A p \in Path : ~Absent(disk[p]) /\ PathOf[journal.applied] = p
                               /\ ContentOf[journal.applied] = disk[p].content => Mine(p, disk[p].content)
                          /\ ~Empty
                          /\ \A i \in 1..Len(queue) : disk[path].content # queue[i].predecessor
      <4>1. Pending(journal)' = Pending(journal) /\ (Empty' => Empty)
        BY <1>1 DEF Pending, Empty, Absent
      <4> QED BY <1>1, <2>1, <2>2, <4>1 DEF WorkAuthored, Unchanged, Mine, Absent
    <3>2. ~Absent(disk[path])
      BY <1>2, <2>1 DEF Absent
    <3>3. Mine(path, disk[path].content)
      BY <1>2, <3>1, <3>2 DEF Origins, FilesAuthored, Unchanged
    <3>4. ASSUME NEW p \in Path, ~Absent(disk[p]), PathOf[journal.applied] = p, ContentOf[journal.applied] = disk[p].content
          PROVE  Mine(p, disk[p].content)
      BY <1>2, <2>1, <3>3, <3>4 DEF SecondPath, Absent
    <3>5. ASSUME NEW i \in 1..Len(queue) PROVE disk[path].content # queue[i].predecessor
      BY <1>2, <3>2 DEF Echoed, Notices
    <3> QED BY <3>2, <3>3, <3>4, <3>5 DEF Empty
  <2>7. TombAuthored'
    BY <1>1, <2>1 DEF TombAuthored
  <2> QED BY <2>3, <2>5, <2>6, <2>7 DEF Origins
<1> QED BY <1>3, <1>4

(***************************************************************************)
(* The last check of a deletion: no file was met, none was there, and the  *)
(* watch has seen nothing since.                                           *)
(***************************************************************************)
LEMMA CheckDeletedOrigins ==
  ASSUME AInv, CheckDeleted
  PROVE  Origins'
<1>1. /\ scan.phase = "check" /\ UNCHANGED <<journal, disk, app, authored, queue, work>>
      /\ \/ Schedule(Deferred)
         \/ scan' = Deferred
         \/ ~stale /\ scan' = [scan EXCEPT !.phase = "tombstone"]
  BY DEF CheckDeleted, elsewhere
<1>2. /\ IInv /\ Origins /\ DOMAIN scan = ScanField /\ ContentOf[scan.base] # None
      /\ work = NoWork /\ ~scan.retry /\ DOMAIN scan.seen = {}
      /\ ~stale => Empty
  BY <1>1, GraphAssumption DEF AInv, CInv, IInv, ScanSound, Scans, ScanComplete, SeenSound, Empty
<1>3. CASE scan'.phase # "tombstone"
  BY <1>1, <1>3, ScanOrigins
<1>4. CASE scan'.phase = "tombstone"
  <2>1. ~stale /\ scan' = [scan EXCEPT !.phase = "tombstone"]
    <3>1. DOMAIN Deferred = ScanField /\ Deferred.phase = "end"
      BY <1>2 DEF Deferred, ScanField
    <3> HIDE DEF Deferred
    <3> QED BY <1>1, <1>4, <3>1, ScheduleFields
  <2>2. scan'.base = scan.base
    BY <1>2, <2>1 DEF ScanField
  <2>3. FilesAuthored' /\ EmptyAuthored' /\ VerifiedAuthored' /\ \A c : Foreign(c) => Foreign(c)'
    BY <1>1, <1>2, StillOrigins, FilesKept
  <2>4. LateForeign' /\ WorkAuthored'
    <3>1. \A i \in 1..Len(queue) : LateFrom(i)' <=> LateFrom(i)
      BY <1>1 DEF LateFrom, Mine
    <3>2. ASSUME NEW i \in 1..Len(queue), LateFrom(i)' PROVE Foreign(queue[i].predecessor)'
      <4>1. PICK c : c = queue[i].predecessor
        OBVIOUS
      <4>2. Foreign(c)'
        BY <1>2, <2>3, <3>1, <3>2, <4>1 DEF Origins, LateForeign
      <4> QED BY <1>1, <4>1, <4>2 DEF Foreign
    <3> QED BY <1>1, <1>2, <3>2 DEF LateForeign, WorkAuthored, NoWork
  <2>5. TombAuthored'
    <3>1. SUFFICES ASSUME Pending(journal) = {}, journal.applied = scan.base
                   PROVE  Gone /\ \A p \in Path : Absent(disk[p])
      BY <1>1, <2>2 DEF TombAuthored, Pending, Gone, Mine, Absent
    <3> QED BY <1>2, <2>1, <3>1 DEF Origins, EmptyAuthored, Settled, Empty
  <2> QED BY <2>3, <2>4, <2>5 DEF Origins
<1> QED BY <1>3, <1>4

(***************************************************************************)
(* The tombstone of a file that the user removed.                          *)
(***************************************************************************)
LEMMA CaptureDeletedOrigins ==
  ASSUME AInv, CaptureDeleted
  PROVE  Origins'
<1> DEFINE id == SnapshotId(Self, PathOf[scan.base], None, scan.base)
<1>1. /\ scan.phase = "tombstone" /\ UNCHANGED <<disk, app, authored, queue, work>>
      /\ \/ /\ CaptureAdmitted(journal, scan.base) /\ id \in Revision /\ journal' = Captured(journal, id)
            /\ scan' = [scan EXCEPT !.phase = "end"]
         \/ scan' = Deferred /\ journal' = journal
  BY DEF CaptureDeleted, elsewhere
<1>2. /\ IInv /\ Origins /\ DOMAIN scan = ScanField /\ scan.base \in Revision /\ work = NoWork
      /\ DOMAIN journal = {"rowid", "tip", "approved", "eligible", "applied", "intents"} /\ Consistent(journal)
  BY <1>1 DEF AInv, CInv, IInv, ScanSound, Scans, ScanComplete, Consistent, JournalType
<1>3. scan'.phase = "end"
  BY <1>1, <1>2 DEF Deferred, ScanField
<1>4. CASE journal' = journal
  BY <1>1, <1>3, <1>4, ScanOrigins
<1>5. CASE CaptureAdmitted(journal, scan.base) /\ id \in Revision /\ journal' = Captured(journal, id)
  <2>1. journal.applied = scan.base /\ Pending(journal) = {}
    BY <1>5 DEF CaptureAdmitted
  <2>2. ContentOf[id] = None
    BY <1>2, <1>5, <2>1, SnapshotFacts, GraphAssumption
  <2>3. journal'.applied = id /\ journal'.intents = journal.intents
    <3> HIDE DEF id
    <3> QED BY <1>2, <1>5, CapturedTables DEF Captured, Inserted
  <2>4. Gone /\ \A p \in Path : ~Absent(disk[p]) => Mine(p, disk[p].content)
    BY <1>1, <1>2, <2>1 DEF Origins, TombAuthored
  <2> QED BY <1>1, <1>2, <1>3, <2>1, <2>2, <2>3, <2>4, SnapshotOrigins
<1> QED BY <1>1, <1>4, <1>5

(***************************************************************************)
(* Capture, the whole of sync_worker's steps, keeps what is known of the   *)
(* origins.                                                                *)
(***************************************************************************)
LEMMA CaptureOrigins ==
  ASSUME AInv, CaptureStep
  PROVE  Origins'
BY SavedStartOrigins, SavedCaptureOrigins, InventoryOrigins, ScanCaptureOrigins, CheckDeletedOrigins,
   CaptureDeletedOrigins DEF CaptureStep, ScanStep

\* A step of the application that writes no file and verifies nothing.
Silent ==
  /\ UNCHANGED <<disk, authored, queue>>
  /\ app'.pc \notin Verified
  /\ \/ journal' = journal /\ (app'.prepared /\ ~app'.published => app.prepared /\ ~app.published)
     \/ Settled /\ journal'.applied = journal.applied

(***************************************************************************)
(* A silent step leaves what is known of the origins.                      *)
(***************************************************************************)
LEMMA SilentOrigins ==
  ASSUME AInv, ApplyStep \/ Disturbance, Silent
  PROVE  Origins'
<1>1. scan = NoScan /\ scan' = scan /\ work' = work
  BY ApplyAlone DEF AInv
<1>2. Grown /\ Queued
  BY DEF Silent, Grown, Queued, Empty, Absent
<1>3. NoneApplied
  <2>1. CASE journal' = journal /\ (app'.prepared /\ ~app'.published => app.prepared /\ ~app.published)
    BY <2>1 DEF Silent, NoneApplied, Settled, Pending
  <2>2. CASE Settled /\ journal'.applied = journal.applied
    BY <2>2 DEF Silent, NoneApplied
  <2> QED BY <2>1, <2>2 DEF Silent
<1> QED BY <1>1, <1>2, <1>3, OriginsKept

(***************************************************************************)
(* An attempt that ends takes its intent back only if it wrote nothing.    *)
(***************************************************************************)
LEMMA EndsSilent ==
  ASSUME AInv, Throw \/ Defer \/ (Complete /\ UNCHANGED <<journal, files>>)
  PROVE  Silent
<1>1. /\ NoApp.pc = "idle" /\ ~NoApp.prepared
      /\ LET a == [NoApp EXCEPT !.pc = "offer", !.target = app.target] IN a.pc = "offer" /\ ~a.prepared
  BY DEF NoApp
<1>2. /\ UNCHANGED <<disk, authored, queue>>
      /\ app' \in {NoApp, [NoApp EXCEPT !.pc = "offer", !.target = app.target]}
      /\ \/ journal' = journal
         \/ Settled /\ journal' = Abandoned(journal, app.target)
  BY DEF Throw, Defer, Complete, files, workerState, Settled
<1>3. Abandoned(journal, app.target).applied = journal.applied
  BY DEF AInv, CInv, IInv, Consistent, JournalType, Abandoned
<1> QED BY <1>1, <1>2, <1>3 DEF Silent, Verified

(***************************************************************************)
(* The steps of an application that are silent: the observation of the     *)
(* source, its protection, the intent, the live buffer's turns, and every  *)
(* way of giving up.                                                       *)
(***************************************************************************)
LEMMA StepsSilent ==
  ASSUME AInv, \/ BeginApplication \/ Enter \/ EnterOpen \/ ObserveSource \/ ProtectSource \/ PrepareIntent
               \/ RecheckIntent \/ Inspect \/ GateOpen \/ Interrupt \/ BeginLive \/ DeclineLive \/ LiveTimeout
  PROVE  Silent
<1>0. /\ DOMAIN app = {"pc", "target", "expected", "source", "prepared", "published", "lock", "live"}
      /\ DOMAIN journal = {"rowid", "tip", "approved", "eligible", "applied", "intents"}
  BY AppFields DEF AInv, CInv, IInv, Consistent, JournalType
<1>1. ASSUME UNCHANGED <<files, workerState, journal>>, app'.pc \notin Verified,
             app'.prepared /\ ~app'.published => app.prepared /\ ~app.published
      PROVE  Silent
  BY <1>1 DEF files, workerState, Silent
<1>2. CASE BeginApplication
  <2>1. PICK target : app' = [NoApp EXCEPT !.pc = "enter", !.target = target]
    BY <1>2 DEF BeginApplication
  <2>2. app'.pc = "enter" /\ ~app'.prepared
    BY <2>1 DEF NoApp
  <2> QED BY <1>1, <1>2, <2>2 DEF BeginApplication, Verified
<1>3. CASE Enter
  <2>1. \/ Throw
        \/ Complete /\ UNCHANGED <<journal, files>>
        \/ /\ app'.pc \in {"recheck", "observe"} /\ UNCHANGED <<files, workerState, journal>>
           /\ UNCHANGED <<app.prepared, app.published>>
    BY <1>0, <1>3 DEF Enter
  <2> QED BY <1>1, <2>1, EndsSilent DEF Verified
<1>4. CASE EnterOpen \/ GateOpen \/ Interrupt \/ DeclineLive \/ LiveTimeout
  BY <1>4, EndsSilent DEF EnterOpen, GateOpen, Interrupt, DeclineLive, LiveTimeout
<1>5. CASE ObserveSource \/ ProtectSource \/ RecheckIntent \/ Inspect \/ BeginLive
  <2>1. \/ Throw
        \/ /\ app'.pc \in {"protect", "prepare", "inspect", "publish", "remove", "verify", "enter"}
           /\ UNCHANGED <<files, workerState, journal>>
           /\ UNCHANGED <<app.prepared, app.published>>
    <3>1. CASE ObserveSource
      BY <1>0, <3>1 DEF ObserveSource
    <3>2. CASE ProtectSource
      BY <1>0, <3>2 DEF ProtectSource, Goto
    <3>3. CASE RecheckIntent
      BY <1>0, <3>3 DEF RecheckIntent, Goto
    <3>4. CASE Inspect
      BY <1>0, <3>4 DEF Inspect
    <3>5. CASE BeginLive
      BY <1>0, <3>5 DEF BeginLive
    <3> QED BY <1>5, <3>1, <3>2, <3>3, <3>4, <3>5
  <2> QED BY <1>1, <2>1, EndsSilent DEF Verified
<1>6. CASE PrepareIntent
  <2>1. \/ Throw
        \/ /\ app'.pc = "recheck" /\ UNCHANGED <<files, workerState>> /\ Pending(journal) = {}
           /\ journal' = Prepared(journal, app.target, app.expected, app.source.content)
    BY <1>0, <1>6 DEF PrepareIntent, MayPrepare, CanPrepare
  <2>2. Prepared(journal, app.target, app.expected, app.source.content).applied = journal.applied
    BY <1>0 DEF Prepared
  <2> QED BY <2>1, <2>2, EndsSilent DEF Verified, Silent, Settled, files, workerState
<1> QED BY <1>2, <1>3, <1>4, <1>5, <1>6

(***************************************************************************)
(* The application writes a file: its intent is unfinished until the       *)
(* journal records it, and nothing is captured until then.                 *)
(***************************************************************************)
LEMMA InstallOrigins ==
  ASSUME AInv, Publish \/ RemoveSource
  PROVE  Origins'
<1>0. /\ DOMAIN app = {"pc", "target", "expected", "source", "prepared", "published", "lock", "live"}
      /\ IInv /\ Origins /\ WorkMarks /\ disk \in [Path -> FileType]
      /\ scan = NoScan /\ scan' = scan /\ work' = work /\ NoScan.phase = "idle" /\ app.pc # "idle"
      /\ app.target \in Pending(journal)
  BY AppFields, ApplyAlone DEF AInv, CInv, Marks, IInv, FilesSound, ApplyStep, NoScan, Publish, RemoveSource, At,
     AppSound, Underway
<1>1. CASE Throw
  BY <1>1, EndsSilent, SilentOrigins DEF ApplyStep
<1>2. CASE ~Throw
  <2>0. SourcePath \in Path /\ TargetPath \in Path
    BY <1>0, AppFields, GraphAssumption DEF SourcePath, TargetPath
  <2>1. /\ journal' = journal /\ queue' = queue /\ app'.pc \in {"remove", "verify"} /\ app'.published
        /\ \/ Installed(TargetPath, ContentOf[app.target])
           \/ Installed(SourcePath, None)
    <3>1. CASE Publish
      BY <1>0, <1>2, <3>1 DEF Publish, workerState
    <3>2. CASE RemoveSource
      BY <1>0, <1>2, <3>2 DEF RemoveSource, workerState
    <3> QED BY <3>1, <3>2
  <2>2. PICK path \in Path, c \in Content \cup {None} :
          Installed(path, c) /\ (c = None \/ (path = TargetPath /\ c = ContentOf[app.target]))
    <3>1. ContentOf[app.target] \in Content \cup {None}
      BY <1>0, GraphAssumption DEF IInv, Consistent, JournalType, Pending
    <3> QED BY <2>0, <2>1, <3>1
  <2>3. /\ disk'[path].content = c /\ \A p \in Path \ {path} : disk'[p] = disk[p]
        /\ authored' = {a \in authored : a[1] # path}
    BY <1>0, <2>2 DEF Installed, Wrote, File
  <2>4. ~Settled' /\ Pending(journal)' = Pending(journal)
    BY <1>0, <2>1 DEF Settled, Pending
  <2>5. FilesAuthored'
    <3>1. SUFFICES ASSUME NEW p \in Path, ~Absent(disk'[p])
                   PROVE  \/ <<p, disk'[p].content>> \in authored'
                          \/ PathOf[journal.applied] = p /\ ContentOf[journal.applied] = disk'[p].content
                          \/ \E t \in Pending(journal) : PathOf[t] = p /\ ContentOf[t] = disk'[p].content
      BY <2>1, <2>4 DEF FilesAuthored, Mine, Absent
    <3>2. CASE p = path
      BY <1>0, <2>2, <2>3, <3>1, <3>2 DEF Absent, TargetPath
    <3>3. CASE p # path
      BY <1>0, <2>3, <3>1, <3>3 DEF Origins, FilesAuthored, Mine
    <3> QED BY <3>2, <3>3
  <2>6. EmptyAuthored' /\ VerifiedAuthored'
    BY <2>1, <2>4 DEF EmptyAuthored, VerifiedAuthored, Verified
  <2>7. LateForeign'
    BY <2>1, <2>4 DEF LateForeign, Foreign, Verified
  <2>8. WorkAuthored' /\ TombAuthored'
    BY <1>0 DEF WorkMarks, WorkAuthored, TombAuthored, NoWork
  <2> QED BY <2>5, <2>6, <2>7, <2>8 DEF Origins
<1> QED BY <1>1, <1>2

(***************************************************************************)
(* The final observation: the file holds the target's bytes, so those are  *)
(* not bytes that a queued save replaced.                                  *)
(***************************************************************************)
LEMMA VerifyOrigins ==
  ASSUME AInv, Verify \/ Reload
  PROVE  Origins'
<1>0. /\ DOMAIN app = {"pc", "target", "expected", "source", "prepared", "published", "lock", "live"}
      /\ IInv /\ Origins /\ WorkMarks /\ ~Echoed /\ queue \in Seq(Note)
      /\ scan = NoScan /\ scan' = scan /\ work' = work /\ NoScan.phase = "idle" /\ app.pc # "idle"
  BY AppFields, ApplyAlone DEF AInv, CInv, Marks, IInv, WorkSound, ApplyStep, NoScan, Verify, Reload, At
<1>1. CASE Throw
  BY <1>1, EndsSilent, SilentOrigins DEF ApplyStep
<1>2. CASE ~Throw
  <2>1. /\ UNCHANGED <<journal, disk, authored, queue>>
        /\ UNCHANGED <<app.target, app.expected, app.prepared, app.published>>
        /\ app'.pc \in Verified
        /\ \/ /\ app.pc = "verify" /\ disk[TargetPath].content = ContentOf[app.target]
              /\ Renamed => Absent(disk[SourcePath])
           \/ app.pc = "reload"
    <3>1. CASE Verify
      BY <1>0, <1>2, <3>1 DEF Verify, At, files, workerState, Verified
    <3>2. CASE Reload
      BY <1>0, <1>2, <3>2 DEF Reload, At, Goto, files, workerState, Verified
    <3> QED BY <3>1, <3>2
  <2>2. /\ Grown /\ Queued /\ (Settled' <=> Settled) /\ Pending(journal)' = Pending(journal)
    BY <2>1 DEF Grown, Queued, Empty, Absent, Settled, Pending
  <2>3. CASE app.pc = "reload"
    <3>1. NoneApplied
      BY <2>1, <2>2, <2>3 DEF NoneApplied, Verified
    <3> QED BY <1>0, <2>2, <3>1, OriginsKept
  <2>4. CASE app.pc # "reload"
    <3>1. SourcePath \in Path /\ TargetPath \in Path /\ UNCHANGED <<SourcePath, TargetPath>>
      BY <1>0, <2>1, AppFields, GraphAssumption DEF SourcePath, TargetPath
    <3>2. FilesAuthored' /\ EmptyAuthored'
      BY <1>0, <2>1, <2>2 DEF Origins, FilesAuthored, EmptyAuthored, Mine, Gone, Empty, Absent
    <3>3. VerifiedAuthored'
      <4>1. \A p \in {SourcePath, TargetPath} : ~Absent(disk[p]) => p = TargetPath /\ disk[p].content = ContentOf[app.target]
        BY <2>1, <2>4 DEF Renamed
      <4>2. Empty => ContentOf[app.target] = None
        BY <2>1, <2>4, <3>1 DEF Empty, Absent
      <4> QED BY <2>1, <3>1, <4>1, <4>2 DEF VerifiedAuthored, Empty, Absent
    <3>4. ASSUME NEW c, Foreign(c), \A p \in Path : ~Absent(disk[p]) => disk[p].content # c PROVE Foreign(c)'
      BY <2>1, <2>2, <2>4, <3>1, <3>4 DEF Foreign, Absent
    <3>5. \A n \in Notices, p \in Path : ~Absent(disk[p]) => disk[p].content # n.predecessor
      BY <1>0 DEF Echoed
    <3>6. LateForeign'
      <4>1. \A i : LateFrom(i)' <=> LateFrom(i)
        BY <2>1 DEF LateFrom, Mine
      <4>2. ASSUME NEW i \in 1..Len(queue), LateFrom(i)' PROVE Foreign(queue[i].predecessor)'
        <5>1. PICK c : c = queue[i].predecessor
          OBVIOUS
        <5>2. queue[i] \in Notices
          BY DEF Notices
        <5>3. Foreign(c)'
          BY <1>0, <3>4, <3>5, <4>1, <4>2, <5>1, <5>2 DEF Origins, LateForeign
        <5> QED BY <2>1, <5>1, <5>3 DEF Foreign
      <4>3. ASSUME work # NoWork, ~work.inventory, LateFrom(1)' \/ ~Mine(work.path, work.content)'
            PROVE  Foreign(work.predecessor)'
        <5>1. PICK c : c = work.predecessor
          OBVIOUS
        <5>2. work \in Notices
          BY <4>3 DEF Notices
        <5>3. LateFrom(1) \/ ~Mine(work.path, work.content)
          BY <1>0, <2>1, <4>1, <4>3 DEF Mine
        <5>4. Foreign(c)'
          BY <1>0, <3>4, <3>5, <4>3, <5>1, <5>2, <5>3 DEF Origins, LateForeign
        <5> QED BY <1>0, <5>1, <5>4 DEF Foreign
      <4> QED BY <1>0, <2>1, <4>2, <4>3 DEF LateForeign, NoWork
    <3>7. WorkAuthored' /\ TombAuthored'
      BY <1>0 DEF WorkMarks, WorkAuthored, TombAuthored, NoWork
    <3> QED BY <3>2, <3>3, <3>6, <3>7 DEF Origins
  <2> QED BY <2>3, <2>4
<1> QED BY <1>1, <1>2

(***************************************************************************)
(* The application is recorded: what was verified is now what is applied.  *)
(***************************************************************************)
LEMMA FinishOrigins ==
  ASSUME AInv, Finish
  PROVE  Origins'
<1>0. /\ CInv /\ IInv /\ Origins /\ WorkMarks
      /\ scan = NoScan /\ scan' = scan /\ work' = work /\ NoScan.phase = "idle"
  BY ApplyAlone DEF AInv, CInv, Marks, ApplyStep, NoScan
<1>1. CASE Throw
  BY <1>1, EndsSilent, SilentOrigins DEF ApplyStep
<1>2. CASE ~Throw
  <2>1. /\ app.pc = "finish" /\ CanFinish(journal, app.target, ContentOf[app.target])
        /\ journal' = Finished(journal, app.target) /\ app' = NoApp
        /\ UNCHANGED <<disk, authored, queue>>
    BY <1>2 DEF Finish, At, Complete, files
  <2>2. /\ journal'.applied = app.target /\ app.expected = journal.applied /\ app.expected # None
        /\ Pending(journal) = {app.target}
    <3>1. journal'.applied = app.target
      BY <1>0, <2>1 DEF Finished, IInv, Consistent, JournalType
    <3>2. app.expected = journal.intents[app.target].expected /\ journal.applied # None /\ app.target \in Pending(journal)
      BY <1>0, <2>1 DEF IInv, AppSound, Underway
    <3>3. Pending(journal) = {app.target}
      BY <1>0, <3>2 DEF IInv, Consistent, Resumable
    <3> QED BY <2>1, <3>1, <3>2, <3>3 DEF CanFinish
  <2>3. VerifiedAuthored /\ SourcePath = PathOf[journal.applied]
    BY <1>0, <2>2 DEF Origins, SourcePath
  <2>4. FilesAuthored'
    <3>1. ASSUME NEW p \in Path, ~Absent(disk[p])
          PROVE  Mine(p, disk[p].content) \/ (PathOf[app.target] = p /\ ContentOf[app.target] = disk[p].content)
      <4>1. \/ Mine(p, disk[p].content)
            \/ p = SourcePath
            \/ PathOf[app.target] = p /\ ContentOf[app.target] = disk[p].content
        BY <1>0, <2>2, <2>3, <3>1 DEF Origins, FilesAuthored
      <4>2. p = SourcePath => Mine(p, disk[p].content) \/ (p = TargetPath /\ disk[p].content = ContentOf[app.target])
        BY <2>1, <2>3, <3>1 DEF VerifiedAuthored, Verified
      <4> QED BY <4>1, <4>2 DEF TargetPath
    <3> QED BY <2>1, <2>2, <3>1 DEF FilesAuthored, Mine, Absent
  <2>5. EmptyAuthored'
    BY <2>1, <2>2, <2>3 DEF EmptyAuthored, VerifiedAuthored, Verified, Empty, Gone, Mine, Absent
  <2>6. app'.pc = "idle"
    BY <2>1 DEF NoApp
  <2>7. VerifiedAuthored' /\ WorkAuthored' /\ TombAuthored'
    BY <1>0, <2>6 DEF VerifiedAuthored, Verified, WorkMarks, WorkAuthored, TombAuthored, NoWork
  <2>8. LateForeign'
    <3>1. ASSUME NEW c, Foreign(c) PROVE Foreign(c)'
      BY <2>1, <2>2, <2>6, <3>1 DEF Foreign, Verified
    <3>2. \A i : LateFrom(i)' <=> LateFrom(i)
      BY <2>1 DEF LateFrom, Mine
    <3>3. ASSUME NEW i \in 1..Len(queue), LateFrom(i)' PROVE Foreign(queue[i].predecessor)'
      <4>1. PICK c : c = queue[i].predecessor
        OBVIOUS
      <4>2. Foreign(c)'
        BY <1>0, <3>1, <3>2, <3>3, <4>1 DEF Origins, LateForeign
      <4> QED BY <2>1, <4>1, <4>2 DEF Foreign
    <3>4. ASSUME work # NoWork, ~work.inventory, LateFrom(1)' \/ ~Mine(work.path, work.content)'
          PROVE  Foreign(work.predecessor)'
      <4>1. PICK c : c = work.predecessor
        OBVIOUS
      <4>2. LateFrom(1) \/ ~Mine(work.path, work.content)
        BY <1>0, <2>1, <3>2, <3>4 DEF Mine
      <4>3. Foreign(c)'
        BY <1>0, <3>1, <3>4, <4>1, <4>2 DEF Origins, LateForeign
      <4> QED BY <1>0, <4>1, <4>3 DEF Foreign
    <3> QED BY <1>0, <2>1, <3>3, <3>4 DEF LateForeign, NoWork
  <2> QED BY <2>4, <2>5, <2>7, <2>8 DEF Origins
<1> QED BY <1>1, <1>2

(***************************************************************************)
(* The application, whatever interrupts it, keeps what is known of the     *)
(* origins.                                                                *)
(***************************************************************************)
LEMMA ApplyOrigins ==
  ASSUME AInv, ApplyStep \/ Disturbance
  PROVE  Origins'
<1>1. CASE Publish \/ RemoveSource
  BY <1>1, InstallOrigins
<1>2. CASE Verify \/ Reload
  BY <1>2, VerifyOrigins
<1>3. CASE Finish
  BY <1>3, FinishOrigins
<1>4. CASE Silent
  BY <1>4, SilentOrigins
<1> QED BY <1>1, <1>2, <1>3, <1>4, StepsSilent DEF ApplyStep, Disturbance

(***************************************************************************)
(* A step of anyone, or none, after which no file holds replaced bytes.    *)
(***************************************************************************)
LEMMA OriginsInductive ==
  ASSUME AInv, [Next /\ ~Echoed']_vars
  PROVE  AInv'
<1>1. CInv /\ IInv'
  BY NextInductive DEF AInv, CInv
<1>2. CASE UNCHANGED vars
  <2>1. /\ UNCHANGED <<journal, disk, app, authored, queue, work, scan>>
    BY <1>2 DEF vars
  <2>2. Origins'
    BY <2>1, ScanOrigins
  <2>3. ~Echoed'
    BY <2>1 DEF AInv, Echoed, Notices, NoWork, Absent
  <2>4. CInv'
    BY <1>1, <1>2, MarksInductive
  <2> QED BY <2>2, <2>3, <2>4 DEF AInv
<1>3. CASE Next /\ ~Echoed'
  <2>1. Origins'
    BY <1>3, UserOrigins, ReceiveOrigins, CrashOrigins, CaptureOrigins, ApplyOrigins DEF Next
  <2>2. ASSUME NEW n \in Notices' PROVE n.path \in Path
    <3>1. queue' \in Seq(Note) /\ (work' # NoWork => work'.path \in Path)
      BY <1>1 DEF IInv, WorkSound, NoWork
    <3>2. \A i \in 1..Len(queue') : queue'[i] \in Note
      BY <3>1
    <3> QED BY <2>2, <3>1, <3>2 DEF Notices, Note, NoWork
  <2>3. ~Restored'
    BY <1>3, <2>2 DEF Restored, Echoed
  <2>4. CInv'
    BY <1>1, <1>3, <2>3, MarksInductive
  <2> QED BY <1>3, <2>1, <2>4 DEF AInv
<1> QED BY <1>2, <1>3

(***************************************************************************)
(* The device starts with the genesis file only.                           *)
(***************************************************************************)
LEMMA OriginsInit ==
  ASSUME Init
  PROVE  AInv
<1>1. /\ CInv /\ queue = <<>> /\ work = NoWork /\ scan = NoScan /\ app = NoApp
      /\ journal = [Inserted(EmptyJournal, Genesis) EXCEPT !.applied = Genesis]
      /\ disk = [p \in Path |-> IF p = PathOf[Genesis] THEN File(ContentOf[Genesis], 1) ELSE File(None, 0)]
  BY MarksInit DEF Init
<1>2. scan.phase = "idle" /\ app.pc = "idle"
  BY <1>1 DEF NoScan, NoApp
<1>3. journal.applied = Genesis /\ PathOf[Genesis] \in Path /\ ContentOf[Genesis] # None
  BY <1>1, SyncAssumption, GraphAssumption DEF Inserted, EmptyJournal
<1>4. ~Echoed
  BY <1>1 DEF Echoed, Notices
<1>5. FilesAuthored /\ EmptyAuthored
  BY <1>1, <1>3 DEF FilesAuthored, EmptyAuthored, Empty, Absent, File
<1>6. VerifiedAuthored /\ LateForeign /\ WorkAuthored /\ TombAuthored
  BY <1>1, <1>2 DEF VerifiedAuthored, Verified, LateForeign, WorkAuthored, TombAuthored
<1> QED BY <1>1, <1>4, <1>5, <1>6 DEF AInv, Origins

(***************************************************************************)
(* As long as no file comes to hold the bytes that a waiting save          *)
(* replaced, it is known where every file and every notification is from.  *)
(***************************************************************************)
THEOREM OriginsHold == UnechoedSpec => []AInv
<1>1. Init => AInv
  BY OriginsInit
<1>2. AInv /\ [Next /\ ~Echoed']_vars => AInv'
  BY OriginsInductive
<1> QED BY <1>1, <1>2, PTL DEF UnechoedSpec

(***************************************************************************)
(* The applied revision changes by a capture, or to the target.            *)
(***************************************************************************)
LEMMA AppliedChanges ==
  ASSUME AInv, Next, journal'.applied # journal.applied, journal'.applied # app.target
  PROVE  SavedCapture \/ CaptureDeleted
<1>0. DOMAIN journal = {"rowid", "tip", "approved", "eligible", "applied", "intents"}
  BY DEF AInv, CInv, IInv, Consistent, JournalType
<1>1. CASE UserStep
  BY <1>1 DEF UserStep, Open, Type, Close, Save, ExternalWrite, ExternalMove
<1>2. CASE (\E r \in Incoming : ReceiveRevision(r)) \/ Crash
  BY <1>0, <1>2 DEF ReceiveRevision, Crash, Inserted
<1>3. CASE CaptureStep
  BY <1>3 DEF CaptureStep, ScanStep, SavedStart, PollWatch, ScanStart, ScanList, ScanRead,
              ScanReadDone, ScanCapture, ScanDeletions, ProtectDeleted, CheckDeleted, ScanEnd
<1>4. CASE ApplyStep \/ Disturbance
  <2>1. \/ journal' = journal
        \/ journal' = Abandoned(journal, app.target)
        \/ journal' = Prepared(journal, app.target, app.expected, app.source.content)
        \/ journal' = Finished(journal, app.target)
    BY <1>4 DEF ApplyStep, BeginApplication, Enter, EnterOpen, ObserveSource, ProtectSource, PrepareIntent,
                RecheckIntent, Inspect, Publish, RemoveSource, Verify, GateOpen, Reload, Finish, BeginLive,
                DeclineLive, Disturbance, Interrupt, LiveTimeout, Throw, Defer
  <2> QED BY <1>0, <2>1 DEF Abandoned, Prepared, Finished
<1> QED BY <1>1, <1>2, <1>3, <1>4 DEF Next

(***************************************************************************)
(* A revision captured on this device, a tombstone included, records       *)
(* something the user did to that path since the application last wrote    *)
(* it, as long as no file comes to hold the bytes that a waiting save      *)
(* replaced: whatever overtakes a notification or an inventory.            *)
(***************************************************************************)
THEOREM CapturesAreTheUsers == Spec /\ []~Echoed => CapturesAreAuthored
<1>1. ASSUME AInv, Next, journal'.applied # journal.applied, journal'.applied # app.target
      PROVE  <<PathOf[journal'.applied], ContentOf[journal'.applied]>> \in authored
  <2>1. CASE SavedCapture
    <3>1. work # NoWork /\ CaptureRecorded
      BY <1>1, <2>1, SavedCaptureOutcome DEF AInv
    <3>2. Mine(work.path, work.content)
      BY <1>1, <3>1, RecordedIsMine
    <3> QED BY <3>1, <3>2 DEF CaptureRecorded, Mine
  <2>2. CASE CaptureDeleted
    <3> DEFINE id == SnapshotId(Self, PathOf[scan.base], None, scan.base)
    <3>1. /\ scan.phase = "tombstone" /\ CaptureAdmitted(journal, scan.base)
          /\ id \in Revision /\ journal' = Captured(journal, id)
      BY <1>1, <2>2 DEF CaptureDeleted
    <3>2. /\ IInv /\ Origins /\ scan.base \in Revision /\ PathOf[scan.base] \in Path
          /\ journal.applied = scan.base /\ Pending(journal) = {}
          /\ DOMAIN journal = {"rowid", "tip", "approved", "eligible", "applied", "intents"}
      BY <1>1, <3>1, GraphAssumption DEF AInv, CInv, IInv, ScanSound, CaptureAdmitted, Consistent, JournalType
    <3>3. PathOf[id] = PathOf[scan.base] /\ ContentOf[id] = None
      BY <3>1, <3>2, SnapshotFacts
    <3>4. <<PathOf[scan.base], None>> \in authored
      BY <3>1, <3>2 DEF Origins, TombAuthored, Gone, Mine
    <3>5. journal'.applied = id
      <4> HIDE DEF id
      <4> QED BY <3>1, <3>2 DEF Captured, Inserted
    <3> QED BY <3>3, <3>4, <3>5
  <2> QED BY <1>1, <2>1, <2>2, AppliedChanges
<1>2. AInv /\ [Next /\ ~Echoed']_vars =>
        [LET r == journal'.applied
         IN  (r # journal.applied /\ r # app.target) => <<PathOf[r], ContentOf[r]>> \in authored]_vars
  BY <1>1
<1>3. [Next]_vars /\ ~Echoed' => [Next /\ ~Echoed']_vars
  OBVIOUS
<1> QED BY <1>2, <1>3, OriginsHold, PTL DEF Spec, UnechoedSpec, CapturesAreAuthored

---------------------------------------------------------------------------
(***************************************************************************)
(* What an inventory that records a deletion has looked at: the watch and  *)
(* the listing together leave out no path, without any assumption on the   *)
(* notifications.                                                          *)
(***************************************************************************)
Deleting == {"protect", "check", "tombstone"}

\* A file not yet listed is still to be, and one that was is watched.
LookedList ==
  scan.phase = "list" =>
    /\ Path \subseteq scan.todo \cup DOMAIN scan.seen
    /\ \A p \in DOMAIN scan.seen : p \in watched /\ (~stale => disk[p] = scan.seen[p])

\* After the listing every path is watched, and what was not met is absent.
LookedAll ==
  scan.phase \in {"read", "capture"} \cup Deleting =>
    /\ Path \subseteq watched
    /\ ~stale /\ ~scan.retry => \A p \in Path \ DOMAIN scan.seen : Absent(disk[p])

\* A deletion is looked into when no file was met.
LookedNone ==
  /\ scan.phase \in Deleting => ~scan.retry /\ DOMAIN scan.seen = {} /\ work = NoWork
  /\ work # NoWork /\ work.inventory => scan.phase = "capture"
  /\ scan.phase = "tombstone" => view.path # PathOf[scan.base]

Looked == LookedList /\ LookedAll /\ LookedNone

\* The inductive invariant.
LInv == IInv /\ Looked

\* What a step leaves of the inventory and of the buffer's path.
SameScan ==
  /\ UNCHANGED <<scan, work, watched>>
  /\ scan.phase = "tombstone" /\ view'.path # view.path => view'.path = None

(***************************************************************************)
(* A step that leaves the files, and one that writes some of them.         *)
(***************************************************************************)
LEMMA SameLooked ==
  ASSUME LInv, SameScan, NEW ps \in SUBSET Path, \A p \in Path \ ps : disk'[p] = disk[p],
         (stale' <=> (stale \/ ps \cap watched # {}))
  PROVE  Looked'
<1>1. /\ scan' = scan /\ work' = work /\ watched' = watched /\ LookedList /\ LookedAll /\ LookedNone
      /\ DOMAIN scan.seen \subseteq Path
  BY DEF SameScan, LInv, Looked, IInv, ScanSound
<1>2. LookedList'
  BY <1>1 DEF LookedList
<1>3. LookedAll'
  BY <1>1 DEF LookedAll, Absent
<1>4. LookedNone'
  <2>1. scan.phase = "tombstone" => PathOf[scan.base] \in Path /\ None \notin Path
    BY GraphAssumption, DeviceAssumption DEF LInv, IInv, ScanSound
  <2>2. scan.phase = "tombstone" => view'.path # PathOf[scan.base]
    BY <1>1, <2>1 DEF LookedNone, SameScan
  <2> QED BY <1>1, <2>2 DEF LookedNone, NoWork
<1> QED BY <1>2, <1>3, <1>4 DEF Looked

LEMMA StillLooked ==
  ASSUME LInv, SameScan, disk' = disk, stale' = stale
  PROVE  Looked'
<1>1. {} \in SUBSET Path /\ (\A p \in Path \ {} : disk'[p] = disk[p]) /\ (stale' <=> (stale \/ {} \cap watched # {}))
  OBVIOUS
<1> QED BY <1>1, SameLooked

(***************************************************************************)
(* The editor, which opens no document while a deletion is recorded, and   *)
(* the programs beside it.                                                 *)
(***************************************************************************)
LEMMA UserLooked ==
  ASSUME LInv, UserStep
  PROVE  Looked'
<1>0. disk \in [Path -> FileType] /\ (view # NoView => view.path \in Path) /\ NoView.path = None
  BY DEF LInv, IInv, FilesSound, ViewSound, NoView
<1>1. ASSUME NEW path \in Path, Open(path) PROVE Looked'
  BY <1>1, StillLooked DEF Open, PublicationLocked, SameScan, watching
<1>2. CASE Type
  <2>1. view'.path = view.path
    BY <1>2 DEF Type, LInv, IInv, ViewSound
  <2> QED BY <1>2, <2>1, StillLooked DEF Type, SameScan, watching
<1>3. CASE Close
  BY <1>0, <1>3, StillLooked DEF Close, SameScan, watching
<1>4. ASSUME NEW path \in Path, NEW content, Wrote(path, content), SameScan PROVE Looked'
  <2>1. /\ {path} \in SUBSET Path /\ (\A p \in Path \ {path} : disk'[p] = disk[p])
        /\ (stale' <=> (stale \/ {path} \cap watched # {}))
    BY <1>0, <1>4 DEF Wrote, Touched
  <2> QED BY <1>4, <2>1, SameLooked
<1>5. ASSUME NEW content \in UserContent, Save(content) PROVE Looked'
  <2>1. view.path \in Path /\ view'.path = view.path
    BY <1>5 DEF Save, LInv, IInv, ViewSound, NoView
  <2> QED BY <1>4, <1>5, <2>1 DEF Save, SameScan
<1>6. ASSUME NEW path \in Path, NEW content \in UserContent \cup {None}, ExternalWrite(path, content) PROVE Looked'
  BY <1>4, <1>6 DEF ExternalWrite, SameScan
<1>7. ASSUME NEW from \in Path, NEW to \in Path, ExternalMove(from, to) PROVE Looked'
  <2>1. /\ {from, to} \in SUBSET Path /\ (\A p \in Path \ {from, to} : disk'[p] = disk[p])
        /\ (stale' <=> (stale \/ {from, to} \cap watched # {}))
    BY <1>0, <1>7 DEF ExternalMove, Touched
  <2> QED BY <1>7, <2>1, SameLooked DEF ExternalMove, SameScan
<1> QED BY <1>1, <1>2, <1>3, <1>5, <1>6, <1>7 DEF UserStep

(***************************************************************************)
(* The application's steps, of which two write.                            *)
(***************************************************************************)
LEMMA ApplyLooked ==
  ASSUME LInv, ApplyStep \/ Disturbance
  PROVE  Looked'
<1>0. disk \in [Path -> FileType] /\ NoView.path = None
  BY DEF LInv, IInv, FilesSound, NoView
<1>1. SameScan
  <2>1. UNCHANGED <<scan, work, watched>>
    BY DEF ApplyStep, Disturbance, BeginApplication, Enter, EnterOpen, ObserveSource, ProtectSource,
       PrepareIntent, RecheckIntent, Inspect, Publish, RemoveSource, Verify, GateOpen, Reload, Finish, BeginLive,
       DeclineLive, Interrupt, LiveTimeout, Throw, Defer, Complete, workerState
  <2>2. view' = view \/ Reload \/ view' = NoView
    BY DEF ApplyStep, Disturbance, BeginApplication, Enter, EnterOpen, ObserveSource, ProtectSource,
       PrepareIntent, RecheckIntent, Inspect, Publish, RemoveSource, Verify, GateOpen, Finish, BeginLive,
       DeclineLive, Interrupt, LiveTimeout, Throw, Defer
  <2>3. Reload => view'.path = view.path
    BY DEF Reload, Throw, LInv, IInv, ViewSound
  <2> QED BY <1>0, <2>1, <2>2, <2>3 DEF SameScan
<1>2. CASE disk' = disk /\ stale' = stale
  BY <1>1, <1>2, StillLooked
<1>3. ASSUME NEW path \in Path, NEW content, Wrote(path, content) PROVE Looked'
  <2>1. /\ {path} \in SUBSET Path /\ (\A p \in Path \ {path} : disk'[p] = disk[p])
        /\ (stale' <=> (stale \/ {path} \cap watched # {}))
    BY <1>0, <1>3 DEF Wrote, Touched
  <2> QED BY <1>1, <2>1, SameLooked
<1>4. CASE Publish \/ RemoveSource
  <2>1. SourcePath \in Path /\ TargetPath \in Path
    <3>1. app.pc # "idle"
      BY <1>4 DEF Publish, RemoveSource, At
    <3> QED BY <3>1, AppFields, GraphAssumption DEF LInv, SourcePath, TargetPath
  <2>2. \/ disk' = disk /\ stale' = stale
        \/ Wrote(TargetPath, ContentOf[app.target])
        \/ Wrote(SourcePath, None)
    BY <1>4 DEF Publish, RemoveSource, Installed, Throw, files
  <2> QED BY <1>2, <1>3, <2>1, <2>2
<1>5. CASE ~(Publish \/ RemoveSource)
  <2>1. disk' = disk /\ stale' = stale
    BY <1>5 DEF ApplyStep, Disturbance, BeginApplication, Enter, EnterOpen, ObserveSource, ProtectSource,
       PrepareIntent, RecheckIntent, Inspect, Verify, GateOpen, Reload, Finish, BeginLive,
       DeclineLive, Interrupt, LiveTimeout, Throw, Defer, Complete, files
  <2> QED BY <1>2, <2>1
<1> QED BY <1>4, <1>5

(***************************************************************************)
(* A file of the inventory is captured or not.                             *)
(***************************************************************************)
LEMMA ResultFields ==
  ASSUME NEW s, DOMAIN s = ScanField, NEW path, NEW success
  PROVE  /\ DOMAIN ScanResult(s, path, success) = ScanField
         /\ ScanResult(s, path, success).phase = s.phase /\ ScanResult(s, path, success).seen = s.seen
         /\ s.retry => ScanResult(s, path, success).retry
<1> DEFINE t == ScanResult(s, path, success)
<1>1. /\ DOMAIN t = ScanField /\ t.phase = s.phase /\ t.seen = s.seen
      /\ t.retry = (s.retry \/ ~success)
  BY DEF ScanResult, ScanField
<1> HIDE DEF t
<1>2. s.retry => t.retry
  BY <1>1
<1> QED BY <1>1, <1>2 DEF t

(***************************************************************************)
(* saved(), beside an inventory: no revision is captured while a deletion  *)
(* is looked into, and a file that could not be asks for another round.    *)
(***************************************************************************)
LEMMA SavedLooked ==
  ASSUME LInv, SavedStart \/ SavedCapture \/ PollWatch
  PROVE  Looked' /\ scan'.phase = scan.phase
<1>1. /\ UNCHANGED <<disk, view, watched, stale>> /\ DOMAIN scan = ScanField
      /\ LookedList /\ LookedAll /\ LookedNone
  BY DEF SavedStart, SavedCapture, PollWatch, elsewhere, watching, LInv, Looked, IInv, ScanSound
<1>2. CASE SavedStart
  <2>1. scan' = scan /\ scan.phase \notin Deleting
    BY <1>2 DEF SavedStart, Deleting
  <2>2. work' = NoWork \/ ~work'.inventory
    BY <1>2 DEF SavedStart, Saving
  <2> QED BY <1>1, <2>1, <2>2 DEF Looked, LookedList, LookedAll, LookedNone, Absent, Deleting
<1>3. CASE PollWatch
  BY <1>1, <1>3, StillLooked DEF PollWatch, SameScan
<1>4. CASE SavedCapture
  <2>1. work # NoWork /\ work' = NoWork /\ scan.phase \notin Deleting /\ (work.inventory => scan.phase = "capture")
    BY <1>1, <1>4 DEF SavedCapture, LookedNone
  <2>2. PICK s : /\ s = scan \/ (work.inventory /\ \E p, success : s = ScanResult(scan, p, success))
                 /\ scan' = s \/ Schedule(s)
    BY <1>4 DEF SavedCapture
  <2>3. /\ DOMAIN s = ScanField /\ s.phase = scan.phase /\ s.seen = scan.seen
        /\ (scan.retry => s.retry) /\ (scan.phase = "list" => s.todo = scan.todo)
    <3>1. CASE s = scan
      BY <1>1, <3>1
    <3>2. CASE work.inventory /\ \E p, success : s = ScanResult(scan, p, success)
      <4>1. PICK p, success : s = ScanResult(scan, p, success)
        BY <3>2
      <4>2. scan.phase = "capture"
        BY <2>1, <3>2
      <4> QED BY <1>1, <4>1, <4>2, ResultFields
    <3> QED BY <2>2, <3>1, <3>2
  <2>4. /\ scan'.phase = scan.phase /\ scan'.seen = scan.seen
        /\ (scan.retry => scan'.retry) /\ (scan.phase = "list" => scan'.todo = scan.todo)
    BY <2>2, <2>3, ScheduleFields
  <2> QED BY <1>1, <2>1, <2>4 DEF Looked, LookedList, LookedAll, LookedNone, Absent, Deleting
<1> QED BY <1>2, <1>3, <1>4

(***************************************************************************)
(* The listing: a directory is watched before it is listed.                *)
(***************************************************************************)
LEMMA ListLooked ==
  ASSUME LInv, NEW path \in Path, ScanList(path)
  PROVE  Looked' /\ scan'.phase # "tombstone"
<1> DEFINE rest == scan.todo \ {path}
           seen == [p \in DOMAIN scan.seen \cup {path} |-> IF p = path THEN disk[p] ELSE scan.seen[p]]
           found == {p \in DOMAIN seen : ~Absent(seen[p])}
<1>1. /\ scan.phase = "list" /\ path \in scan.todo /\ watched' = watched \cup {path}
      /\ scan' = IF rest # {} THEN [scan EXCEPT !.todo = rest, !.seen = seen]
                 ELSE [scan EXCEPT !.phase = "read", !.todo = found, !.seen = [p \in found |-> seen[p]]]
      /\ UNCHANGED <<disk, work, stale>>
  BY DEF ScanList, Registered
<1>2. /\ DOMAIN scan = ScanField /\ Path \subseteq scan.todo \cup DOMAIN scan.seen
      /\ \A p \in DOMAIN scan.seen : p \in watched /\ (~stale => disk[p] = scan.seen[p])
      /\ (work # NoWork => ~work.inventory)
  BY <1>1 DEF LInv, Looked, IInv, ScanSound, LookedList, LookedNone
<1>3. \/ rest # {} /\ scan'.phase = "list" /\ scan'.todo = rest /\ scan'.seen = seen
      \/ rest = {} /\ scan'.phase = "read" /\ scan'.seen = [p \in found |-> seen[p]]
  <2> HIDE DEF seen, found, rest
  <2> QED BY <1>1, <1>2 DEF ScanField
<1>4. /\ DOMAIN seen = DOMAIN scan.seen \cup {path}
      /\ ~stale => \A p \in DOMAIN seen : disk[p] = seen[p]
      /\ \A p \in DOMAIN seen \ found : Absent(seen[p])
  BY <1>2
<1> HIDE DEF seen, found
<1>5. LookedList'
  <2>1. SUFFICES ASSUME scan'.phase = "list" PROVE LookedList'
    BY DEF LookedList
  <2> QED BY <1>1, <1>2, <1>3, <1>4, <2>1 DEF LookedList
<1>6. LookedAll'
  <2>1. SUFFICES ASSUME rest = {}, scan'.seen = [p \in found |-> seen[p]] PROVE LookedAll'
    BY <1>3 DEF LookedAll, Deleting
  <2>2. Path \subseteq DOMAIN seen /\ Path \subseteq watched'
    BY <1>1, <1>2, <1>4, <2>1
  <2>3. ~stale => \A p \in Path \ DOMAIN scan'.seen : Absent(disk[p])
    BY <1>4, <2>1, <2>2
  <2> QED BY <1>1, <2>2, <2>3 DEF LookedAll, Absent
<1>7. LookedNone'
  BY <1>1, <1>2, <1>3 DEF LookedNone, Deleting, NoWork
<1> QED BY <1>3, <1>5, <1>6, <1>7 DEF Looked

(***************************************************************************)
(* The reading, which forgets a file only when it asks for another round,  *)
(* and the capture of what was read.                                       *)
(***************************************************************************)
LEMMA ReadLooked ==
  ASSUME LInv, \/ ScanStart \/ ScanReadDone \/ ScanEnd
               \/ \E path \in Path : ScanRead(path) \/ ScanCapture(path)
  PROVE  Looked' /\ scan'.phase # "tombstone"
<1>1. DOMAIN scan = ScanField /\ LookedList /\ LookedAll /\ LookedNone
  BY DEF LInv, Looked, IInv, ScanSound
<1>2. ASSUME /\ UNCHANGED <<disk, stale, watched>>
             /\ scan.phase \in {"read", "capture"} /\ scan'.phase \in {"read", "capture", "end"}
             /\ (scan'.seen = scan.seen /\ (scan.retry => scan'.retry)) \/ scan'.retry
             /\ (work' = work /\ scan.phase = "read") \/ scan'.phase = "capture"
      PROVE  Looked' /\ scan'.phase # "tombstone"
  BY <1>1, <1>2 DEF Looked, LookedList, LookedAll, LookedNone, Absent, Deleting, NoWork
<1>3. CASE ScanStart \/ ScanEnd
  <2>1. CASE ScanStart
    <3>1. scan'.phase = "list" /\ scan'.todo = Path /\ DOMAIN scan'.seen = {} /\ work' = NoWork
      BY <2>1 DEF ScanStart, NoScan
    <3> QED BY <3>1 DEF Looked, LookedList, LookedAll, LookedNone, Deleting
  <2>2. CASE ScanEnd
    <3>1. scan'.phase = "idle" /\ work' = work /\ scan.phase = "end"
      BY <2>2 DEF ScanEnd, NoScan
    <3> QED BY <1>1, <3>1 DEF Looked, LookedList, LookedAll, LookedNone, Deleting, NoWork
  <2> QED BY <1>3, <2>1, <2>2
<1>4. CASE ScanReadDone
  <2>1. /\ UNCHANGED <<disk, stale, watched, work>> /\ scan.phase = "read"
        /\ scan'.phase \in {"capture", "end"} /\ scan'.seen = scan.seen /\ (scan.retry => scan'.retry)
    BY <1>1, <1>4 DEF ScanReadDone, elsewhere, watching, ScanField
  <2> QED BY <1>2, <2>1
<1>5. ASSUME NEW path \in Path, ScanRead(path) PROVE Looked' /\ scan'.phase # "tombstone"
  <2>1. /\ UNCHANGED <<disk, stale, watched, work>> /\ scan.phase = "read" /\ scan'.phase = "read"
    BY <1>1, <1>5 DEF ScanRead, elsewhere, watching, ScanField
  <2>2. (scan'.seen = scan.seen /\ (scan.retry => scan'.retry)) \/ scan'.retry
    BY <1>1, <1>5 DEF ScanRead, ScanField
  <2> QED BY <1>2, <2>1, <2>2
<1>6. ASSUME NEW path \in Path, ScanCapture(path) PROVE Looked' /\ scan'.phase # "tombstone"
  <2>1. UNCHANGED <<disk, stale, watched>> /\ scan.phase = "capture"
    BY <1>6 DEF ScanCapture, elsewhere, watching
  <2>2. \/ scan' = scan \/ scan' = ScanResult(scan, path, FALSE) \/ Schedule(ScanResult(scan, path, FALSE))
    BY <1>6 DEF ScanCapture
  <2>3. scan'.phase = "capture" /\ scan'.seen = scan.seen /\ (scan.retry => scan'.retry)
    <3> DEFINE t == ScanResult(scan, path, FALSE)
    <3>1. DOMAIN t = ScanField /\ t.phase = scan.phase /\ t.seen = scan.seen /\ (scan.retry => t.retry)
      BY <1>1, ResultFields
    <3> HIDE DEF t
    <3>2. scan' = scan \/ scan' = t \/ Schedule(t)
      BY <2>2 DEF t
    <3> QED BY <2>1, <3>1, <3>2, ScheduleFields
  <2> QED BY <1>2, <2>1, <2>3
<1> QED BY <1>3, <1>4, <1>5, <1>6

(***************************************************************************)
(* The search for a deleted document: each step defers, or goes on having  *)
(* asked the watch and looked at the file and its buffer.                  *)
(***************************************************************************)
LEMMA DeletionsLooked ==
  ASSUME LInv, ScanDeletions \/ ProtectDeleted \/ CheckDeleted \/ CaptureDeleted
  PROVE  Looked' /\ (scan'.phase = "tombstone" => \A p \in Path : Absent(disk[p]))
<1>1. /\ DOMAIN scan = ScanField /\ LookedList /\ LookedAll /\ LookedNone
      /\ UNCHANGED <<disk, view, watched, stale, work>>
  BY DEF LInv, Looked, IInv, ScanSound, ScanDeletions, ProtectDeleted, CheckDeleted, CaptureDeleted, elsewhere, watching
<1>2. work = NoWork /\ scan.phase \in {"capture"} \cup Deleting
  BY <1>1 DEF ScanDeletions, ProtectDeleted, CheckDeleted, CaptureDeleted, LookedNone, Deleting
<1>3. DOMAIN Deferred = ScanField /\ Deferred.phase = "end"
  BY <1>1 DEF Deferred, ScanField
<1>4. CASE scan'.phase = "end"
  BY <1>1, <1>2, <1>4 DEF Looked, LookedList, LookedAll, LookedNone, Deleting, NoWork
<1>5. CASE scan' = Deferred \/ Schedule(Deferred)
  <2> HIDE DEF Deferred
  <2> QED BY <1>3, <1>4, <1>5, ScheduleFields
<1>6. ASSUME ~scan.retry, DOMAIN scan.seen = {}, ~(scan'.retry /\ ~scan.retry), scan'.seen = scan.seen,
             scan'.phase \in Deleting,
             scan'.phase = "tombstone" => ~stale /\ view.path # PathOf[scan'.base]
      PROVE  Looked' /\ (scan'.phase = "tombstone" => \A p \in Path : Absent(disk[p]))
  <2>1. scan.phase \in {"read", "capture"} \cup Deleting
    BY <1>2 DEF Deleting
  <2>2. Path \subseteq watched /\ (~stale => \A p \in Path : Absent(disk[p]))
    BY <1>1, <1>6, <2>1 DEF LookedAll
  <2> QED BY <1>1, <1>2, <1>6, <2>2 DEF Looked, LookedList, LookedAll, LookedNone, Deleting, Absent, NoWork
<1>7. CASE ScanDeletions
  <2>1. \/ scan' = Deferred \/ Schedule(Deferred)
        \/ /\ scan' = [scan EXCEPT !.phase = "protect", !.base = journal.applied]
           /\ ~scan.retry /\ DOMAIN scan.seen = {}
        \/ scan' = [scan EXCEPT !.phase = "end"]
    BY <1>7 DEF ScanDeletions
  <2>2. CASE /\ scan' = [scan EXCEPT !.phase = "protect", !.base = journal.applied]
             /\ ~scan.retry /\ DOMAIN scan.seen = {}
    <3>1. scan'.phase = "protect" /\ scan'.seen = scan.seen /\ (scan'.retry <=> scan.retry)
      BY <1>1, <2>2 DEF ScanField
    <3> QED BY <1>6, <2>2, <3>1 DEF Deleting
  <2>3. CASE scan' = [scan EXCEPT !.phase = "end"]
    BY <1>1, <1>4, <2>3 DEF ScanField
  <2> QED BY <1>5, <2>1, <2>2, <2>3
<1>8. CASE ProtectDeleted
  <2>1. ~scan.retry /\ DOMAIN scan.seen = {} /\ (scan' = Deferred \/ scan' = [scan EXCEPT !.phase = "check"])
    BY <1>1, <1>8 DEF ProtectDeleted, LookedNone, Deleting
  <2>2. CASE scan' = [scan EXCEPT !.phase = "check"]
    <3>1. scan'.phase = "check" /\ scan'.seen = scan.seen /\ (scan'.retry <=> scan.retry)
      BY <1>1, <2>2 DEF ScanField
    <3> QED BY <1>6, <2>1, <3>1 DEF Deleting
  <2> QED BY <1>5, <2>1, <2>2
<1>9. CASE CheckDeleted
  <2>1. /\ ~scan.retry /\ DOMAIN scan.seen = {}
        /\ \/ scan' = Deferred \/ Schedule(Deferred)
           \/ /\ scan' = [scan EXCEPT !.phase = "tombstone"] /\ ~stale
              /\ view.path # PathOf[scan.base]
    BY <1>1, <1>9 DEF CheckDeleted, MissingSource, OpenAt, LookedNone, Deleting
  <2>2. CASE scan' = [scan EXCEPT !.phase = "tombstone"] /\ ~stale /\ view.path # PathOf[scan.base]
    <3>1. /\ scan'.phase = "tombstone" /\ scan'.seen = scan.seen /\ (scan'.retry <=> scan.retry)
          /\ scan'.base = scan.base
      BY <1>1, <2>2 DEF ScanField
    <3> QED BY <1>6, <2>1, <2>2, <3>1 DEF Deleting
  <2> QED BY <1>5, <2>1, <2>2
<1>10. CASE CaptureDeleted
  <2>1. scan' = Deferred \/ scan' = [scan EXCEPT !.phase = "end"]
    BY <1>10 DEF CaptureDeleted
  <2>2. CASE scan' = [scan EXCEPT !.phase = "end"]
    BY <1>1, <1>4, <2>2 DEF ScanField
  <2> QED BY <1>5, <2>1, <2>2
<1> QED BY <1>7, <1>8, <1>9, <1>10

(***************************************************************************)
(* Every step keeps what the inventory has looked at; only CheckDeleted    *)
(* goes on to a tombstone.                                                 *)
(***************************************************************************)
LEMMA NextLooked ==
  ASSUME LInv, [Next]_vars
  PROVE  LInv' /\ (scan'.phase = "tombstone" /\ scan.phase # "tombstone" => \A p \in Path : Absent(disk[p]))
<1>1. IInv'
  BY NextInductive DEF LInv
<1>2. CASE UserStep \/ ApplyStep \/ Disturbance
  <2>1. scan' = scan
    <3>1. CASE UserStep
      BY <3>1 DEF UserStep, Open, Type, Close, Save, ExternalWrite, ExternalMove
    <3>2. CASE ApplyStep \/ Disturbance
      BY <3>2 DEF ApplyStep, Disturbance, BeginApplication, Enter, EnterOpen, ObserveSource, ProtectSource,
         PrepareIntent, RecheckIntent, Inspect, Publish, RemoveSource, Verify, GateOpen, Reload, Finish, BeginLive,
         DeclineLive, Interrupt, LiveTimeout, Throw, Defer, Complete, workerState
    <3> QED BY <1>2, <3>1, <3>2
  <2> QED BY <1>1, <1>2, <2>1, UserLooked, ApplyLooked DEF LInv, Looked
<1>3. CASE \E r \in Incoming : ReceiveRevision(r)
  <2>1. SameScan /\ disk' = disk /\ stale' = stale /\ scan' = scan
    BY <1>3 DEF ReceiveRevision, SameScan, watching
  <2> QED BY <1>1, <2>1, StillLooked DEF LInv, Looked
<1>4. CASE Crash
  <2>1. scan'.phase = "idle" /\ work' = NoWork
    BY <1>4 DEF Crash, NoScan
  <2> QED BY <1>1, <2>1 DEF LInv, Looked, LookedList, LookedAll, LookedNone, Deleting
<1>5. CASE CaptureStep
  <2>1. CASE SavedStart \/ SavedCapture \/ PollWatch
    BY <1>1, <2>1, SavedLooked DEF LInv, Looked
  <2>2. CASE \E path \in Path : ScanList(path)
    BY <1>1, <2>2, ListLooked DEF LInv, Looked
  <2>3. CASE ScanStart \/ ScanReadDone \/ ScanEnd \/ \E path \in Path : ScanRead(path) \/ ScanCapture(path)
    BY <1>1, <2>3, ReadLooked DEF LInv, Looked
  <2>4. CASE ScanDeletions \/ ProtectDeleted \/ CheckDeleted \/ CaptureDeleted
    BY <1>1, <2>4, DeletionsLooked DEF LInv, Looked
  <2> QED BY <1>5, <2>1, <2>2, <2>3, <2>4 DEF CaptureStep, ScanStep
<1>6. CASE UNCHANGED vars
  <2>1. SameScan /\ disk' = disk /\ stale' = stale /\ scan' = scan
    BY <1>6 DEF vars, SameScan, watching
  <2> QED BY <1>1, <2>1, StillLooked DEF LInv, Looked
<1> QED BY <1>2, <1>3, <1>4, <1>5, <1>6 DEF Next

(***************************************************************************)
(* From its last check on, reconcile_deletions records the deletion of a   *)
(* document that no buffer has open at its path and that at the check was  *)
(* at no path, although only its own is looked at again: every directory   *)
(* is watched since before it was listed, and the watch is asked.          *)
(***************************************************************************)
THEOREM DeletionsAreOfMissing == Spec => DeletionIsOfMissing
<1> DEFINE Missing == scan'.phase = "tombstone" =>
                        /\ view'.path # PathOf[scan'.base]
                        /\ scan.phase # "tombstone" => \A p \in Path : Absent(disk[p])
<1>1. Init => LInv
  <2>1. Init => LookedList /\ LookedAll /\ LookedNone
    BY DEF Init, LookedList, LookedAll, LookedNone, Deleting, NoScan
  <2> QED BY <2>1, InitInductive DEF LInv, Looked
<1>2. LInv /\ [Next]_vars => LInv' /\ [Missing]_vars
  <2>1. SUFFICES ASSUME LInv, [Next]_vars PROVE LInv' /\ Missing
    OBVIOUS
  <2> QED BY <2>1, NextLooked DEF LInv, Looked, LookedNone
<1> QED BY <1>1, <1>2, PTL DEF Spec, DeletionIsOfMissing
============================================================================
