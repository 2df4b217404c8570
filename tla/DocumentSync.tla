---------------------------- MODULE DocumentSync ----------------------------
(***************************************************************************)
(* One device replicating one document: the editor, programs that change   *)
(* the Vault's files behind it, the peer exchange that delivers revisions, *)
(* the worker (DocumentCapture) and the application thread                 *)
(* (DocumentApply), in every interleaving of their accesses to the         *)
(* journal, the files and the history, with crashes of the process.        *)
(***************************************************************************)
EXTENDS DocumentApply, DocumentCapture

CONSTANTS
  Genesis,      \* the revision the device starts with, captured and applied
  Incoming,     \* revisions that peers may deliver
  UserContent,  \* contents the user may write
  UserAction,   \* what the user does, of {"open", "type", "write", "remove", "move"}
  MaxQueue,     \* notifications that fit the queue's byte budget
  MaxDeliveries, \* bound on deliveries
  MaxEdits,     \* bound on the user's actions
  MaxCrashes    \* bound on crashes

ASSUME SyncAssumption ==
  /\ Genesis \in Revision /\ ParentsOf[Genesis] = {} /\ ContentOf[Genesis] # None
  /\ \A r \in Incoming : r \in Revision /\ OriginOf[r] \in Member \ {Self, Baseline}
  /\ UserContent \subseteq Content
  /\ MaxQueue \in Nat /\ MaxDeliveries \in Nat /\ MaxEdits \in Nat /\ MaxCrashes \in Nat

VARIABLES edits, crashes   \* what is used up of the two bounds

vars == <<journal, disk, clock, history, view, queue, work, scan, tracking,
          watching, app, authored, edits, crashes>>

Init ==
  /\ journal = [Inserted(EmptyJournal, Genesis) EXCEPT !.applied = Genesis]
  /\ disk = [p \in Path |-> IF p = PathOf[Genesis] THEN File(ContentOf[Genesis], 1) ELSE File(None, 0)]
  /\ clock = 1
  /\ history = [o \in {} |-> None]
  /\ view = NoView /\ queue = <<>> /\ work = NoWork /\ scan = NoScan /\ app = NoApp
  /\ inventoried = FALSE /\ published = [p \in Path |-> 0]
  /\ watched = {} /\ stale = FALSE
  /\ authored = {}
  /\ edits = 0 /\ crashes = 0

---------------------------------------------------------------------------
(***************************************************************************)
(* The user.  While the owner's thread applies a revision the buffer's     *)
(* other commands wait.                                                    *)
(***************************************************************************)
Acts(kind) ==
  /\ kind \in UserAction
  /\ edits < MaxEdits
  /\ edits' = edits + 1

\* buffer_import, under the publication mutex.
Open(path) ==
  /\ Acts("open")
  /\ view = NoView /\ ~Absent(disk[path]) /\ ~PublicationLocked
  /\ view' = [NoView EXCEPT !.path = path, !.captured = disk[path].content, !.stamp = disk[path].stamp]
  /\ UNCHANGED <<journal, disk, clock, history, queue, work, scan, tracking, watching, app, authored, crashes>>

Type ==
  /\ Acts("type")
  /\ view # NoView /\ ~view.dirty /\ ~app.live
  /\ view' = [view EXCEPT !.dirty = TRUE]
  /\ UNCHANGED <<journal, disk, clock, history, queue, work, scan, tracking, watching, app, authored, crashes>>

\* qtm_hodarium_saved: the notification is dropped when the queue is full.
Notified(path, predecessor, content) ==
  queue' = IF Len(queue) < MaxQueue
           THEN Append(queue, [path |-> path, predecessor |-> predecessor, content |-> content])
           ELSE queue

\* The save command: a conditional replacement of the captured revision,
\* then a notification with the exact bytes and their predecessor.
Save(content) ==
  /\ view.dirty /\ ~app.live
  /\ content # view.captured
  /\ disk[view.path].stamp = view.stamp
  /\ Wrote(view.path, content)
  /\ authored' = authored \cup {<<view.path, content>>}
  /\ view' = [view EXCEPT !.captured = content, !.stamp = clock + 1, !.dirty = FALSE]
  /\ Notified(view.path, view.captured, content)
  /\ UNCHANGED <<journal, history, work, scan, tracking, watched, app, edits, crashes>>

Close ==
  /\ view # NoView /\ ~app.live
  /\ view' = NoView
  /\ UNCHANGED <<journal, disk, clock, history, queue, work, scan, tracking, watching, app, authored, edits, crashes>>

\* Programs that write or remove the file without the editor, or bring a
\* removed document back at any path.
ExternalWrite(path, content) ==
  /\ Acts(IF content = None THEN "remove" ELSE "write")
  /\ content # disk[path].content
  /\ Absent(disk[path]) => \A p \in Path : Absent(disk[p])
  /\ Wrote(path, content)
  /\ authored' = authored \cup IF content = None THEN {<<p, None>> : p \in Path} ELSE {<<path, content>>}
  /\ UNCHANGED <<journal, history, view, queue, work, scan, tracking, watched, app, crashes>>

ExternalMove(from, to) ==
  /\ Acts("move")
  /\ from # to /\ ~Absent(disk[from]) /\ Absent(disk[to])
  /\ disk' = [disk EXCEPT ![from] = File(None, clock + 1), ![to] = File(disk[from].content, clock + 1)]
  /\ clock' = clock + 1
  /\ Touched({from, to})
  /\ authored' = authored \cup {<<to, disk[from].content>>}
  /\ UNCHANGED <<journal, history, view, queue, work, scan, tracking, watched, app, crashes>>

---------------------------------------------------------------------------
\* The exchange delivers a revision, perhaps a rival of an earlier one, which
\* leaves two heads and nothing more to apply.
ReceiveRevision(r) ==
  /\ Cardinality(Rows(journal) \cap Incoming) < MaxDeliveries
  /\ CanReceive(journal, r)
  /\ journal' = Inserted(journal, r)
  /\ UNCHANGED <<disk, clock, history, view, queue, work, scan, tracking, watching, app, authored, edits, crashes>>

\* The process ends and starts again: what is in memory is gone.
Crash ==
  /\ crashes < MaxCrashes
  /\ crashes' = crashes + 1
  /\ view' = NoView /\ queue' = <<>> /\ work' = NoWork /\ scan' = NoScan /\ app' = NoApp
  /\ inventoried' = FALSE /\ published' = [p \in Path |-> 0]
  /\ watched' = {} /\ stale' = FALSE
  /\ UNCHANGED <<journal, disk, clock, history, authored, edits>>

UserStep ==
  \/ \E path \in Path : Open(path)
  \/ Type \/ Close
  \/ \E content \in UserContent : Save(content)
  \/ \E path \in Path, content \in UserContent \cup {None} : ExternalWrite(path, content)
  \/ \E from, to \in Path : ExternalMove(from, to)

bounds == <<edits, crashes>>

Disturbance == Interrupt \/ LiveTimeout

Next ==
  \/ UserStep
  \/ \E r \in Incoming : ReceiveRevision(r)
  \/ Crash
  \/ CaptureStep /\ UNCHANGED bounds
  \/ ApplyStep /\ UNCHANGED bounds
  \/ Disturbance /\ UNCHANGED bounds

Spec == Init /\ [][Next]_vars

(***************************************************************************)
(* Fairness.  Each thread keeps running.  An attempt that fails is made    *)
(* again 5 s later and an inventory that fails 30 s later, which leaves    *)
(* room for the other in between, so neither is starved by the other.      *)
(***************************************************************************)
Fairness ==
  /\ WF_vars((SavedStart \/ SavedCapture) /\ UNCHANGED bounds)
  /\ WF_vars((ScanStep \/ PollWatch) /\ UNCHANGED bounds)
  /\ WF_vars(ApplyStep /\ UNCHANGED bounds)
  /\ SF_vars((ScanStart \/ PollWatch) /\ UNCHANGED bounds)
  /\ SF_vars(BeginApplication /\ UNCHANGED bounds)

FairSpec == Spec /\ Fairness

---------------------------------------------------------------------------
(***************************************************************************)
(* What a notification cannot see.  It carries a save's bytes and those    *)
(* that they replaced, and capture_saved compares the latter with the      *)
(* applied revision, never with the file.  While it waits the file may be  *)
(* given the replaced bytes back (Restored), or some file may hold them    *)
(* (Echoed); the comparison then succeeds although the save was undone.    *)
(***************************************************************************)
Notices == {queue[i] : i \in 1..Len(queue)} \cup (IF work # NoWork /\ ~work.inventory THEN {work} ELSE {})

Restored == \E n \in Notices : ~Absent(disk[n.path]) /\ disk[n.path].content = n.predecessor

Echoed == \E n \in Notices, p \in Path : ~Absent(disk[p]) /\ disk[p].content = n.predecessor

\* The behaviors in which that does not happen.
UnrestoredSpec == Init /\ [][Next /\ ~Restored']_vars

UnechoedSpec == Init /\ [][Next /\ ~Echoed']_vars

---------------------------------------------------------------------------
(***************************************************************************)
(* The journal is well typed, the files' metadata is never newer than the  *)
(* last write, and what the threads hold are paths, contents and known     *)
(* revisions: a target under application is in the journal.                *)
(***************************************************************************)
TypeOK ==
  /\ JournalType(journal)
  /\ \A p \in Path : disk[p].content \in Content \cup {None} /\ disk[p].stamp \in 0..clock
  /\ view.path \in Path \cup {None} /\ view.captured \in Content \cup {None}
  /\ \A o \in DOMAIN history : history[o].content \in Content /\ history[o].path \in Path
  /\ scan.todo \subseteq Path /\ DOMAIN scan.seen \subseteq Path
  /\ app.target \in Rows(journal) \cup {None}

(***************************************************************************)
(* Whatever the threads interleave, the journal only changes by a          *)
(* transaction of RevisionStore with the arguments that it allows, so that *)
(* what is proved of RevisionStore holds here.                             *)
(***************************************************************************)
Store == INSTANCE RevisionStore WITH Decided <- {}

JournalSteps == [][journal' # journal => Store!Next]_vars

(***************************************************************************)
(* A file that the application replaces or removes holds exactly the       *)
(* applied revision, is protected in File History, and is not the file of  *)
(* a buffer with unsaved changes or of one that does not take part: the    *)
(* user's bytes are never destroyed, in whatever order saves, opens and    *)
(* external writes fall between the checks.                                *)
(***************************************************************************)
PreimageSafe ==
  [][app' # app =>
       \A p \in Path :
         (~Absent(disk[p]) /\ disk'[p] # disk[p]) =>
           /\ disk[p].content \in ProtectedContents
           /\ disk[p].content = ContentOf[journal.applied]
           /\ OpenAt(p) => app.live /\ ~view.dirty]_vars

(***************************************************************************)
(* A revision captured on this device, a tombstone included, records       *)
(* something the user did to that path since the application last wrote    *)
(* it.  A notification or an inventory that was overtaken by an            *)
(* application never reverts it, and a document that was only moved is     *)
(* never taken for deleted.                                                *)
(***************************************************************************)
CapturesAreAuthored ==
  [][LET r == journal'.applied
     IN  (r # journal.applied /\ r # app.target) =>
           <<PathOf[r], ContentOf[r]>> \in authored]_vars

\* The files are exactly those of the applied revision.
FilesAreApplied ==
  \A p \in Path :
    disk[p].content = IF p = PathOf[journal.applied] THEN ContentOf[journal.applied] ELSE None

(***************************************************************************)
(* When the Vault is inventoried, the watch has seen nothing since and no  *)
(* thread is at work, the files are those of the applied revision: what    *)
(* notifications and inventories miss of each other's work is made up for. *)
(***************************************************************************)
InventoriedIsCurrent ==
  (inventoried /\ ~stale /\ queue = <<>> /\ work = NoWork /\ scan = NoScan /\ app = NoApp) =>
    FilesAreApplied

(***************************************************************************)
(* From its last check on, reconcile_deletions records the deletion of a   *)
(* document that no buffer has open at its path, and that at the check was *)
(* at no path, although it looks at the applied one only: whatever was     *)
(* re-created, moved or opened since the directories were listed.          *)
(***************************************************************************)
DeletionIsOfMissing ==
  [][scan'.phase = "tombstone" =>
       /\ view'.path # PathOf[scan'.base]
       /\ scan.phase # "tombstone" => \A p \in Path : Absent(disk[p])]_vars

(***************************************************************************)
(* Once the document is closed for good, whatever the user did to its file *)
(* is captured, although notifications are dropped, refused or lost in a   *)
(* crash and an inventory may be overtaken, as long as no file is given    *)
(* back the bytes that its waiting notification says were replaced.  (An   *)
(* inventory may find those applied, and the notification then makes the   *)
(* undone save the applied revision without asking for another one.)       *)
(***************************************************************************)
EditsCaptured == ([]~Restored /\ <>[](view = NoView)) => <>[]FilesAreApplied

\* Interruptions end: from some time on there is none but such as end an
\* attempt in the way that it would have ended without.
Undisturbed == <>[][Disturbance => ApplyStep]_vars

(***************************************************************************)
(* An application does not stay unfinished once interruptions end and the  *)
(* document is closed: apply_document_on_disk completes the intent it      *)
(* finds or takes it back.                                                 *)
(***************************************************************************)
IntentsSettle ==
  (Undisturbed /\ <>[](view = NoView)) => []<>(Pending(journal) = {})

\* An open document is the applied one, without unsaved changes.
Available == view = NoView \/ (OpenAt(PathOf[journal.applied]) /\ ~view.dirty)

(***************************************************************************)
(* Once interruptions end, a document without conflict is brought to its   *)
(* only head, whatever crashes fell between the steps of the application   *)
(* and whether it is open or closed, unless it is left open with unsaved   *)
(* changes or at another path than the applied one.  (apply_open_document  *)
(* looks for an owner of the applied path only, so the document that a     *)
(* rename has reached before a crash is never finished while it is open.)  *)
(***************************************************************************)
Converges ==
  (Undisturbed /\ <>[]Available) =>
    <>[](\A r \in Revision : Heads(journal) = {r} => journal.applied = r)
============================================================================
