-------------------------- MODULE DocumentCapture --------------------------
(***************************************************************************)
(* The worker's side: saved(), which turns bytes the editor saved or the   *)
(* inventory found into a revision, and the inventory of the Vault, which  *)
(* finds what no notification reported and infers deletions.  The listing  *)
(* and reading of files runs on a thread of its own; everything else runs  *)
(* on the worker's, where a call is not interleaved with another.  No      *)
(* inventory runs while an application does.                               *)
(***************************************************************************)
EXTENDS DocumentState

elsewhere == <<disk, clock, view, watching, app, authored>>

\* schedule_inventory: a scan already begun is followed by another.
Schedule(s) ==
  /\ inventoried' = FALSE
  /\ scan' = IF s = NoScan THEN s ELSE [s EXCEPT !.again = TRUE]

---------------------------------------------------------------------------
(***************************************************************************)
(* saved(): first the journal's applied revision is read, then, in another *)
(* transaction, capture_saved compares it.                                 *)
(***************************************************************************)
Saving(path, content, predecessor, inventory) ==
  [path |-> path, content |-> content, predecessor |-> predecessor,
   expected |-> journal.applied, inventory |-> inventory]

\* The object's source still exists at another path.
SecondPath(path) ==
  LET base == journal.applied
  IN  /\ base # None
      /\ ContentOf[base] # None
      /\ PathOf[base] # path
      /\ ~Absent(disk[PathOf[base]])

\* A queued notification of the editor.  It is dropped when saved() throws.
SavedStart ==
  /\ work = NoWork /\ queue # <<>>
  /\ scan.phase \notin {"protect", "check", "tombstone"}
  /\ queue' = Tail(queue)
  /\ LET note == Head(queue)
         refused == SecondPath(note.path) \/ (journal.applied # None /\ note.predecessor = None)
     IN  work' = IF refused THEN NoWork
                 ELSE Saving(note.path, note.content, note.predecessor, FALSE)
  /\ UNCHANGED <<journal, history, scan, tracking, elsewhere>>

\* The inventory's file is captured, or stays unpublished and the scan fails.
ScanResult(s, path, success) ==
  [s EXCEPT !.todo = @ \ {path},
            !.captured = IF success THEN @ \cup {path} ELSE @,
            !.retry = @ \/ ~success]

CaptureOrigin(w) == IF w.inventory /\ w.expected = None THEN Baseline ELSE Self

\* capture_saved.  A result other than success asks for an inventory when it
\* is null, and is only reported when it is an exception.
SavedCapture ==
  /\ work # NoWork
  /\ LET w == work
         id == SnapshotId(CaptureOrigin(w), w.path, w.content, w.expected)
         moved == journal.applied # w.expected
         throws == ~moved /\ ~CaptureAdmitted(journal, w.expected)
         same == Unchanged(w.expected, w.path, w.content)
         foreign == ~same /\ ~PredecessorMatches(w.expected, w.predecessor)
         result(success) == IF w.inventory THEN ScanResult(scan, w.path, success) ELSE scan
     IN  /\ work' = NoWork
         /\ \/ /\ ~moved /\ ~throws /\ same
               /\ scan' = result(TRUE)
               /\ UNCHANGED <<journal, tracking>>
            \/ /\ ~moved /\ ~throws /\ ~same /\ ~foreign
               /\ id \in Revision                    \* bound: chain length
               /\ journal' = Captured(journal, id)
               /\ scan' = result(TRUE)
               /\ UNCHANGED tracking
            \/ /\ moved \/ (~throws /\ foreign)
               /\ Schedule(result(FALSE))
               /\ UNCHANGED <<journal, published>>
            \/ /\ throws
               /\ scan' = result(FALSE)
               /\ UNCHANGED <<journal, tracking>>
  /\ UNCHANGED <<history, queue, elsewhere>>

---------------------------------------------------------------------------
(***************************************************************************)
(* The inventory.  Its start resets the watch's comparison point; each     *)
(* directory is registered with the watch before it is listed.             *)
(***************************************************************************)
ScanStart ==
  /\ scan = NoScan /\ work = NoWork /\ app = NoApp /\ ~inventoried
  /\ scan' = [NoScan EXCEPT !.phase = "list", !.todo = Path]
  /\ stale' = FALSE
  /\ UNCHANGED <<journal, disk, clock, history, view, queue, work, tracking, watched, app, authored>>

\* inventory_step's poll: the watch reports a change since the last scan.
PollWatch ==
  /\ scan = NoScan /\ work = NoWork /\ app = NoApp /\ inventoried /\ stale
  /\ inventoried' = FALSE
  /\ UNCHANGED <<journal, history, queue, work, scan, published, elsewhere>>

Registered(path) == watched' = watched \cup {path}

ScanList(path) ==
  /\ scan.phase = "list" /\ path \in scan.todo
  /\ Registered(path)
  /\ LET rest == scan.todo \ {path}
         seen == [p \in DOMAIN scan.seen \cup {path} |->
                    IF p = path THEN disk[p] ELSE scan.seen[p]]
         found == {p \in DOMAIN seen : ~Absent(seen[p])}
     IN  scan' = IF rest # {} THEN [scan EXCEPT !.todo = rest, !.seen = seen]
                 ELSE [scan EXCEPT !.phase = "read", !.todo = found,
                                   !.seen = [p \in found |-> seen[p]]]
  /\ UNCHANGED <<journal, disk, clock, history, view, queue, work, tracking, stale, app, authored>>

\* Mutant: the cache is consulted by path alone.
CachedByPath(path) == published[path] # 0

\* The cache holds this file, as it is now, as captured.
Cached(path) == published[path] = disk[path].stamp

\* A file that changed since it was listed is left to the next inventory; one
\* that is known as published is not captured again.
ScanRead(path) ==
  /\ scan.phase = "read" /\ path \in scan.todo
  /\ scan' =
       IF disk[path] # scan.seen[path]
       THEN [scan EXCEPT !.todo = @ \ {path}, !.retry = TRUE,
                         !.seen = [p \in DOMAIN @ \ {path} |-> @[p]]]
       ELSE [scan EXCEPT !.todo = @ \ {path},
                         !.captured = IF Cached(path)
                                      THEN @ \cup {path} ELSE @]
  /\ UNCHANGED <<journal, history, queue, work, tracking, elsewhere>>

\* The source UUID at two paths is an error, and neither is captured.
ScanReadDone ==
  /\ scan.phase = "read" /\ scan.todo = {}
  /\ LET found == DOMAIN scan.seen
         duplicate == \E p, q \in found : p # q
     IN  scan' = IF duplicate
                 THEN [scan EXCEPT !.phase = "end", !.captured = {}, !.retry = TRUE]
                 ELSE [scan EXCEPT !.phase = "capture", !.todo = found \ scan.captured]
  /\ UNCHANGED <<journal, history, queue, work, tracking, elsewhere>>

\* The file must still be the one that was read.
ScanCapture(path) ==
  /\ scan.phase = "capture" /\ path \in scan.todo /\ work = NoWork
  /\ LET file == scan.seen[path]
     IN  IF disk[path] # file
         THEN /\ IF Absent(disk[path])
                 THEN scan' = ScanResult(scan, path, FALSE) /\ UNCHANGED inventoried
                 ELSE Schedule(ScanResult(scan, path, FALSE))
              /\ UNCHANGED work
         ELSE /\ UNCHANGED inventoried
              /\ IF SecondPath(path)
                 THEN scan' = ScanResult(scan, path, FALSE) /\ UNCHANGED work
                 ELSE work' = Saving(path, file.content, None, TRUE) /\ UNCHANGED scan
  /\ UNCHANGED <<journal, history, queue, published, elsewhere>>

---------------------------------------------------------------------------
(***************************************************************************)
(* reconcile_deletions.  A document that the journal has applied and the   *)
(* inventory did not meet was deleted, unless the inventory was overtaken. *)
(***************************************************************************)
MissingSource(base) == ~OpenAt(PathOf[base]) /\ Absent(disk[PathOf[base]])

Deferred == [scan EXCEPT !.phase = "end", !.retry = TRUE]

ScanDeletions ==
  /\ scan.phase = "capture" /\ scan.todo = {} /\ work = NoWork
  /\ LET base == journal.applied
         unseen == base # None /\ ContentOf[base] # None /\ DOMAIN scan.seen = {}
     IN  \/ /\ ~scan.retry /\ stale
            /\ Schedule(Deferred)
         \/ /\ ~scan.retry /\ ~stale /\ unseen
            /\ scan' = IF MissingSource(base)
                       THEN [scan EXCEPT !.phase = "protect", !.base = base] ELSE Deferred
            /\ UNCHANGED inventoried
         \/ /\ scan.retry \/ (~stale /\ ~unseen)
            /\ scan' = [scan EXCEPT !.phase = "end"]
            /\ UNCHANGED inventoried
  /\ UNCHANGED <<journal, history, queue, work, published, elsewhere>>

ProtectDeleted ==
  /\ scan.phase = "protect"
  /\ LET path == PathOf[scan.base]
         content == ContentOf[scan.base]
         operation == DeleteOperation(scan.base)
     IN  IF CanProtect(operation, path, content)
         THEN Protect(operation, path, content) /\ scan' = [scan EXCEPT !.phase = "check"]
         ELSE scan' = Deferred /\ UNCHANGED history
  /\ UNCHANGED <<journal, queue, work, tracking, elsewhere>>

\* Mutant: the watch is not asked again.
CheckDeletedUnwatched ==
  /\ scan.phase = "check" /\ ~PublicationLocked
  /\ scan' = IF MissingSource(scan.base) THEN [scan EXCEPT !.phase = "tombstone"] ELSE Deferred
  /\ UNCHANGED <<journal, history, queue, work, tracking, elsewhere>>

\* publish, under the publication mutex: the watch and the file once more.
CheckDeleted ==
  /\ scan.phase = "check" /\ ~PublicationLocked
  /\ IF stale THEN Schedule(Deferred)
     ELSE /\ scan' = IF MissingSource(scan.base)
                     THEN [scan EXCEPT !.phase = "tombstone"] ELSE Deferred
          /\ UNCHANGED inventoried
  /\ UNCHANGED <<journal, history, queue, work, published, elsewhere>>

\* capture_saved of the tombstone; null and an exception both defer.
CaptureDeleted ==
  /\ scan.phase = "tombstone"
  /\ LET id == SnapshotId(Self, PathOf[scan.base], None, scan.base)
     IN  IF CaptureAdmitted(journal, scan.base)
         THEN /\ id \in Revision                     \* bound: chain length
              /\ journal' = Captured(journal, id)
              /\ scan' = [scan EXCEPT !.phase = "end"]
         ELSE scan' = Deferred /\ UNCHANGED journal
  /\ UNCHANGED <<history, queue, work, tracking, elsewhere>>

ScanEnd ==
  /\ scan.phase = "end"
  /\ inventoried' = (~scan.retry /\ ~scan.again)
  /\ published' = [p \in Path |->
       IF p \in DOMAIN scan.seen \cap scan.captured THEN scan.seen[p].stamp ELSE 0]
  /\ scan' = NoScan
  /\ UNCHANGED <<journal, history, queue, work, elsewhere>>

ScanStep ==
  \/ ScanStart
  \/ \E path \in Path : ScanList(path) \/ ScanRead(path) \/ ScanCapture(path)
  \/ ScanReadDone \/ ScanDeletions \/ ProtectDeleted \/ CheckDeleted
  \/ CaptureDeleted \/ ScanEnd

CaptureStep == SavedStart \/ SavedCapture \/ PollWatch \/ ScanStep
============================================================================
