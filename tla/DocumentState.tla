--------------------------- MODULE DocumentState ---------------------------
(***************************************************************************)
(* The state that one device's threads share about one replicated          *)
(* document: its journal, its file (at one of several paths), File         *)
(* History, the editor buffer that may have it open, the worker that       *)
(* captures saves and inventories the Vault, and the thread that applies a *)
(* received revision.  A crash keeps the journal, the files and the        *)
(* history and nothing else.                                               *)
(***************************************************************************)
EXTENDS Journal, Sequences

CONSTANTS
  Self,       \* this device's member identity
  Baseline    \* origin of an inventory genesis

\* A member's identity is a random token of the authority; a buffer without a
\* path has none of the Vault's.
ASSUME DeviceAssumption == Self \in Member /\ Baseline \in Member /\ Self # Baseline /\ None \notin Path

VARIABLES
  journal,      \* Journal record of the document
  disk,         \* path -> file; stamp stands for the metadata same_revision
                \*   compares (inode, size, times), 0 for a file never written
  clock,        \* the last stamp given out
  history,      \* protected_versions of File History, by operation
  view,         \* the open buffer, or NoView
  queue,        \* save notifications queued for the worker
  work,         \* the call of saved() in progress, or NoWork
  scan,         \* the inventory in progress, or NoScan
  inventoried,  \* inventory_tracking::inventoried
  published,    \* inventory_tracking::cache: path -> stamp last captured
  watched,      \* directories the source watch is registered in, by path
  stale,        \* the watch's revision is not the one the last inventory saw
  app,          \* the application in progress, or NoApp
  authored      \* what the user wrote: <<path, content>> pairs written
                \*   since the application thread last wrote that path; a
                \*   removal is <<path, None>> for every path

tracking == <<inventoried, published>>
watching == <<watched, stale>>

---------------------------------------------------------------------------
(***************************************************************************)
(* Files.  A write gives a file new metadata and counts as an event in its *)
(* directory when the watch is registered there; source_watch::revision    *)
(* drains the kernel's queue, so an event is never seen late.              *)
(***************************************************************************)
File(content, stamp) == [content |-> content, stamp |-> stamp]
Absent(file) == file.content = None

\* Mutant: an event that arrives during an inventory is dropped.
TouchedBetweenScans(paths) == stale' = (stale \/ (scan.phase = "idle" /\ paths \cap watched # {}))

Touched(paths) == stale' = (stale \/ paths \cap watched # {})

\* Mutant: two writes may leave the same metadata.
WroteSameStamp(path, content) ==
  /\ disk' = [disk EXCEPT ![path] = File(content, clock + 1)]
  /\ clock' = clock
  /\ Touched({path})

Wrote(path, content) ==
  /\ disk' = [disk EXCEPT ![path] = File(content, clock + 1)]
  /\ clock' = clock + 1
  /\ Touched({path})

---------------------------------------------------------------------------
NoView == [path |-> None, captured |-> None, stamp |-> 0, dirty |-> FALSE]
NoWork == [path |-> None, content |-> None, predecessor |-> None,
           expected |-> None, inventory |-> FALSE]
NoScan == [phase |-> "idle",
           todo |-> {},                  \* paths still to be handled in this phase
           seen |-> [p \in {} |-> 0],    \* files found: path -> file
           captured |-> {},              \* the cache entries that are published
           base |-> None,                \* the revision whose file is missing
           retry |-> FALSE, again |-> FALSE]
NoApp == [pc |-> "idle", target |-> None, expected |-> None, source |-> File(None, 0),
          prepared |-> FALSE, published |-> FALSE, lock |-> FALSE, live |-> FALSE]

\* published_buffer_actor_id: some actor owns the path.
OpenAt(path) == view.path = path

\* document_publication_mutex is held by the application or by the final
\* check of a deletion; buffer_import waits for it.
PublicationLocked == app.lock \/ scan.phase = "tombstone"

\* history.protect: idempotent by operation, which is bound to its source
\* path and bytes.
Version(path, content) == [path |-> path, content |-> content]
CanProtect(operation, path, content) ==
  operation \in DOMAIN history => history[operation] = Version(path, content)
Protect(operation, path, content) ==
  history' = [o \in DOMAIN history \cup {operation} |->
                IF o = operation THEN Version(path, content) ELSE history[o]]

ApplyOperation(target) == <<"apply", target>>
DeleteOperation(base) == <<"delete", base>>

ProtectedContents == {history[o].content : o \in DOMAIN history}
============================================================================
