--------------------------- MODULE DocumentApply ---------------------------
(***************************************************************************)
(* apply_document_on_disk, the coordinator that installs a received        *)
(* revision over the local file, one action per access to shared state.    *)
(* It runs on its own thread for a closed document and, through            *)
(* apply_open_document, on the thread of the actor that owns an open one.  *)
(* An exception leaves through Throw, a deferral (live_source) through     *)
(* Defer; both end the attempt, and the worker tries again later.          *)
(***************************************************************************)
EXTENDS DocumentState

SourcePath == IF app.expected = None THEN PathOf[app.target] ELSE PathOf[app.expected]
TargetPath == PathOf[app.target]
Renamed == SourcePath # TargetPath
HasIntent == app.target \in DOMAIN journal.intents
ThisIntent == journal.intents[app.target]
Operation == ApplyOperation(app.target)

files == <<disk, clock, stale, authored>>
workerState == <<queue, work, scan, tracking, watched>>

At(pc) == app.pc = pc
Goto(pc) == app' = [app EXCEPT !.pc = pc]

\* Mutant: only the target's path is looked up.
TargetClosed == app.live \/ ~OpenAt(TargetPath)

\* ensure_closed: no other actor owns either path.
Closed == app.live \/ ~(OpenAt(SourcePath) \/ OpenAt(TargetPath))

Throw ==
  /\ app' = NoApp
  /\ UNCHANGED <<journal, files, history, view, workerState>>

\* catch (live_source): an intent made by this attempt is taken back unless
\* something was published.  A closed attempt is then offered to the actor
\* that owns the document.
Defer ==
  /\ journal' = IF app.prepared /\ ~app.published /\ CanAbandon(journal, app.target)
                THEN Abandoned(journal, app.target) ELSE journal
  /\ app' = IF app.live THEN NoApp ELSE [NoApp EXCEPT !.pc = "offer", !.target = app.target]
  /\ UNCHANGED <<files, history, view, workerState>>

\* The attempt succeeded: the worker schedules an inventory.
Complete ==
  /\ app' = NoApp
  /\ inventoried' = FALSE
  /\ UNCHANGED <<queue, work, scan, published, watched>>

\* application_step: an unfinished application first; otherwise, once the
\* Vault is inventoried, the only head.  Never during an inventory.
BeginApplication ==
  /\ At("idle") /\ scan = NoScan
  /\ \E target \in IF Pending(journal) # {} THEN Pending(journal)
                   ELSE IF inventoried THEN Candidates(journal) ELSE {} :
       app' = [NoApp EXCEPT !.pc = "enter", !.target = target]
  /\ UNCHANGED <<journal, files, history, view, workerState>>

\* What is already installed is reported as completed; a tombstone at another
\* path than the applied revision's is refused.
Enter ==
  /\ At("enter")
  /\ LET expected == IF HasIntent THEN ThisIntent.expected ELSE journal.applied
         done == IF HasIntent THEN ThisIntent.completed ELSE expected = app.target
         moved == expected # None /\ PathOf[expected] # TargetPath
     IN  \/ /\ done
            /\ Complete
            /\ UNCHANGED <<journal, files, history, view>>
         \/ /\ ~done /\ moved /\ ContentOf[app.target] = None
            /\ Throw
         \/ /\ ~done /\ (moved => ContentOf[app.target] # None)
            /\ app' = [app EXCEPT !.expected = expected,
                                  !.pc = IF HasIntent THEN "recheck" ELSE "observe"]
            /\ UNCHANGED <<journal, files, history, view, workerState>>

\* The deferral at the first ensure_closed.
EnterOpen ==
  /\ app.pc \in {"observe", "recheck"} /\ ~app.prepared
  /\ ~Closed
  /\ Defer

\* The target must be the only head and descend from the applied revision,
\* and the file must hold exactly what is applied.
ObserveSource ==
  /\ At("observe") /\ Closed
  /\ LET source == disk[SourcePath]
     IN  IF /\ Heads(journal) = {app.target}
            /\ app.expected # None => StrictAncestor(app.expected, app.target)
            /\ source.content = IF app.expected = None THEN None ELSE ContentOf[app.expected]
         THEN /\ app' = [app EXCEPT !.source = source, !.pc = "protect"]
              /\ UNCHANGED <<journal, files, history, view, workerState>>
         ELSE Throw

ProtectSource ==
  /\ At("protect")
  /\ IF Absent(app.source)
     THEN /\ Goto("prepare")
          /\ UNCHANGED <<journal, files, history, view, workerState>>
     ELSE IF CanProtect(Operation, SourcePath, app.source.content)
     THEN /\ Protect(Operation, SourcePath, app.source.content)
          /\ Goto("prepare")
          /\ UNCHANGED <<journal, files, view, workerState>>
     ELSE Throw

\* Mutant: prepare_apply does not compare the applied revision again.
PrepareUnchecked == app.target \notin DOMAIN journal.intents

MayPrepare == CanPrepare(journal, app.target, app.expected, SourcePath)

PrepareIntent ==
  /\ At("prepare")
  /\ IF MayPrepare
     THEN /\ journal' = Prepared(journal, app.target, app.expected, app.source.content)
          /\ app' = [app EXCEPT !.prepared = TRUE, !.pc = "recheck"]
          /\ UNCHANGED <<files, history, view, workerState>>
     ELSE Throw

\* The base is still the intent's, and the protected preimage can be
\* reconstructed.
RecheckIntent ==
  /\ At("recheck") /\ (app.prepared \/ Closed)
  /\ IF /\ journal.applied = ThisIntent.expected
        /\ ThisIntent.source # None =>
             Operation \in DOMAIN history /\ history[Operation].content = ThisIntent.source
     THEN /\ Goto("inspect")
          /\ UNCHANGED <<journal, files, history, view, workerState>>
     ELSE Throw

\* Mutant: a target that was installed before a crash counts as a change.
ChangedOrInstalled(source, installed) == ~Absent(source) /\ source.content # ThisIntent.source

\* The source holds neither the preimage nor, in place, the target.
Changed(source, installed) ==
  /\ ~Absent(source)
  /\ ~(installed /\ ~Renamed)
  /\ source.content # ThisIntent.source

\* What is left to do, from what the two paths hold now.  A file that is
\* neither the preimage nor the target is not touched.
Inspect ==
  /\ At("inspect")
  /\ LET source == disk[SourcePath]
         destination == disk[TargetPath]
         deleted == ContentOf[app.target] = None
         installed == ~deleted /\ destination.content = ContentOf[app.target]
         gone == Absent(source) /\ ThisIntent.source # None /\ ~deleted /\ ~installed
         occupied == ~deleted /\ ~installed /\ Renamed /\ ~Absent(destination)
         next == IF ~deleted /\ ~installed THEN "publish"
                 ELSE IF (deleted \/ Renamed) /\ ~Absent(source) THEN "remove"
                 ELSE "verify"
     IN  IF Changed(source, installed) \/ gone \/ occupied THEN Throw
         ELSE /\ app' = [app EXCEPT !.source = source, !.pc = next]
              /\ UNCHANGED <<journal, files, history, view, workerState>>

\* The application's own write supersedes what the user wrote there.
Installed(path, content) ==
  /\ Wrote(path, content)
  /\ authored' = {a \in authored : a[1] # path}

\* confined_root::replace and create: the file is still the one inspected.
PreimageHeld ==
  IF ~Absent(app.source) /\ ~Renamed THEN disk[SourcePath] = app.source
  ELSE Absent(disk[TargetPath])

Publish ==
  /\ At("publish") /\ Closed
  /\ IF PreimageHeld
     THEN /\ Installed(TargetPath, ContentOf[app.target])
          /\ app' = [app EXCEPT !.published = TRUE, !.lock = TRUE,
                       !.pc = IF Renamed /\ ~Absent(app.source) THEN "remove" ELSE "verify"]
          /\ UNCHANGED <<journal, history, view, workerState>>
     ELSE Throw

RemoveSource ==
  /\ At("remove") /\ Closed
  /\ IF disk[SourcePath] = app.source
     THEN /\ Installed(SourcePath, None)
          /\ app' = [app EXCEPT !.published = TRUE, !.lock = TRUE, !.pc = "verify"]
          /\ UNCHANGED <<journal, history, view, workerState>>
     ELSE Throw

\* The final observation.  The live variant gives the mutex back here.
Verify ==
  /\ At("verify") /\ Closed
  /\ IF /\ disk[TargetPath].content = ContentOf[app.target]
        /\ Renamed => Absent(disk[SourcePath])
     THEN /\ app' = [app EXCEPT !.lock = ~app.live, !.pc = IF app.live THEN "reload" ELSE "finish"]
          /\ UNCHANGED <<journal, files, history, view, workerState>>
     ELSE Throw

\* A gate fails because an actor owns a path.
GateOpen ==
  /\ app.pc \in {"publish", "remove", "verify"} /\ ~Closed
  /\ Defer

\* A gate or the first ensure_closed fails although no other actor owns a path:
\* the publication mutex is busy, the session lost its authorization, or
\* synchronization was paused.
Interrupt ==
  /\ app.pc \in {"observe", "publish", "remove", "verify"} \/ (At("recheck") /\ ~app.prepared)
  /\ Closed
  /\ Defer

\* The actor takes the installed file as its storage; a document that was
\* renamed or deleted it retires once the journal is finished.
Reload ==
  /\ At("reload")
  /\ IF Renamed \/ ContentOf[app.target] = None
     THEN /\ Goto("finish")
          /\ UNCHANGED <<journal, files, history, view, workerState>>
     ELSE IF disk[TargetPath].content = ContentOf[app.target]
     THEN /\ view' = [view EXCEPT !.captured = disk[TargetPath].content,
                                  !.stamp = disk[TargetPath].stamp]
          /\ Goto("finish")
          /\ UNCHANGED <<journal, files, history, workerState>>
     ELSE Throw

Finish ==
  /\ At("finish")
  /\ IF CanFinish(journal, app.target, ContentOf[app.target])
     THEN /\ journal' = Finished(journal, app.target)
          /\ view' = IF app.live /\ (Renamed \/ ContentOf[app.target] = None) THEN NoView ELSE view
          /\ Complete
          /\ UNCHANGED <<files, history>>
     ELSE Throw

---------------------------------------------------------------------------
(***************************************************************************)
(* apply_open_document: a continuation on the owner's thread, for a clean  *)
(* buffer whose captured storage is the base or already the target.        *)
(***************************************************************************)
OwnerQualifies ==
  LET base == IF HasIntent THEN ThisIntent.expected ELSE journal.applied
  IN  /\ base # None /\ journal.applied # None
      /\ OpenAt(PathOf[journal.applied]) /\ ~view.dirty
      /\ \/ view.captured = ContentOf[base]
         \/ HasIntent /\ view.captured = ContentOf[app.target]

BeginLive ==
  /\ At("offer") /\ OwnerQualifies
  /\ app' = [app EXCEPT !.pc = "enter", !.live = TRUE]
  /\ UNCHANGED <<journal, files, history, view, workerState>>

DeclineLive ==
  /\ At("offer") /\ ~OwnerQualifies
  /\ Throw

\* The owner did not start the continuation within 5 s, and it is cancelled.
LiveTimeout ==
  /\ At("offer") /\ OwnerQualifies
  /\ Throw

ApplyStep ==
  \/ BeginApplication \/ Enter \/ EnterOpen \/ ObserveSource \/ ProtectSource
  \/ PrepareIntent \/ RecheckIntent \/ Inspect \/ Publish \/ RemoveSource
  \/ Verify \/ GateOpen \/ Reload \/ Finish \/ BeginLive \/ DeclineLive
============================================================================
