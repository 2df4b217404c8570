--------------------------- MODULE RevisionStore ---------------------------
(***************************************************************************)
(* The transactions of revision_store on one device, in every order that   *)
(* its callers (peer exchange, saved-document capture, the conflict feed,  *)
(* the application coordinator, group recovery) can issue them.  Each      *)
(* method runs in one BEGIN IMMEDIATE transaction, so it is one action;    *)
(* the callers run on several threads with connections of their own, and   *)
(* nothing orders their calls.                                             *)
(*                                                                         *)
(* A call that throws or returns without writing leaves the journal as it  *)
(* is, and is a stuttering step.                                           *)
(***************************************************************************)
EXTENDS Journal

CONSTANTS
  Self,       \* this device's member identity
  Baseline,   \* "saved-source-baseline-v1", the origin of an inventory genesis
  Decided     \* merges for which verify_decision accepts the evidence

ASSUME StoreAssumption ==
  /\ Self \in Member /\ Baseline \in Member
  /\ Decided \subseteq Revision

VARIABLE journal

vars == <<journal>>

Init == journal = EmptyJournal

\* A peer's revision, whole (receive) or from the staging area (finish_receive).
Receive(r) ==
  /\ CanReceive(journal, r)
  /\ journal' = Inserted(journal, r)

\* capture_saved of bytes found at path.  The caller read expected from the
\* journal before, and the transaction compares it.  An inventory that finds
\* no applied revision writes the shared genesis.
CaptureSaved(origin, path, content, predecessor) ==
  LET expected == journal.applied
      id == SnapshotId(origin, path, content, expected)
  IN  /\ origin = Baseline => expected = None /\ predecessor = None
      /\ content = None =>      \* a tombstone copies the base's descriptor
           expected # None /\ path = PathOf[expected] /\ predecessor = None
      /\ CaptureAdmitted(journal, expected)
      /\ ~Unchanged(expected, path, content)
      /\ PredecessorMatches(expected, predecessor)
      /\ id \in Revision            \* bound: the instance's revisions
      /\ journal' = Captured(journal, id)

AcceptResolution(r) ==
  /\ r \in Rows(journal) /\ IsMerge(r)
  /\ r \in Decided
  /\ \E released \in SUBSET (Descendants(journal, r) \ journal.eligible) :
       LET S == journal.eligible \cup released
       IN  /\ AdmissionPass(journal, r, S)
           /\ journal' = Resolved(journal, r, S)

PrepareApply(target) ==
  LET expected == journal.applied
      path == IF expected = None THEN PathOf[target] ELSE PathOf[expected]
      source == IF expected = None THEN None ELSE ContentOf[expected]
  IN  /\ CanPrepare(journal, target, expected, path)
      /\ journal' = Prepared(journal, target, expected, source)

AbandonUnpublishedApply(target) ==
  /\ CanAbandon(journal, target)
  /\ journal' = Abandoned(journal, target)

FinishApply(target, observed) ==
  /\ CanFinish(journal, target, observed)
  /\ journal' = Finished(journal, target)

RecordApplied(r, expected) ==
  /\ CanRecord(journal, r, expected)
  /\ journal' = Recorded(journal, r)

\* recover_applied_deletions: a deletion of the previous group generation
\* becomes a root of the new journal; it is not applied by this.
RecoverAppliedDeletion(path) ==
  LET id == Seal(Self, path, None, {})
  IN  /\ id \in Revision \ Rows(journal)
      /\ Pending(journal) = {}
      /\ journal' = Inserted(journal, id)

Next ==
  \/ \E r \in Revision : Receive(r)
  \/ \E origin \in {Self, Baseline}, path \in Path,
        content \in Content \cup {None}, predecessor \in Content \cup {None} :
       CaptureSaved(origin, path, content, predecessor)
  \/ \E r \in Revision : AcceptResolution(r)
  \/ \E target \in Revision : PrepareApply(target)
  \/ \E target \in Revision : AbandonUnpublishedApply(target)
  \/ \E target \in Revision, observed \in Content \cup {None} : FinishApply(target, observed)
  \/ \E r \in Revision, expected \in Revision \cup {None} : RecordApplied(r, expected)
  \/ \E path \in Path : RecoverAppliedDeletion(path)

Spec == Init /\ [][Next]_vars

---------------------------------------------------------------------------
(***************************************************************************)
(* The journal's tables hold what their columns are declared to hold.      *)
(***************************************************************************)
TypeOK == JournalType(journal)

(***************************************************************************)
(* Receipt order is topological: every parent of a known revision is known *)
(* and has an earlier rowid.  accept_resolution and the exchange's         *)
(* inventory cursors rely on it.                                           *)
(***************************************************************************)
ReceiptIsTopological == Topological(journal)

(***************************************************************************)
(* The eligible table is exact: a revision is in it if and only if its     *)
(* parents are and, for a merge, its approval is recorded.  The table is   *)
(* only maintained incrementally, by admit_revision at insertion and at a  *)
(* decision; a descendant that arrived before the decision must not be     *)
(* left waiting, and nothing may be let in around it.                      *)
(***************************************************************************)
EligibleExact == Exact(journal)

(***************************************************************************)
(* The applied revision is eligible.  capture_saved sets it without asking *)
(* when the snapshot's identity is already in the journal.                 *)
(***************************************************************************)
AppliedEligible == AppliedIsEligible(journal)

(***************************************************************************)
(* At most one application is unfinished; while it is, the applied         *)
(* revision stays the one it was prepared against, which its target        *)
(* strictly descends from, so that the prepared operation can still be     *)
(* finished after a restart.                                               *)
(***************************************************************************)
PendingIsResumable == Resumable(journal)

(***************************************************************************)
(* A completed application is never undone: its target stays an ancestor   *)
(* of the applied revision.  apply_document_on_disk returns success at     *)
(* once for a completed operation and relies on this.                      *)
(***************************************************************************)
CompletedStaysApplied == CompletedApplied(journal)

(***************************************************************************)
(* The journal implements the abstract replica, with the eligible table as *)
(* the admitted set and the applied revision as the installed one.         *)
(***************************************************************************)
AbstractReplica == INSTANCE Replica WITH
  admitted <- journal.eligible, installed <- journal.applied

ImplementsReplica == AbstractReplica!Spec
============================================================================
