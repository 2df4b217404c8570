------------------------ MODULE RevisionStoreProofs ------------------------
(***************************************************************************)
(* The invariants of RevisionStore hold, and it implements Replica, for    *)
(* every graph of revisions, every member and every set of decisions.      *)
(***************************************************************************)
EXTENDS RevisionStore, JournalProofs

(***************************************************************************)
(* The inductive invariant: a consistent journal whose approvals are all   *)
(* decisions of the authority.                                             *)
(***************************************************************************)
IInv == Consistent(journal) /\ journal.approved \subseteq Decided

\* What every step does to the eligible table and the applied revision.
Advances ==
  /\ journal.eligible \subseteq journal'.eligible
  /\ \/ journal'.applied = journal.applied
     \/ /\ journal'.applied \in journal'.eligible
        /\ journal.applied = None \/ journal.applied \in AncestorsOf[journal'.applied]

(***************************************************************************)
(* capture_saved: the identity it computes names the base as only parent.  *)
(***************************************************************************)
LEMMA SnapshotParents ==
  ASSUME StoreAssumption, IInv, NEW origin \in {Self, Baseline}, NEW path \in Path,
         NEW content \in Content \cup {None},
         SnapshotId(origin, path, content, journal.applied) \in Revision
  PROVE  ParentsOf[SnapshotId(origin, path, content, journal.applied)]
           = CaptureParents(journal.applied)
<1>1. CaptureParents(journal.applied) \in {{}} \cup {{r} : r \in Revision}
  BY DEF IInv, Consistent, JournalType, CaptureParents
<1>2. origin \in Member
  BY StoreAssumption
<1> QED BY <1>1, <1>2, GraphAssumption DEF SnapshotId

(***************************************************************************)
(* Every transaction preserves the invariant and advances the object.      *)
(***************************************************************************)
LEMMA StepInductive ==
  ASSUME IInv, Next
  PROVE  IInv' /\ Advances
<1> USE DEF IInv, Advances
<1> DEFINE j == journal
<1>0. AppliedIsEligible(j)
  BY DEF Consistent
<1>1. CASE \E r \in Revision : Receive(r)
  <2> PICK r \in Revision : Receive(r)
    BY <1>1
  <2>1. journal' = Inserted(j, r) /\ CanReceive(j, r)
    BY DEF Receive
  <2>2. Inserted(j, r).approved = j.approved
    BY DEF Inserted, Consistent, JournalType
  <2> QED BY <2>1, <2>2, InsertedConsistent
<1>2. CASE \E origin \in {Self, Baseline}, path \in Path,
              content \in Content \cup {None}, predecessor \in Content \cup {None} :
             CaptureSaved(origin, path, content, predecessor)
  <2> PICK origin \in {Self, Baseline}, path \in Path,
           content \in Content \cup {None}, predecessor \in Content \cup {None} :
             CaptureSaved(origin, path, content, predecessor)
    BY <1>2
  <2> DEFINE id == SnapshotId(origin, path, content, j.applied)
  <2>1. id \in Revision /\ CaptureAdmitted(j, j.applied) /\ journal' = Captured(j, id)
    BY DEF CaptureSaved
  <2>2. ParentsOf[id] = CaptureParents(j.applied)
    BY <2>1, SnapshotParents, StoreAssumption
  <2>3. Captured(j, id).approved = j.approved
    BY DEF Captured, Inserted, Consistent, JournalType
  <2> HIDE DEF id
  <2> QED BY <2>1, <2>2, <2>3, CapturedConsistent DEF StrictAncestor
<1>3. CASE \E r \in Revision : AcceptResolution(r)
  <2> PICK r \in Revision : AcceptResolution(r)
    BY <1>3
  <2>1. r \in Rows(j) /\ r \in Decided
    BY DEF AcceptResolution
  <2>2. PICK released \in SUBSET (Descendants(j, r) \ j.eligible) :
          /\ AdmissionPass(j, r, j.eligible \cup released)
          /\ journal' = Resolved(j, r, j.eligible \cup released)
    BY DEF AcceptResolution
  <2>3. j.eligible \cup released \in SUBSET Rows(j)
    BY DEF Consistent, JournalType, Descendants
  <2>4. Resolved(j, r, j.eligible \cup released).approved = j.approved \cup {r}
    BY DEF Resolved, Consistent, JournalType
  <2> QED BY <2>1, <2>2, <2>3, <2>4, ResolvedConsistent
<1>4. CASE \E target \in Revision : PrepareApply(target)
  <2> PICK target \in Revision : PrepareApply(target)
    BY <1>4
  <2> DEFINE path == IF j.applied = None THEN PathOf[target] ELSE PathOf[j.applied]
             source == IF j.applied = None THEN None ELSE ContentOf[j.applied]
  <2>1. CanPrepare(j, target, j.applied, path) /\ journal' = Prepared(j, target, j.applied, source)
    BY DEF PrepareApply
  <2>2. source \in Content \cup {None}
    BY GraphAssumption DEF Consistent, JournalType
  <2>3. Prepared(j, target, j.applied, source).approved = j.approved
    BY DEF Prepared, Consistent, JournalType
  <2> HIDE DEF path, source
  <2> QED BY <2>1, <2>2, <2>3, PreparedConsistent
<1>5. CASE \E target \in Revision : AbandonUnpublishedApply(target)
  <2> PICK target \in Revision : AbandonUnpublishedApply(target)
    BY <1>5
  <2>1. CanAbandon(j, target) /\ journal' = Abandoned(j, target)
    BY DEF AbandonUnpublishedApply
  <2>2. Abandoned(j, target).approved = j.approved
    BY DEF Abandoned, Consistent, JournalType
  <2> QED BY <2>1, <2>2, AbandonedConsistent
<1>6. CASE \E target \in Revision, observed \in Content \cup {None} : FinishApply(target, observed)
  <2> PICK target \in Revision, observed \in Content \cup {None} : FinishApply(target, observed)
    BY <1>6
  <2>1. CanFinish(j, target, observed) /\ journal' = Finished(j, target)
    BY DEF FinishApply
  <2>2. Finished(j, target).approved = j.approved
    BY DEF Finished, Consistent, JournalType
  <2> QED BY <2>1, <2>2, FinishedConsistent DEF StrictAncestor
<1>7. CASE \E r \in Revision, expected \in Revision \cup {None} : RecordApplied(r, expected)
  <2> PICK r \in Revision, expected \in Revision \cup {None} : RecordApplied(r, expected)
    BY <1>7
  <2>1. /\ CanRecord(j, r, j.applied)
        /\ journal' = Recorded(j, r)
        /\ r \in j.eligible
        /\ j.applied # None => j.applied \in AncestorsOf[r]
    BY DEF RecordApplied, CanRecord
  <2>2. Recorded(j, r).approved = j.approved
    BY DEF Recorded, Consistent, JournalType
  <2> QED BY <2>1, <2>2, RecordedConsistent
<1>8. CASE \E path \in Path : RecoverAppliedDeletion(path)
  <2> PICK path \in Path : RecoverAppliedDeletion(path)
    BY <1>8
  <2> DEFINE id == Seal(Self, path, None, {})
  <2>1. id \in Revision /\ id \notin Rows(j) /\ journal' = Inserted(j, id)
    BY DEF RecoverAppliedDeletion
  <2>2. ParentsOf[id] = {}
    BY <2>1, GraphAssumption, StoreAssumption
  <2>3. CanReceive(j, id)
    BY <2>1, <2>2 DEF CanReceive
  <2>4. Inserted(j, id).approved = j.approved
    BY DEF Inserted, Consistent, JournalType
  <2> HIDE DEF id
  <2> QED BY <2>1, <2>3, <2>4, InsertedConsistent
<1> QED BY <1>1, <1>2, <1>3, <1>4, <1>5, <1>6, <1>7, <1>8 DEF Next

(***************************************************************************)
(* The inductive invariant holds in every behaviour of the journal.        *)
(***************************************************************************)
THEOREM JournalConsistent == Spec => []IInv
<1>1. Init => IInv
  BY EmptyConsistent DEF Init, IInv, EmptyJournal
<1>2. IInv /\ [Next]_vars => IInv'
  <2>1. IInv /\ Next => IInv'
    BY StepInductive
  <2>2. IInv /\ UNCHANGED vars => IInv'
    BY DEF vars, IInv
  <2> QED BY <2>1, <2>2
<1> QED BY <1>1, <1>2, PTL DEF Spec

(***************************************************************************)
(* The tables keep their types.                                            *)
(***************************************************************************)
THEOREM TypeCorrect == Spec => []TypeOK
<1>1. IInv => TypeOK
  BY DEF IInv, Consistent, TypeOK
<1> QED BY <1>1, JournalConsistent, PTL

(***************************************************************************)
(* Receipt order is topological.                                           *)
(***************************************************************************)
THEOREM ReceiptOrder == Spec => []ReceiptIsTopological
<1>1. IInv => ReceiptIsTopological
  BY DEF IInv, Consistent, ReceiptIsTopological
<1> QED BY <1>1, JournalConsistent, PTL

(***************************************************************************)
(* A revision is eligible exactly when its parents are and, for a merge,   *)
(* its approval is recorded: admission loses no waiting descendant.        *)
(***************************************************************************)
THEOREM Eligibility == Spec => []EligibleExact
<1>1. IInv => EligibleExact
  BY DEF IInv, Consistent, EligibleExact
<1> QED BY <1>1, JournalConsistent, PTL

(***************************************************************************)
(* The applied revision is always an eligible one.                         *)
(***************************************************************************)
THEOREM AppliedAdmitted == Spec => []AppliedEligible
<1>1. IInv => AppliedEligible
  BY DEF IInv, Consistent, AppliedEligible
<1> QED BY <1>1, JournalConsistent, PTL

(***************************************************************************)
(* An unfinished application is unique and stays resumable until it is     *)
(* finished or abandoned.                                                  *)
(***************************************************************************)
THEOREM UnfinishedResumable == Spec => []PendingIsResumable
<1>1. IInv => PendingIsResumable
  BY DEF IInv, Consistent, PendingIsResumable
<1> QED BY <1>1, JournalConsistent, PTL

(***************************************************************************)
(* A completed application is never undone.                                *)
(***************************************************************************)
THEOREM CompletedNeverUndone == Spec => []CompletedStaysApplied
<1>1. IInv => CompletedStaysApplied
  BY DEF IInv, Consistent, CompletedStaysApplied
<1> QED BY <1>1, JournalConsistent, PTL

(***************************************************************************)
(* The journal implements the abstract replica: what it admits and what it *)
(* installs change only as Replica allows.                                 *)
(***************************************************************************)
THEOREM RefinesReplica == Spec => ImplementsReplica
<1>1. Init => AbstractReplica!Init
  BY DEF Init, AbstractReplica!Init, EmptyJournal
<1>2. IInv /\ IInv' /\ [Next]_vars => [AbstractReplica!Next]_AbstractReplica!vars
  <2> SUFFICES ASSUME IInv, IInv', [Next]_vars
               PROVE  [AbstractReplica!Next]_AbstractReplica!vars
    OBVIOUS
  <2>1. CASE UNCHANGED vars
    BY <2>1 DEF vars, AbstractReplica!vars
  <2>2. CASE Next
    <3>1. Advances
      BY <2>2, StepInductive
    <3>2. AbstractReplica!Admit
      <4>1. journal'.eligible \subseteq Rows(journal') /\ Rows(journal') \subseteq Revision
        BY DEF IInv, Consistent, JournalType
      <4>2. \A r \in journal'.eligible : Admissible(journal', r)
        BY <4>1 DEF IInv, Consistent, Exact
      <4>3. journal'.eligible \cap AbstractReplica!Merges \subseteq Decided
        BY <4>2 DEF Admissible, IsMerge, AbstractReplica!Merges, IInv
      <4> QED BY <3>1, <4>1, <4>2, <4>3 DEF Advances, Admissible, AbstractReplica!Admit
    <3>3. journal'.applied = journal.applied \/ \E r \in Revision : AbstractReplica!Install(r)
      <4>1. journal'.eligible \subseteq Revision
        BY DEF IInv, Consistent, JournalType
      <4> QED BY <3>1, <4>1 DEF Advances, AbstractReplica!Install
    <3> QED BY <3>2, <3>3 DEF AbstractReplica!Next
  <2> QED BY <2>1, <2>2
<1> QED BY <1>1, <1>2, JournalConsistent, PTL DEF Spec, ImplementsReplica, AbstractReplica!Spec
============================================================================
