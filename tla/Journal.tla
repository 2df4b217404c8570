------------------------------ MODULE Journal ------------------------------
(***************************************************************************)
(* The revision journal of one device, for one object of one Vault: the    *)
(* tables that revision_store keeps in SQLite and the effect of each of    *)
(* its transactions, as operators on a journal record.  Every table is     *)
(* keyed by (vault, object) and no transaction modelled here crosses two   *)
(* objects, so one object stands for all.                                  *)
(*                                                                         *)
(* A revision is content addressed: its identity is the SHA-256 of its     *)
(* descriptor (origin member, path, deletion flag, parents) and payload.   *)
(* Revision is therefore a constant, finite graph, the part of all         *)
(* possible revisions that an instance may meet, and Seal maps the fields  *)
(* of a descriptor to the identity.                                        *)
(***************************************************************************)
EXTENDS Integers, FiniteSets

CONSTANTS
  Revision,      \* identities of the revisions of the object
  Content,       \* fingerprints of payloads
  Path,          \* Vault-relative paths
  Member,        \* values of origin_member
  None,          \* std::nullopt
  ParentsOf, OriginOf, PathOf,
  ContentOf,     \* payload fingerprint, None for a tombstone (deleted)
  AncestorsOf,   \* ancestor_of: the reflexive-transitive closure of parents
  Seal(_, _, _, _)  \* origin, path, content, parents -> identity

(***************************************************************************)
(* What hashing gives: a revision is determined by its fields, and it      *)
(* cannot be among the ancestors of the parents that its own hash covers.  *)
(***************************************************************************)
ASSUME GraphAssumption ==
  /\ None \notin Revision /\ None \notin Content
  /\ ParentsOf \in [Revision -> SUBSET Revision]
  /\ OriginOf \in [Revision -> Member]
  /\ PathOf \in [Revision -> Path]
  /\ ContentOf \in [Revision -> Content \cup {None}]
  /\ \A r \in Revision : Seal(OriginOf[r], PathOf[r], ContentOf[r], ParentsOf[r]) = r
  /\ \A o \in Member, p \in Path, c \in Content \cup {None}, P \in {{}} \cup {{r} : r \in Revision} :
       Seal(o, p, c, P) \in Revision =>
         LET r == Seal(o, p, c, P)
         IN  OriginOf[r] = o /\ PathOf[r] = p /\ ContentOf[r] = c /\ ParentsOf[r] = P

ASSUME AncestryAssumption ==
  /\ AncestorsOf \in [Revision -> SUBSET Revision]
  /\ \A r \in Revision :
       /\ AncestorsOf[r] = {r} \cup UNION {AncestorsOf[p] : p \in ParentsOf[r]}
       /\ \A p \in ParentsOf[r] : r \notin AncestorsOf[p]
       /\ \A a \in AncestorsOf[r] : AncestorsOf[a] \subseteq AncestorsOf[r]

(***************************************************************************)
(* The journal.                                                            *)
(***************************************************************************)
Intent == [expected : Revision \cup {None},  \* applied revision it advances
           source : Content \cup {None},     \* fingerprint of the preimage
           completed : BOOLEAN]

EmptyJournal ==
  [rowid |-> [r \in {} |-> 0],    \* table revisions, in order of receipt
   tip |-> 0,                     \* MAX(rowid)
   approved |-> {},               \* table resolution_approvals
   eligible |-> {},               \* table eligible
   applied |-> None,              \* table applied
   intents |-> [o \in {} |-> 0]]  \* table apply_intents; the operation name
                                  \* is made from the target, so is keyed by it

Rows(j) == DOMAIN j.rowid

IsMerge(r) == \E p, q \in ParentsOf[r] : p # q

StrictAncestor(a, r) == a # r /\ a \in AncestorsOf[r]

Pending(j) == {o \in DOMAIN j.intents : ~j.intents[o].completed}

Heads(j) == {r \in j.eligible : \A c \in j.eligible : r \notin ParentsOf[c]}

\* Mutant: a merge needs no approval.
AdmissibleUnapproved(j, r) == ParentsOf[r] \subseteq j.eligible

\* admit_revision: the condition under which it adds r to the eligible set.
Admissible(j, r) ==
  /\ IsMerge(r) => r \in j.approved
  /\ ParentsOf[r] \subseteq j.eligible

\* Mutant: the receipt counter does not advance.
InsertedSameTip(j, r) ==
  [j EXCEPT !.rowid = [x \in Rows(j) \cup {r} |-> IF x = r THEN j.tip + 1 ELSE j.rowid[x]],
            !.eligible = IF Admissible(j, r) THEN @ \cup {r} ELSE @]

\* INSERT INTO revisions, insert_parents and admit_revision.
Inserted(j, r) ==
  [j EXCEPT !.tip = @ + 1,
            !.rowid = [x \in Rows(j) \cup {r} |-> IF x = r THEN j.tip + 1 ELSE j.rowid[x]],
            !.eligible = IF Admissible(j, r) THEN @ \cup {r} ELSE @]

\* Mutant: parents may be missing.
ReceivableAlone(j, r) == r \notin Rows(j)

\* receive and finish_receive insert a revision unless it is known; a parent
\* that is missing is an error.
CanReceive(j, r) == r \notin Rows(j) /\ ParentsOf[r] \subseteq Rows(j)

---------------------------------------------------------------------------
\* Mutant: a save is captured although an application is unfinished.
CaptureWhilePending(j, expected) ==
  /\ j.applied = expected
  /\ expected # None => expected \in j.eligible

(***************************************************************************)
(* capture_saved.  It returns without effect when the applied revision is  *)
(* not the caller's, throws when an application is unfinished or the base  *)
(* lacks its decision, keeps the base when only the device differs, and    *)
(* refuses a snapshot whose predecessor is not the base's content.         *)
(***************************************************************************)
CaptureAdmitted(j, expected) ==
  /\ j.applied = expected
  /\ Pending(j) = {}
  /\ expected # None => expected \in j.eligible

Unchanged(expected, path, content) ==
  expected # None /\ PathOf[expected] = path /\ ContentOf[expected] = content

\* predecessor = None is the inventory's capture, which supplies none.
PredecessorMatches(expected, predecessor) ==
  (expected # None /\ predecessor # None) => ContentOf[expected] = predecessor

CaptureParents(expected) == IF expected = None THEN {} ELSE {expected}

\* The identity the snapshot gets.
SnapshotId(origin, path, content, expected) ==
  Seal(origin, path, content, CaptureParents(expected))

\* The journal once snapshot id is recorded and is the applied revision.
Captured(j, id) ==
  [(IF id \in Rows(j) THEN j ELSE Inserted(j, id)) EXCEPT !.applied = id]

---------------------------------------------------------------------------
\* Mutant: descendants that wait for the decision are forgotten.
OnlyItself(j, id) == {id}

(***************************************************************************)
(* accept_resolution records the approval and then offers the resolution   *)
(* and its known descendants to admit_revision in order of rowid.  S is    *)
(* the eligible set that this one ordered pass leaves: a parent helps its  *)
(* child only if it was eligible before or was passed earlier.             *)
(***************************************************************************)
Descendants(j, id) == {r \in Rows(j) : id \in AncestorsOf[r]}

AdmissionPass(j, id, S) ==
  \A r \in Rows(j) :
    r \in S <=>
      \/ r \in j.eligible
      \/ /\ r \in Descendants(j, id)
         /\ IsMerge(r) => r \in j.approved \cup {id}
         /\ \A p \in ParentsOf[r] :
              p \in j.eligible \/ (p \in S /\ j.rowid[p] < j.rowid[r])

Resolved(j, id, S) == [j EXCEPT !.approved = @ \cup {id}, !.eligible = S]

---------------------------------------------------------------------------
(***************************************************************************)
(* Applications of a received revision to the local object.                *)
(***************************************************************************)
\* prepare_apply for a new operation; a known one is left as it is.
CanPrepare(j, target, expected, path) ==
  /\ target \notin DOMAIN j.intents
  /\ target \in j.eligible
  /\ j.applied = expected
  /\ IF expected = None THEN PathOf[target] = path
     ELSE PathOf[expected] = path /\ StrictAncestor(expected, target)
  /\ Pending(j) = {}

Prepared(j, target, expected, source) ==
  [j EXCEPT !.intents =
     [o \in DOMAIN j.intents \cup {target} |->
        IF o = target THEN [expected |-> expected, source |-> source, completed |-> FALSE]
        ELSE j.intents[o]]]

\* abandon_unpublished_apply: only while unfinished and its base unchanged.
CanAbandon(j, target) ==
  /\ target \in Pending(j)
  /\ j.applied = j.intents[target].expected

Abandoned(j, target) ==
  [j EXCEPT !.intents = [o \in DOMAIN j.intents \ {target} |-> j.intents[o]]]

\* finish_apply: observed is the fingerprint found at the target's path.
CanFinish(j, target, observed) ==
  /\ target \in Pending(j)
  /\ target \in j.eligible
  /\ j.applied = j.intents[target].expected
  /\ observed = ContentOf[target]

Finished(j, target) ==
  [j EXCEPT !.applied = target, !.intents[target].completed = TRUE]

\* Mutant: receipt is enough.
RecordReceived(j, r, expected) ==
  /\ r \in Rows(j)
  /\ Pending(j) = {}
  /\ j.applied = expected
  /\ expected # None => expected \in AncestorsOf[r]

\* Mutant: any eligible branch may replace the applied revision.
RecordAnyBranch(j, r, expected) ==
  /\ r \in j.eligible
  /\ Pending(j) = {}
  /\ j.applied = expected

\* record_applied, for results that are consumed rather than installed.
CanRecord(j, r, expected) ==
  /\ r \in j.eligible
  /\ Pending(j) = {}
  /\ j.applied = expected
  /\ expected # None => expected \in AncestorsOf[r]

Recorded(j, r) == [j EXCEPT !.applied = r]

\* application_candidates: the only eligible head, when it is not applied.
Candidates(j) ==
  {r \in Heads(j) : Heads(j) = {r} /\ j.applied # r /\ Pending(j) = {}}

---------------------------------------------------------------------------
(***************************************************************************)
(* What is true of a journal whatever the order of the transactions.       *)
(***************************************************************************)
JournalType(j) ==
  /\ DOMAIN j = {"rowid", "tip", "approved", "eligible", "applied", "intents"}
  /\ j.tip \in Nat
  /\ Rows(j) \subseteq Revision
  /\ j.rowid \in [Rows(j) -> 1..j.tip]
  /\ j.approved \subseteq Rows(j)
  /\ j.eligible \subseteq Rows(j)
  /\ j.applied \in Rows(j) \cup {None}
  /\ DOMAIN j.intents \subseteq Rows(j)
  /\ j.intents \in [DOMAIN j.intents -> Intent]

Topological(j) ==
  \A r \in Rows(j) : \A p \in ParentsOf[r] : p \in Rows(j) /\ j.rowid[p] < j.rowid[r]

Exact(j) == \A r \in Rows(j) : r \in j.eligible <=> Admissible(j, r)

AppliedIsEligible(j) == j.applied \in j.eligible \cup {None}

Resumable(j) ==
  \A o \in Pending(j) :
    /\ Pending(j) = {o}
    /\ o \in j.eligible
    /\ j.intents[o].expected = j.applied
    /\ j.applied # None => StrictAncestor(j.applied, o)

CompletedApplied(j) ==
  \A o \in DOMAIN j.intents \ Pending(j) :
    j.applied # None /\ o \in AncestorsOf[j.applied]

\* The inductive invariant: the conjunction of the above.
Consistent(j) ==
  /\ JournalType(j)
  /\ Topological(j)
  /\ Exact(j)
  /\ AppliedIsEligible(j)
  /\ Resumable(j)
  /\ CompletedApplied(j)
============================================================================
