--------------------------- MODULE JournalProofs ---------------------------
(***************************************************************************)
(* Each transaction of the journal preserves Consistent, for every graph   *)
(* of revisions.  The modules that keep journals build their invariance    *)
(* proofs from these lemmas.                                               *)
(***************************************************************************)
EXTENDS Journal, TLAPS

(***************************************************************************)
(* Ancestry is reflexive and transitive, and a parent is a strict ancestor.*)
(***************************************************************************)
LEMMA AncestryFacts ==
  /\ \A r \in Revision : r \in AncestorsOf[r]
  /\ \A a, b, c \in Revision :
       a \in AncestorsOf[b] /\ b \in AncestorsOf[c] => a \in AncestorsOf[c]
  /\ \A r \in Revision : \A p \in ParentsOf[r] : StrictAncestor(p, r)
<1>1. \A r \in Revision : r \in AncestorsOf[r]
  BY AncestryAssumption
<1>2. \A a, b, c \in Revision :
        a \in AncestorsOf[b] /\ b \in AncestorsOf[c] => a \in AncestorsOf[c]
  BY AncestryAssumption
<1>3. \A r \in Revision : \A p \in ParentsOf[r] : StrictAncestor(p, r)
  <2> SUFFICES ASSUME NEW r \in Revision, NEW p \in ParentsOf[r]
               PROVE  StrictAncestor(p, r)
    OBVIOUS
  <2>1. p \in Revision
    BY GraphAssumption
  <2>2. p \in AncestorsOf[p] /\ r \notin AncestorsOf[p]
    BY <1>1, <2>1, AncestryAssumption
  <2>3. p \in UNION {AncestorsOf[q] : q \in ParentsOf[r]}
    BY <2>2
  <2>4. p \in AncestorsOf[r]
    BY <2>3, AncestryAssumption
  <2> QED BY <2>2, <2>4 DEF StrictAncestor
<1> QED BY <1>1, <1>2, <1>3

(***************************************************************************)
(* A new journal is consistent.                                            *)
(***************************************************************************)
LEMMA EmptyConsistent == Consistent(EmptyJournal)
  BY DEF Consistent, JournalType, Topological, Exact, AppliedIsEligible, Resumable,
         CompletedApplied, Pending, Rows, EmptyJournal

(***************************************************************************)
(* Inserting a revision whose parents are known (receive, finish_receive,  *)
(* capture_saved, recover_applied_deletions) keeps the journal consistent. *)
(***************************************************************************)
LEMMA InsertedConsistent ==
  ASSUME NEW j, Consistent(j), NEW r \in Revision, CanReceive(j, r)
  PROVE  /\ Consistent(Inserted(j, r))
         /\ Rows(Inserted(j, r)) = Rows(j) \cup {r}
         /\ j.eligible \subseteq Inserted(j, r).eligible
         /\ Inserted(j, r).applied = j.applied
         /\ Inserted(j, r).intents = j.intents
         /\ r \in Inserted(j, r).eligible <=> Admissible(j, r)
<1> DEFINE k == Inserted(j, r)
<1>1. /\ DOMAIN k = DOMAIN j
      /\ k.tip = j.tip + 1
      /\ k.rowid = [x \in Rows(j) \cup {r} |-> IF x = r THEN j.tip + 1 ELSE j.rowid[x]]
      /\ k.eligible = IF Admissible(j, r) THEN j.eligible \cup {r} ELSE j.eligible
      /\ k.applied = j.applied
      /\ k.intents = j.intents
      /\ k.approved = j.approved
  BY DEF Inserted, Consistent, JournalType
<1>2. Rows(k) = Rows(j) \cup {r}
  BY <1>1 DEF Rows
<1>3. JournalType(k)
  <2>1. k.rowid \in [Rows(k) -> 1..k.tip]
    BY <1>1, <1>2 DEF Consistent, JournalType, Rows
  <2> QED BY <1>1, <1>2, <2>1 DEF Consistent, JournalType, CanReceive
<1>4. Topological(k)
  BY <1>1, <1>2 DEF Topological, Consistent, JournalType, CanReceive
<1>5. Exact(k)
  <2>1. r \notin j.approved /\ r \notin j.eligible /\ r \notin ParentsOf[r]
    BY AncestryFacts DEF Consistent, JournalType, CanReceive, StrictAncestor
  <2>2. \A x \in Rows(j) : r \notin ParentsOf[x]
    BY DEF Consistent, Topological, CanReceive
  <2>3. \A x \in Rows(k) : Admissible(k, x) <=> Admissible(j, x)
    BY <1>1, <1>2, <2>1, <2>2 DEF Admissible
  <2> QED BY <1>1, <1>2, <2>1, <2>3 DEF Exact, Consistent
<1>6. Pending(k) = Pending(j)
  BY <1>1 DEF Pending
<1>7. AppliedIsEligible(k) /\ Resumable(k) /\ CompletedApplied(k)
  BY <1>1, <1>6 DEF AppliedIsEligible, Resumable, CompletedApplied, Consistent
<1>8. r \in k.eligible <=> Admissible(j, r)
  BY <1>1 DEF Consistent, JournalType, CanReceive
<1> QED BY <1>1, <1>2, <1>3, <1>4, <1>5, <1>7, <1>8 DEF Consistent

(***************************************************************************)
(* capture_saved keeps the journal consistent, also when the snapshot's    *)
(* identity is already known and is made the applied revision without any  *)
(* check: with one eligible parent or none, it must be eligible.           *)
(***************************************************************************)
LEMMA CapturedConsistent ==
  ASSUME NEW j, Consistent(j),
         NEW id \in Revision, ParentsOf[id] = CaptureParents(j.applied),
         CaptureAdmitted(j, j.applied)
  PROVE  /\ Consistent(Captured(j, id))
         /\ j.eligible \subseteq Captured(j, id).eligible
         /\ Captured(j, id).eligible \subseteq j.eligible \cup {id}
         /\ Captured(j, id).applied = id
         /\ id \in Captured(j, id).eligible
         /\ j.applied # None => StrictAncestor(j.applied, id)
<1> DEFINE i == IF id \in Rows(j) THEN j ELSE Inserted(j, id)
           k == Captured(j, id)
<1>1. ~IsMerge(id) /\ ParentsOf[id] \subseteq j.eligible
  BY DEF IsMerge, CaptureParents, CaptureAdmitted
<1>2. Admissible(j, id)
  BY <1>1 DEF Admissible
<1>3. /\ Consistent(i)
      /\ id \in i.eligible
      /\ j.eligible \subseteq i.eligible
      /\ i.eligible \subseteq j.eligible \cup {id}
      /\ i.intents = j.intents
  <2>1. CASE id \in Rows(j)
    BY <2>1, <1>2 DEF Consistent, Exact
  <2>2. CASE id \notin Rows(j)
    <3>1. CanReceive(j, id)
      BY <1>1, <2>2 DEF CanReceive, Consistent, JournalType
    <3>2. Inserted(j, id).eligible \subseteq j.eligible \cup {id}
      BY DEF Inserted, Consistent, JournalType
    <3> HIDE DEF k
    <3> QED BY <1>2, <2>2, <3>1, <3>2, InsertedConsistent
  <2> QED BY <2>1, <2>2
<1>4. /\ DOMAIN k = DOMAIN i
      /\ k.applied = id
      /\ k.tip = i.tip /\ k.rowid = i.rowid /\ k.eligible = i.eligible
      /\ k.approved = i.approved /\ k.intents = i.intents
  <2>1. k = [i EXCEPT !.applied = id]
    BY DEF Captured
  <2>2. DOMAIN i = {"rowid", "tip", "approved", "eligible", "applied", "intents"}
    BY <1>3 DEF Consistent, JournalType
  <2> HIDE DEF k, i
  <2> QED BY <2>1, <2>2
<1>5. j.applied # None => StrictAncestor(j.applied, id)
  BY AncestryFacts DEF CaptureParents
<1> HIDE DEF i, k
<1>6. Rows(k) = Rows(i) /\ Pending(k) = Pending(i) /\ Pending(k) = {}
  BY <1>3, <1>4 DEF Rows, Pending, CaptureAdmitted
<1>7. JournalType(k)
  BY <1>3, <1>4, <1>6 DEF Consistent, JournalType
<1>8. Topological(k) /\ Exact(k)
  BY <1>3, <1>4, <1>6 DEF Consistent, Topological, Exact, Admissible
<1>9. AppliedIsEligible(k) /\ Resumable(k)
  BY <1>3, <1>4, <1>6 DEF AppliedIsEligible, Resumable
<1>10. CompletedApplied(k)
  <2> SUFFICES ASSUME NEW o \in DOMAIN k.intents \ Pending(k)
               PROVE  k.applied # None /\ o \in AncestorsOf[k.applied]
    BY DEF CompletedApplied
  <2>1. o \in DOMAIN j.intents \ Pending(j)
    BY <1>3, <1>4, <1>6 DEF Pending
  <2>2. j.applied # None /\ o \in AncestorsOf[j.applied]
    BY <2>1 DEF Consistent, CompletedApplied
  <2>3. o \in Revision /\ j.applied \in Revision
    BY <2>1, <2>2 DEF Consistent, JournalType
  <2>4. o \in AncestorsOf[id]
    BY <1>5, <2>2, <2>3, AncestryFacts DEF StrictAncestor
  <2> QED BY <1>4, <2>4, GraphAssumption
<1> QED BY <1>3, <1>4, <1>5, <1>7, <1>8, <1>9, <1>10 DEF Consistent, k

(***************************************************************************)
(* accept_resolution keeps the eligible table exact: the one pass in order *)
(* of rowid releases every descendant that the decision makes admissible,  *)
(* because receipt order is topological.                                   *)
(***************************************************************************)
LEMMA ResolvedConsistent ==
  ASSUME NEW j, Consistent(j), NEW id \in Rows(j),
         NEW S \in SUBSET Rows(j), AdmissionPass(j, id, S)
  PROVE  /\ Consistent(Resolved(j, id, S))
         /\ j.eligible \subseteq S
         /\ Resolved(j, id, S).eligible = S
         /\ Resolved(j, id, S).applied = j.applied
<1> DEFINE k == Resolved(j, id, S)
<1>1. /\ DOMAIN k = DOMAIN j
      /\ k.approved = j.approved \cup {id}
      /\ k.eligible = S
      /\ k.tip = j.tip /\ k.rowid = j.rowid
      /\ k.applied = j.applied /\ k.intents = j.intents
  BY DEF Resolved, Consistent, JournalType
<1> HIDE DEF k
<1>2. Rows(k) = Rows(j) /\ Pending(k) = Pending(j)
  BY <1>1 DEF Rows, Pending
<1>3. j.eligible \subseteq S
  BY DEF AdmissionPass, Consistent, JournalType
<1>4. JournalType(k) /\ Topological(k)
  BY <1>1, <1>2 DEF Consistent, JournalType, Topological
<1>5. ASSUME NEW r \in Rows(j), r \in S
      PROVE  Admissible(k, r)
  <2>1. CASE r \in j.eligible
    <3>1. Admissible(j, r)
      BY <2>1 DEF Consistent, Exact
    <3> QED BY <1>1, <1>3, <3>1 DEF Admissible
  <2>2. CASE r \notin j.eligible
    BY <1>1, <1>3, <1>5, <2>2 DEF AdmissionPass, Admissible
  <2> QED BY <2>1, <2>2
<1>6. ASSUME NEW r \in Rows(j), Admissible(k, r)
      PROVE  r \in S
  <2>1. CASE r \in Descendants(j, id)
    <3>1. IsMerge(r) => r \in j.approved \cup {id}
      BY <1>1, <1>6 DEF Admissible
    <3>2. \A p \in ParentsOf[r] : p \in S /\ j.rowid[p] < j.rowid[r]
      BY <1>1, <1>6 DEF Admissible, Consistent, Topological
    <3> QED BY <2>1, <3>1, <3>2 DEF AdmissionPass
  <2>2. CASE r \notin Descendants(j, id)
    <3>1. id \notin AncestorsOf[r]
      BY <2>2 DEF Descendants
    <3>2. r # id
      BY <3>1, AncestryFacts DEF Consistent, JournalType
    <3>3. \A p \in ParentsOf[r] : p \in Rows(j) /\ p \notin Descendants(j, id)
      <4> SUFFICES ASSUME NEW p \in ParentsOf[r]
                   PROVE  p \in Rows(j) /\ id \notin AncestorsOf[p]
        BY DEF Descendants
      <4>1. p \in Rows(j)
        BY DEF Consistent, Topological
      <4>2. p \in Revision /\ r \in Revision /\ id \in Revision
        BY <4>1 DEF Consistent, JournalType
      <4>3. p \in AncestorsOf[r]
        BY <4>2, AncestryFacts DEF StrictAncestor
      <4> QED BY <3>1, <4>1, <4>2, <4>3, AncestryFacts
    <3>4. ParentsOf[r] \subseteq j.eligible
      BY <1>1, <1>6, <3>3 DEF Admissible, AdmissionPass
    <3>5. Admissible(j, r)
      BY <1>1, <1>6, <3>2, <3>4 DEF Admissible
    <3> QED BY <1>3, <3>5 DEF Consistent, Exact
  <2> QED BY <2>1, <2>2
<1>7. Exact(k)
  BY <1>1, <1>2, <1>5, <1>6 DEF Exact
<1>8. AppliedIsEligible(k) /\ Resumable(k) /\ CompletedApplied(k)
  BY <1>1, <1>2, <1>3
     DEF Consistent, AppliedIsEligible, Resumable, CompletedApplied
<1> QED BY <1>1, <1>3, <1>4, <1>7, <1>8 DEF Consistent, k

(***************************************************************************)
(* prepare_apply keeps the journal consistent: the new intent is the only  *)
(* unfinished one and its base is the applied revision.                    *)
(***************************************************************************)
LEMMA PreparedConsistent ==
  ASSUME NEW j, Consistent(j), NEW target \in Revision, NEW path,
         NEW source \in Content \cup {None},
         CanPrepare(j, target, j.applied, path)
  PROVE  /\ Consistent(Prepared(j, target, j.applied, source))
         /\ Prepared(j, target, j.applied, source).eligible = j.eligible
         /\ Prepared(j, target, j.applied, source).applied = j.applied
<1> DEFINE k == Prepared(j, target, j.applied, source)
           new == [expected |-> j.applied, source |-> source, completed |-> FALSE]
<1>1. /\ DOMAIN k = DOMAIN j
      /\ k.approved = j.approved /\ k.eligible = j.eligible
      /\ k.tip = j.tip /\ k.rowid = j.rowid /\ k.applied = j.applied
      /\ k.intents = [o \in DOMAIN j.intents \cup {target} |->
                        IF o = target THEN new ELSE j.intents[o]]
  BY DEF Prepared, Consistent, JournalType
<1> HIDE DEF k
<1>2. Rows(k) = Rows(j)
  BY <1>1 DEF Rows
<1>3. new \in Intent /\ new.expected = j.applied /\ new.completed = FALSE
  BY DEF Intent, Consistent, JournalType
<1> HIDE DEF new
<1>4. Pending(k) = {target}
  <2>1. \A o \in DOMAIN j.intents : j.intents[o].completed
    BY DEF CanPrepare, Pending
  <2>2. target \notin DOMAIN j.intents
    BY DEF CanPrepare
  <2> QED BY <1>1, <1>3, <2>1, <2>2 DEF Pending
<1>5. JournalType(k)
  <2>1. k.intents \in [DOMAIN k.intents -> Intent]
    BY <1>1, <1>3 DEF Consistent, JournalType
  <2>2. DOMAIN k.intents \subseteq Rows(k)
    BY <1>1, <1>2 DEF Consistent, JournalType, CanPrepare
  <2> QED BY <1>1, <1>2, <2>1, <2>2 DEF Consistent, JournalType
<1>6. Topological(k) /\ Exact(k) /\ AppliedIsEligible(k)
  BY <1>1, <1>2 DEF Consistent, Topological, Exact, Admissible, AppliedIsEligible
<1>7. Resumable(k)
  BY <1>1, <1>3, <1>4 DEF Resumable, CanPrepare
<1>8. CompletedApplied(k)
  <2> SUFFICES ASSUME NEW o \in DOMAIN k.intents \ Pending(k)
               PROVE  k.applied # None /\ o \in AncestorsOf[k.applied]
    BY DEF CompletedApplied
  <2>1. o \in DOMAIN j.intents \ Pending(j)
    BY <1>1, <1>4 DEF CanPrepare
  <2> QED BY <1>1, <2>1 DEF Consistent, CompletedApplied
<1> QED BY <1>1, <1>5, <1>6, <1>7, <1>8 DEF Consistent, k

(***************************************************************************)
(* abandon_unpublished_apply leaves no unfinished intent behind.           *)
(***************************************************************************)
LEMMA AbandonedConsistent ==
  ASSUME NEW j, Consistent(j), NEW target, CanAbandon(j, target)
  PROVE  /\ Consistent(Abandoned(j, target))
         /\ Pending(Abandoned(j, target)) = {}
         /\ Abandoned(j, target).eligible = j.eligible
         /\ Abandoned(j, target).applied = j.applied
<1> DEFINE k == Abandoned(j, target)
<1>1. /\ DOMAIN k = DOMAIN j
      /\ k.approved = j.approved /\ k.eligible = j.eligible
      /\ k.tip = j.tip /\ k.rowid = j.rowid /\ k.applied = j.applied
      /\ k.intents = [o \in DOMAIN j.intents \ {target} |-> j.intents[o]]
  BY DEF Abandoned, Consistent, JournalType
<1> HIDE DEF k
<1>2. Rows(k) = Rows(j)
  BY <1>1 DEF Rows
<1>3. Pending(j) = {target}
  BY DEF CanAbandon, Consistent, Resumable
<1>4. Pending(k) = {}
  BY <1>1, <1>3 DEF Pending
<1>5. JournalType(k)
  BY <1>1, <1>2 DEF Consistent, JournalType
<1>6. Topological(k) /\ Exact(k) /\ AppliedIsEligible(k) /\ Resumable(k)
  BY <1>1, <1>2, <1>4
     DEF Consistent, Topological, Exact, Admissible, AppliedIsEligible, Resumable
<1>7. CompletedApplied(k)
  BY <1>1, <1>3, <1>4 DEF Consistent, CompletedApplied
<1> QED BY <1>1, <1>4, <1>5, <1>6, <1>7 DEF Consistent, k

(***************************************************************************)
(* finish_apply completes the only unfinished intent and advances the      *)
(* applied revision to a strict descendant.                                *)
(***************************************************************************)
LEMMA FinishedConsistent ==
  ASSUME NEW j, Consistent(j), NEW target, NEW observed, CanFinish(j, target, observed)
  PROVE  /\ Consistent(Finished(j, target))
         /\ Pending(Finished(j, target)) = {}
         /\ Finished(j, target).eligible = j.eligible
         /\ Finished(j, target).applied = target
         /\ target \in j.eligible
         /\ j.applied # None => StrictAncestor(j.applied, target)
<1> DEFINE k == Finished(j, target)
           done == [j.intents[target] EXCEPT !.completed = TRUE]
<1>1. /\ DOMAIN k = DOMAIN j
      /\ k.approved = j.approved /\ k.eligible = j.eligible
      /\ k.tip = j.tip /\ k.rowid = j.rowid /\ k.applied = target
      /\ k.intents = [j.intents EXCEPT ![target] = done]
  BY DEF Finished, Consistent, JournalType
<1>2. Pending(j) = {target} /\ target \in j.eligible
      /\ (j.applied # None => StrictAncestor(j.applied, target))
  BY DEF CanFinish, Consistent, Resumable
<1>3. target \in DOMAIN j.intents /\ target \in Revision /\ target # None
  BY <1>2, GraphAssumption DEF Pending, Consistent, JournalType
<1>4. done \in Intent /\ done.completed = TRUE
  BY <1>3 DEF Consistent, JournalType, Intent
<1> HIDE DEF k, done
<1>5. Rows(k) = Rows(j)
  BY <1>1 DEF Rows
<1>6. Pending(k) = {}
  BY <1>1, <1>2, <1>3, <1>4 DEF Pending
<1>7. JournalType(k)
  <2>1. k.intents \in [DOMAIN k.intents -> Intent] /\ DOMAIN k.intents = DOMAIN j.intents
    BY <1>1, <1>3, <1>4 DEF Consistent, JournalType
  <2> QED BY <1>1, <1>2, <1>5, <2>1 DEF Consistent, JournalType
<1>8. Topological(k) /\ Exact(k) /\ AppliedIsEligible(k) /\ Resumable(k)
  BY <1>1, <1>2, <1>5, <1>6
     DEF Consistent, Topological, Exact, Admissible, AppliedIsEligible, Resumable
<1>9. CompletedApplied(k)
  <2> SUFFICES ASSUME NEW o \in DOMAIN j.intents
               PROVE  o \in AncestorsOf[target]
    BY <1>1, <1>3 DEF CompletedApplied
  <2>1. CASE o = target
    BY <1>3, <2>1, AncestryFacts
  <2>2. CASE o # target
    <3>1. o \in DOMAIN j.intents \ Pending(j)
      BY <1>2, <2>2
    <3>2. j.applied # None /\ o \in AncestorsOf[j.applied]
      BY <3>1 DEF Consistent, CompletedApplied
    <3>3. o \in Revision /\ j.applied \in Revision
      BY <3>2 DEF Consistent, JournalType
    <3> QED BY <1>2, <1>3, <3>2, <3>3, AncestryFacts DEF StrictAncestor
  <2> QED BY <2>1, <2>2
<1> QED BY <1>1, <1>2, <1>6, <1>7, <1>8, <1>9 DEF Consistent, k

(***************************************************************************)
(* record_applied moves the applied revision to a descendant.              *)
(***************************************************************************)
LEMMA RecordedConsistent ==
  ASSUME NEW j, Consistent(j), NEW r, CanRecord(j, r, j.applied)
  PROVE  /\ Consistent(Recorded(j, r))
         /\ Recorded(j, r).eligible = j.eligible
         /\ Recorded(j, r).applied = r
<1> DEFINE k == Recorded(j, r)
<1>1. /\ DOMAIN k = DOMAIN j
      /\ k.approved = j.approved /\ k.eligible = j.eligible
      /\ k.tip = j.tip /\ k.rowid = j.rowid /\ k.applied = r
      /\ k.intents = j.intents
  BY DEF Recorded, Consistent, JournalType
<1> HIDE DEF k
<1>2. Rows(k) = Rows(j) /\ Pending(k) = {} /\ Pending(j) = {}
  BY <1>1 DEF Rows, Pending, CanRecord
<1>3. r \in j.eligible /\ r \in Revision /\ r # None
  BY GraphAssumption DEF CanRecord, Consistent, JournalType
<1>4. JournalType(k) /\ Topological(k) /\ Exact(k) /\ AppliedIsEligible(k) /\ Resumable(k)
  BY <1>1, <1>2, <1>3
     DEF Consistent, JournalType, Topological, Exact, Admissible, AppliedIsEligible, Resumable
<1>5. CompletedApplied(k)
  <2> SUFFICES ASSUME NEW o \in DOMAIN j.intents
               PROVE  o \in AncestorsOf[r]
    BY <1>1, <1>3 DEF CompletedApplied
  <2>1. j.applied # None /\ o \in AncestorsOf[j.applied]
    BY <1>2 DEF Consistent, CompletedApplied
  <2>2. o \in Revision /\ j.applied \in Revision /\ j.applied \in AncestorsOf[r]
    BY <2>1 DEF Consistent, JournalType, CanRecord
  <2> QED BY <1>3, <2>1, <2>2, AncestryFacts
<1> QED BY <1>1, <1>4, <1>5 DEF Consistent, k
============================================================================
