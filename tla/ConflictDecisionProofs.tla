----------------------- MODULE ConflictDecisionProofs -----------------------
(***************************************************************************)
(* The safety properties of ConflictDecision, and that it implements       *)
(* Adjudication, for every graph of revisions, set of devices and          *)
(* operations, page limit and number of faults.                            *)
(***************************************************************************)
EXTENDS ConflictDecision, JournalProofs, FiniteSetTheorems

Chosen == {events[i] : i \in DOMAIN events}

\* Every set of branches is decided at most once.
DecidedOnce ==
  \A i, k \in DOMAIN events :
    Scope(events[i].resolution) = Scope(events[k].resolution) => i = k

\* Whose proposal a decision or a request is.
Proposed(e) ==
  \E d \in Device : e.operation \in DOMAIN proposals[d] /\ proposals[d][e.operation] = e.resolution

Asked == late \subseteq Decision /\ \A e \in Chosen \cup late : Proposed(e)

\* An operation belongs to one device, which holds the branches it merges.
ProposalsSound ==
  /\ \A d \in Device :
       /\ proposals[d] \in [DOMAIN proposals[d] -> Merge]
       /\ DOMAIN proposals[d] \subseteq Operation
       /\ \A o \in DOMAIN proposals[d] : ParentsOf[proposals[d][o]] \subseteq journal[d].eligible
  /\ \A d, e \in Device : \A o \in DOMAIN proposals[d] \cap DOMAIN proposals[e] : d = e

\* An approved merge is admitted at once, and merges in journals are chosen.
JournalSound(d) ==
  /\ Consistent(journal[d])
  /\ journal[d].approved \subseteq journal[d].eligible
  /\ \A m \in Merge \cap Rows(journal[d]) : \E e \in Chosen : e.resolution = m

TablesSound(d) ==
  /\ settled[d] \cup published[d] \subseteq DOMAIN proposals[d]
  /\ decisions[d] \subseteq Chosen

\* Answers are decisions; from "receive" on the operation was chosen.
CallSound(d) ==
  \/ call[d] = Idle
  \/ \E o \in DOMAIN proposals[d], s \in {"submit", "receive", "approve", "publish"} :
       /\ call[d] = [step |-> s, operation |-> o]
       /\ s # "submit" => \E e \in Chosen : e.operation = o
  \/ \E o \in DOMAIN proposals[d], w \in BOOLEAN, A \in SUBSET Chosen :
       call[d] = [step |-> "answered", operation |-> o, write |-> w, answer |-> A]
  \/ \E m \in Merge \cap Rows(journal[d]), A \in SUBSET Chosen :
       /\ call[d] = [step |-> "looked", resolution |-> m, answer |-> A]
       /\ ParentsOf[m] \subseteq journal[d].eligible

Entries(lo, hi) == {[sequence |-> i, decision |-> events[i]] : i \in lo..hi}

FeedSound(f) ==
  /\ DOMAIN f = {"next", "watermark", "latest"}
  /\ f.next \in Nat /\ f.watermark \in Nat
  /\ f.next <= f.watermark /\ f.watermark <= Len(events)
  /\ f.latest = Entries(1, f.next)

PageSound(p) ==
  /\ p.after \in Nat /\ p.next \in Nat /\ p.watermark \in Nat
  /\ p.after < p.next /\ p.next <= p.watermark /\ p.watermark <= Len(events)
  /\ p.entries = Entries(p.after + 1, p.next)

Feeds == \A d \in Device : FeedSound(feed[d]) /\ (fetch[d] = Idle \/ PageSound(fetch[d]))

\* Every variable that is kept by device is a function of the devices.
ByDevice ==
  /\ journal = [d \in Device |-> journal[d]] /\ proposals = [d \in Device |-> proposals[d]]
  /\ settled = [d \in Device |-> settled[d]] /\ decisions = [d \in Device |-> decisions[d]]
  /\ published = [d \in Device |-> published[d]] /\ feed = [d \in Device |-> feed[d]]
  /\ call = [d \in Device |-> call[d]] /\ fetch = [d \in Device |-> fetch[d]]

Sound(d) == JournalSound(d) /\ TablesSound(d) /\ CallSound(d)

IInv ==
  /\ ByDevice
  /\ events \in Seq(Decision) /\ DecidedOnce /\ Asked
  /\ ProposalsSound
  /\ \A d \in Device : Sound(d)
  /\ Feeds

---------------------------------------------------------------------------
(***************************************************************************)
(* Since branches are decided once, every decision is the newest for them. *)
(***************************************************************************)
LEMMA LatestIsChosen ==
  ASSUME events \in Seq(Decision), DecidedOnce, NEW m
  PROVE  /\ \A i \in DOMAIN events : Newest(events, i)
         /\ Latest(events, m) = {e \in Chosen : Scope(e.resolution) = Scope(m)}
<1>1. \A i \in DOMAIN events : Newest(events, i)
  <2> SUFFICES ASSUME NEW i \in DOMAIN events, NEW k \in i+1..Len(events)
               PROVE  Scope(events[k].resolution) # Scope(events[i].resolution)
    BY DEF Newest
  <2>1. i \in 1..Len(events) /\ k \in DOMAIN events /\ k # i
    OBVIOUS
  <2> QED BY <2>1 DEF DecidedOnce
<1> QED BY <1>1 DEF Latest, Chosen

(***************************************************************************)
(* decide adds a decision only for branches that have none.                *)
(***************************************************************************)
LEMMA DecideKeeps ==
  ASSUME events \in Seq(Decision), DecidedOnce, NEW o \in Operation, NEW m \in Merge,
         events' = Decide(o, m)
  PROVE  /\ events' \in Seq(Decision)
         /\ DecidedOnce'
         /\ Len(events) <= Len(events') /\ \A i \in DOMAIN events : events'[i] = events[i]
         /\ Chosen \subseteq Chosen' /\ \A e \in Chosen' \ Chosen : e = [operation |-> o, resolution |-> m]
         /\ \/ events' = events
            \/ /\ Chosen' = Chosen \cup {[operation |-> o, resolution |-> m]}
               /\ \A e \in Chosen : Scope(e.resolution) # Scope(m)
<1>1. CASE Latest(events, m) # {}
  <2>1. events' = events
    BY <1>1 DEF Decide
  <2> QED BY <2>1 DEF DecidedOnce, Chosen
<1>2. CASE Latest(events, m) = {}
  <2> DEFINE new == [operation |-> o, resolution |-> m]
             n == Len(events)
  <2>1. events' = Append(events, new) /\ new \in Decision /\ new.resolution = m
    BY <1>2 DEF Decide, Decision
  <2> HIDE DEF new
  <2>2. /\ events' \in Seq(Decision) /\ n \in Nat
        /\ DOMAIN events = 1..n /\ DOMAIN events' = 1..(n+1)
        /\ Len(events') = n + 1
        /\ events'[n+1] = new /\ \A i \in 1..n : events'[i] = events[i]
    BY <2>1
  <2>3. \A e \in Chosen : Scope(e.resolution) # Scope(m)
    BY <1>2, LatestIsChosen
  <2>4. \A i \in 1..n : Scope(events[i].resolution) # Scope(m)
    BY <2>2, <2>3 DEF Chosen
  <2>5. DecidedOnce'
    <3> SUFFICES ASSUME NEW i \in 1..(n+1), NEW k \in 1..(n+1),
                        Scope(events'[i].resolution) = Scope(events'[k].resolution)
                 PROVE  i = k
      BY <2>2 DEF DecidedOnce, Scope
    <3>1. CASE i \in 1..n /\ k \in 1..n
      BY <2>2, <3>1 DEF DecidedOnce
    <3>2. CASE i = n + 1 \/ k = n + 1
      BY <2>1, <2>2, <2>4, <3>2
    <3> QED BY <2>2, <3>1, <3>2
  <2>6. Chosen' = Chosen \cup {new}
    <3>1. \A i \in 1..n : i \in 1..(n+1)
      BY <2>2
    <3>2. \A i \in 1..(n+1) : i \in 1..n \/ i = n+1
      BY <2>2
    <3>3. n+1 \in 1..(n+1)
      BY <2>2
    <3>4. Chosen' = {events'[i] : i \in 1..(n+1)} /\ Chosen = {events[i] : i \in 1..n}
      BY <2>2 DEF Chosen
    <3> QED BY <2>2, <3>1, <3>2, <3>3, <3>4
  <2> QED BY <2>2, <2>3, <2>5, <2>6 DEF new
<1> QED BY <1>1, <1>2

(***************************************************************************)
(* decisionFeed returns the decisions that follow the cursor, without a    *)
(* gap, up to the page's own end.                                          *)
(***************************************************************************)
LEMMA PageIsSound ==
  ASSUME events \in Seq(Decision), DecidedOnce, NEW after \in Nat, after < Len(events)
  PROVE  PageSound(Page(after))
<1> DEFINE n == Len(events)
           last == IF after + PageLimit < n THEN after + PageLimit ELSE n
           S == PageEntries(after)
<1>1. n \in Nat /\ DOMAIN events = 1..n /\ PageLimit \in Nat \ {0}
  BY DecisionAssumption
<1>2. last \in Nat /\ last \in after+1..n
  BY <1>1
<1>3. S = after+1..last
  <2>1. \A i \in after+1..n : i \in 1..n /\ Newest(events, i)
    BY <1>1, LatestIsChosen
  <2>2. ASSUME NEW i \in after+1..n
        PROVE  Cardinality({k \in after+1..i-1 : Newest(events, k)}) = i - 1 - after
    <3>1. {k \in after+1..i-1 : Newest(events, k)} = after+1..i-1
      BY <1>1, <2>1
    <3>2. i \in Int /\ after+1 \in Int /\ i-1 \in Int /\ i - 1 >= after
      BY <1>1
    <3>3. Cardinality(after+1..i-1) = IF after+1 > i-1 THEN 0 ELSE (i-1)-(after+1)+1
      BY <3>2, FS_Interval
    <3>4. Cardinality(after+1..i-1) = i - 1 - after
      BY <3>2, <3>3
    <3> QED BY <3>1, <3>4, Zenon
  <2>3. \A i \in after+1..n : i \in S <=> i - 1 - after < PageLimit
    BY <2>1, <2>2 DEF PageEntries
  <2>4. \A i : i \in S => i \in after+1..n
    BY DEF PageEntries
  <2> HIDE DEF S
  <2>5. \A i : i \in S <=> i \in after+1..last
    BY <1>1, <2>3, <2>4
  <2> QED BY <2>5
<1> HIDE DEF S, last
<1>4. (CHOOSE i \in S : \A k \in S : k <= i) = last
  <2>1. last \in S /\ \A k \in S : k <= last
    BY <1>1, <1>2, <1>3
  <2>2. \A i \in S : (\A k \in S : k <= i) => i = last
    BY <1>1, <1>2, <1>3
  <2> QED BY <2>1, <2>2
<1>5. S # {}
  BY <1>2, <1>3
<1>6. /\ Page(after).after = after /\ Page(after).watermark = n
      /\ Page(after).next = last
      /\ Page(after).entries = {[sequence |-> i, decision |-> events[i]] : i \in S}
  BY <1>4, <1>5 DEF Page, S
<1> QED BY <1>1, <1>2, <1>3, <1>6 DEF PageSound, Entries

(***************************************************************************)
(* accept_resolution of a merge whose branches are admitted admits that    *)
(* merge and no other: what was approved before is admitted already.       *)
(***************************************************************************)
LEMMA ApprovalAdmits ==
  ASSUME NEW j, Consistent(j), j.approved \subseteq j.eligible,
         NEW m \in Merge, ParentsOf[m] \subseteq j.eligible,
         NEW evidence, NEW k \in Approvals(j, m, evidence)
  PROVE  /\ Consistent(k) /\ Rows(k) = Rows(j) /\ m \in Rows(j)
         /\ j.eligible \subseteq k.eligible /\ k.approved \subseteq k.eligible
         /\ Merge \cap k.eligible = (Merge \cap j.eligible) \cup {m}
<1>1. m \in Rows(j)
  BY DEF Approvals
<1>2. PICK S : /\ k = Resolved(j, m, S) /\ AdmissionPass(j, m, S)
               /\ S \in {j.eligible \cup R : R \in SUBSET (Descendants(j, m) \ j.eligible)}
  BY DEF Approvals
<1>3. S \subseteq Rows(j)
  BY <1>2 DEF Descendants, Consistent, JournalType
<1>4. Consistent(k) /\ j.eligible \subseteq S /\ k.eligible = S
  BY <1>1, <1>2, <1>3, ResolvedConsistent
<1>5. k.approved = j.approved \cup {m} /\ Rows(k) = Rows(j)
  BY <1>2 DEF Resolved, Consistent, JournalType, Rows
<1>6. m \in S
  <2>1. Admissible(k, m)
    BY <1>4, <1>5 DEF Admissible
  <2> QED BY <1>1, <1>4, <1>5, <2>1 DEF Consistent, Exact
<1>7. ASSUME NEW r \in Merge \cap S PROVE r \in j.eligible \cup {m}
  <2>1. r \in Rows(k) /\ Admissible(k, r)
    BY <1>3, <1>4, <1>5 DEF Consistent, Exact
  <2> QED BY <1>5, <2>1 DEF Admissible, Merge
<1> QED BY <1>1, <1>4, <1>5, <1>6, <1>7

(***************************************************************************)
(* A merge that enters a journal waits for its approval.                   *)
(***************************************************************************)
LEMMA InsertionAdmitsNoMerge ==
  ASSUME NEW j, Consistent(j), j.approved \subseteq j.eligible, NEW r \in Revision, CanReceive(j, r)
  PROVE  /\ Consistent(Inserted(j, r)) /\ Rows(Inserted(j, r)) = Rows(j) \cup {r}
         /\ j.eligible \subseteq Inserted(j, r).eligible
         /\ Inserted(j, r).approved \subseteq Inserted(j, r).eligible
         /\ Merge \cap Inserted(j, r).eligible = Merge \cap j.eligible
<1>1. /\ Inserted(j, r).approved = j.approved
      /\ Inserted(j, r).eligible = IF Admissible(j, r) THEN j.eligible \cup {r} ELSE j.eligible
  BY DEF Inserted, Consistent, JournalType
<1>2. r \notin j.approved
  BY DEF CanReceive, Consistent, JournalType
<1> QED BY <1>1, <1>2, InsertedConsistent DEF Admissible, Merge

---------------------------------------------------------------------------
\* Decisions, proposals and the journals' rows and admissions are kept.
Grown ==
  /\ events' \in Seq(Decision)
  /\ Len(events) <= Len(events') /\ \A i \in DOMAIN events : events'[i] = events[i]
  /\ \A d \in Device :
       /\ DOMAIN proposals[d] \subseteq DOMAIN proposals'[d]
       /\ \A o \in DOMAIN proposals[d] : proposals'[d][o] = proposals[d][o]
       /\ Rows(journal[d]) \subseteq Rows(journal'[d])
       /\ journal[d].eligible \subseteq journal'[d].eligible

(***************************************************************************)
(* What rests on them stays sound while nothing else changes.              *)
(***************************************************************************)
LEMMA GrownChosen ==
  ASSUME IInv, Grown
  PROVE  /\ Chosen \subseteq Chosen'
         /\ \A e : Proposed(e) => Proposed(e)'
         /\ \A f : FeedSound(f) => FeedSound(f)'
         /\ \A p : PageSound(p) => PageSound(p)'
<1>1. DOMAIN events = 1..Len(events) /\ DOMAIN events' = 1..Len(events') /\ Len(events) \in Nat /\ Len(events') \in Nat
  BY DEF IInv, Grown
<1>2. \A i \in DOMAIN events : i \in DOMAIN events' /\ events'[i] = events[i]
  BY <1>1 DEF Grown
<1>3. Chosen \subseteq Chosen'
  BY <1>2 DEF Chosen
<1>4. ASSUME NEW e, Proposed(e) PROVE Proposed(e)'
  BY <1>4 DEF Proposed, Grown
<1>5. ASSUME NEW lo \in Nat \ {0}, NEW hi \in Nat, hi <= Len(events)
      PROVE  Entries(lo, hi)' = Entries(lo, hi)
  <2>1. \A i \in lo..hi : events'[i] = events[i]
    BY <1>1, <1>2, <1>5
  <2> QED BY <2>1 DEF Entries
<1>6. ASSUME NEW f, FeedSound(f) PROVE FeedSound(f)'
  <2>1. Entries(1, f.next)' = Entries(1, f.next)
    BY <1>1, <1>5, <1>6 DEF FeedSound
  <2> QED BY <1>1, <1>6, <2>1 DEF FeedSound, Grown
<1>7. ASSUME NEW p, PageSound(p) PROVE PageSound(p)'
  <2>1. Entries(p.after + 1, p.next)' = Entries(p.after + 1, p.next)
    BY <1>1, <1>5, <1>7 DEF PageSound
  <2> QED BY <1>1, <1>7, <2>1 DEF PageSound, Grown
<1> QED BY <1>3, <1>4, <1>6, <1>7

(***************************************************************************)
(* A step that adds decisions, proposals or revisions leaves the parts of  *)
(* the invariant sound whose own variables it does not change.             *)
(***************************************************************************)
LEMMA GrownKeeps ==
  ASSUME IInv, Grown
  PROVE  /\ UNCHANGED <<feed, fetch>> => Feeds'
         /\ UNCHANGED proposals => ProposalsSound'
         /\ UNCHANGED <<events, late>> => Asked'
         /\ \A d \in Device :
              /\ journal'[d] = journal[d] => JournalSound(d)'
              /\ settled'[d] = settled[d] /\ published'[d] = published[d] /\ decisions'[d] = decisions[d]
                   => TablesSound(d)'
              /\ call'[d] = call[d] => CallSound(d)'
<1> USE GrownChosen
<1>1. UNCHANGED <<feed, fetch>> => Feeds'
  BY DEF IInv, Feeds
<1>2. UNCHANGED proposals => ProposalsSound'
  BY DEF IInv, ProposalsSound, Grown
<1>3. UNCHANGED <<events, late>> => Asked'
  BY DEF IInv, Asked, Chosen
<1>4. ASSUME NEW d \in Device, journal'[d] = journal[d] PROVE JournalSound(d)'
  BY <1>4 DEF IInv, Sound, JournalSound
<1>5. ASSUME NEW d \in Device, settled'[d] = settled[d], published'[d] = published[d], decisions'[d] = decisions[d]
      PROVE  TablesSound(d)'
  BY <1>5 DEF IInv, Sound, TablesSound, Grown
<1>6. ASSUME NEW d \in Device, call'[d] = call[d] PROVE CallSound(d)'
  <2>1. CallSound(d)
    BY DEF IInv, Sound
  <2>2. CASE call[d] = Idle
    BY <1>6, <2>2 DEF CallSound, Idle
  <2>3. CASE \E o \in DOMAIN proposals[d], s \in {"submit", "receive", "approve", "publish"} :
               /\ call[d] = [step |-> s, operation |-> o]
               /\ s # "submit" => \E e \in Chosen : e.operation = o
    <3>1. PICK o \in DOMAIN proposals[d], s \in {"submit", "receive", "approve", "publish"} :
               /\ call[d] = [step |-> s, operation |-> o]
               /\ s # "submit" => \E e \in Chosen : e.operation = o
      BY <2>3
    <3>2. o \in DOMAIN proposals'[d] /\ (s # "submit" => \E e \in Chosen' : e.operation = o)
      BY <3>1 DEF Grown
    <3> QED BY <1>6, <3>1, <3>2 DEF CallSound
  <2>4. CASE \E o \in DOMAIN proposals[d], w \in BOOLEAN, A \in SUBSET Chosen :
               call[d] = [step |-> "answered", operation |-> o, write |-> w, answer |-> A]
    <3>1. PICK o \in DOMAIN proposals[d], w \in BOOLEAN, A \in SUBSET Chosen :
               call[d] = [step |-> "answered", operation |-> o, write |-> w, answer |-> A]
      BY <2>4
    <3>2. o \in DOMAIN proposals'[d] /\ A \in SUBSET Chosen'
      BY <3>1 DEF Grown
    <3> QED BY <1>6, <3>1, <3>2 DEF CallSound
  <2>5. CASE \E m \in Merge \cap Rows(journal[d]), A \in SUBSET Chosen :
               /\ call[d] = [step |-> "looked", resolution |-> m, answer |-> A]
               /\ ParentsOf[m] \subseteq journal[d].eligible
    <3>1. PICK m \in Merge \cap Rows(journal[d]), A \in SUBSET Chosen :
               /\ call[d] = [step |-> "looked", resolution |-> m, answer |-> A]
               /\ ParentsOf[m] \subseteq journal[d].eligible
      BY <2>5
    <3>2. m \in Merge \cap Rows(journal'[d]) /\ A \in SUBSET Chosen' /\ ParentsOf[m] \subseteq journal'[d].eligible
      BY <3>1 DEF Grown
    <3> QED BY <1>6, <3>1, <3>2 DEF CallSound
  <2> QED BY <2>1, <2>2, <2>3, <2>4, <2>5 DEF CallSound
<1> QED BY <1>1, <1>2, <1>3, <1>4, <1>5, <1>6

(***************************************************************************)
(* The devices agree on Start, and nothing has been asked.                 *)
(***************************************************************************)
LEMMA InitInductive == Init => IInv
<1> SUFFICES ASSUME Init PROVE IInv
  OBVIOUS
<1>1. ByDevice
  BY DEF Init, ByDevice
<1>2. Chosen = {} /\ events = <<>> /\ DecidedOnce /\ late = {}
  BY DEF Init, Chosen, DecidedOnce
<1>3. Asked
  BY <1>2 DEF Asked
<1>4. ProposalsSound
  BY DEF Init, ProposalsSound
<1>5. ASSUME NEW d \in Device PROVE Sound(d)
  <2>1. JournalSound(d)
    BY StartAssumption DEF Init, JournalSound, Merge
  <2> QED BY <2>1 DEF Init, Sound, TablesSound, CallSound
<1>6. ASSUME NEW d \in Device PROVE FeedSound(feed[d]) /\ fetch[d] = Idle
  BY <1>2 DEF Init, FeedSound, Entries
<1> QED BY <1>1, <1>2, <1>3, <1>4, <1>5, <1>6 DEF IInv, Feeds

---------------------------------------------------------------------------
(***************************************************************************)
(* A step of the journal of d that only adds to it keeps the invariant.    *)
(***************************************************************************)
LEMMA JournalStep ==
  ASSUME IInv, NEW d \in Device, NEW k,
         Consistent(k), k.approved \subseteq k.eligible,
         Rows(journal[d]) \subseteq Rows(k), journal[d].eligible \subseteq k.eligible,
         \A m \in Merge \cap Rows(k) : \E e \in Chosen : e.resolution = m,
         journal' = [journal EXCEPT ![d] = k],
         call' = call \/ (CallSound(d)' /\ \E c : call' = [call EXCEPT ![d] = c]),
         UNCHANGED <<events, late, proposals, settled, decisions, published, feed, fetch>>
  PROVE  IInv'
<1>1. journal'[d] = k /\ \A x \in Device \ {d} : journal'[x] = journal[x] /\ call'[x] = call[x]
  BY DEF IInv, ByDevice
<1>2. Grown
  BY <1>1 DEF IInv, Grown
<1>3. ByDevice'
  BY DEF IInv, ByDevice
<1>4. JournalSound(d)'
  BY <1>1, <1>2, GrownChosen DEF JournalSound
<1>5. CallSound(d)'
  BY <1>2, GrownKeeps
<1>6. \A x \in Device : Sound(x)'
  BY <1>1, <1>2, <1>4, <1>5, GrownKeeps DEF Sound
<1>7. events' \in Seq(Decision) /\ DecidedOnce'
  BY DEF IInv, DecidedOnce
<1> QED BY <1>2, <1>3, <1>6, <1>7, GrownKeeps DEF IInv

(***************************************************************************)
(* A step of the call of d, which may settle or publish a proposal, keeps  *)
(* the invariant.                                                          *)
(***************************************************************************)
LEMMA CallStep ==
  ASSUME IInv, NEW d \in Device, NEW c, call' = [call EXCEPT ![d] = c], CallSound(d)',
         \/ UNCHANGED <<settled, decisions, published>>
         \/ /\ TablesSound(d)'
            /\ \E S : settled' = [settled EXCEPT ![d] = S]
            /\ \E S : decisions' = [decisions EXCEPT ![d] = S]
            /\ \E S : published' = [published EXCEPT ![d] = S],
         events' \in Seq(Decision), DecidedOnce', Asked',
         Len(events) <= Len(events'), \A i \in DOMAIN events : events'[i] = events[i],
         UNCHANGED <<journal, proposals, feed>>,
         fetch' = fetch \/ fetch' = [fetch EXCEPT ![d] = Idle]
  PROVE  IInv'
<1>1. \A x \in Device \ {d} : /\ call'[x] = call[x] /\ settled'[x] = settled[x]
                              /\ decisions'[x] = decisions[x] /\ published'[x] = published[x]
  BY DEF IInv, ByDevice
<1>2. Grown
  BY DEF IInv, Grown
<1>3. ByDevice'
  <2>1. call' = [x \in Device |-> call'[x]] /\ fetch' = [x \in Device |-> fetch'[x]]
    BY DEF IInv, ByDevice
  <2>2. /\ settled' = [x \in Device |-> settled'[x]] /\ decisions' = [x \in Device |-> decisions'[x]]
        /\ published' = [x \in Device |-> published'[x]]
    BY DEF IInv, ByDevice
  <2> QED BY <2>1, <2>2 DEF IInv, ByDevice
<1>4. TablesSound(d)'
  BY <1>2, GrownKeeps
<1>5. \A x \in Device : Sound(x)'
  BY <1>1, <1>2, <1>4, GrownKeeps DEF Sound
<1>6. Feeds'
  <2>1. \A x \in Device : fetch'[x] = fetch[x] \/ fetch'[x] = Idle
    BY DEF IInv, ByDevice
  <2> QED BY <1>2, <2>1, GrownChosen DEF IInv, Feeds
<1> QED BY <1>2, <1>3, <1>5, <1>6, GrownKeeps DEF IInv

(***************************************************************************)
(* A step of the feed of d keeps the invariant.                            *)
(***************************************************************************)
LEMMA FeedStep ==
  ASSUME IInv, NEW d \in Device, NEW p, NEW f,
         feed' = [feed EXCEPT ![d] = f], fetch' = [fetch EXCEPT ![d] = p],
         FeedSound(f), p = Idle \/ PageSound(p),
         UNCHANGED <<events, late, journal, proposals, settled, decisions, published, call>>
  PROVE  IInv'
<1>1. Grown
  BY DEF IInv, Grown
<1>2. ByDevice'
  BY DEF IInv, ByDevice
<1>3. \A x \in Device : FeedSound(feed'[x]) /\ (fetch'[x] = Idle \/ PageSound(fetch'[x]))
  BY DEF IInv, Feeds, ByDevice
<1>4. Feeds'
  BY <1>1, <1>3, GrownChosen DEF Feeds
<1>5. DecidedOnce'
  BY DEF IInv, DecidedOnce
<1> QED BY <1>1, <1>2, <1>4, <1>5, GrownKeeps DEF IInv, Sound

(***************************************************************************)
(* The operation that a waiting call is about, and its proposal.           *)
(***************************************************************************)
LEMMA CallOperation ==
  ASSUME IInv, NEW d \in Device,
         call[d].step \in {"submit", "receive", "approve", "publish", "answered"}
  PROVE  /\ call[d].operation \in DOMAIN proposals[d] /\ call[d].operation \in Operation
         /\ proposals[d][call[d].operation] \in Merge
         /\ ParentsOf[proposals[d][call[d].operation]] \subseteq journal[d].eligible
         /\ call[d].step \in {"receive", "approve", "publish"} =>
              /\ call[d] = [step |-> call[d].step, operation |-> call[d].operation]
              /\ \E e \in Chosen : /\ e.operation = call[d].operation
                                   /\ e.resolution = proposals[d][call[d].operation]
         /\ call[d].step = "answered" =>
              call[d].answer \subseteq Chosen /\ call[d].write \in BOOLEAN
<1>1. CallSound(d)
  BY DEF IInv, Sound
<1>2. /\ call[d].operation \in DOMAIN proposals[d]
      /\ call[d].step \in {"receive", "approve", "publish"} =>
              /\ call[d] = [step |-> call[d].step, operation |-> call[d].operation]
              /\ \E e \in Chosen : e.operation = call[d].operation
      /\ call[d].step = "answered" => call[d].answer \subseteq Chosen /\ call[d].write \in BOOLEAN
  <2>1. CASE \E o \in DOMAIN proposals[d], s \in {"submit", "receive", "approve", "publish"} :
               /\ call[d] = [step |-> s, operation |-> o]
               /\ s # "submit" => \E e \in Chosen : e.operation = o
    BY <2>1
  <2>2. CASE \E o \in DOMAIN proposals[d], w \in BOOLEAN, A \in SUBSET Chosen :
               call[d] = [step |-> "answered", operation |-> o, write |-> w, answer |-> A]
    BY <2>2
  <2>3. call[d] # Idle
    BY DEF Idle
  <2>4. ~\E m \in Merge \cap Rows(journal[d]), A \in SUBSET Chosen :
          call[d] = [step |-> "looked", resolution |-> m, answer |-> A]
    <3> SUFFICES ASSUME NEW m, NEW A, call[d] = [step |-> "looked", resolution |-> m, answer |-> A]
                 PROVE  FALSE
      OBVIOUS
    <3>1. call[d].step = "looked"
      OBVIOUS
    <3> QED BY <3>1
  <2> QED BY <1>1, <2>1, <2>2, <2>3, <2>4 DEF CallSound
<1>3. ASSUME NEW e \in Chosen, e.operation = call[d].operation
      PROVE  e.resolution = proposals[d][call[d].operation]
  BY <1>2, <1>3 DEF IInv, Asked, Proposed, ProposalsSound
<1> QED BY <1>2, <1>3 DEF IInv, ProposalsSound

---------------------------------------------------------------------------
(***************************************************************************)
(* The authority's steps: a decide request that reaches it, late or not,   *)
(* was proposed by its device.                                             *)
(***************************************************************************)
LEMMA ServeInductive ==
  ASSUME IInv, NEW d \in Device, Serve(d)
  PROVE  IInv'
<1> DEFINE o == call[d].operation
           m == proposals[d][o]
           answer == Latest(events', m)
           c == IF \A e \in answer : e.operation # o THEN Idle
                ELSE [step |-> "answered", operation |-> o, write |-> TRUE, answer |-> answer]
<1>1. /\ call[d].step = "submit" /\ events' = Decide(o, m)
      /\ call' = [call EXCEPT ![d] = c]
      /\ UNCHANGED <<late, stores, fetch>>
  BY DEF Serve
<1>2. o \in DOMAIN proposals[d] /\ o \in Operation /\ m \in Merge
  BY <1>1, CallOperation
<1>3. /\ events' \in Seq(Decision) /\ DecidedOnce'
      /\ Len(events) <= Len(events') /\ \A i \in DOMAIN events : events'[i] = events[i]
      /\ Chosen \subseteq Chosen' /\ \A e \in Chosen' \ Chosen : e = [operation |-> o, resolution |-> m]
  BY <1>1, <1>2, DecideKeeps DEF IInv
<1>4. Asked'
  <2>1. proposals' = proposals /\ late' = late
    BY <1>1 DEF stores
  <2>2. ASSUME NEW e \in Chosen' \cup late' PROVE Proposed(e)
    <3>1. CASE e \in Chosen \cup late
      BY <3>1 DEF IInv, Asked
    <3>2. CASE e \notin Chosen \cup late
      <4>1. e = [operation |-> o, resolution |-> m]
        BY <1>3, <2>1, <2>2, <3>2
      <4> QED BY <1>2, <4>1 DEF Proposed
    <3> QED BY <3>1, <3>2
  <2> QED BY <2>1, <2>2 DEF Asked, IInv, Proposed
<1>5. CallSound(d)'
  <2>1. answer \subseteq Chosen'
    BY DEF Latest, Chosen
  <2>2. call'[d] = c /\ proposals' = proposals
    BY <1>1 DEF IInv, ByDevice, stores
  <2> HIDE DEF answer, o
  <2>3. c = Idle \/ c = [step |-> "answered", operation |-> o, write |-> TRUE, answer |-> answer]
    OBVIOUS
  <2> HIDE DEF c
  <2> QED BY <1>2, <2>1, <2>2, <2>3 DEF CallSound, Idle
<1> HIDE DEF c
<1> QED BY <1>1, <1>3, <1>4, <1>5, CallStep DEF stores

(***************************************************************************)
(* A request that arrives after its caller gave up may record the          *)
(* decision, and answers nobody.                                           *)
(***************************************************************************)
LEMMA ServeLateInductive ==
  ASSUME IInv, NEW e \in late, ServeLate(e)
  PROVE  IInv'
<1>1. /\ e \in Decision /\ Proposed(e)
      /\ e = [operation |-> e.operation, resolution |-> e.resolution]
      /\ e.operation \in Operation /\ e.resolution \in Merge
  BY DEF IInv, Asked, Decision
<1>2. events' = Decide(e.operation, e.resolution) /\ late' = late \ {e} /\ UNCHANGED <<stores, call, fetch>>
  BY DEF ServeLate
<1>3. /\ events' \in Seq(Decision) /\ DecidedOnce'
      /\ Len(events) <= Len(events') /\ \A i \in DOMAIN events : events'[i] = events[i]
      /\ \A x \in Chosen' \ Chosen : x = e
  BY <1>1, <1>2, DecideKeeps DEF IInv
<1>4. Grown
  BY <1>2, <1>3 DEF Grown, stores
<1>5. Asked'
  BY <1>1, <1>2, <1>3, <1>4, GrownChosen DEF IInv, Asked
<1>6. ByDevice'
  BY <1>2 DEF IInv, ByDevice, stores
<1> QED BY <1>2, <1>3, <1>4, <1>5, <1>6, GrownKeeps DEF IInv, Sound, stores

(***************************************************************************)
(* The feed's steps.                                                       *)
(***************************************************************************)
LEMMA FeedInductive ==
  ASSUME IInv, NEW d \in Device, Feed(d) \/ FeedTimeout(d)
  PROVE  IInv'
<1>1. FeedSound(feed[d]) /\ (fetch[d] = Idle \/ PageSound(fetch[d]))
  BY DEF IInv, Feeds
<1>2. feed = [feed EXCEPT ![d] = feed[d]]
  BY DEF IInv, ByDevice
<1>3. CASE RefreshDecisions(d)
  <2>1. feed[d].next \in Nat /\ feed[d].next < Len(events)
    BY <1>1, <1>3 DEF RefreshDecisions, FeedSound
  <2>2. PageSound(Page(feed[d].next))
    BY <2>1, PageIsSound DEF IInv
  <2> QED BY <1>1, <1>2, <1>3, <2>2, FeedStep DEF RefreshDecisions, stores
<1>4. CASE AcceptPage(d)
  <2> DEFINE p == fetch[d]
             valid == /\ feed[d].next = p.after
                      /\ p.watermark >= feed[d].watermark
                      /\ \A e \in p.entries : FeedLatest(d, e.decision.resolution) = {}
             f == IF valid THEN StoredPage(feed[d], p) ELSE feed[d]
  <2>1. feed' = [feed EXCEPT ![d] = f] /\ fetch' = [fetch EXCEPT ![d] = Idle] /\ PageSound(p)
    BY <1>1, <1>4 DEF AcceptPage
  <2>2. ASSUME valid PROVE FeedSound(StoredPage(feed[d], p))
    <3> DEFINE g == StoredPage(feed[d], p)
    <3>1. /\ DOMAIN g = {"next", "watermark", "latest"}
          /\ g.next = p.next /\ g.watermark = p.watermark
          /\ g.latest = feed[d].latest \cup p.entries
      BY <1>1 DEF StoredPage, FeedSound
    <3>2. feed[d].next = p.after /\ p.after \in Nat /\ p.next \in Nat /\ p.after < p.next
      BY <2>1, <2>2 DEF PageSound
    <3>3. 1..p.next = (1..p.after) \cup (p.after+1..p.next)
      BY <3>2
    <3>4. feed[d].latest \cup p.entries = Entries(1, p.next)
      BY <1>1, <2>1, <3>2, <3>3 DEF FeedSound, PageSound, Entries
    <3> HIDE DEF g
    <3> QED BY <2>1, <3>1, <3>4 DEF FeedSound, PageSound, g
  <2>3. FeedSound(f)
    BY <1>1, <2>2
  <2> HIDE DEF f
  <2> QED BY <1>4, <2>1, <2>3, FeedStep DEF AcceptPage
<1>5. CASE FeedTimeout(d)
  BY <1>1, <1>2, <1>5, FeedStep DEF FeedTimeout, stores
<1> QED BY <1>3, <1>4, <1>5 DEF Feed

(***************************************************************************)
(* A new proposal has an operation of its own and merges admitted heads.   *)
(***************************************************************************)
LEMMA PrepareInductive ==
  ASSUME IInv, NEW d \in Device, NEW m \in Merge, PrepareResolution(d, m)
  PROVE  IInv'
<1> DEFINE unused == Operation \ UNION {DOMAIN proposals[e] : e \in Device}
           o == CHOOSE o \in unused : TRUE
           new == [p \in DOMAIN proposals[d] \cup {o} |-> IF p = o THEN m ELSE proposals[d][p]]
<1>1. /\ unused # {} /\ ParentsOf[m] = Heads(journal[d])
      /\ proposals' = [proposals EXCEPT ![d] = new]
      /\ UNCHANGED <<events, late, journal, settled, decisions, published, feed, call, fetch>>
  BY DEF PrepareResolution
<1>2. o \in unused
  BY <1>1
<1> HIDE DEF o
<1>3. o \in Operation /\ \A e \in Device : o \notin DOMAIN proposals[e]
  BY <1>2
<1>4. /\ DOMAIN new = DOMAIN proposals[d] \cup {o} /\ new[o] = m
      /\ \A p \in DOMAIN proposals[d] : new[p] = proposals[d][p]
  BY <1>3
<1>5. proposals'[d] = new /\ \A x \in Device \ {d} : proposals'[x] = proposals[x]
  BY <1>1 DEF IInv, ByDevice
<1>6. new \in [DOMAIN new -> Merge]
  BY <1>4 DEF IInv, ProposalsSound
<1> HIDE DEF new
<1>7. Grown
  BY <1>1, <1>4, <1>5 DEF IInv, Grown
<1>8. ByDevice'
  BY <1>1 DEF IInv, ByDevice
<1>9. ProposalsSound'
  <2>1. ParentsOf[m] \subseteq journal[d].eligible
    BY <1>1 DEF Heads
  <2>2. ASSUME NEW x \in Device
        PROVE  /\ proposals'[x] \in [DOMAIN proposals'[x] -> Merge]
               /\ DOMAIN proposals'[x] \subseteq Operation
               /\ \A p \in DOMAIN proposals'[x] : ParentsOf[proposals'[x][p]] \subseteq journal'[x].eligible
    <3>1. CASE x = d
      BY <1>1, <1>3, <1>4, <1>5, <1>6, <2>1, <3>1 DEF IInv, ProposalsSound
    <3>2. CASE x # d
      BY <1>1, <1>5, <3>2 DEF IInv, ProposalsSound
    <3> QED BY <3>1, <3>2
  <2>3. ASSUME NEW x \in Device, NEW y \in Device, NEW p \in DOMAIN proposals'[x] \cap DOMAIN proposals'[y]
        PROVE  x = y
    <3>1. \A z \in Device : \A q \in DOMAIN proposals'[z] :
            q \in DOMAIN proposals[z] \/ (z = d /\ q = o)
      BY <1>4, <1>5
    <3> QED BY <1>3, <2>3, <3>1 DEF IInv, ProposalsSound
  <2> QED BY <2>2, <2>3 DEF ProposalsSound
<1>10. DecidedOnce'
  BY <1>1 DEF IInv, DecidedOnce
<1> QED BY <1>1, <1>7, <1>8, <1>9, <1>10, GrownKeeps DEF IInv, Sound

---------------------------------------------------------------------------
\* A step of one device admits nothing new or one merge that was chosen.
AdmitsChosen(d) ==
  /\ \A x \in Device \ {d} : journal'[x] = journal[x]
  /\ \/ Merge \cap journal'[d].eligible = Merge \cap journal[d].eligible
     \/ \E e \in Chosen : /\ e.resolution \in Merge
                          /\ Merge \cap journal'[d].eligible
                               = (Merge \cap journal[d].eligible) \cup {e.resolution}

(***************************************************************************)
(* accept_resolution, and the steps of a call that ends in one, admit only *)
(* the merge it names.                                                     *)
(***************************************************************************)
LEMMA ApproveInductive ==
  ASSUME IInv, NEW d \in Device, NEW m \in Merge, ParentsOf[m] \subseteq journal[d].eligible,
         NEW evidence, NEW k \in Approvals(journal[d], m, evidence),
         journal' = [journal EXCEPT ![d] = k],
         call' = call \/ (CallSound(d)' /\ \E c : call' = [call EXCEPT ![d] = c]),
         UNCHANGED <<events, late, proposals, settled, decisions, published, feed, fetch>>
  PROVE  IInv' /\ AdmitsChosen(d)
<1>1. JournalSound(d)
  BY DEF IInv, Sound
<1>2. /\ Consistent(k) /\ Rows(k) = Rows(journal[d]) /\ m \in Rows(journal[d])
      /\ journal[d].eligible \subseteq k.eligible /\ k.approved \subseteq k.eligible
      /\ Merge \cap k.eligible = (Merge \cap journal[d].eligible) \cup {m}
  BY <1>1, ApprovalAdmits DEF JournalSound
<1>3. \A n \in Merge \cap Rows(k) : \E e \in Chosen : e.resolution = n
  BY <1>1, <1>2 DEF JournalSound
<1>4. IInv'
  BY <1>2, <1>3, JournalStep
<1>5. journal'[d] = k /\ \A x \in Device \ {d} : journal'[x] = journal[x]
  BY DEF IInv, ByDevice
<1> QED BY <1>2, <1>3, <1>4, <1>5 DEF AdmitsChosen

(***************************************************************************)
(* A revision that enters the journal of d, of which a merge was chosen.   *)
(***************************************************************************)
LEMMA InsertInductive ==
  ASSUME IInv, NEW d \in Device, NEW r \in Revision, CanReceive(journal[d], r),
         r \in Merge => \E e \in Chosen : e.resolution = r,
         journal' = [journal EXCEPT ![d] = Inserted(journal[d], r)],
         call' = call \/ (CallSound(d)' /\ \E c : call' = [call EXCEPT ![d] = c]),
         UNCHANGED <<events, late, proposals, settled, decisions, published, feed, fetch>>
  PROVE  IInv' /\ AdmitsChosen(d)
<1> DEFINE k == Inserted(journal[d], r)
<1>1. JournalSound(d)
  BY DEF IInv, Sound
<1>2. /\ Consistent(k) /\ Rows(k) = Rows(journal[d]) \cup {r}
      /\ journal[d].eligible \subseteq k.eligible /\ k.approved \subseteq k.eligible
      /\ Merge \cap k.eligible = Merge \cap journal[d].eligible
  BY <1>1, InsertionAdmitsNoMerge DEF JournalSound
<1>3. \A n \in Merge \cap Rows(k) : \E e \in Chosen : e.resolution = n
  BY <1>1, <1>2 DEF JournalSound
<1> HIDE DEF k
<1>4. journal' = [journal EXCEPT ![d] = k]
  BY DEF k
<1>5. IInv'
  BY <1>2, <1>3, <1>4, JournalStep
<1>6. journal'[d] = k /\ \A x \in Device \ {d} : journal'[x] = journal[x]
  BY <1>4 DEF IInv, ByDevice
<1> QED BY <1>2, <1>5, <1>6 DEF AdmitsChosen

(***************************************************************************)
(* A call that has ended is about nothing.                                 *)
(***************************************************************************)
LEMMA IdleCallSound ==
  ASSUME IInv, NEW d \in Device, call' = [call EXCEPT ![d] = Idle]
  PROVE  CallSound(d)'
BY DEF IInv, ByDevice, CallSound

(***************************************************************************)
(* The steps that write the journal of d.                                  *)
(***************************************************************************)
LEMMA JournalActions ==
  ASSUME IInv, NEW d \in Device,
         \/ ResolveNext(d) \/ ApproveLooked(d) \/ ReceiveResolution(d) \/ ApproveResolution(d)
         \/ \E r \in Revision : Save(d, r) \/ Deliver(d, r)
  PROVE  IInv' /\ UNCHANGED events /\ AdmitsChosen(d)
<1>0. JournalSound(d) /\ journal = [x \in Device |-> journal[x]]
  BY DEF IInv, Sound, ByDevice
<1> DEFINE Same == UNCHANGED <<events, late, proposals, settled, decisions, published, feed, fetch>>
<1>1. CASE ResolveNext(d)
  <2>1. PICK m \in PendingResolutions(d) : ResolveNext(d)!(m)
    BY <1>1 DEF ResolveNext
  <2> DEFINE known == {e.decision : e \in FeedLatest(d, m)}
  <2>2. /\ m \in Merge \cap Rows(journal[d]) /\ ParentsOf[m] \subseteq journal[d].eligible /\ Same
        /\ \/ /\ \E j \in Approvals(journal[d], m, known) : journal' = [journal EXCEPT ![d] = j]
              /\ call' = call
           \/ /\ call' = [call EXCEPT ![d] = [step |-> "looked", resolution |-> m, answer |-> Latest(events, m)]]
              /\ journal' = journal
    BY <2>1 DEF PendingResolutions
  <2> HIDE DEF known
  <2>3. CASE \E j \in Approvals(journal[d], m, known) : journal' = [journal EXCEPT ![d] = j] /\ call' = call
    BY <2>2, <2>3, ApproveInductive
  <2>4. CASE /\ call' = [call EXCEPT ![d] = [step |-> "looked", resolution |-> m, answer |-> Latest(events, m)]]
             /\ journal' = journal
    <3>1. Latest(events, m) \in SUBSET Chosen /\ Chosen' = Chosen
      BY <2>2 DEF Latest, Chosen
    <3>2. call'[d] = [step |-> "looked", resolution |-> m, answer |-> Latest(events, m)]
      BY <2>4 DEF IInv, ByDevice
    <3>3. CallSound(d)'
      BY <2>2, <2>4, <3>1, <3>2 DEF CallSound
    <3>4. DecidedOnce' /\ Asked' /\ events' \in Seq(Decision)
      BY <2>2, <2>4 DEF IInv, DecidedOnce, Asked, Chosen, Proposed
    <3>5. Len(events) <= Len(events') /\ \A i \in DOMAIN events : events'[i] = events[i]
      BY <2>2 DEF IInv
    <3>6. IInv'
      BY <2>2, <2>4, <3>3, <3>4, <3>5, CallStep
    <3> QED BY <2>2, <2>4, <3>6 DEF AdmitsChosen
  <2> QED BY <2>2, <2>3, <2>4
<1>2. CASE ApproveLooked(d)
  <2> DEFINE m == call[d].resolution
             choices == Approvals(journal[d], m, call[d].answer)
  <2>1. /\ m \in Merge /\ ParentsOf[m] \subseteq journal[d].eligible
    <3>1. CallSound(d) /\ call[d].step = "looked"
      BY <1>2 DEF IInv, Sound, ApproveLooked
    <3>2. call[d] # Idle
      BY <3>1 DEF Idle
    <3>3. ASSUME NEW o, NEW s \in {"submit", "receive", "approve", "publish"},
                 call[d] = [step |-> s, operation |-> o]
          PROVE  FALSE
      <4>1. call[d].step = s
        BY <3>3
      <4> QED BY <3>1, <4>1
    <3>4. ASSUME NEW o, NEW w, NEW A,
                 call[d] = [step |-> "answered", operation |-> o, write |-> w, answer |-> A]
          PROVE  FALSE
      <4>1. call[d].step = "answered"
        BY <3>4
      <4> QED BY <3>1, <4>1
    <3>5. PICK n \in Merge \cap Rows(journal[d]), A \in SUBSET Chosen :
            /\ call[d] = [step |-> "looked", resolution |-> n, answer |-> A]
            /\ ParentsOf[n] \subseteq journal[d].eligible
      BY <3>1, <3>2, <3>3, <3>4 DEF CallSound
    <3>6. m = n
      BY <3>5
    <3> QED BY <3>5, <3>6
  <2>2. /\ \E j \in IF choices = {} THEN {journal[d]} ELSE choices : journal' = [journal EXCEPT ![d] = j]
        /\ call' = [call EXCEPT ![d] = Idle] /\ Same
    BY <1>2 DEF ApproveLooked
  <2>3. CallSound(d)'
    BY <2>2, IdleCallSound
  <2> HIDE DEF choices
  <2>4. CASE \E j \in choices : journal' = [journal EXCEPT ![d] = j]
    BY <2>1, <2>2, <2>3, <2>4, ApproveInductive DEF choices
  <2>5. CASE journal' = [journal EXCEPT ![d] = journal[d]]
    <3>1. IInv'
      BY <1>0, <2>2, <2>3, <2>5, JournalStep DEF JournalSound
    <3> QED BY <1>0, <2>2, <2>5, <3>1 DEF AdmitsChosen
  <2> QED BY <2>2, <2>4, <2>5
<1>3. CASE ReceiveResolution(d)
  <2> DEFINE o == call[d].operation
             m == proposals[d][o]
  <2>1. /\ journal' = [journal EXCEPT ![d] = Received(journal[d], m)]
        /\ call' = [call EXCEPT ![d].step = "approve"] /\ Same
        /\ call[d].step = "receive"
    BY <1>3 DEF ReceiveResolution
  <2>2. /\ o \in DOMAIN proposals[d] /\ m \in Merge
        /\ call[d] = [step |-> "receive", operation |-> o]
        /\ \E e \in Chosen : e.operation = o /\ e.resolution = m
    BY <2>1, CallOperation
  <2>3. call' = [call EXCEPT ![d] = [step |-> "approve", operation |-> o]]
    <3>1. [call[d] EXCEPT !.step = "approve"] = [step |-> "approve", operation |-> o]
      BY <2>2
    <3>2. call' = [call EXCEPT ![d] = [call[d] EXCEPT !.step = "approve"]]
      BY <2>1
    <3> QED BY <3>1, <3>2
  <2>4. CallSound(d)'
    <3>1. call'[d] = [step |-> "approve", operation |-> o] /\ Chosen' = Chosen
      BY <2>1, <2>3 DEF IInv, ByDevice, Chosen
    <3> QED BY <2>1, <2>2, <3>1 DEF CallSound
  <2> HIDE DEF o, m
  <2>5. CASE CanReceive(journal[d], m)
    <3>1. m \in Revision /\ journal' = [journal EXCEPT ![d] = Inserted(journal[d], m)]
      BY <2>1, <2>2, <2>5 DEF Received, Merge
    <3> QED BY <2>1, <2>2, <2>3, <2>4, <2>5, <3>1, InsertInductive
  <2>6. CASE ~CanReceive(journal[d], m)
    <3>1. journal' = [journal EXCEPT ![d] = journal[d]]
      BY <2>1, <2>6 DEF Received
    <3>2. IInv'
      BY <1>0, <2>1, <2>3, <2>4, <3>1, JournalStep DEF JournalSound
    <3> QED BY <1>0, <2>1, <3>1, <3>2 DEF AdmitsChosen
  <2> QED BY <2>5, <2>6
<1>4. CASE ApproveResolution(d)
  <2> DEFINE o == call[d].operation
             m == proposals[d][o]
             choices == Approvals(journal[d], m, Deciding(decisions[d], m))
             c == IF choices = {} THEN Idle ELSE [call[d] EXCEPT !.step = "publish"]
  <2>1. /\ \E j \in IF choices = {} THEN {journal[d]} ELSE choices : journal' = [journal EXCEPT ![d] = j]
        /\ call' = [call EXCEPT ![d] = c] /\ Same
        /\ call[d].step = "approve"
    BY <1>4 DEF ApproveResolution
  <2>2. /\ o \in DOMAIN proposals[d] /\ m \in Merge /\ ParentsOf[m] \subseteq journal[d].eligible
        /\ call[d] = [step |-> "approve", operation |-> o]
        /\ \E e \in Chosen : e.operation = o
    BY <2>1, CallOperation
  <2>3. c = Idle \/ c = [step |-> "publish", operation |-> o]
    BY <2>2
  <2> HIDE DEF c, o, m, choices
  <2>4. CallSound(d)'
    <3>1. call'[d] = c /\ Chosen' = Chosen
      BY <2>1 DEF IInv, ByDevice, Chosen
    <3> QED BY <2>1, <2>2, <2>3, <3>1 DEF CallSound
  <2>5. CASE \E j \in choices : journal' = [journal EXCEPT ![d] = j]
    BY <2>1, <2>2, <2>4, <2>5, ApproveInductive DEF choices
  <2>6. CASE journal' = [journal EXCEPT ![d] = journal[d]]
    <3>1. IInv'
      BY <1>0, <2>1, <2>4, <2>6, JournalStep DEF JournalSound
    <3> QED BY <1>0, <2>1, <2>6, <3>1 DEF AdmitsChosen
  <2> QED BY <2>1, <2>5, <2>6
<1>5. CASE \E r \in Revision : Save(d, r)
  <2>1. PICK r \in Revision : Save(d, r)
    BY <1>5
  <2>2. CanReceive(journal[d], r) /\ r \notin Merge
    BY <1>0, <2>1 DEF Save, CanReceive, JournalSound, Consistent, JournalType, Merge
  <2> QED BY <2>1, <2>2, InsertInductive DEF Save
<1>6. CASE \E r \in Revision : Deliver(d, r)
  <2>1. PICK r \in Revision : Deliver(d, r)
    BY <1>6
  <2>2. r \in Merge => \E e \in Chosen : e.resolution = r
    BY <2>1 DEF Deliver, IInv, Sound, JournalSound
  <2> QED BY <2>1, <2>2, InsertInductive DEF Deliver
<1> QED BY <1>1, <1>2, <1>3, <1>4, <1>5, <1>6

(***************************************************************************)
(* The steps that write no journal: questions, answers, a publication, and *)
(* the faults, which leave behind at most a request of the device's own.   *)
(***************************************************************************)
LEMMA CallActions ==
  ASSUME IInv, NEW d \in Device,
         SubmitNext(d) \/ AcceptAnswer(d) \/ Publish(d) \/ Timeout(d) \/ Crash(d)
  PROVE  IInv'
<1>0. /\ CallSound(d) /\ TablesSound(d) /\ ByDevice
  BY DEF IInv, Sound
<1>1. CASE SubmitNext(d)
  <2>1. PICK o \in PendingProposals(d) :
          call' = [call EXCEPT ![d] = [step |-> "answered", operation |-> o, write |-> FALSE,
                                       answer |-> Latest(events, proposals[d][o])]]
    BY <1>1 DEF SubmitNext
  <2>2. UNCHANGED <<events, late, stores, fetch>>
    BY <1>1 DEF SubmitNext
  <2>3. Latest(events, proposals[d][o]) \in SUBSET Chosen /\ Chosen' = Chosen /\ o \in DOMAIN proposals[d]
    BY <2>2 DEF Latest, Chosen, PendingProposals
  <2>4. call'[d] = [step |-> "answered", operation |-> o, write |-> FALSE,
                    answer |-> Latest(events, proposals[d][o])]
    BY <1>0, <2>1 DEF ByDevice
  <2>5. CallSound(d)'
    BY <2>2, <2>3, <2>4 DEF CallSound, stores
  <2>6. /\ DecidedOnce' /\ Asked' /\ events' \in Seq(Decision)
        /\ Len(events) <= Len(events') /\ \A i \in DOMAIN events : events'[i] = events[i]
    BY <2>2 DEF IInv, DecidedOnce, Asked, Chosen, Proposed, stores
  <2> QED BY <2>1, <2>2, <2>5, <2>6, CallStep DEF stores
<1>2. CASE AcceptAnswer(d)
  <2> DEFINE o == call[d].operation
             answer == call[d].answer
             next == FollowUp(o, call[d].write, answer)
             accepted == Deciding(decisions[d], proposals[d][o]) \subseteq answer
             c == IF accepted THEN next ELSE Idle
  <2>1. /\ call' = [call EXCEPT ![d] = c]
        /\ \/ UNCHANGED <<decisions, settled>>
           \/ /\ decisions' = [decisions EXCEPT ![d] = @ \cup answer]
              /\ settled' = [settled EXCEPT ![d] = IF answer # {} THEN @ \cup {o} ELSE @]
        /\ call[d].step = "answered"
        /\ UNCHANGED <<events, late, journal, proposals, published, feed, fetch>>
    BY <1>2 DEF AcceptAnswer
  <2>2. /\ o \in DOMAIN proposals[d] /\ answer \subseteq Chosen
    BY <2>1, CallOperation
  <2>3. \/ c = Idle \/ c = [step |-> "submit", operation |-> o]
        \/ c = [step |-> "receive", operation |-> o] /\ \E e \in Chosen : e.operation = o
    <3>1. \/ next = Idle \/ next = [step |-> "submit", operation |-> o]
          \/ next = [step |-> "receive", operation |-> o] /\ \E e \in answer : e.operation = o
      BY DEF FollowUp
    <3> HIDE DEF next, accepted
    <3> QED BY <2>2, <3>1
  <2> HIDE DEF c, o, answer
  <2>4. Chosen' = Chosen /\ call'[d] = c
    BY <1>0, <2>1 DEF Chosen, ByDevice
  <2>5. CallSound(d)'
    BY <2>1, <2>2, <2>3, <2>4 DEF CallSound
  <2>6. /\ DecidedOnce' /\ Asked' /\ events' \in Seq(Decision)
        /\ Len(events) <= Len(events') /\ \A i \in DOMAIN events : events'[i] = events[i]
    BY <2>1 DEF IInv, DecidedOnce, Asked, Chosen, Proposed
  <2>7. published = [published EXCEPT ![d] = published[d]]
    BY <1>0 DEF ByDevice
  <2>8. CASE UNCHANGED <<decisions, settled>>
    BY <2>1, <2>5, <2>6, <2>8, CallStep
  <2>9. CASE /\ decisions' = [decisions EXCEPT ![d] = @ \cup answer]
             /\ settled' = [settled EXCEPT ![d] = IF answer # {} THEN @ \cup {o} ELSE @]
    <3>1. TablesSound(d)'
      BY <1>0, <2>1, <2>2, <2>4, <2>9 DEF TablesSound, ByDevice
    <3>2. /\ \E S : settled' = [settled EXCEPT ![d] = S]
          /\ \E S : decisions' = [decisions EXCEPT ![d] = S]
          /\ \E S : published' = [published EXCEPT ![d] = S]
      BY <2>1, <2>7, <2>9
    <3> QED BY <2>1, <2>5, <2>6, <3>1, <3>2, CallStep
  <2> QED BY <2>1, <2>8, <2>9
<1>3. CASE Publish(d)
  <2> DEFINE o == call[d].operation
  <2>1. /\ published' = [published EXCEPT ![d] = @ \cup {o}]
        /\ call' = [call EXCEPT ![d] = Idle]
        /\ call[d].step = "publish"
        /\ UNCHANGED <<events, late, journal, proposals, settled, decisions, feed, fetch>>
    BY <1>3 DEF Publish
  <2>2. o \in DOMAIN proposals[d]
    BY <2>1, CallOperation
  <2> HIDE DEF o
  <2>3. TablesSound(d)'
    BY <1>0, <2>1, <2>2 DEF TablesSound, ByDevice, Chosen
  <2>4. /\ DecidedOnce' /\ Asked' /\ events' \in Seq(Decision)
        /\ Len(events) <= Len(events') /\ \A i \in DOMAIN events : events'[i] = events[i]
    BY <2>1 DEF IInv, DecidedOnce, Asked, Chosen, Proposed
  <2>5. /\ \E S : settled' = [settled EXCEPT ![d] = S]
        /\ \E S : decisions' = [decisions EXCEPT ![d] = S]
        /\ \E S : published' = [published EXCEPT ![d] = S]
    <3>1. settled = [settled EXCEPT ![d] = settled[d]] /\ decisions = [decisions EXCEPT ![d] = decisions[d]]
      BY <1>0 DEF ByDevice
    <3> QED BY <2>1, <3>1
  <2>6. CallSound(d)'
    BY <2>1, IdleCallSound
  <2> QED BY <2>1, <2>3, <2>4, <2>5, <2>6, CallStep
<1>4. CASE Timeout(d) \/ Crash(d)
  <2>1. /\ late' = late \cup UnderWay(d) /\ call' = [call EXCEPT ![d] = Idle]
        /\ UNCHANGED <<events, stores>>
        /\ fetch' = fetch \/ fetch' = [fetch EXCEPT ![d] = Idle]
    BY <1>4 DEF Timeout, Crash
  <2>2. \A e \in UnderWay(d) : e \in Decision /\ Proposed(e)
    <3>1. CASE call[d].step = "submit"
      <4> DEFINE o == call[d].operation
                 m == proposals[d][o]
      <4>1. o \in DOMAIN proposals[d] /\ o \in Operation /\ m \in Merge
        BY <3>1, CallOperation
      <4>2. UnderWay(d) = {[operation |-> o, resolution |-> m]}
        BY <3>1 DEF UnderWay
      <4> QED BY <4>1, <4>2 DEF Decision, Proposed
    <3>2. CASE call[d].step # "submit"
      BY <3>2 DEF UnderWay
    <3> QED BY <3>1, <3>2
  <2>3. Asked'
    BY <2>1, <2>2 DEF IInv, Asked, Chosen, Proposed, stores
  <2>4. /\ DecidedOnce' /\ events' \in Seq(Decision)
        /\ Len(events) <= Len(events') /\ \A i \in DOMAIN events : events'[i] = events[i]
    BY <2>1 DEF IInv, DecidedOnce
  <2>5. CallSound(d)'
    BY <2>1, IdleCallSound
  <2> QED BY <2>1, <2>3, <2>4, <2>5, CallStep DEF stores
<1> QED BY <1>1, <1>2, <1>3, <1>4

(***************************************************************************)
(* Every step keeps the invariant.                                         *)
(***************************************************************************)
LEMMA NextInductive == IInv /\ [Next]_vars => IInv'
<1> SUFFICES ASSUME IInv, [Next]_vars PROVE IInv'
  OBVIOUS
<1>1. CASE UNCHANGED vars
  <2>1. UNCHANGED <<events, late, stores, call, fetch>>
    BY <1>1 DEF vars
  <2>2. Grown /\ ByDevice' /\ DecidedOnce'
    BY <2>1 DEF IInv, Grown, ByDevice, DecidedOnce, stores
  <2> QED BY <2>1, <2>2, GrownKeeps DEF IInv, Sound, stores
<1>2. CASE Next
  BY <1>2, ServeLateInductive, ServeInductive, FeedInductive, PrepareInductive, JournalActions,
     CallActions DEF Next, Owner
<1> QED BY <1>1, <1>2

(***************************************************************************)
(* The invariant holds in every reachable state.                           *)
(***************************************************************************)
THEOREM Inductive == Spec => []IInv
BY InitInductive, NextInductive, PTL DEF Spec

(***************************************************************************)
(* The stores hold what their columns are declared to hold, and no feed is *)
(* past its watermark or its watermark past the authority's.               *)
(***************************************************************************)
THEOREM TypeCorrect == Spec => []TypeOK
<1>1. IInv => TypeOK
  <2> SUFFICES ASSUME IInv PROVE TypeOK
    OBVIOUS
  <2>1. Chosen \subseteq Decision /\ late \subseteq Decision
    BY DEF IInv, Chosen, Asked
  <2>2. ASSUME NEW d \in Device PROVE JournalType(journal[d]) /\ decisions[d] \subseteq Decision
    BY <2>1 DEF IInv, Sound, JournalSound, TablesSound, Consistent
  <2> QED BY <2>1, <2>2 DEF IInv, Sound, TablesSound, ProposalsSound, Feeds, FeedSound, TypeOK
<1> QED BY <1>1, Inductive, PTL

(***************************************************************************)
(* Only winners travel: a merge in any journal is the one that the         *)
(* authority chose for its branches.                                       *)
(***************************************************************************)
THEOREM WinnersTravel == Spec => []OnlyWinnersTravel
<1>1. IInv => OnlyWinnersTravel
  <2> SUFFICES ASSUME IInv, NEW d \in Device, NEW m \in Merge \cap Rows(journal[d])
               PROVE  \E e \in Latest(events, m) : e.resolution = m
    BY DEF OnlyWinnersTravel
  <2>1. PICK e \in Chosen : e.resolution = m
    BY DEF IInv, Sound, JournalSound
  <2> QED BY <2>1, LatestIsChosen DEF IInv
<1> QED BY <1>1, Inductive, PTL

(***************************************************************************)
(* A device's feed holds exactly the decisions up to its cursor.           *)
(***************************************************************************)
THEOREM FeedSkipsNothing == Spec => []FeedComplete
<1>1. IInv => FeedComplete
  BY DEF IInv, Feeds, FeedSound, Entries, FeedComplete
<1> QED BY <1>1, Inductive, PTL

(***************************************************************************)
(* Every step decides nothing, or one set of branches that had no          *)
(* decision, or admits one chosen merge on one device.                     *)
(***************************************************************************)
LEMMA StepAdjudicates ==
  ASSUME IInv, Next
  PROVE  \/ events' = events /\ \E d \in Device : AdmitsChosen(d)
         \/ /\ journal' = journal
            /\ \/ events' = events
               \/ \E o \in Operation, m \in Merge :
                    /\ Chosen' = Chosen \cup {[operation |-> o, resolution |-> m]}
                    /\ \A e \in Chosen : Scope(e.resolution) # Scope(m)
<1>1. ASSUME NEW e \in late, ServeLate(e)
      PROVE  /\ journal' = journal /\ events' = Decide(e.operation, e.resolution)
             /\ e.operation \in Operation /\ e.resolution \in Merge
  BY <1>1 DEF ServeLate, stores, IInv, Asked, Decision
<1>2. ASSUME NEW d \in Device, Serve(d)
      PROVE  /\ journal' = journal
             /\ \E o \in Operation, m \in Merge : events' = Decide(o, m)
  <2>1. call[d].operation \in Operation /\ proposals[d][call[d].operation] \in Merge
    BY <1>2, CallOperation DEF Serve
  <2> QED BY <1>2, <2>1 DEF Serve, stores
<1>3. ASSUME NEW o \in Operation, NEW m \in Merge, events' = Decide(o, m)
      PROVE  \/ events' = events
             \/ /\ Chosen' = Chosen \cup {[operation |-> o, resolution |-> m]}
                /\ \A e \in Chosen : Scope(e.resolution) # Scope(m)
  BY <1>3, DecideKeeps DEF IInv
<1>4. ASSUME NEW d \in Device,
             \/ SubmitNext(d) \/ AcceptAnswer(d) \/ Publish(d) \/ Timeout(d) \/ Crash(d)
             \/ Feed(d) \/ FeedTimeout(d) \/ \E m \in Merge : PrepareResolution(d, m)
      PROVE  events' = events /\ journal' = journal
  BY <1>4 DEF SubmitNext, AcceptAnswer, Publish, Timeout, Crash, Feed, RefreshDecisions, AcceptPage,
              FeedTimeout, PrepareResolution, stores
<1>5. ASSUME NEW d \in Device,
             \/ ResolveNext(d) \/ ApproveLooked(d) \/ ReceiveResolution(d) \/ ApproveResolution(d)
             \/ \E r \in Revision : Save(d, r) \/ Deliver(d, r)
      PROVE  events' = events /\ AdmitsChosen(d)
  BY <1>5, JournalActions
<1>6. CASE \E e \in late : ServeLate(e)
  BY <1>1, <1>3, <1>6
<1>7. CASE \E d \in Device : Serve(d)
  BY <1>2, <1>3, <1>7
<1> QED BY <1>4, <1>5, <1>6, <1>7 DEF Next, Owner

(***************************************************************************)
(* ConflictDecision implements Adjudication: one decision for each set of  *)
(* branches, and every device builds on that one only.                     *)
(***************************************************************************)
THEOREM RefinesAdjudication == Spec => ImplementsAdjudication
<1> DEFINE chosen == {events[i].resolution : i \in DOMAIN events}
           admitted == [d \in Device |-> Merge \cap journal[d].eligible]
<1>1. Init => AbstractAdjudication!Init
  <2> SUFFICES ASSUME Init PROVE AbstractAdjudication!Init
    OBVIOUS
  <2>1. chosen = {}
    BY DEF Init
  <2>2. \A d \in Device : Merge \cap journal[d].eligible = {}
    BY StartAssumption DEF Init, Merge, Consistent, JournalType
  <2> QED BY <2>1, <2>2 DEF AbstractAdjudication!Init
<1>2. ASSUME IInv, [Next]_vars
      PROVE  [AbstractAdjudication!Next]_<<chosen, admitted>>
  <2>1. CASE journal' = journal /\ events' = events
    BY <2>1
  <2>2. chosen = {e.resolution : e \in Chosen} /\ chosen' = {e.resolution : e \in Chosen'}
    BY DEF Chosen
  <2>3. ASSUME NEW d \in Device, events' = events, AdmitsChosen(d)
        PROVE  [AbstractAdjudication!Next]_<<chosen, admitted>>
    <3>1. chosen' = chosen
      BY <2>3
    <3>2. CASE Merge \cap journal'[d].eligible = Merge \cap journal[d].eligible
      <4>1. admitted' = admitted
        BY <2>3, <3>2 DEF AdmitsChosen
      <4> QED BY <3>1, <4>1
    <3>3. ASSUME NEW e \in Chosen, e.resolution \in Merge,
                 Merge \cap journal'[d].eligible = (Merge \cap journal[d].eligible) \cup {e.resolution}
          PROVE  [AbstractAdjudication!Next]_<<chosen, admitted>>
      <4> DEFINE m == e.resolution
      <4>1. m \in chosen /\ m \in Merge
        BY <2>2, <3>3
      <4>2. admitted' = [admitted EXCEPT ![d] = @ \cup {m}]
        BY <2>3, <3>3 DEF AdmitsChosen
      <4>3. CASE m \in admitted[d]
        <5>1. admitted' = admitted
          BY <4>2, <4>3
        <5> QED BY <3>1, <5>1
      <4>4. CASE m \notin admitted[d]
        <5>1. AbstractAdjudication!Admit(d, m)
          BY <3>1, <4>1, <4>2, <4>4 DEF AbstractAdjudication!Admit
        <5> QED BY <4>1, <5>1 DEF AbstractAdjudication!Next
      <4> QED BY <4>3, <4>4
    <3> QED BY <2>3, <3>2, <3>3 DEF AdmitsChosen
  <2>4. ASSUME NEW o \in Operation, NEW m \in Merge, journal' = journal,
               Chosen' = Chosen \cup {[operation |-> o, resolution |-> m]},
               \A e \in Chosen : Scope(e.resolution) # Scope(m)
        PROVE  [AbstractAdjudication!Next]_<<chosen, admitted>>
    <3> HIDE DEF chosen
    <3>0. [operation |-> o, resolution |-> m].resolution = m
      OBVIOUS
    <3>1. chosen' = chosen \cup {m}
      BY <2>2, <2>4, <3>0
    <3>2. \A n \in chosen : ParentsOf[n] # ParentsOf[m]
      BY <2>2, <2>4 DEF Scope
    <3>3. admitted' = admitted
      BY <2>4
    <3>4. AbstractAdjudication!Choose(m)
      BY <3>1, <3>2, <3>3 DEF AbstractAdjudication!Choose, chosen
    <3> QED BY <3>4 DEF AbstractAdjudication!Next, chosen
  <2>5. CASE UNCHANGED vars
    BY <2>1, <2>5 DEF vars, stores
  <2>6. CASE Next
    BY <1>2, <2>1, <2>3, <2>4, <2>6, StepAdjudicates
  <2> QED BY <1>2, <2>5, <2>6
<1> QED BY <1>1, <1>2, Inductive, PTL DEF ImplementsAdjudication, AbstractAdjudication!Spec, Spec
============================================================================
