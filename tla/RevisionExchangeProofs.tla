----------------------- MODULE RevisionExchangeProofs -----------------------
(***************************************************************************)
(* The safety properties of RevisionExchange, and that it implements       *)
(* Dissemination, for every history of revisions, network of devices, size *)
(* of the staging table and of a page, and number of faults.               *)
(***************************************************************************)
EXTENDS RevisionExchange, FiniteSetTheorems, SequenceTheorems, WellFoundedInduction, TLAPS

\* A journal holds a revision once, and after its parents.
LogSound(d) ==
  /\ \A i, k \in DOMAIN log[d] : log[d][i] = log[d][k] => i = k
  /\ \A i \in DOMAIN log[d] : \A q \in ParentsOf[log[d][i]] :
       \E k \in DOMAIN log[d] : k < i /\ log[d][k] = q

\* b has r, or at least n chunks of it.
ReceivedTo(b, r, n) == r \in Rows(b) \/ (r \in DOMAIN staged[b] /\ staged[b][r] >= n)

\* A sender s of p: what lies below its cursor is at the peer, and every head
\* of the window is there, is still to be fetched or taken, or is being sent.
CycleSound(p, s) ==
  LET L == log[p[1]] IN
  /\ s.cursor <= Len(L) /\ s.through <= Len(L) /\ s.heads \subseteq DOMAIN L
  /\ \A i \in DOMAIN L : i <= s.cursor => L[i] \in Rows(p[2])
  /\ \A i \in InventoryHeads(L, s.cursor, s.through) :
       \/ L[i] \in Rows(p[2])
       \/ i > s.at \/ i \in s.heads
       \/ s.stack # <<>> /\ s.stack[1].id = L[i]

\* The parents of an expanded revision are at the peer or above it.
StackSound(p, s) ==
  \A k \in DOMAIN s.stack :
    /\ s.stack[k].id \in Rows(p[1])
    /\ s.stack[k].expanded =>
         \A q \in ParentsOf[s.stack[k].id] :
           q \in Rows(p[2]) \/ \E l \in DOMAIN s.stack : l > k /\ s.stack[l].id = q

PhaseSound(p, s) ==
  /\ s.phase = "idle" <=> s.stack = <<>>
  /\ s.phase \in {"offer", "chunk", "finish"} => Top(s).expanded
  /\ s.phase = "chunk" => s.offset < SizeOf[Top(s).id]
  /\ s.phase \in {"chunk", "finish"} => ReceivedTo(p[2], Top(s).id, s.offset)

\* The message of a pair is the sender's request or a true reply to it.
WireSound(p, s, m) ==
  LET r == Top(s).id IN
  \/ m = Request(s)
  \/ /\ s.phase = "probe"
     /\ \E known \in BOOLEAN : /\ m = [type |-> "have", rev |-> r, known |-> known]
                               /\ known => r \in Rows(p[2])
  \/ /\ s.phase \in {"offer", "chunk"}
     /\ \E n \in Nat : n <= SizeOf[r] /\ m = Ack(r, n, FALSE) /\ ReceivedTo(p[2], r, n)
  \/ /\ s.phase = "finish"
     /\ \E n \in Nat : m = Ack(r, n, TRUE) /\ r \in Rows(p[2])

PairSound(p, s, m) ==
  CycleSound(p, s) /\ StackSound(p, s) /\ PhaseSound(p, s) /\ WireSound(p, s, m)

Shapes ==
  /\ log \in [Device -> Seq(Revision)]
  /\ staged = [d \in Device |-> staged[d]]
  /\ \A d \in Device : DOMAIN staged[d] \subseteq Revision
                       /\ staged[d] \in [DOMAIN staged[d] -> Nat]
  /\ up \subseteq Link
  /\ sender \in [Pair -> Sender]
  /\ active \in [Pair -> SUBSET Revision]
  /\ wire = [p \in Pair |-> wire[p]]
  /\ faults \in Nat

IInv ==
  /\ Shapes
  /\ \A d \in Device : LogSound(d)
  /\ StagedFinishable
  /\ \A p \in Pair : PairSound(p, sender[p], wire[p])

---------------------------------------------------------------------------
(***************************************************************************)
(* A set of row numbers has a smallest one, as ORDER BY rowid relies on.   *)
(***************************************************************************)
LEMMA SmallestExists ==
  ASSUME NEW S \in SUBSET Nat, S # {}
  PROVE  Smallest(S) \in S /\ \A j \in S : Smallest(S) <= j
<1>1. PICK x \in S : \A y \in S : ~(<<y, x>> \in OpToRel(<, Nat))
  BY NatLessThanWellFounded, WFMin, Zenon
<1>2. \A y \in S : x <= y
  <2> SUFFICES ASSUME NEW y \in S, y < x PROVE FALSE
    OBVIOUS
  <2>1. <<y, x>> \in OpToRel(<, Nat)
    BY DEF OpToRel
  <2> QED BY <1>1, <2>1
<1>3. \E i \in S : \A j \in S : i <= j
  BY <1>2
<1> QED BY <1>3 DEF Smallest

(***************************************************************************)
(* The same for the largest, of a set of rows of one journal.              *)
(***************************************************************************)
LEMMA LargestExists ==
  ASSUME NEW n \in Nat, NEW S \in SUBSET (1..n), S # {}
  PROVE  Largest(S) \in S /\ \A j \in S : j <= Largest(S)
<1> DEFINE T == {k \in Nat : \E i \in S : k = n - i}
<1>1. T \in SUBSET Nat /\ T # {}
  <2>1. PICK i \in S : TRUE
    OBVIOUS
  <2>2. n - i \in T
    BY <2>1
  <2> QED BY <2>2
<1> HIDE DEF T
<1>2. Smallest(T) \in T /\ \A j \in T : Smallest(T) <= j
  BY <1>1, SmallestExists
<1>3. PICK i \in S : Smallest(T) = n - i
  BY <1>2 DEF T
<1>4. \A j \in S : j <= i
  <2> TAKE j \in S
  <2>1. n - j \in T
    BY DEF T
  <2>2. n - i <= n - j
    BY <1>2, <1>3, <2>1
  <2> QED BY <2>2
<1>5. \E x \in S : \A j \in S : j <= x
  BY <1>4
<1> QED BY <1>5 DEF Largest

(***************************************************************************)
(* ORDER BY rowid LIMIT: a page of some rows has one, and leaves out none  *)
(* before its end.                                                         *)
(***************************************************************************)
LEMMA FirstPageFacts ==
  ASSUME NEW n \in Nat, NEW S \in SUBSET (1..n)
  PROVE  /\ FirstPage(S) \subseteq S
         /\ S # {} => FirstPage(S) # {}
         /\ \A k \in FirstPage(S), i \in S : i <= k => i \in FirstPage(S)
<1>1. PageSize \in Nat \ {0}
  BY ExchangeAssumption
<1>2. IsFiniteSet(S) /\ \A i \in S : i \in Nat
  <2>1. IsFiniteSet(1..n)
    BY FS_Interval
  <2>2. IsFiniteSet(S)
    BY <2>1, FS_Subset, Zenon
  <2>3. \A i \in S : i \in Nat
    OBVIOUS
  <2> QED BY <2>2, <2>3
<1>3. ASSUME S # {} PROVE FirstPage(S) # {}
  <2>1. Smallest(S) \in S /\ \A j \in S : Smallest(S) <= j
    BY <1>2, <1>3, SmallestExists
  <2>2. {j \in S : j < Smallest(S)} = {}
    <3> DEFINE x == Smallest(S)
    <3> HIDE DEF x
    <3>0. x \in Nat /\ \A j \in S : x <= j /\ j \in Nat
      BY <1>2, <2>1 DEF x
    <3>1. \A j \in S : ~(j < x)
      BY <3>0
    <3> USE DEF x
    <3> QED BY <3>1, Zenon
  <2>3. Cardinality({j \in S : j < Smallest(S)}) = 0
    BY <2>2, FS_EmptySet, Zenon
  <2> QED BY <1>1, <2>1, <2>3 DEF FirstPage
<1>4. ASSUME NEW k \in FirstPage(S), NEW i \in S, i <= k PROVE i \in FirstPage(S)
  <2> DEFINE B == {j \in S : j < k}
             A == {j \in S : j < i}
  <2>1. k \in S /\ Cardinality(B) < PageSize
    BY DEF FirstPage
  <2>2. A \subseteq B
    <3>1. \A j \in S : j < i => j < k
      BY <1>2, <1>4, <2>1
    <3> QED BY <3>1, Zenon
  <2>3. IsFiniteSet(B)
    BY <1>2, FS_Subset
  <2>4. IsFiniteSet(A) /\ Cardinality(A) <= Cardinality(B)
    BY <2>2, <2>3, FS_Subset
  <2>5. Cardinality(A) \in Nat /\ Cardinality(B) \in Nat
    BY <2>3, <2>4, FS_CardinalityType
  <2>6. Cardinality(A) < PageSize
    BY <1>1, <2>1, <2>4, <2>5
  <2> QED BY <2>6 DEF FirstPage
<1> QED BY <1>3, <1>4 DEF FirstPage

(***************************************************************************)
(* To have a window's heads is to have the window: a row that is not a     *)
(* head has a child further up in it, and a journal holds the parents of   *)
(* what it holds.                                                          *)
(***************************************************************************)
LEMMA HeadsSuffice ==
  ASSUME NEW L \in Seq(Revision), NEW c \in Nat, NEW t \in Nat, NEW R, t <= Len(L),
         \A i, k \in DOMAIN L : L[i] = L[k] => i = k,
         \A i \in DOMAIN L : \A q \in ParentsOf[L[i]] : \E k \in DOMAIN L : k < i /\ L[k] = q,
         \A r \in R : r \in Revision => ParentsOf[r] \subseteq R,
         \A i \in DOMAIN L : i <= c => L[i] \in R,
         \A i \in InventoryHeads(L, c, t) : L[i] \in R
  PROVE  \A i \in DOMAIN L : i <= t => L[i] \in R
<1> DEFINE T == {i \in 1..t : L[i] \notin R}
<1> SUFFICES ASSUME T # {} PROVE FALSE
  OBVIOUS
<1>1. T \in SUBSET (1..t)
  OBVIOUS
<1> DEFINE m == Largest(T)
<1>2. m \in T /\ \A j \in T : j <= m
  BY <1>1, LargestExists
<1> HIDE DEF m
<1>3. m \in DOMAIN L /\ m \in Nat /\ m <= t /\ L[m] \notin R /\ c < m
  BY <1>2
<1> HIDE DEF T
<1>4. m \notin InventoryHeads(L, c, t)
  BY <1>3
<1>5. PICK j \in DOMAIN L : j <= t /\ L[m] \in ParentsOf[L[j]]
  BY <1>3, <1>4 DEF InventoryHeads
<1>6. PICK k \in DOMAIN L : k < j /\ L[k] = L[m]
  BY <1>5
<1>7. k = m
  BY <1>3, <1>6
<1>8. j \notin T
  BY <1>2, <1>3, <1>5, <1>6, <1>7
<1>9. L[j] \in R /\ L[j] \in Revision
  BY <1>5, <1>8 DEF T
<1> QED BY <1>3, <1>5, <1>9

---------------------------------------------------------------------------
\* Journals grow at their end, and what is staged stays until it is in one.
Grown ==
  \A d \in Device :
    /\ Len(log[d]) <= Len(log'[d]) /\ \A i \in DOMAIN log[d] : log'[d][i] = log[d][i]
    /\ \A r \in DOMAIN staged[d] :
         \/ r \in Rows(d)'
         \/ r \in DOMAIN staged'[d] /\ staged'[d][r] >= staged[d][r]

\* A sender without the message under way.
SenderSound(p, s) == s \in Sender /\ CycleSound(p, s) /\ StackSound(p, s) /\ PhaseSound(p, s)

(***************************************************************************)
(* The two ends of a pair.                                                 *)
(***************************************************************************)
LEMMA PairEnds == ASSUME NEW p \in Pair PROVE p[1] \in Device /\ p[2] \in Device /\ p[1] # p[2]
BY DEF Pair

(***************************************************************************)
(* Growth takes nothing away from a receiver.                              *)
(***************************************************************************)
LEMMA GrownRows ==
  ASSUME Shapes, Shapes', Grown, NEW d \in Device
  PROVE  /\ Rows(d) \subseteq Rows(d)'
         /\ DOMAIN log[d] = 1..Len(log[d]) /\ DOMAIN log'[d] = 1..Len(log'[d])
         /\ Len(log[d]) \in Nat /\ Len(log'[d]) \in Nat
         /\ \A r \in Revision, n \in Nat : ReceivedTo(d, r, n) => ReceivedTo(d, r, n)'
<1>1. /\ DOMAIN log[d] = 1..Len(log[d]) /\ DOMAIN log'[d] = 1..Len(log'[d])
      /\ Len(log[d]) \in Nat /\ Len(log'[d]) \in Nat
  BY DEF Shapes
<1>2. Rows(d) \subseteq Rows(d)'
  <2>1. \A i \in DOMAIN log[d] : i \in DOMAIN log'[d] /\ log'[d][i] = log[d][i]
    BY <1>1 DEF Grown
  <2> QED BY <2>1 DEF Rows
<1>3. ASSUME NEW r \in Revision, NEW n \in Nat, ReceivedTo(d, r, n) PROVE ReceivedTo(d, r, n)'
  <2>1. CASE r \in Rows(d)
    BY <1>2, <2>1 DEF ReceivedTo
  <2>2. CASE r \in DOMAIN staged[d] /\ staged[d][r] >= n
    <3>1. r \in Rows(d)' \/ (r \in DOMAIN staged'[d] /\ staged'[d][r] >= staged[d][r])
      BY <2>2 DEF Grown
    <3>2. staged[d][r] \in Nat /\ (r \in DOMAIN staged'[d] => staged'[d][r] \in Nat)
      BY <2>2 DEF Shapes
    <3> QED BY <2>2, <3>1, <3>2 DEF ReceivedTo
  <2> QED BY <1>3, <2>1, <2>2 DEF ReceivedTo
<1> QED BY <1>1, <1>2, <1>3

(***************************************************************************)
(* The top of a stack that is not empty.                                   *)
(***************************************************************************)
LEMMA TopFacts ==
  ASSUME NEW s \in Sender, s.stack # <<>>
  PROVE  /\ Len(s.stack) \in Nat /\ Len(s.stack) > 0 /\ Len(s.stack) \in DOMAIN s.stack
         /\ Top(s) = s.stack[Len(s.stack)] /\ Top(s) \in Entry /\ Top(s).id \in Revision
<1>1. s.stack \in Seq(Entry)
  BY DEF Sender
<1>2. Len(s.stack) \in Nat /\ Len(s.stack) > 0 /\ Len(s.stack) \in DOMAIN s.stack
  BY <1>1
<1>3. s.stack[Len(s.stack)] \in Entry
  BY <1>1, <1>2
<1>4. s.stack[Len(s.stack)].id \in Revision
  BY <1>3 DEF Entry
<1> QED BY <1>2, <1>3, <1>4 DEF Top

(***************************************************************************)
(* Growth keeps a sender's account of its peer true.                       *)
(***************************************************************************)
LEMMA GrownSender ==
  ASSUME Shapes, Shapes', Grown, NEW p \in Pair, NEW s, sender'[p] = s, SenderSound(p, s)
  PROVE  SenderSound(p, sender[p])'
<1> DEFINE L == log[p[1]]
           K == log'[p[1]]
<1>1. /\ p[1] \in Device /\ p[2] \in Device
      /\ Rows(p[1]) \subseteq Rows(p[1])' /\ Rows(p[2]) \subseteq Rows(p[2])'
  BY PairEnds, GrownRows
<1>2. /\ DOMAIN L = 1..Len(L) /\ DOMAIN K = 1..Len(K) /\ Len(L) \in Nat /\ Len(K) \in Nat
      /\ Len(L) <= Len(K) /\ \A i \in DOMAIN L : K[i] = L[i]
  BY <1>1, GrownRows DEF Grown
<1>s. s \in Sender /\ CycleSound(p, s) /\ StackSound(p, s) /\ PhaseSound(p, s)
  BY DEF SenderSound
<1>3. s.cursor \in Nat /\ s.through \in Nat /\ s.at \in Nat
  BY <1>s DEF Sender
<1>4. CycleSound(p, sender[p])'
  <2>1. /\ s.cursor <= Len(L) /\ s.through <= Len(L) /\ s.heads \subseteq DOMAIN L
        /\ \A i \in DOMAIN L : i <= s.cursor => L[i] \in Rows(p[2])
    BY <1>s DEF CycleSound
  <2>2. /\ s.cursor <= Len(K) /\ s.through <= Len(K) /\ s.heads \subseteq DOMAIN K
        /\ \A i \in DOMAIN K : i <= s.cursor => K[i] \in Rows(p[2])'
    BY <1>1, <1>2, <1>3, <2>1
  <2>3. ASSUME NEW i \in InventoryHeads(K, s.cursor, s.through)
        PROVE  i \in InventoryHeads(L, s.cursor, s.through) /\ K[i] = L[i]
    <3>1. /\ i \in DOMAIN K /\ s.cursor < i /\ i <= s.through
          /\ \A j \in DOMAIN K : j <= s.through => K[i] \notin ParentsOf[K[j]]
      BY DEF InventoryHeads
    <3>2. i \in DOMAIN L /\ K[i] = L[i]
      BY <1>2, <1>3, <2>1, <3>1
    <3>3. \A j \in DOMAIN L : j \in DOMAIN K /\ K[j] = L[j]
      BY <1>2
    <3> HIDE DEF L, K
    <3> QED BY <3>1, <3>2, <3>3 DEF InventoryHeads
  <2>4. \A i \in InventoryHeads(K, s.cursor, s.through) :
          \/ K[i] \in Rows(p[2])'
          \/ i > s.at \/ i \in s.heads
          \/ s.stack # <<>> /\ s.stack[1].id = K[i]
    BY <1>1, <1>s, <2>3 DEF CycleSound
  <2>5. CycleSound(p, sender[p])' <=>
          /\ s.cursor <= Len(K) /\ s.through <= Len(K) /\ s.heads \subseteq DOMAIN K
          /\ \A i \in DOMAIN K : i <= s.cursor => K[i] \in Rows(p[2])'
          /\ \A i \in InventoryHeads(K, s.cursor, s.through) :
               \/ K[i] \in Rows(p[2])'
               \/ i > s.at \/ i \in s.heads
               \/ s.stack # <<>> /\ s.stack[1].id = K[i]
    BY DEF CycleSound, InventoryHeads
  <2> QED BY <2>2, <2>4, <2>5
<1>5. StackSound(p, sender[p])'
  BY <1>1, <1>s DEF StackSound
<1>6. PhaseSound(p, sender[p])'
  <2>1. PhaseSound(p, s)
    BY <1>s
  <2>2. ASSUME s.phase \in {"chunk", "finish"} PROVE ReceivedTo(p[2], Top(s).id, s.offset)'
    <3>1. Top(s).id \in Revision /\ s.offset \in Nat
      BY <1>s, <2>1, <2>2, TopFacts DEF PhaseSound, Sender
    <3>2. ReceivedTo(p[2], Top(s).id, s.offset)
      BY <2>1, <2>2 DEF PhaseSound
    <3> QED BY <1>1, <3>1, <3>2, GrownRows
  <2>3. Top(sender[p])' = Top(s)
    BY DEF Top
  <2>4. s.phase \in {"chunk", "finish"} => ReceivedTo(p[2], Top(sender[p]).id, sender[p].offset)'
    BY <2>2, <2>3 DEF ReceivedTo
  <2> QED BY <2>1, <2>3, <2>4 DEF PhaseSound
<1>7. sender'[p] \in Sender
  BY <1>s
<1> QED BY <1>4, <1>5, <1>6, <1>7 DEF SenderSound

(***************************************************************************)
(* Growth keeps replies true.                                              *)
(***************************************************************************)
LEMMA GrownWire ==
  ASSUME Shapes, Shapes', Grown, NEW p \in Pair, NEW s \in Sender, PhaseSound(p, s),
         sender'[p] = s, WireSound(p, s, wire'[p])
  PROVE  WireSound(p, sender[p], wire[p])'
<1> DEFINE r == Top(s).id
           m == wire'[p]
<1>1. p[2] \in Device /\ Rows(p[2]) \subseteq Rows(p[2])'
  BY PairEnds, GrownRows
<1>2. Top(sender[p])' = Top(s) /\ Request(sender[p])' = Request(s)
  BY DEF Top, Request
<1>3. ASSUME NEW n \in Nat, ReceivedTo(p[2], r, n), s.phase # "idle" PROVE ReceivedTo(p[2], r, n)'
  <2>1. r \in Revision
    BY <1>3, TopFacts DEF PhaseSound
  <2> QED BY <1>1, <1>3, <2>1, GrownRows
<1>4. WireSound(p, sender[p], wire[p])' <=>
        \/ m = Request(s)
        \/ /\ s.phase = "probe"
           /\ \E known \in BOOLEAN : /\ m = [type |-> "have", rev |-> r, known |-> known]
                                     /\ known => r \in Rows(p[2])'
        \/ /\ s.phase \in {"offer", "chunk"}
           /\ \E n \in Nat : n <= SizeOf[r] /\ m = Ack(r, n, FALSE) /\ ReceivedTo(p[2], r, n)'
        \/ /\ s.phase = "finish"
           /\ \E n \in Nat : m = Ack(r, n, TRUE) /\ r \in Rows(p[2])'
  BY <1>2 DEF WireSound, ReceivedTo, Ack
<1> QED BY <1>1, <1>3, <1>4 DEF WireSound

(***************************************************************************)
(* A step that lets journals and staging tables grow and leaves every      *)
(* sender and message sound keeps the invariant.                           *)
(***************************************************************************)
LEMMA GrownInductive ==
  ASSUME IInv, Shapes', Grown, \A d \in Device : LogSound(d)', StagedFinishable',
         \A p \in Pair : /\ SenderSound(p, sender'[p])
                         /\ WireSound(p, sender'[p], wire'[p]) \/ WireSound(p, sender[p], wire[p])'
  PROVE  IInv'
<1>1. ASSUME NEW p \in Pair PROVE PairSound(p, sender[p], wire[p])'
  <2> DEFINE s == sender'[p]
  <2>1. SenderSound(p, sender[p])'
    BY GrownSender DEF IInv
  <2>2. WireSound(p, sender[p], wire[p])'
    BY GrownWire DEF IInv, SenderSound
  <2> QED BY <2>1, <2>2 DEF SenderSound, PairSound
<1> QED BY <1>1 DEF IInv

---------------------------------------------------------------------------
(***************************************************************************)
(* A journal holds the parents of what it holds.                           *)
(***************************************************************************)
LEMMA RowsClosed ==
  ASSUME IInv, NEW d \in Device, NEW r \in Rows(d)
  PROVE  r \in Revision /\ ParentsOf[r] \subseteq Rows(d)
<1>1. PICK i \in DOMAIN log[d] : log[d][i] = r
  BY DEF Rows
<1>2. r \in Revision
  BY <1>1 DEF IInv, Shapes
<1>3. \A q \in ParentsOf[r] : \E k \in DOMAIN log[d] : log[d][k] = q
  BY <1>1 DEF IInv, LogSound
<1> QED BY <1>2, <1>3 DEF Rows

(***************************************************************************)
(* advance(): a cycle ends only when the peer has the whole window.        *)
(***************************************************************************)
LEMMA AdvancedSound ==
  ASSUME IInv, NEW p \in Pair, NEW s \in Sender, CycleSound(p, s), StackSound(p, s)
  PROVE  SenderSound(p, Advanced(log[p[1]], s))
<1> DEFINE L == log[p[1]]
           R == Rows(p[2])
           t == Advanced(L, s)
<1>1. /\ L \in Seq(Revision) /\ Len(L) \in Nat /\ DOMAIN L = 1..Len(L)
      /\ p[1] \in Device /\ p[2] \in Device
  BY PairEnds DEF IInv, Shapes
<1>2. /\ s.cursor \in Nat /\ s.at \in Nat /\ s.through \in Nat /\ s.offset \in Nat
      /\ s.heads \in SUBSET Nat /\ s.stack \in Seq(Entry)
      /\ DOMAIN s = {"phase", "cursor", "at", "through", "heads", "stack", "offset"}
  BY DEF Sender
<1>3. /\ s.cursor <= Len(L) /\ s.through <= Len(L) /\ s.heads \subseteq DOMAIN L
      /\ \A i \in DOMAIN L : i <= s.cursor => L[i] \in R
      /\ \A i \in InventoryHeads(L, s.cursor, s.through) :
           \/ L[i] \in R \/ i > s.at \/ i \in s.heads
           \/ s.stack # <<>> /\ s.stack[1].id = L[i]
  BY DEF CycleSound
<1>4. CASE s.stack # <<>>
  <2> DEFINE ph == IF Top(s).expanded THEN "offer" ELSE "probe"
  <2>1. t = [s EXCEPT !.phase = ph]
    BY <1>4 DEF Advanced
  <2>2. ph \in {"offer", "probe"} /\ (ph = "offer" => Top(s).expanded)
    OBVIOUS
  <2> HIDE DEF ph, t
  <2>3. /\ t \in Sender /\ t.phase = ph /\ t.cursor = s.cursor /\ t.at = s.at
        /\ t.through = s.through /\ t.heads = s.heads /\ t.stack = s.stack /\ t.offset = s.offset
    BY <2>1, <2>2 DEF Sender
  <2>4. Top(t) = Top(s)
    BY <2>3 DEF Top
  <2>5. CycleSound(p, t)
    BY <2>3 DEF CycleSound
  <2>6. StackSound(p, t)
    BY <2>3 DEF StackSound
  <2>7. PhaseSound(p, t)
    BY <1>4, <2>2, <2>3, <2>4 DEF PhaseSound
  <2> QED BY <2>3, <2>5, <2>6, <2>7 DEF SenderSound, t
<1>5. CASE s.stack = <<>>
  <2> DEFINE S == InventoryHeads(L, s.at, s.through)
             page == IF s.heads # {} THEN s.heads ELSE FirstPage(S)
  <2>1. S \in SUBSET (1..Len(L))
    BY <1>1 DEF InventoryHeads
  <2>2. /\ FirstPage(S) \subseteq S /\ (S # {} => FirstPage(S) # {})
        /\ \A k \in FirstPage(S), i \in S : i <= k => i \in FirstPage(S)
    <3> HIDE DEF S, L, R, t
    <3>1. PICK n \in Nat : n = Len(L)
      BY <1>1
    <3>2. S \in SUBSET (1..n)
      BY <2>1, <3>1
    <3> QED BY <3>2, FirstPageFacts
  <2>3. page \in SUBSET (1..Len(L)) /\ page \in SUBSET Nat
    BY <1>1, <1>3, <2>1, <2>2
  <2>4. CASE page = {}
    <3>1. s.heads = {} /\ S = {}
      BY <2>2, <2>4
    <3>2. t = [s EXCEPT !.phase = "idle", !.cursor = s.through]
      BY <1>5, <2>4 DEF Advanced
    <3> HIDE DEF t, page
    <3>3. /\ t \in Sender /\ t.phase = "idle" /\ t.cursor = s.through /\ t.at = s.at
          /\ t.through = s.through /\ t.heads = {} /\ t.stack = <<>> /\ t.offset = s.offset
      BY <1>2, <1>5, <3>1, <3>2 DEF Sender
    <3>4. \A i \in InventoryHeads(L, s.cursor, s.through) : L[i] \in R
      <4> SUFFICES ASSUME NEW i \in InventoryHeads(L, s.cursor, s.through), i > s.at PROVE FALSE
        BY <1>3, <1>5, <3>1
      <4>1. i \in S
        BY DEF InventoryHeads
      <4> QED BY <3>1, <4>1
    <3>5. \A i \in DOMAIN L : i <= s.through => L[i] \in R
      <4>1. /\ \A i, k \in DOMAIN L : L[i] = L[k] => i = k
            /\ \A i \in DOMAIN L : \A q \in ParentsOf[L[i]] : \E k \in DOMAIN L : k < i /\ L[k] = q
        BY <1>1 DEF IInv, LogSound
      <4>2. \A r \in R : r \in Revision => ParentsOf[r] \subseteq R
        BY <1>1, RowsClosed
      <4>3. /\ \A i \in DOMAIN L : i <= s.cursor => L[i] \in R
            /\ s.through <= Len(L) /\ L \in Seq(Revision)
            /\ s.cursor \in Nat /\ s.through \in Nat
        BY <1>1, <1>2, <1>3
      <4> HIDE DEF L, R
      <4> QED BY <3>4, <4>1, <4>2, <4>3, HeadsSuffice
    <3>6. InventoryHeads(L, s.through, s.through) = {}
      BY <1>1, <1>2 DEF InventoryHeads
    <3>7. CycleSound(p, t)
      BY <1>3, <3>3, <3>5, <3>6 DEF CycleSound
    <3>8. StackSound(p, t) /\ PhaseSound(p, t)
      BY <3>3 DEF StackSound, PhaseSound
    <3> QED BY <3>3, <3>7, <3>8 DEF SenderSound, t
  <2>5. CASE page # {}
    <3> DEFINE low == Smallest(page)
               to == IF s.heads # {} THEN s.at ELSE Largest(page)
               new == <<[id |-> L[low], expanded |-> FALSE]>>
    <3>1. low \in page
      BY <2>3, <2>5, SmallestExists
    <3>2. Largest(page) \in page /\ \A j \in page : j <= Largest(page)
      BY <1>1, <2>3, <2>5, LargestExists
    <3>3. t = [s EXCEPT !.phase = "probe", !.at = to, !.heads = page \ {low}, !.stack = new]
      BY <1>5, <2>5 DEF Advanced
    <3> HIDE DEF t, low
    <3>4. to \in Nat /\ L[low] \in Revision /\ L[low] \in Rows(p[1])
      <4>1. low \in DOMAIN L /\ L[low] \in Revision
        BY <1>1, <2>3, <3>1
      <4>2. to \in Nat
        BY <1>2, <2>3, <3>2
      <4> QED BY <4>1, <4>2 DEF Rows
    <3>5. /\ new \in Seq(Entry) /\ new # <<>> /\ DOMAIN new = {1} /\ new[1].id = L[low] /\ ~new[1].expanded
      BY <3>4 DEF Entry
    <3>6. ASSUME NEW i \in InventoryHeads(L, s.cursor, s.through)
          PROVE  L[i] \in R \/ i > to \/ i \in page
      <4>0. L[i] \in R \/ i > s.at \/ i \in s.heads
        BY <1>3, <1>5, <3>6
      <4>1. CASE s.heads # {}
        BY <4>0, <4>1
      <4>2. CASE s.heads = {}
        <5> SUFFICES ASSUME i > s.at, i <= Largest(page) PROVE i \in page
          <6>1. i \in Nat
            BY <1>1 DEF InventoryHeads
          <6>2. to = Largest(page) /\ Largest(page) \in Nat
            BY <2>3, <3>2, <4>2
          <6> QED BY <4>0, <4>2, <6>1, <6>2
        <5>1. i \in S
          BY DEF InventoryHeads
        <5>2. page = FirstPage(S)
          BY <4>2
        <5> QED BY <2>2, <3>2, <5>1, <5>2
      <4> QED BY <4>1, <4>2
    <3> HIDE DEF to, new, page
    <3>7. /\ t.phase = "probe" /\ t.cursor = s.cursor /\ t.at = to
          /\ t.through = s.through /\ t.heads = page \ {low} /\ t.stack = new /\ t.offset = s.offset
          /\ t \in Sender
      BY <1>2, <2>3, <3>3, <3>4, <3>5 DEF Sender
    <3>8. CycleSound(p, t)
      <4>1. t.heads \subseteq DOMAIN L
        BY <1>1, <2>3, <3>7
      <4>2. \A i \in InventoryHeads(L, s.cursor, s.through) :
              L[i] \in R \/ i > to \/ i \in page \ {low} \/ (new # <<>> /\ new[1].id = L[i])
        BY <3>5, <3>6
      <4> QED BY <1>3, <3>7, <4>1, <4>2 DEF CycleSound
    <3>9. StackSound(p, t)
      BY <3>4, <3>5, <3>7 DEF StackSound
    <3>10. PhaseSound(p, t)
      BY <3>5, <3>7 DEF PhaseSound
    <3> QED BY <3>7, <3>8, <3>9, <3>10 DEF SenderSound, t
  <2> QED BY <2>4, <2>5
<1> QED BY <1>4, <1>5

(***************************************************************************)
(* What the peer has can leave the stack.                                  *)
(***************************************************************************)
LEMMA PoppedSound ==
  ASSUME NEW p \in Pair, NEW s \in Sender, s.stack # <<>>, CycleSound(p, s), StackSound(p, s),
         Top(s).id \in Rows(p[2])
  PROVE  Popped(s) \in Sender /\ CycleSound(p, Popped(s)) /\ StackSound(p, Popped(s))
<1> DEFINE t == Popped(s)
           n == Len(s.stack)
           rest == SubSeq(s.stack, 1, n - 1)
<1>1. n \in Nat /\ n > 0 /\ Top(s) = s.stack[n] /\ s.stack \in Seq(Entry) /\ DOMAIN s.stack = 1..n
  <2>1. s.stack \in Seq(Entry)
    BY DEF Sender
  <2> QED BY <2>1, TopFacts
<1>h. n = Len(s.stack)
  OBVIOUS
<1> HIDE DEF n
<1>2. /\ rest \in Seq(Entry) /\ DOMAIN rest = 1..(n-1) /\ Len(rest) = n - 1
      /\ \A k \in 1..(n-1) : rest[k] = s.stack[k]
  BY <1>1, <1>h
<1>3. t = [s EXCEPT !.stack = rest]
  BY DEF Popped, n
<1> HIDE DEF t, rest
<1>4. /\ t \in Sender /\ t.phase = s.phase /\ t.cursor = s.cursor /\ t.at = s.at
      /\ t.through = s.through /\ t.heads = s.heads /\ t.stack = rest /\ t.offset = s.offset
  BY <1>2, <1>3 DEF Sender
<1>5. ASSUME NEW i, s.stack # <<>>, s.stack[1].id = log[p[1]][i]
      PROVE  log[p[1]][i] \in Rows(p[2]) \/ (rest # <<>> /\ rest[1].id = log[p[1]][i])
  <2>1. CASE n = 1
    BY <1>1, <1>5, <2>1
  <2>2. CASE n > 1
    BY <1>1, <1>2, <1>5, <2>2
  <2> QED BY <1>1, <2>1, <2>2
<1>6. CycleSound(p, t)
  BY <1>4, <1>5 DEF CycleSound
<1>7. StackSound(p, t)
  <2>0. t.stack = rest /\ DOMAIN rest = 1..(n-1)
    BY <1>2, <1>4
  <2> SUFFICES ASSUME NEW k \in 1..(n-1)
               PROVE  /\ rest[k].id \in Rows(p[1])
                      /\ rest[k].expanded =>
                           \A q \in ParentsOf[rest[k].id] :
                             q \in Rows(p[2]) \/ \E l \in 1..(n-1) : l > k /\ rest[l].id = q
    BY <2>0 DEF StackSound
  <2>1. k \in 1..n /\ rest[k] = s.stack[k]
    BY <1>1, <1>2
  <2>2. s.stack[k].id \in Rows(p[1])
    BY <1>1, <2>1 DEF StackSound
  <2>3. ASSUME rest[k].expanded, NEW q \in ParentsOf[rest[k].id], q \notin Rows(p[2])
        PROVE  \E l \in 1..(n-1) : l > k /\ rest[l].id = q
    <3>1. PICK l \in 1..n : l > k /\ s.stack[l].id = q
      BY <1>1, <2>1, <2>3 DEF StackSound
    <3>2. l # n
      BY <1>1, <2>3, <3>1
    <3>3. l \in 1..(n-1) /\ rest[l] = s.stack[l]
      BY <1>1, <1>2, <3>1, <3>2
    <3> QED BY <3>1, <3>3
  <2> QED BY <2>1, <2>2, <2>3
<1> QED BY <1>4, <1>6, <1>7 DEF t

(***************************************************************************)
(* A revision that the peer lacks goes below its parents.                  *)
(***************************************************************************)
LEMMA ExpandedSound ==
  ASSUME IInv, NEW p \in Pair, NEW s \in Sender, s.stack # <<>>, CycleSound(p, s), StackSound(p, s)
  PROVE  Expanded(s) \in Sender /\ CycleSound(p, Expanded(s)) /\ StackSound(p, Expanded(s))
<1> DEFINE t == Expanded(s)
           n == Len(s.stack)
           r == Top(s).id
           parents == ParentList[r]
           m == Len(parents)
           low == [s.stack EXCEPT ![n].expanded = TRUE]
           up1 == [i \in 1..m |-> [id |-> parents[m + 1 - i], expanded |-> FALSE]]
           all == low \o up1
<1>1. n \in Nat /\ n > 0 /\ Top(s) = s.stack[n] /\ s.stack \in Seq(Entry) /\ DOMAIN s.stack = 1..n /\ r \in Revision
  <2>1. s.stack \in Seq(Entry)
    BY DEF Sender
  <2> QED BY <2>1, TopFacts
<1>2. parents \in Seq(Revision) /\ m \in Nat /\ DOMAIN parents = 1..m
  BY <1>1, ExchangeAssumption
<1>h. n = Len(s.stack) /\ m = Len(parents) /\ r = s.stack[n].id
  BY <1>1
<1> HIDE DEF n, m, r, parents
<1>3. /\ low \in Seq(Entry) /\ Len(low) = n /\ DOMAIN low = 1..n
      /\ \A k \in 1..n : low[k].id = s.stack[k].id
      /\ \A k \in 1..(n-1) : low[k] = s.stack[k]
  <2>1. \A k \in 1..n : s.stack[k] \in Entry
    BY <1>1
  <2>2. /\ DOMAIN low = 1..n
        /\ \A k \in 1..n : low[k] = IF k = n THEN [s.stack[k] EXCEPT !.expanded = TRUE] ELSE s.stack[k]
    BY <1>1
  <2> HIDE DEF low
  <2>3. \A k \in 1..n : low[k] \in Entry /\ low[k].id = s.stack[k].id
    <3> TAKE k \in 1..n
    <3>1. s.stack[k] \in Entry
      BY <2>1
    <3>2. /\ [s.stack[k] EXCEPT !.expanded = TRUE] \in Entry
          /\ [s.stack[k] EXCEPT !.expanded = TRUE].id = s.stack[k].id
      BY <3>1 DEF Entry
    <3> QED BY <2>2, <3>1, <3>2
  <2>4. low = [k \in 1..n |-> low[k]]
    BY <1>1 DEF low
  <2>5. low \in Seq(Entry) /\ Len(low) = n
    BY <1>1, <2>3, <2>4
  <2> QED BY <1>1, <2>2, <2>3, <2>5
<1>4. /\ up1 \in Seq(Entry) /\ Len(up1) = m
      /\ \A i \in 1..m : up1[i].id = parents[m + 1 - i] /\ ~up1[i].expanded
  <2>1. \A i \in 1..m : m + 1 - i \in 1..m
    BY <1>2
  <2>2. \A i \in 1..m : [id |-> parents[m + 1 - i], expanded |-> FALSE] \in Entry
    BY <1>2, <2>1 DEF Entry
  <2>3. up1 \in [1..m -> Entry]
    BY <2>2
  <2>4. up1 \in Seq(Entry) /\ Len(up1) = m
    BY <1>2, <2>3
  <2>5. \A i \in 1..m : up1[i] = [id |-> parents[m + 1 - i], expanded |-> FALSE]
    OBVIOUS
  <2> HIDE DEF up1
  <2> QED BY <2>4, <2>5
<1> HIDE DEF low, up1
<1>5. /\ all \in Seq(Entry) /\ DOMAIN all = 1..(n+m) /\ Len(all) = n + m
      /\ \A k \in 1..n : all[k] = low[k]
      /\ \A k \in (n+1)..(n+m) : all[k] = up1[k - n]
  <2>1. /\ all \in Seq(Entry) /\ Len(all) = Len(low) + Len(up1)
        /\ \A k \in 1..Len(low) + Len(up1) :
             all[k] = IF k <= Len(low) THEN low[k] ELSE up1[k - Len(low)]
    BY <1>3, <1>4, ConcatProperties
  <2> HIDE DEF all
  <2>2. /\ Len(all) = n + m /\ DOMAIN all = 1..(n+m)
        /\ \A k \in 1..(n+m) : all[k] = IF k <= n THEN low[k] ELSE up1[k - n]
    BY <1>3, <1>4, <2>1
  <2>3. ASSUME NEW k \in 1..n PROVE all[k] = low[k]
    <3>1. k \in 1..(n+m) /\ k <= n
      BY <1>1, <1>2
    <3> QED BY <2>2, <3>1
  <2>4. ASSUME NEW k \in (n+1)..(n+m) PROVE all[k] = up1[k - n]
    <3>1. k \in 1..(n+m) /\ ~(k <= n)
      BY <1>1, <1>2
    <3> QED BY <2>2, <3>1
  <2> QED BY <2>1, <2>2, <2>3, <2>4
<1>6. t = [s EXCEPT !.stack = all]
  BY DEF Expanded, low, up1, all, n, m, r, parents
<1> HIDE DEF t, all
<1>7. /\ t \in Sender /\ t.phase = s.phase /\ t.cursor = s.cursor /\ t.at = s.at
      /\ t.through = s.through /\ t.heads = s.heads /\ t.stack = all /\ t.offset = s.offset
  BY <1>5, <1>6 DEF Sender
<1>8. CycleSound(p, t)
  <2>1. all # <<>> /\ all[1].id = s.stack[1].id
    BY <1>1, <1>2, <1>3, <1>5
  <2> QED BY <1>7, <2>1 DEF CycleSound
<1>9. r \in Rows(p[1]) /\ p[1] \in Device /\ ParentsOf[r] = {parents[i] : i \in 1..m}
  BY <1>1, <1>2, PairEnds DEF StackSound, ParentsOf, r, parents
<1>10. ParentsOf[r] \subseteq Rows(p[1])
  BY <1>9, RowsClosed
<1>11. \A q \in ParentsOf[r] : \E l \in 1..(n+m) : l > n /\ all[l].id = q
  <2> TAKE q \in ParentsOf[r]
  <2>1. PICK i \in 1..m : parents[i] = q
    BY <1>9
  <2> DEFINE k == m + 1 - i
  <2>2. k \in 1..m /\ m + 1 - k = i /\ n + k \in (n+1)..(n+m) /\ (n + k) - n = k
    BY <1>1, <1>2
  <2>3. all[n + k].id = q
    <3>1. all[n + k] = up1[k]
      BY <1>5, <2>2
    <3>2. up1[k].id = parents[m + 1 - k]
      BY <1>4, <2>2
    <3> QED BY <2>1, <2>2, <3>1, <3>2
  <2>4. n + k \in 1..(n+m) /\ n + k > n
    BY <1>1, <1>2, <2>2
  <2> QED BY <2>3, <2>4
<1>12. StackSound(p, t)
  <2>0. t.stack = all /\ DOMAIN all = 1..(n+m)
    BY <1>5, <1>7
  <2> SUFFICES ASSUME NEW k \in 1..(n+m)
               PROVE  /\ all[k].id \in Rows(p[1])
                      /\ all[k].expanded =>
                           \A q \in ParentsOf[all[k].id] :
                             q \in Rows(p[2]) \/ \E l \in 1..(n+m) : l > k /\ all[l].id = q
    BY <2>0 DEF StackSound
  <2>1. CASE k \in 1..(n-1)
    <3>1. all[k] = s.stack[k] /\ k \in 1..n
      BY <1>1, <1>3, <1>5, <2>1
    <3>2. \A l \in 1..n : l \in 1..(n+m) /\ all[l].id = s.stack[l].id
      BY <1>1, <1>2, <1>3, <1>5
    <3>3. /\ s.stack[k].id \in Rows(p[1])
          /\ s.stack[k].expanded =>
               \A q \in ParentsOf[s.stack[k].id] :
                 q \in Rows(p[2]) \/ \E l \in 1..n : l > k /\ s.stack[l].id = q
      BY <1>1, <3>1 DEF StackSound
    <3> QED BY <3>1, <3>2, <3>3
  <2>2. CASE k = n
    <3>1. all[k].id = r
      BY <1>1, <1>h, <1>3, <1>5, <2>2
    <3> QED BY <1>9, <1>11, <2>2, <3>1
  <2>3. CASE k \in (n+1)..(n+m)
    <3>1. k - n \in 1..m /\ m + 1 - (k - n) \in 1..m
      BY <1>1, <1>2, <2>3
    <3>2. all[k] = up1[k - n]
      BY <1>5, <2>3
    <3>3. up1[k - n].id = parents[m + 1 - (k - n)] /\ ~up1[k - n].expanded
      BY <1>4, <3>1
    <3> QED BY <1>9, <1>10, <3>1, <3>2, <3>3
  <2> QED BY <1>1, <1>2, <2>1, <2>2, <2>3
<1> QED BY <1>7, <1>8, <1>12 DEF t

---------------------------------------------------------------------------
(***************************************************************************)
(* The request that a phase has outstanding.                               *)
(***************************************************************************)
LEMMA RequestFacts ==
  ASSUME NEW s \in Sender
  PROVE  /\ s.phase = "idle" => Request(s) = Silent
         /\ s.phase = "probe" => Request(s) = [type |-> "have?", rev |-> Top(s).id]
         /\ s.phase = "offer" => Request(s) = [type |-> "offer", rev |-> Top(s).id]
         /\ s.phase = "chunk" => Request(s) = [type |-> "chunk", rev |-> Top(s).id, offset |-> s.offset]
         /\ s.phase = "finish" => Request(s) = [type |-> "finish", rev |-> Top(s).id]
         /\ s.phase \in {"idle", "probe", "offer", "chunk", "finish"}
<1>1. s.phase \in {"idle", "probe", "offer", "chunk", "finish"}
  BY DEF Sender
<1> QED BY <1>1 DEF Request

(***************************************************************************)
(* What a message tells the end that it reaches.                           *)
(***************************************************************************)
LEMMA WireFacts ==
  ASSUME NEW p \in Pair, NEW s \in Sender, NEW m, PhaseSound(p, s), WireSound(p, s, m),
         m.type # "none"
  PROVE  /\ s.phase # "idle" /\ s.stack # <<>> /\ m.rev = Top(s).id
         /\ m.type = "have" => (m.known \in BOOLEAN /\ (m.known => m.rev \in Rows(p[2])))
         /\ m.type = "ack" /\ ~m.complete =>
              /\ s.phase \in {"offer", "chunk"}
              /\ m.offset \in Nat /\ m.offset <= SizeOf[m.rev] /\ ReceivedTo(p[2], m.rev, m.offset)
         /\ m.type = "ack" /\ m.complete => m.rev \in Rows(p[2])
         /\ m.type = "have?" => s.phase = "probe"
         /\ m.type = "offer" => s.phase = "offer"
         /\ m.type = "chunk" => s.phase = "chunk" /\ m.offset = s.offset
         /\ m.type = "finish" => s.phase = "finish"
<1> DEFINE r == Top(s).id
<1> HIDE DEF r
<1>1. CASE m = Request(s)
  <2>1. s.phase = "idle" => m = Silent
    BY <1>1, RequestFacts
  <2>2. s.phase # "idle"
    BY <2>1 DEF Silent
  <2>3. CASE s.phase = "probe"
    <3>1. m = [type |-> "have?", rev |-> r]
      BY <1>1, <2>3, RequestFacts DEF r
    <3>2. m.type = "have?" /\ m.rev = r
      BY <3>1
    <3> QED BY <2>2, <2>3, <3>2 DEF PhaseSound, r
  <2>4. CASE s.phase = "offer"
    <3>1. m = [type |-> "offer", rev |-> r]
      BY <1>1, <2>4, RequestFacts DEF r
    <3>2. m.type = "offer" /\ m.rev = r
      BY <3>1
    <3> QED BY <2>2, <2>4, <3>2 DEF PhaseSound, r
  <2>5. CASE s.phase = "chunk"
    <3>1. m = [type |-> "chunk", rev |-> r, offset |-> s.offset]
      BY <1>1, <2>5, RequestFacts DEF r
    <3>2. m.type = "chunk" /\ m.rev = r /\ m.offset = s.offset
      BY <3>1
    <3> QED BY <2>2, <2>5, <3>2 DEF PhaseSound, r
  <2>6. CASE s.phase = "finish"
    <3>1. m = [type |-> "finish", rev |-> r]
      BY <1>1, <2>6, RequestFacts DEF r
    <3>2. m.type = "finish" /\ m.rev = r
      BY <3>1
    <3> QED BY <2>2, <2>6, <3>2 DEF PhaseSound, r
  <2> QED BY <2>2, <2>3, <2>4, <2>5, <2>6, RequestFacts
<1>2. ASSUME s.phase = "probe", NEW known \in BOOLEAN,
             m = [type |-> "have", rev |-> r, known |-> known], known => r \in Rows(p[2])
      PROVE  /\ m.type = "have" /\ m.rev = r /\ s.phase # "idle" /\ s.stack # <<>>
             /\ m.known \in BOOLEAN /\ (m.known => r \in Rows(p[2]))
  BY <1>2 DEF PhaseSound
<1>3. ASSUME s.phase \in {"offer", "chunk"}, NEW n \in Nat, n <= SizeOf[r], m = Ack(r, n, FALSE),
             ReceivedTo(p[2], r, n)
      PROVE  /\ m.type = "ack" /\ m.rev = r /\ s.phase # "idle" /\ s.stack # <<>> /\ ~m.complete
             /\ m.offset = n
  BY <1>3 DEF PhaseSound, Ack
<1>4. ASSUME s.phase = "finish", NEW n \in Nat, m = Ack(r, n, TRUE), r \in Rows(p[2])
      PROVE  m.type = "ack" /\ m.rev = r /\ s.phase # "idle" /\ s.stack # <<>> /\ m.complete
  BY <1>4 DEF PhaseSound, Ack
<1>5. CASE /\ s.phase = "probe"
           /\ \E known \in BOOLEAN : /\ m = [type |-> "have", rev |-> r, known |-> known]
                                     /\ known => r \in Rows(p[2])
  BY <1>2, <1>5 DEF r
<1>6. CASE /\ s.phase \in {"offer", "chunk"}
           /\ \E n \in Nat : n <= SizeOf[r] /\ m = Ack(r, n, FALSE) /\ ReceivedTo(p[2], r, n)
  BY <1>3, <1>6 DEF r
<1>7. CASE /\ s.phase = "finish" /\ \E n \in Nat : m = Ack(r, n, TRUE) /\ r \in Rows(p[2])
  BY <1>4, <1>7 DEF r
<1> QED BY <1>1, <1>5, <1>6, <1>7 DEF WireSound, r

(***************************************************************************)
(* The step by which a sender goes on keeps the invariant.                 *)
(***************************************************************************)
LEMMA SendStep ==
  ASSUME IInv, NEW p \in Pair, NEW t, SenderSound(p, t), Put(p, t),
         UNCHANGED <<log, staged, up, active, faults>>
  PROVE  IInv'
<1>1. sender' = [sender EXCEPT ![p] = t] /\ wire' = [wire EXCEPT ![p] = Request(t)]
  BY DEF Put
<1>2. Shapes'
  BY <1>1 DEF IInv, Shapes, SenderSound
<1>3. Grown
  BY DEF IInv, Shapes, Grown, Rows
<1>4. ASSUME NEW x \in Pair
      PROVE  SenderSound(x, sender'[x]) /\ WireSound(x, sender'[x], wire'[x])
  <2>1. CASE x = p
    <3>1. sender'[p] = t /\ wire'[p] = Request(t)
      BY <1>1 DEF IInv, Shapes
    <3> QED BY <2>1, <3>1 DEF WireSound
  <2>2. CASE x # p
    <3>1. sender'[x] = sender[x] /\ wire'[x] = wire[x]
      BY <1>1, <2>2 DEF IInv, Shapes
    <3> QED BY <3>1 DEF IInv, PairSound, SenderSound, Shapes
  <2> QED BY <2>1, <2>2
<1>5. \A d \in Device : LogSound(d)'
  BY DEF IInv, LogSound
<1>6. StagedFinishable'
  BY DEF IInv, StagedFinishable, Rows
<1> QED BY <1>2, <1>3, <1>4, <1>5, <1>6, GrownInductive

(***************************************************************************)
(* The sender's steps.                                                     *)
(***************************************************************************)
LEMMA SenderSteps ==
  ASSUME IInv, NEW p \in Pair,
         Start(p) \/ AnswerHave(p) \/ Acknowledge(p) \/ AcknowledgeFinish(p)
  PROVE  IInv'
<1> DEFINE s == sender[p]
           m == wire[p]
           L == log[p[1]]
<1>1. /\ s \in Sender /\ CycleSound(p, s) /\ StackSound(p, s) /\ PhaseSound(p, s) /\ WireSound(p, s, m)
      /\ L \in Seq(Revision) /\ Len(L) \in Nat
  BY PairEnds DEF IInv, Shapes, PairSound
<1>2. CASE Start(p)
  <2> DEFINE f == [FreshSender EXCEPT !.cursor = s.cursor, !.at = s.cursor, !.through = Len(L)]
  <2>1. /\ Put(p, Advanced(L, f)) /\ UNCHANGED <<log, staged, up, active, faults>>
    BY <1>2 DEF Start
  <2>2. /\ s.cursor \in Nat /\ FreshSender \in Sender
        /\ FreshSender.heads = {} /\ FreshSender.stack = <<>>
    BY <1>1 DEF FreshSender, Sender, Entry
  <2>3. /\ f \in Sender /\ f.cursor = s.cursor /\ f.at = s.cursor /\ f.through = Len(L)
        /\ f.heads = {} /\ f.stack = <<>>
    <3> DEFINE x == FreshSender
               c == s.cursor
               n == Len(L)
    <3> HIDE DEF x, c, n
    <3>1. x \in Sender /\ x.heads = {} /\ x.stack = <<>> /\ c \in Nat /\ n \in Nat
      BY <1>1, <2>2 DEF x, c, n
    <3>2. \A g : g = [x EXCEPT !.cursor = c, !.at = c, !.through = n]
            => /\ g \in Sender /\ g.cursor = c /\ g.at = c /\ g.through = n
               /\ g.heads = {} /\ g.stack = <<>>
      BY <3>1 DEF Sender
    <3> QED BY <3>2 DEF x, c, n
  <2> HIDE DEF f
  <2>4. CycleSound(p, f)
    <3>1. \A i \in InventoryHeads(L, s.cursor, Len(L)) : i > s.cursor
      <4>1. s.cursor \in Nat /\ DOMAIN L = 1..Len(L)
        BY <1>1 DEF Sender
      <4> QED BY <4>1 DEF InventoryHeads
    <3> QED BY <1>1, <2>3, <3>1 DEF CycleSound
  <2>5. StackSound(p, f)
    BY <2>3 DEF StackSound
  <2> QED BY <2>1, <2>3, <2>4, <2>5, AdvancedSound, SendStep
<1>3. CASE AnswerHave(p)
  <2> DEFINE t == IF m.known THEN Popped(s) ELSE Expanded(s)
  <2>1. m.type = "have" /\ Put(p, Advanced(L, t)) /\ UNCHANGED <<log, staged, up, active, faults>>
    BY <1>3 DEF AnswerHave
  <2>2. s.stack # <<>> /\ m.rev = Top(s).id /\ m.known \in BOOLEAN /\ (m.known => m.rev \in Rows(p[2]))
    BY <1>1, <2>1, WireFacts
  <2>3. t \in Sender /\ CycleSound(p, t) /\ StackSound(p, t)
    <3>1. CASE m.known
      BY <1>1, <2>2, <3>1, PoppedSound
    <3>2. CASE ~m.known
      BY <1>1, <2>2, <3>2, ExpandedSound
    <3> QED BY <3>1, <3>2
  <2> HIDE DEF t
  <2> QED BY <2>1, <2>3, AdvancedSound, SendStep
<1>4. CASE Acknowledge(p)
  <2> DEFINE ph == IF m.offset = SizeOf[Top(s).id] THEN "finish" ELSE "chunk"
             t == [s EXCEPT !.phase = ph, !.offset = m.offset]
  <2>1. /\ m.type = "ack" /\ ~m.complete /\ Put(p, t) /\ UNCHANGED <<log, staged, up, active, faults>>
    BY <1>4 DEF Acknowledge
  <2>2. /\ s.stack # <<>> /\ m.rev = Top(s).id /\ s.phase \in {"offer", "chunk"}
        /\ m.offset \in Nat /\ m.offset <= SizeOf[m.rev] /\ ReceivedTo(p[2], m.rev, m.offset)
    BY <1>1, <2>1, WireFacts
  <2>3. Top(s).id \in Revision /\ SizeOf[Top(s).id] \in Nat
    BY <1>1, <2>2, TopFacts, ExchangeAssumption
  <2>4. ph \in {"finish", "chunk"} /\ (ph = "chunk" => m.offset < SizeOf[Top(s).id])
    BY <2>2, <2>3
  <2> HIDE DEF ph, s, m
  <2>5. /\ t \in Sender /\ t.phase = ph /\ t.cursor = s.cursor /\ t.at = s.at
        /\ t.through = s.through /\ t.heads = s.heads /\ t.stack = s.stack /\ t.offset = m.offset
    BY <1>1, <2>2, <2>4 DEF Sender
  <2> HIDE DEF t
  <2>6. Top(t) = Top(s) /\ Top(s).expanded
    BY <1>1, <2>2, <2>5 DEF Top, PhaseSound
  <2>7. CycleSound(p, t) /\ StackSound(p, t)
    BY <1>1, <2>5 DEF CycleSound, StackSound
  <2>8. PhaseSound(p, t)
    BY <2>2, <2>4, <2>5, <2>6 DEF PhaseSound
  <2> QED BY <2>1, <2>5, <2>7, <2>8, SendStep DEF SenderSound
<1>5. CASE AcknowledgeFinish(p)
  <2>1. /\ m.type = "ack" /\ m.complete /\ Put(p, Advanced(L, Popped(s)))
        /\ UNCHANGED <<log, staged, up, active, faults>>
    BY <1>5 DEF AcknowledgeFinish
  <2>2. s.stack # <<>> /\ m.rev = Top(s).id /\ m.rev \in Rows(p[2])
    BY <1>1, <2>1, WireFacts
  <2>3. Popped(s) \in Sender /\ CycleSound(p, Popped(s)) /\ StackSound(p, Popped(s))
    BY <1>1, <2>2, PoppedSound
  <2> QED BY <2>1, <2>3, AdvancedSound, SendStep
<1> QED BY <1>2, <1>3, <1>4, <1>5

---------------------------------------------------------------------------
(***************************************************************************)
(* A revision that enters a journal after its parents.                     *)
(***************************************************************************)
LEMMA AppendedSound ==
  ASSUME IInv, NEW d \in Device, NEW r \in Revision, r \notin Rows(d), ParentsOf[r] \subseteq Rows(d),
         log' = [log EXCEPT ![d] = Append(@, r)]
  PROVE  /\ log' \in [Device -> Seq(Revision)]
         /\ \A x \in Device : Rows(x)' = IF x = d THEN Rows(d) \cup {r} ELSE Rows(x)
         /\ \A x \in Device : /\ Len(log[x]) <= Len(log'[x])
                              /\ \A i \in DOMAIN log[x] : log'[x][i] = log[x][i]
         /\ \A x \in Device : LogSound(x)'
<1> DEFINE L == log[d]
           K == log'[d]
           n == Len(L)
<1>1. log \in [Device -> Seq(Revision)] /\ \A x \in Device : LogSound(x)
  BY DEF IInv, Shapes
<1>2. K = Append(L, r) /\ L \in Seq(Revision) /\ \A x \in Device : x # d => log'[x] = log[x]
  BY <1>1
<1>3. /\ n \in Nat /\ DOMAIN L = 1..n /\ DOMAIN K = 1..(n+1) /\ Len(K) = n + 1
      /\ K[n+1] = r /\ \A i \in 1..n : K[i] = L[i]
  BY <1>2
<1>4. log' \in [Device -> Seq(Revision)]
  BY <1>1
<1>5. Rows(d) = {L[i] : i \in 1..n} /\ Rows(d)' = {K[i] : i \in 1..(n+1)}
  BY <1>3 DEF Rows
<1>6. /\ \A i, k \in 1..n : L[i] = L[k] => i = k
      /\ \A i \in 1..n : \A q \in ParentsOf[L[i]] : \E k \in 1..n : k < i /\ L[k] = q
  <2> DEFINE D == DOMAIN L
  <2>1. D = 1..n
    BY <1>3
  <2>2. /\ \A i, k \in D : L[i] = L[k] => i = k
        /\ \A i \in D : \A q \in ParentsOf[L[i]] : \E k \in D : k < i /\ L[k] = q
    BY <1>1, Zenon DEF LogSound
  <2> HIDE DEF D, L, n
  <2> QED BY <2>1, <2>2
<1>7. LogSound(d)' <=>
        /\ \A i, k \in 1..(n+1) : K[i] = K[k] => i = k
        /\ \A i \in 1..(n+1) : \A q \in ParentsOf[K[i]] : \E k \in 1..(n+1) : k < i /\ K[k] = q
  <2> DEFINE D == DOMAIN K
  <2>1. D = 1..(n+1)
    BY <1>3
  <2>2. LogSound(d)' <=>
          /\ \A i, k \in D : K[i] = K[k] => i = k
          /\ \A i \in D : \A q \in ParentsOf[K[i]] : \E k \in D : k < i /\ K[k] = q
    BY DEF LogSound
  <2> HIDE DEF D, K, n
  <2> QED BY <2>1, <2>2, Zenon
<1>a. \A x \in Device : x # d => (LogSound(x)' /\ Rows(x)' = Rows(x))
  BY <1>1, <1>2 DEF LogSound, Rows
<1> HIDE DEF L, K, n
<1>8. 1..(n+1) = (1..n) \cup {n+1} /\ n + 1 \notin 1..n /\ \A i \in 1..n : i < n + 1
  BY <1>3
<1>9. Rows(d)' = Rows(d) \cup {r}
  BY <1>3, <1>5, <1>8
<1>10. \A i, k \in 1..(n+1) : K[i] = K[k] => i = k
  BY <1>3, <1>5, <1>6, <1>8
<1>11. ASSUME NEW i \in 1..(n+1), NEW q \in ParentsOf[K[i]]
       PROVE  \E k \in 1..(n+1) : k < i /\ K[k] = q
  <2>1. CASE i \in 1..n
    BY <1>3, <1>6, <1>8, <2>1
  <2>2. CASE i = n + 1
    <3>1. q \in Rows(d)
      BY <1>3, <2>2
    <3> QED BY <1>3, <1>5, <1>8, <2>2, <3>1
  <2> QED BY <1>8, <2>1, <2>2
<1>12. LogSound(d)'
  BY <1>7, <1>10, <1>11
<1>13. Len(log[d]) <= Len(log'[d]) /\ \A i \in DOMAIN log[d] : log'[d][i] = log[d][i]
  BY <1>3 DEF L, K, n
<1>14. ASSUME NEW x \in Device
       PROVE  Len(log[x]) <= Len(log'[x]) /\ \A i \in DOMAIN log[x] : log'[x][i] = log[x][i]
  <2>1. Len(log[x]) \in Nat
    BY <1>1
  <2> QED BY <1>2, <1>13, <2>1
<1> QED BY <1>4, <1>9, <1>a, <1>12, <1>14

(***************************************************************************)
(* What a step adds to a journal, if anything.                             *)
(***************************************************************************)
LEMMA SameLog ==
  ASSUME IInv, log' = log
  PROVE  /\ log' \in [Device -> Seq(Revision)]
         /\ \A x \in Device : Rows(x)' = Rows(x)
         /\ \A x \in Device : /\ Len(log[x]) <= Len(log'[x])
                              /\ \A i \in DOMAIN log[x] : log'[x][i] = log[x][i]
         /\ \A x \in Device : LogSound(x)'
<1>1. \A x \in Device : Len(log[x]) \in Nat
  BY DEF IInv, Shapes
<1> QED BY <1>1 DEF IInv, Shapes, LogSound, Rows

(***************************************************************************)
(* A device's own transactions add revisions.                              *)
(***************************************************************************)
LEMMA CaptureInductive ==
  ASSUME IInv, NEW r \in Revision, Capture(r)
  PROVE  IInv'
<1> DEFINE d == AuthorOf[r]
<1>1. /\ d \in Device /\ r \notin Rows(d) /\ ParentsOf[r] \subseteq Rows(d)
      /\ log' = [log EXCEPT ![d] = Append(@, r)]
      /\ UNCHANGED <<staged, up, sender, active, wire, faults>>
  BY ExchangeAssumption DEF Capture
<1> HIDE DEF d
<1>2. /\ log' \in [Device -> Seq(Revision)]
      /\ \A x \in Device : Rows(x) \subseteq Rows(x)'
      /\ \A x \in Device : /\ Len(log[x]) <= Len(log'[x])
                           /\ \A i \in DOMAIN log[x] : log'[x][i] = log[x][i]
      /\ \A x \in Device : LogSound(x)'
  BY <1>1, AppendedSound
<1>3. Shapes'
  BY <1>1, <1>2 DEF IInv, Shapes
<1>4. Grown
  <2>1. \A x \in Device : \A q \in DOMAIN staged[x] : staged'[x][q] >= staged[x][q]
    BY <1>1 DEF IInv, Shapes
  <2> QED BY <1>1, <1>2, <2>1 DEF Grown
<1>5. StagedFinishable'
  BY <1>1, <1>2 DEF IInv, StagedFinishable
<1>6. \A p \in Pair : SenderSound(p, sender'[p]) /\ WireSound(p, sender'[p], wire'[p])
  BY <1>1 DEF IInv, PairSound, SenderSound, Shapes
<1> QED BY <1>2, <1>3, <1>4, <1>5, <1>6, GrownInductive

(***************************************************************************)
(* A new sender, and the silence on a connection that ended, are sound.    *)
(***************************************************************************)
LEMMA FreshSound ==
  ASSUME IInv, NEW p \in Pair
  PROVE  SenderSound(p, FreshSender) /\ WireSound(p, FreshSender, Silent)
<1> DEFINE s == FreshSender
<1>1. /\ s \in Sender /\ s.phase = "idle" /\ s.cursor = 0 /\ s.at = 0 /\ s.through = 0
      /\ s.heads = {} /\ s.stack = <<>>
  BY DEF FreshSender, Sender, Entry
<1> HIDE DEF s
<1>2. log[p[1]] \in Seq(Revision)
  BY PairEnds DEF IInv, Shapes
<1>3. DOMAIN log[p[1]] = 1..Len(log[p[1]]) /\ Len(log[p[1]]) \in Nat
  BY <1>2
<1>4. InventoryHeads(log[p[1]], 0, 0) = {}
  BY <1>3 DEF InventoryHeads
<1>5. CycleSound(p, s)
  BY <1>1, <1>3, <1>4 DEF CycleSound
<1>6. StackSound(p, s)
  BY <1>1 DEF StackSound
<1>7. PhaseSound(p, s)
  BY <1>1 DEF PhaseSound
<1>8. WireSound(p, s, Silent)
  BY <1>1, RequestFacts DEF WireSound
<1> QED BY <1>1, <1>5, <1>6, <1>7, <1>8 DEF SenderSound, s

(***************************************************************************)
(* A connection ends, by a fault or by a refusal, or is made.              *)
(***************************************************************************)
LEMMA ConnectionSteps ==
  ASSUME IInv, NEW c, \/ c \in Link /\ Connect(c)
                      \/ Drop(c) /\ faults' \in Nat
  PROVE  IInv'
<1>1. log' = log /\ staged' = staged
  BY DEF Connect, Drop
<1>2. Shapes'
  <2>1. FreshSender \in Sender
    BY DEF FreshSender, Sender, Entry
  <2>2. CASE c \in Link /\ Connect(c)
    BY <2>2 DEF IInv, Shapes, Connect
  <2>3. CASE Drop(c) /\ faults' \in Nat
    <3>1. up' \subseteq Link /\ sender' \in [Pair -> Sender]
      BY <2>1, <2>3 DEF IInv, Shapes, Drop
    <3>2. active' \in [Pair -> SUBSET Revision]
      BY <2>3 DEF IInv, Shapes, Drop
    <3>3. wire' = [p \in Pair |-> wire'[p]]
      BY <2>3 DEF Drop
    <3> QED BY <1>1, <2>3, <3>1, <3>2, <3>3 DEF IInv, Shapes
  <2> QED BY <2>2, <2>3
<1>3. Grown
  <2>1. \A x \in Device : \A q \in DOMAIN staged[x] : staged'[x][q] >= staged[x][q]
    BY <1>1 DEF IInv, Shapes
  <2> QED BY <1>1, <2>1, SameLog DEF Grown
<1>4. StagedFinishable'
  BY <1>1 DEF IInv, StagedFinishable, Rows
<1>5. ASSUME NEW p \in Pair
      PROVE  SenderSound(p, sender'[p]) /\ WireSound(p, sender'[p], wire'[p])
  <2>1. \/ sender'[p] = sender[p] /\ wire'[p] = wire[p]
        \/ sender'[p] = FreshSender /\ wire'[p] = Silent
    BY DEF Connect, Drop
  <2>2. SenderSound(p, sender[p]) /\ WireSound(p, sender[p], wire[p])
    BY DEF IInv, PairSound, SenderSound, Shapes
  <2> QED BY <2>1, <2>2, FreshSound
<1> QED BY <1>1, <1>2, <1>3, <1>4, <1>5, SameLog, GrownInductive

---------------------------------------------------------------------------
(***************************************************************************)
(* What is offered, or sent after the offer, has its parents at the peer.  *)
(***************************************************************************)
LEMMA OfferedReady ==
  ASSUME IInv, NEW p \in Pair, sender[p].phase \in {"offer", "chunk", "finish"}
  PROVE  LET r == Top(sender[p]).id
         IN  r \in Revision /\ r \in Rows(p[1]) /\ ParentsOf[r] \subseteq Rows(p[2])
<1> DEFINE s == sender[p]
           n == Len(s.stack)
<1>1. s \in Sender /\ StackSound(p, s) /\ PhaseSound(p, s)
  BY DEF IInv, Shapes, PairSound
<1>2. s.stack # <<>> /\ Top(s).expanded
  BY <1>1 DEF PhaseSound
<1>3. /\ n \in Nat /\ n \in DOMAIN s.stack /\ Top(s) = s.stack[n] /\ Top(s).id \in Revision
      /\ DOMAIN s.stack = 1..n
  <2>1. s.stack \in Seq(Entry)
    BY <1>1 DEF Sender
  <2> QED BY <1>1, <1>2, <2>1, TopFacts
<1>4. /\ s.stack[n].id \in Rows(p[1])
      /\ s.stack[n].expanded =>
           \A q \in ParentsOf[s.stack[n].id] :
             q \in Rows(p[2]) \/ \E l \in DOMAIN s.stack : l > n /\ s.stack[l].id = q
  BY <1>1, <1>3 DEF StackSound
<1> HIDE DEF n
<1>5. \A l \in DOMAIN s.stack : ~(l > n)
  BY <1>3
<1> QED BY <1>2, <1>3, <1>4, <1>5

(***************************************************************************)
(* A receiver's step: the reply is true when it is sent, and the tables    *)
(* have grown.                                                             *)
(***************************************************************************)
LEMMA ReceiveStep ==
  ASSUME IInv, NEW p \in Pair, NEW m, wire' = [wire EXCEPT ![p] = m], sender' = sender,
         Shapes', Grown, \A d \in Device : LogSound(d)', StagedFinishable',
         WireSound(p, sender[p], wire[p])'
  PROVE  IInv'
<1>1. ASSUME NEW x \in Pair
      PROVE  /\ SenderSound(x, sender'[x])
             /\ WireSound(x, sender'[x], wire'[x]) \/ WireSound(x, sender[x], wire[x])'
  <2>1. SenderSound(x, sender[x]) /\ WireSound(x, sender[x], wire[x])
    BY DEF IInv, PairSound, SenderSound, Shapes
  <2>2. CASE x = p
    BY <2>1, <2>2
  <2>3. CASE x # p
    <3>1. wire'[x] = wire[x]
      BY <2>3 DEF IInv, Shapes
    <3> QED BY <2>1, <3>1
  <2> QED BY <2>2, <2>3
<1> QED BY <1>1, GrownInductive

(***************************************************************************)
(* Acknowledgements say what is received.                                  *)
(***************************************************************************)
LEMMA AckSound ==
  ASSUME IInv, NEW p \in Pair, NEW n \in Nat, sender' = sender,
         \/ /\ wire'[p] = Ack(Top(sender[p]).id, n, FALSE) /\ sender[p].phase \in {"offer", "chunk"}
            /\ n <= SizeOf[Top(sender[p]).id] /\ ReceivedTo(p[2], Top(sender[p]).id, n)'
         \/ /\ wire'[p] = Ack(Top(sender[p]).id, n, TRUE) /\ sender[p].phase = "finish"
            /\ Top(sender[p]).id \in Rows(p[2])'
  PROVE  WireSound(p, sender[p], wire[p])'
<1> DEFINE r == Top(sender[p]).id
           s == sender[p]
           m == wire'[p]
<1>1. WireSound(p, sender[p], wire[p])' <=>
        \/ m = Request(s)
        \/ /\ s.phase = "probe"
           /\ \E known \in BOOLEAN : /\ m = [type |-> "have", rev |-> r, known |-> known]
                                     /\ known => r \in Rows(p[2])'
        \/ /\ s.phase \in {"offer", "chunk"}
           /\ \E k \in Nat : k <= SizeOf[r] /\ m = Ack(r, k, FALSE) /\ ReceivedTo(p[2], r, k)'
        \/ /\ s.phase = "finish"
           /\ \E k \in Nat : m = Ack(r, k, TRUE) /\ r \in Rows(p[2])'
  BY DEF WireSound, Request, Top, Ack, ReceivedTo
<1>2. ReceivedTo(p[2], Top(sender[p]).id, n)' <=> ReceivedTo(p[2], r, n)'
  BY DEF ReceivedTo, Top
<1>3. (Top(sender[p]).id \in Rows(p[2])') <=> (r \in Rows(p[2])')
  BY DEF Top
<1> QED BY <1>1, <1>2, <1>3

(***************************************************************************)
(* The answer to a probe.                                                  *)
(***************************************************************************)
LEMMA AcceptHaveInductive ==
  ASSUME IInv, NEW p \in Pair, AcceptHave(p)
  PROVE  IInv'
<1> DEFINE s == sender[p]
           k == wire[p].rev \in Rows(p[2])
           m == [type |-> "have", rev |-> wire[p].rev, known |-> k]
<1>1. /\ wire[p].type = "have?" /\ wire' = [wire EXCEPT ![p] = m]
      /\ UNCHANGED <<log, staged, up, sender, active, faults>>
  BY DEF AcceptHave, Reply
<1>2. s \in Sender /\ PhaseSound(p, s) /\ WireSound(p, s, wire[p])
  BY DEF IInv, Shapes, PairSound
<1>3. s.phase = "probe" /\ wire[p].rev = Top(s).id
  <2>1. wire[p].type # "none"
    BY <1>1
  <2> QED BY <1>1, <1>2, <2>1, WireFacts
<1>4. Shapes'
  <2>1. wire' = [x \in Pair |-> wire'[x]]
    BY <1>1 DEF IInv, Shapes
  <2> QED BY <1>1, <2>1 DEF IInv, Shapes
<1>5. Grown
  <2>1. \A x \in Device : \A q \in DOMAIN staged[x] : staged'[x][q] >= staged[x][q]
    BY <1>1 DEF IInv, Shapes
  <2> QED BY <1>1, <2>1, SameLog DEF Grown
<1>6. StagedFinishable'
  BY <1>1 DEF IInv, StagedFinishable, Rows
<1>7. wire'[p] = m /\ m = [type |-> "have", rev |-> Top(s).id, known |-> k]
  BY <1>1, <1>3 DEF IInv, Shapes
<1>8. WireSound(p, sender[p], wire[p])'
  <2>1. Top(sender[p])' = Top(s) /\ sender'[p] = s /\ Rows(p[2])' = Rows(p[2])
    BY <1>1 DEF Top, Rows
  <2>2. k \in BOOLEAN /\ (k => Top(s).id \in Rows(p[2]))
    BY <1>3
  <2> HIDE DEF k, s
  <2>3. \E known \in BOOLEAN : /\ wire'[p] = [type |-> "have", rev |-> Top(s).id, known |-> known]
                               /\ known => Top(s).id \in Rows(p[2])
    BY <1>7, <2>2
  <2> QED BY <1>3, <2>1, <2>3 DEF WireSound
<1> QED BY <1>1, <1>4, <1>5, <1>6, <1>8, SameLog, ReceiveStep

(***************************************************************************)
(* An offer is accepted: its parents have arrived.                         *)
(***************************************************************************)
LEMMA AcceptOfferInductive ==
  ASSUME IInv, NEW p \in Pair, AcceptOffer(p)
  PROVE  IInv'
<1> DEFINE s == sender[p]
           b == p[2]
           r == wire[p].rev
           n == IF r \in Rows(b) THEN SizeOf[r] ELSE ResumeOffset(b, r)
           T == IF r \in Rows(b) THEN DOMAIN staged[b] \ {r} ELSE DOMAIN staged[b] \cup {r}
           g == [x \in T |-> IF x = r THEN n ELSE staged[b][x]]
           m == Ack(r, n, FALSE)
<1>1. /\ wire[p].type = "offer" /\ active' = [active EXCEPT ![p] = @ \cup {r}]
      /\ UNCHANGED <<log, up, sender, faults>>
  BY DEF AcceptOffer
<1>2. wire' = [wire EXCEPT ![p] = m]
  BY DEF AcceptOffer, Reply
<1>3. s \in Sender /\ PhaseSound(p, s) /\ WireSound(p, s, wire[p]) /\ b \in Device
  BY PairEnds DEF IInv, Shapes, PairSound
<1>4. s.phase = "offer" /\ r = Top(s).id
  <2>1. wire[p].type # "none"
    BY <1>1
  <2> QED BY <1>1, <1>3, <2>1, WireFacts
<1>5. r \in Revision /\ ParentsOf[r] \subseteq Rows(b) /\ SizeOf[r] \in Nat
  BY <1>4, OfferedReady, ExchangeAssumption
<1>6. /\ DOMAIN staged[b] \subseteq Revision /\ staged[b] \in [DOMAIN staged[b] -> Nat]
      /\ \A x \in DOMAIN staged[b] : ParentsOf[x] \subseteq Rows(b) /\ staged[b][x] <= SizeOf[x]
      /\ \A x \in DOMAIN staged[b] : staged[b][x] \in Nat
  BY <1>3 DEF IInv, Shapes, StagedFinishable
<1>7. staged' = [staged EXCEPT ![b] = g]
  <2>1. CASE r \in Rows(b)
    <3>1. staged' = [staged EXCEPT ![b] = Without(@, r)]
      BY <2>1 DEF AcceptOffer
    <3>2. Without(staged[b], r) = g
      BY <2>1 DEF Without
    <3> QED BY <1>3, <3>1, <3>2
  <2>2. CASE r \notin Rows(b)
    BY <1>3, <2>2 DEF AcceptOffer
  <2> QED BY <2>1, <2>2
<1>8. n \in Nat /\ n <= SizeOf[r] /\ (r \in DOMAIN staged[b] /\ r \notin Rows(b) => n = staged[b][r])
  BY <1>5, <1>6 DEF ResumeOffset
<1>9. /\ DOMAIN g = T /\ T \subseteq Revision /\ \A x \in T : x = r \/ x \in DOMAIN staged[b]
      /\ \A x \in T : g[x] = IF x = r THEN n ELSE staged[b][x]
      /\ \A x \in DOMAIN staged[b] : x \in T \/ x \in Rows(b)
      /\ r \in Rows(b) \/ r \in T
      /\ r \in Rows(b) => r \notin T
  BY <1>5, <1>6
<1>10. g = [x \in T |-> g[x]]
  OBVIOUS
<1> HIDE DEF g, T, n
<1>11. g \in [DOMAIN g -> Nat]
  BY <1>6, <1>8, <1>9, <1>10
<1>12. /\ staged' = [x \in Device |-> staged'[x]] /\ staged'[b] = g
       /\ \A x \in Device : x # b => staged'[x] = staged[x]
  BY <1>3, <1>7 DEF IInv, Shapes
<1>13. Shapes'
  <2>1. wire' = [x \in Pair |-> wire'[x]]
    BY <1>2 DEF IInv, Shapes
  <2>2. active' \in [Pair -> SUBSET Revision]
    BY <1>1, <1>5 DEF IInv, Shapes
  <2>3. \A x \in Device : DOMAIN staged'[x] \subseteq Revision /\ staged'[x] \in [DOMAIN staged'[x] -> Nat]
    BY <1>9, <1>11, <1>12 DEF IInv, Shapes
  <2> QED BY <1>1, <1>12, <2>1, <2>2, <2>3 DEF IInv, Shapes
<1>14. Rows(b)' = Rows(b) /\ \A x \in Device : Rows(x)' = Rows(x)
  BY <1>1 DEF Rows
<1>15. Grown
  <2>1. ASSUME NEW x \in Device, NEW q \in DOMAIN staged[x]
        PROVE  q \in Rows(x)' \/ (q \in DOMAIN staged'[x] /\ staged'[x][q] >= staged[x][q])
    <3>1. staged[x][q] \in Nat
      BY DEF IInv, Shapes
    <3>2. CASE x # b
      BY <1>12, <3>1, <3>2
    <3>3. CASE x = b
      <4>1. q \in Rows(b) \/ q \in T
        BY <1>9, <3>3
      <4>2. q \in T => g[q] = staged[b][q]
        BY <1>8, <1>9, <3>3
      <4> QED BY <1>9, <1>12, <1>14, <3>1, <3>3, <4>1, <4>2
    <3> QED BY <3>2, <3>3
  <2> QED BY <1>1, <2>1, SameLog DEF Grown
<1>16. StagedFinishable'
  <2>1. ASSUME NEW x \in Device, NEW q \in DOMAIN staged'[x]
        PROVE  ParentsOf[q] \subseteq Rows(x) /\ staged'[x][q] <= SizeOf[q]
    <3>1. CASE x # b
      BY <1>12, <3>1 DEF IInv, StagedFinishable
    <3>2. CASE x = b
      BY <1>5, <1>6, <1>8, <1>9, <1>12, <3>2
    <3> QED BY <3>1, <3>2
  <2> QED BY <1>14, <2>1 DEF StagedFinishable
<1>17. WireSound(p, sender[p], wire[p])'
  <2>k. PICK k \in Nat : k = n
    BY <1>8
  <2>1. wire'[p] = Ack(Top(sender[p]).id, k, FALSE)
    BY <1>2, <1>4, <2>k DEF IInv, Shapes
  <2>2. ReceivedTo(p[2], Top(sender[p]).id, k)'
    <3>1. Top(sender'[p]).id = r /\ k >= k
      BY <1>1, <1>4
    <3>2. r \in Rows(b)' \/ (r \in DOMAIN staged'[b] /\ staged'[b][r] >= k)
      BY <1>9, <1>12, <1>14, <2>k, <3>1
    <3> QED BY <3>1, <3>2 DEF ReceivedTo, Top
  <2>3. k <= SizeOf[Top(sender[p]).id] /\ sender' = sender /\ sender[p].phase \in {"offer", "chunk"}
    BY <1>1, <1>4, <1>8, <2>k
  <2> QED BY <2>1, <2>2, <2>3, AckSound
<1> QED BY <1>1, <1>2, <1>13, <1>15, <1>16, <1>17, SameLog, ReceiveStep

(***************************************************************************)
(* A chunk is stored behind the ones before it.                            *)
(***************************************************************************)
LEMMA AcceptChunkInductive ==
  ASSUME IInv, NEW p \in Pair, AcceptChunk(p)
  PROVE  IInv'
<1> DEFINE s == sender[p]
           b == p[2]
           r == wire[p].rev
           o == wire[p].offset
           g == [staged[b] EXCEPT ![r] = o + 1]
<1>1. /\ wire[p].type = "chunk" /\ r \in DOMAIN staged[b] /\ staged[b][r] = o
      /\ UNCHANGED <<log, up, sender, active, faults>>
  BY DEF AcceptChunk, ChunkFits
<1>2. wire' = [wire EXCEPT ![p] = Ack(r, o + 1, FALSE)]
  BY DEF AcceptChunk, Reply
<1>3. s \in Sender /\ PhaseSound(p, s) /\ WireSound(p, s, wire[p]) /\ b \in Device
  BY PairEnds DEF IInv, Shapes, PairSound
<1>4. s.phase = "chunk" /\ r = Top(s).id /\ o = s.offset
  <2>1. wire[p].type # "none"
    BY <1>1
  <2> QED BY <1>1, <1>3, <2>1, WireFacts
<1>5. r \in Revision /\ SizeOf[r] \in Nat /\ o \in Nat /\ o < SizeOf[r]
  BY <1>3, <1>4, OfferedReady, ExchangeAssumption DEF PhaseSound, Sender
<1>6. /\ DOMAIN staged[b] \subseteq Revision /\ staged[b] \in [DOMAIN staged[b] -> Nat]
      /\ \A x \in DOMAIN staged[b] : ParentsOf[x] \subseteq Rows(b) /\ staged[b][x] <= SizeOf[x]
      /\ \A x \in DOMAIN staged[b] : staged[b][x] \in Nat
  BY <1>3 DEF IInv, Shapes, StagedFinishable
<1>7. staged' = [staged EXCEPT ![b] = g]
  BY <1>3 DEF AcceptChunk
<1>8. /\ DOMAIN g = DOMAIN staged[b] /\ g \in [DOMAIN staged[b] -> Nat] /\ g[r] = o + 1
      /\ \A x \in DOMAIN staged[b] : x # r => g[x] = staged[b][x]
  BY <1>1, <1>5, <1>6
<1> HIDE DEF g
<1>9. /\ staged' = [x \in Device |-> staged'[x]] /\ staged'[b] = g
      /\ \A x \in Device : x # b => staged'[x] = staged[x]
  BY <1>3, <1>7 DEF IInv, Shapes
<1>10. Shapes'
  <2>1. wire' = [x \in Pair |-> wire'[x]]
    BY <1>2 DEF IInv, Shapes
  <2>3. \A x \in Device : DOMAIN staged'[x] \subseteq Revision /\ staged'[x] \in [DOMAIN staged'[x] -> Nat]
    BY <1>6, <1>8, <1>9 DEF IInv, Shapes
  <2> QED BY <1>1, <1>9, <2>1, <2>3 DEF IInv, Shapes
<1>11. \A x \in Device : Rows(x)' = Rows(x)
  BY <1>1 DEF Rows
<1>12. Grown
  <2>1. ASSUME NEW x \in Device, NEW q \in DOMAIN staged[x]
        PROVE  q \in DOMAIN staged'[x] /\ staged'[x][q] >= staged[x][q]
    <3>1. staged[x][q] \in Nat
      BY DEF IInv, Shapes
    <3>2. CASE x # b
      BY <1>9, <3>1, <3>2
    <3>3. CASE x = b /\ q # r
      BY <1>8, <1>9, <3>1, <3>3
    <3>4. CASE x = b /\ q = r
      BY <1>1, <1>5, <1>8, <1>9, <3>4
    <3> QED BY <3>2, <3>3, <3>4
  <2> QED BY <1>1, <2>1, SameLog DEF Grown
<1>13. StagedFinishable'
  <2>1. ASSUME NEW x \in Device, NEW q \in DOMAIN staged'[x]
        PROVE  ParentsOf[q] \subseteq Rows(x) /\ staged'[x][q] <= SizeOf[q]
    <3>1. CASE x # b
      BY <1>9, <3>1 DEF IInv, StagedFinishable
    <3>2. CASE x = b /\ q # r
      BY <1>6, <1>8, <1>9, <3>2
    <3>3. CASE x = b /\ q = r
      BY <1>1, <1>5, <1>6, <1>8, <1>9, <3>3
    <3> QED BY <3>1, <3>2, <3>3
  <2> QED BY <1>11, <2>1 DEF StagedFinishable
<1>14. WireSound(p, sender[p], wire[p])'
  <2>k. PICK k \in Nat : k = o + 1
    BY <1>5
  <2>1. wire'[p] = Ack(Top(sender[p]).id, k, FALSE)
    BY <1>2, <1>4, <2>k DEF IInv, Shapes
  <2>2. ReceivedTo(p[2], Top(sender[p]).id, k)'
    <3>1. Top(sender'[p]).id = r /\ k >= k
      BY <1>1, <1>4
    <3>2. r \in DOMAIN staged'[b] /\ staged'[b][r] >= k
      BY <1>1, <1>8, <1>9, <2>k, <3>1
    <3> QED BY <3>1, <3>2 DEF ReceivedTo, Top
  <2>3. k <= SizeOf[Top(sender[p]).id] /\ sender' = sender /\ sender[p].phase \in {"offer", "chunk"}
    BY <1>1, <1>4, <1>5, <2>k
  <2> QED BY <2>1, <2>2, <2>3, AckSound
<1> QED BY <1>1, <1>2, <1>10, <1>12, <1>13, <1>14, SameLog, ReceiveStep

(***************************************************************************)
(* A finished revision enters the journal behind its parents, once, also   *)
(* when another connection delivered it first.                             *)
(***************************************************************************)
LEMMA AcceptFinishInductive ==
  ASSUME IInv, NEW p \in Pair, AcceptFinish(p)
  PROVE  IInv'
<1> DEFINE s == sender[p]
           b == p[2]
           r == wire[p].rev
           g == Without(staged[b], r)
<1>1. /\ wire[p].type = "finish" /\ CanFinish(b, r)
      /\ active' = [active EXCEPT ![p] = @ \ {r}] /\ UNCHANGED <<up, sender, faults>>
      /\ log' = [log EXCEPT ![b] = IF r \in Rows(b) THEN @ ELSE Append(@, r)]
  BY DEF AcceptFinish
<1>2. wire' = [wire EXCEPT ![p] = Ack(r, SizeOf[r], TRUE)]
  BY DEF AcceptFinish, Reply
<1>3. s \in Sender /\ PhaseSound(p, s) /\ WireSound(p, s, wire[p]) /\ b \in Device
  BY PairEnds DEF IInv, Shapes, PairSound
<1>4. s.phase = "finish" /\ r = Top(s).id
  <2>1. wire[p].type # "none"
    BY <1>1
  <2> QED BY <1>1, <1>3, <2>1, WireFacts
<1>5. r \in Revision /\ SizeOf[r] \in Nat
  BY <1>4, OfferedReady, ExchangeAssumption
<1>6. /\ log' \in [Device -> Seq(Revision)]
      /\ \A x \in Device : Rows(x) \subseteq Rows(x)'
      /\ r \in Rows(b)'
      /\ \A x \in Device : /\ Len(log[x]) <= Len(log'[x])
                           /\ \A i \in DOMAIN log[x] : log'[x][i] = log[x][i]
      /\ \A x \in Device : LogSound(x)'
  <2>1. CASE r \in Rows(b)
    <3>1. log' = log
      BY <1>1, <1>3, <2>1 DEF IInv, Shapes
    <3> QED BY <1>3, <2>1, <3>1, SameLog
  <2>2. CASE r \notin Rows(b)
    <3>1. ParentsOf[r] \subseteq Rows(b)
      BY <1>1, <2>2 DEF CanFinish
    <3>2. PICK q \in Revision : q = r
      BY <1>5
    <3>3. log' = [log EXCEPT ![b] = Append(@, q)] /\ q \notin Rows(b) /\ ParentsOf[q] \subseteq Rows(b)
      BY <1>1, <2>2, <3>1, <3>2
    <3>4. /\ log' \in [Device -> Seq(Revision)]
          /\ \A x \in Device : Rows(x)' = IF x = b THEN Rows(b) \cup {q} ELSE Rows(x)
          /\ \A x \in Device : /\ Len(log[x]) <= Len(log'[x])
                               /\ \A i \in DOMAIN log[x] : log'[x][i] = log[x][i]
          /\ \A x \in Device : LogSound(x)'
      BY <1>3, <3>3, AppendedSound
    <3>5. Rows(b)' = Rows(b) \cup {q} /\ \A x \in Device : Rows(x) \subseteq Rows(x)'
      BY <1>3, <3>4
    <3> QED BY <3>2, <3>4, <3>5
  <2> QED BY <2>1, <2>2
<1>7. staged' = [staged EXCEPT ![b] = g]
  BY <1>3 DEF AcceptFinish
<1>8. /\ DOMAIN g = DOMAIN staged[b] \ {r} /\ \A x \in DOMAIN g : g[x] = staged[b][x]
      /\ g = [x \in DOMAIN g |-> g[x]]
  BY DEF Without
<1> HIDE DEF g
<1>9. /\ staged' = [x \in Device |-> staged'[x]] /\ staged'[b] = g
      /\ \A x \in Device : x # b => staged'[x] = staged[x]
  BY <1>3, <1>7 DEF IInv, Shapes
<1>10. Shapes'
  <2>1. wire' = [x \in Pair |-> wire'[x]]
    BY <1>2 DEF IInv, Shapes
  <2>2. active' \in [Pair -> SUBSET Revision]
    BY <1>1 DEF IInv, Shapes
  <2>3. DOMAIN g \subseteq Revision /\ g \in [DOMAIN g -> Nat]
    BY <1>3, <1>8 DEF IInv, Shapes
  <2>4. \A x \in Device : DOMAIN staged'[x] \subseteq Revision /\ staged'[x] \in [DOMAIN staged'[x] -> Nat]
    BY <1>9, <2>3 DEF IInv, Shapes
  <2> QED BY <1>1, <1>6, <1>9, <2>1, <2>2, <2>4 DEF IInv, Shapes
<1>11. Grown
  <2>1. ASSUME NEW x \in Device, NEW q \in DOMAIN staged[x]
        PROVE  q \in Rows(x)' \/ (q \in DOMAIN staged'[x] /\ staged'[x][q] >= staged[x][q])
    <3>1. staged[x][q] \in Nat
      BY DEF IInv, Shapes
    <3>2. CASE x # b
      BY <1>9, <3>1, <3>2
    <3>3. CASE x = b /\ q # r
      BY <1>8, <1>9, <3>1, <3>3
    <3>4. CASE x = b /\ q = r
      BY <1>6, <3>4
    <3> QED BY <3>2, <3>3, <3>4
  <2> QED BY <1>6, <2>1 DEF Grown
<1>12. StagedFinishable'
  <2>1. ASSUME NEW x \in Device, NEW q \in DOMAIN staged'[x]
        PROVE  ParentsOf[q] \subseteq Rows(x) /\ staged'[x][q] <= SizeOf[q]
    <3>1. q \in DOMAIN staged[x] /\ staged'[x][q] = staged[x][q]
      BY <1>8, <1>9
    <3> QED BY <3>1 DEF IInv, StagedFinishable
  <2> QED BY <1>6, <2>1 DEF StagedFinishable
<1>13. WireSound(p, sender[p], wire[p])'
  <2>k. PICK k \in Nat : k = SizeOf[r]
    BY <1>5
  <2>1. wire'[p] = Ack(Top(sender[p]).id, k, TRUE)
    BY <1>2, <1>4, <2>k DEF IInv, Shapes
  <2>2. Top(sender[p]).id \in Rows(p[2])'
    BY <1>4, <1>6
  <2>3. sender' = sender /\ sender[p].phase = "finish"
    BY <1>1, <1>4
  <2> QED BY <2>1, <2>2, <2>3, AckSound
<1> QED BY <1>1, <1>2, <1>6, <1>10, <1>11, <1>12, <1>13, ReceiveStep

---------------------------------------------------------------------------
(***************************************************************************)
(* The invariant holds at the start.                                       *)
(***************************************************************************)
LEMMA InitInductive == Init => IInv
<1> SUFFICES ASSUME Init PROVE IInv
  OBVIOUS
<1> DEFINE s == FreshSender
<1>1. /\ s \in Sender /\ s.phase = "idle" /\ s.cursor = 0 /\ s.at = 0 /\ s.through = 0
      /\ s.heads = {} /\ s.stack = <<>>
  BY DEF FreshSender, Sender, Entry
<1> HIDE DEF s
<1>2. /\ \A d \in Device : log[d] = <<>> /\ staged[d] = [r \in {} |-> 0]
      /\ \A p \in Pair : sender[p] = s /\ wire[p] = Silent
  BY DEF Init, s
<1>3. Shapes
  <2>1. log \in [Device -> Seq(Revision)] /\ staged = [d \in Device |-> staged[d]]
    BY DEF Init
  <2>2. \A d \in Device : DOMAIN staged[d] \subseteq Revision /\ staged[d] \in [DOMAIN staged[d] -> Nat]
    BY <1>2
  <2>3. up \subseteq Link /\ active \in [Pair -> SUBSET Revision] /\ faults \in Nat
    BY DEF Init
  <2>4. sender \in [Pair -> Sender] /\ wire = [p \in Pair |-> wire[p]]
    BY <1>1 DEF Init, s
  <2> QED BY <2>1, <2>2, <2>3, <2>4 DEF Shapes
<1>4. \A d \in Device : LogSound(d)
  BY <1>2 DEF LogSound
<1>5. StagedFinishable
  BY <1>2 DEF StagedFinishable
<1>6. ASSUME NEW p \in Pair PROVE PairSound(p, s, Silent)
  <2>1. log[p[1]] = <<>>
    BY <1>2, PairEnds
  <2>2. CycleSound(p, s)
    BY <1>1, <2>1 DEF CycleSound, InventoryHeads
  <2>3. StackSound(p, s) /\ PhaseSound(p, s)
    BY <1>1 DEF StackSound, PhaseSound
  <2>4. WireSound(p, s, Silent)
    BY <1>1, RequestFacts DEF WireSound
  <2> QED BY <2>2, <2>3, <2>4 DEF PairSound
<1> QED BY <1>2, <1>3, <1>4, <1>5, <1>6 DEF IInv

(***************************************************************************)
(* Every step of either end, of the network and of the device keeps it.    *)
(***************************************************************************)
LEMMA NextInductive == IInv /\ [Next]_vars => IInv'
<1> SUFFICES ASSUME IInv, [Next]_vars PROVE IInv'
  OBVIOUS
<1>1. CASE UNCHANGED vars
  <2>1. UNCHANGED <<log, staged, up, sender, active, wire, faults>>
    BY <1>1 DEF vars
  <2>2. Shapes' /\ StagedFinishable'
    BY <2>1 DEF IInv, Shapes, StagedFinishable, Rows
  <2>3. Grown
    <3>1. \A x \in Device : \A q \in DOMAIN staged[x] : staged'[x][q] >= staged[x][q]
      BY <2>1 DEF IInv, Shapes
    <3> QED BY <2>1, <3>1, SameLog DEF Grown
  <2>4. \A p \in Pair : SenderSound(p, sender'[p]) /\ WireSound(p, sender'[p], wire'[p])
    BY <2>1 DEF IInv, PairSound, SenderSound, Shapes
  <2> QED BY <2>1, <2>2, <2>3, <2>4, SameLog, GrownInductive
<1>2. ASSUME NEW r \in Revision, Capture(r) PROVE IInv'
  BY <1>2, CaptureInductive
<1>3. ASSUME NEW c \in Link, Connect(c) PROVE IInv'
  BY <1>3, ConnectionSteps
<1>4. ASSUME NEW c \in Link, Break(c) PROVE IInv'
  <2>1. Drop(c) /\ faults' \in Nat
    BY <1>4 DEF Break, IInv, Shapes
  <2> QED BY <2>1, ConnectionSteps
<1>5. ASSUME NEW p \in Pair, Start(p) PROVE IInv'
  BY <1>5, SenderSteps
<1>6. ASSUME NEW p \in Pair, Handle(p) PROVE IInv'
  <2>1. CASE AnswerHave(p) \/ Acknowledge(p) \/ AcknowledgeFinish(p)
    BY <2>1, SenderSteps
  <2>2. CASE AcceptHave(p)
    BY <2>2, AcceptHaveInductive
  <2>3. CASE AcceptOffer(p)
    BY <2>3, AcceptOfferInductive
  <2>4. CASE AcceptChunk(p)
    BY <2>4, AcceptChunkInductive
  <2>5. CASE AcceptFinish(p)
    BY <2>5, AcceptFinishInductive
  <2>6. CASE Refuse(p)
    <3>1. Drop({p[1], p[2]}) /\ faults' \in Nat
      BY <2>6 DEF Refuse, IInv, Shapes
    <3> QED BY <3>1, ConnectionSteps
  <2> QED BY <1>6, <2>1, <2>2, <2>3, <2>4, <2>5, <2>6 DEF Handle
<1> QED BY <1>1, <1>2, <1>3, <1>4, <1>5, <1>6 DEF Next

(***************************************************************************)
(* The inductive invariant of the exchange: what the two ends of a         *)
(* connection believe about each other is true in every reachable state.   *)
(***************************************************************************)
THEOREM Inductive == Spec => []IInv
<1>1. Init => IInv
  BY InitInductive
<1>2. IInv /\ [Next]_vars => IInv'
  BY NextInductive
<1> QED BY <1>1, <1>2, PTL DEF Spec

(***************************************************************************)
(* The variables hold what the code declares; a wire carries only messages *)
(* of the protocol.                                                        *)
(***************************************************************************)
THEOREM TypeCorrect == Spec => []TypeOK
<1>1. ASSUME IInv, NEW p \in Pair PROVE wire[p] \in Message
  <2> DEFINE s == sender[p]
             m == wire[p]
             r == Top(s).id
  <2>1. s \in Sender /\ PhaseSound(p, s) /\ WireSound(p, s, m)
    BY <1>1 DEF IInv, Shapes, PairSound
  <2>2. s.phase # "idle" => r \in Revision
    BY <2>1, TopFacts DEF PhaseSound
  <2>3. s.offset \in Nat
    BY <2>1 DEF Sender
  <2> HIDE DEF m, r
  <2>4. CASE m = Request(s)
    <3>1. CASE s.phase = "idle"
      BY <2>1, <2>4, <3>1, RequestFacts DEF Message, m
    <3>2. CASE s.phase = "probe"
      BY <2>1, <2>2, <2>4, <3>2, RequestFacts DEF Message, m, r
    <3>3. CASE s.phase = "offer"
      BY <2>1, <2>2, <2>4, <3>3, RequestFacts DEF Message, m, r
    <3>4. CASE s.phase = "chunk"
      BY <2>1, <2>2, <2>3, <2>4, <3>4, RequestFacts DEF Message, m, r
    <3>5. CASE s.phase = "finish"
      BY <2>1, <2>2, <2>4, <3>5, RequestFacts DEF Message, m, r
    <3> QED BY <2>1, <3>1, <3>2, <3>3, <3>4, <3>5, RequestFacts DEF m
  <2>5. CASE s.phase = "probe" /\ \E known \in BOOLEAN : m = [type |-> "have", rev |-> r, known |-> known]
    BY <2>2, <2>5 DEF Message, m
  <2>6. CASE s.phase # "idle" /\ \E n \in Nat, e \in BOOLEAN : m = Ack(r, n, e)
    BY <2>2, <2>6 DEF Message, Ack, m
  <2> QED BY <2>1, <2>4, <2>5, <2>6 DEF WireSound, r
<1>2. ASSUME IInv PROVE wire \in [Pair -> Message]
  <2>1. wire = [p \in Pair |-> wire[p]] /\ \A p \in Pair : wire[p] \in Message
    BY <1>1, <1>2 DEF IInv, Shapes
  <2> QED BY <2>1
<1>3. IInv => TypeOK
  BY <1>2 DEF IInv, Shapes, TypeOK
<1> QED BY <1>3, Inductive, PTL

(***************************************************************************)
(* completed_through() never stands beyond what the peer has, whatever the *)
(* journals of both grew by during the cycles and however often the        *)
(* connection failed: what a later cycle skips is at the peer.             *)
(***************************************************************************)
THEOREM CursorsSound == Spec => []CursorSound
<1>1. IInv => CursorSound
  BY DEF IInv, PairSound, CycleSound, CursorSound
<1> QED BY <1>1, Inductive, PTL

(***************************************************************************)
(* No row of the staging table is stuck: the parents of what begin_receive *)
(* admits are in the journal, and no more is stored than was offered.      *)
(***************************************************************************)
THEOREM StagedCanFinish == Spec => []StagedFinishable
<1>1. IInv => StagedFinishable
  BY DEF IInv
<1> QED BY <1>1, Inductive, PTL

(***************************************************************************)
(* What a receiver acknowledged stays received for as long as the sender   *)
(* counts on it, although all connections of a device share its tables.    *)
(***************************************************************************)
THEOREM AcknowledgedStays == Spec => []AcknowledgedIsDurable
<1>1. IInv => AcknowledgedIsDurable
  <2> SUFFICES ASSUME IInv, NEW p \in Pair, sender[p].phase \in {"chunk", "finish"}
               PROVE  ReceivedTo(p[2], Top(sender[p]).id, sender[p].offset)
    BY DEF AcknowledgedIsDurable, ReceivedTo
  <2> QED BY DEF IInv, PairSound, PhaseSound
<1> QED BY <1>1, Inductive, PTL

(***************************************************************************)
(* The exchange implements Dissemination: with the journals as the         *)
(* abstract ones, a step adds a revision that its device wrote, or that    *)
(* another device has, behind its parents, or changes no journal.          *)
(***************************************************************************)
THEOREM RefinesDissemination == Spec => ImplementsDissemination
<1>1. Init => AbstractDissemination!Init
  BY DEF Init, AbstractDissemination!Init
<1>2. \A d \in Device : AbstractDissemination!Known(d) = Rows(d)
  BY DEF AbstractDissemination!Known, Rows
<1>3. IInv /\ [Next]_vars => [AbstractDissemination!Next]_log
  <2> SUFFICES ASSUME IInv, [Next]_vars PROVE log' = log \/ AbstractDissemination!Next
    OBVIOUS
  <2>1. ASSUME NEW r \in Revision, Capture(r) PROVE AbstractDissemination!Next
    <3>1. AuthorOf[r] \in Device
      BY ExchangeAssumption
    <3>2. AbstractDissemination!Learn(AuthorOf[r], r)
      BY <1>2, <2>1, <3>1 DEF Capture, AbstractDissemination!Learn
    <3> QED BY <3>1, <3>2 DEF AbstractDissemination!Next
  <2>2. ASSUME NEW p \in Pair, AcceptFinish(p) PROVE log' = log \/ AbstractDissemination!Next
    <3> DEFINE r == wire[p].rev
               b == p[2]
    <3>1. /\ wire[p].type = "finish" /\ CanFinish(b, r) /\ b \in Device /\ p[1] \in Device \ {b}
          /\ log' = [log EXCEPT ![b] = IF r \in Rows(b) THEN @ ELSE Append(@, r)]
      BY <2>2, PairEnds DEF AcceptFinish
    <3>2. CASE r \in Rows(b)
      BY <3>1, <3>2 DEF IInv, Shapes
    <3>3. CASE r \notin Rows(b)
      <4>1. sender[p].phase = "finish" /\ r = Top(sender[p]).id
        <5>1. sender[p] \in Sender /\ PhaseSound(p, sender[p]) /\ WireSound(p, sender[p], wire[p])
          BY DEF IInv, Shapes, PairSound
        <5>2. wire[p].type # "none"
          BY <3>1
        <5> QED BY <3>1, <5>1, <5>2, WireFacts
      <4>2. r \in Revision /\ r \in Rows(p[1])
        BY <4>1, OfferedReady
      <4>3. ParentsOf[r] \subseteq Rows(b) /\ log' = [log EXCEPT ![b] = Append(@, r)]
        BY <3>1, <3>3 DEF CanFinish
      <4>4. AbstractDissemination!Learn(b, r)
        BY <1>2, <3>1, <3>3, <4>2, <4>3 DEF AbstractDissemination!Learn
      <4> QED BY <3>1, <4>2, <4>4 DEF AbstractDissemination!Next
    <3> QED BY <3>2, <3>3
  <2>3. ASSUME NEW c, Connect(c) \/ Break(c) PROVE log' = log
    BY <2>3 DEF Connect, Break, Drop
  <2>4. ASSUME NEW p \in Pair,
               \/ Start(p) \/ AnswerHave(p) \/ Acknowledge(p) \/ AcknowledgeFinish(p)
               \/ AcceptHave(p) \/ AcceptOffer(p) \/ AcceptChunk(p) \/ Refuse(p)
        PROVE  log' = log
    BY <2>4 DEF Start, AnswerHave, Acknowledge, AcknowledgeFinish, AcceptHave, AcceptOffer,
                AcceptChunk, Refuse, Drop
  <2> QED BY <2>1, <2>2, <2>3, <2>4 DEF Next, Handle, vars
<1> QED BY <1>1, <1>3, Inductive, PTL DEF Spec, ImplementsDissemination, AbstractDissemination!Spec

============================================================================
