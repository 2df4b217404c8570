-------------------------- MODULE MembershipProofs --------------------------
(***************************************************************************)
(* The invariants of Membership, for every group, lifetime, tolerance and  *)
(* number of troubles.                                                     *)
(***************************************************************************)
EXTENDS Membership, TLAPS

Moment == [sent : Int, steady : Int, wall : Int]
Note == [kind : {"ask", "state", "denied"}, revision : Nat, current : BOOLEAN]

\* The types, in the form in which the proofs need them.
Shapes ==
  /\ epochs \in Seq(SUBSET Member) /\ Len(epochs) > 0
  /\ left \in [Member -> Int]
  /\ stored \in [Device -> Nat]
  /\ \A m \in Device : stored[m] <= Len(epochs)
  /\ lease \in [Device -> [active : BOOLEAN, start : Moment, last : Moment]]
  /\ request \in [Device -> Moment]
  /\ wire \in [Device -> SUBSET Note]
  /\ shown \in [Device -> BOOLEAN]
  /\ paused \in [Device -> BOOLEAN]
  /\ asleep \in [Device -> BOOLEAN]
  /\ now \in Nat
  /\ slept \in [Device -> Int]
  /\ shift \in [Device -> Int]
  /\ troubles \in Nat

\* The members that x still counts as one at moment t were not expelled
\* before t.
ExpelledAfter(S, t) == \A x \in S : left[x] = -1 \/ left[x] >= t

\* A member of the current list has not been expelled, and who was expelled
\* was in a list before.
PresentNotLeft ==
  /\ \A x \in Members : left[x] = -1
  /\ \A x \in Member : left[x] # -1 => \E i \in DOMAIN epochs : x \in epochs[i]

\* What is waited for belongs to the pending validation, which was sent
\* before; an answer to it carries a list no older than the question.
AnswerRecent(m, q) ==
  /\ q.kind = "state" => q.revision \in 1..Len(epochs)
  /\ q.current => Pending(m)
  /\ q.current /\ q.kind = "state" =>
       ExpelledAfter(epochs[q.revision], request[m].sent)

AnswersRecent ==
  \A m \in Device :
    /\ Pending(m) => request[m].sent \in 0..now
    /\ \A q \in wire[m] : AnswerRecent(m, q)

\* Only one message is waited for.
OneWaited == \A m \in Device : \A q, r \in wire[m] : q.current /\ r.current => q = r

\* A lease is no older than the list it is used with.
LeaseRecent ==
  \A m \in Device :
    lease[m].active =>
      /\ stored[m] > 0
      /\ lease[m].start.sent \in 0..now
      /\ ExpelledAfter(epochs[stored[m]], lease[m].start.sent)

SuspendedIdle == \A m \in Device : paused[m] => ~lease[m].active /\ ~Pending(m)

IInv ==
  Shapes /\ PresentNotLeft /\ AnswersRecent /\ OneWaited /\ LeaseRecent /\ SuspendedIdle

(***************************************************************************)
(* What the clocks of a device show.                                       *)
(***************************************************************************)
LEMMA ClockTypes ==
  ASSUME Shapes, NEW m \in Device
  PROVE  now \in Nat /\ now \in Int /\ steady(m) \in Int /\ wall(m) \in Int
<1>1. now \in Nat /\ slept[m] \in Int /\ shift[m] \in Int
  BY DEF Shapes
<1> QED BY <1>1 DEF steady, wall

(***************************************************************************)
(* No step of the lease's bookkeeping changes the moment it began.         *)
(***************************************************************************)
LEMMA CheckedKeepsStart ==
  ASSUME NEW m \in Device, Shapes,
         NEW l \in [active : BOOLEAN, start : Moment, last : Moment]
  PROVE  /\ Checked(l, m) \in [active : BOOLEAN, start : Moment, last : Moment]
         /\ Checked(l, m).active => l.active /\ Checked(l, m).start = l.start
<1>1. steady(m) \in Int /\ wall(m) \in Int
  BY ClockTypes
<1> DEFINE t == [sent |-> -1, steady |-> steady(m), wall |-> wall(m)]
<1>2. t \in Moment /\ NoStamp \in Moment
  BY <1>1 DEF NoStamp, Moment
<1>3. Checked(l, m) = IF l.active /\ Fresh(l, steady(m), wall(m)) THEN [l EXCEPT !.last = t] ELSE NoLease
  BY DEF Checked
<1> HIDE DEF t
<1>4. CASE l.active /\ Fresh(l, steady(m), wall(m))
  BY <1>2, <1>3, <1>4
<1>5. CASE ~(l.active /\ Fresh(l, steady(m), wall(m)))
  BY <1>2, <1>3, <1>5 DEF NoLease
<1> QED BY <1>4, <1>5

(***************************************************************************)
(* Initially nobody has a lease.                                           *)
(***************************************************************************)
LEMMA InitInductive == Init => IInv
<1> SUFFICES ASSUME Init PROVE IInv
  OBVIOUS
<1> USE DEF Init, NoLease, NoStamp, Moment
<1>1. Shapes
  BY MembershipAssumption DEF Shapes
<1>2. PresentNotLeft
  BY MembershipAssumption DEF PresentNotLeft, Members
<1>3. AnswersRecent /\ OneWaited /\ LeaseRecent /\ SuspendedIdle
  BY DEF AnswersRecent, OneWaited, LeaseRecent, SuspendedIdle, Pending
<1> QED BY <1>1, <1>2, <1>3 DEF IInv

(***************************************************************************)
(* What is no longer waited for is harmless.                               *)
(***************************************************************************)
LEMMA StaleRecent ==
  ASSUME IInv, NEW m \in Device
  PROVE  Stale(m) \in SUBSET Note /\ \A q \in Stale(m) : ~q.current /\ AnswerRecent(m, q)
<1> SUFFICES ASSUME NEW q \in wire[m], NEW r, r = [q EXCEPT !.current = FALSE]
             PROVE  r \in Note /\ ~r.current /\ AnswerRecent(m, r)
  BY DEF Stale
<1>1. q \in Note /\ AnswerRecent(m, q)
  BY DEF IInv, Shapes, AnswersRecent
<1>2. r \in Note /\ r.kind = q.kind /\ r.revision = q.revision /\ ~r.current
  BY <1>1 DEF Note
<1> QED BY <1>1, <1>2 DEF AnswerRecent

(***************************************************************************)
(* Giving up the pending validation keeps the other answers as they are.   *)
(***************************************************************************)
LEMMA GivenUpRecent ==
  ASSUME IInv, NEW m \in Device,
         request' = [request EXCEPT ![m] = NoStamp],
         wire' = [wire EXCEPT ![m] = Stale(m)],
         UNCHANGED <<epochs, left, clocks>>
  PROVE  AnswersRecent' /\ OneWaited'
<1> USE DEF IInv
<1>1. ASSUME NEW x \in Device, NEW q \in wire'[x]
      PROVE  AnswerRecent(x, q)'
  <2>1. CASE x = m
    BY <1>1, <2>1, StaleRecent DEF AnswerRecent, Shapes
  <2>2. CASE x # m
    <3>1. q \in wire[x] /\ request'[x] = request[x]
      BY <1>1, <2>2 DEF Shapes
    <3> QED BY <3>1, <2>2 DEF AnswersRecent, AnswerRecent, Pending, ExpelledAfter
  <2> QED BY <2>1, <2>2
<1>2. \A x \in Device : Pending(x)' => request'[x].sent \in 0..now'
  BY DEF AnswersRecent, Pending, Shapes, clocks, NoStamp
<1>3. OneWaited'
  BY StaleRecent DEF OneWaited, Shapes
<1> QED BY <1>1, <1>2, <1>3 DEF AnswersRecent

(***************************************************************************)
(* A step that revokes the lease of m and gives up its validation          *)
(* (suspension, restart, a lapsed lease) keeps the invariant.              *)
(***************************************************************************)
LEMMA RevokedInductive ==
  ASSUME IInv, NEW m \in Device,
         lease' = [lease EXCEPT ![m] = NoLease],
         request' = [request EXCEPT ![m] = NoStamp],
         wire' = [wire EXCEPT ![m] = Stale(m)],
         shown' \in [Device -> BOOLEAN], paused' \in [Device -> BOOLEAN],
         \A x \in Device \ {m} : paused'[x] => paused[x],
         troubles' \in Nat,
         UNCHANGED <<epochs, left, stored, clocks>>
  PROVE  IInv'
<1> USE DEF IInv
<1>1. NoStamp \in Moment /\ NoLease \in [active : BOOLEAN, start : Moment, last : Moment]
  BY DEF NoStamp, NoLease, Moment
<1>2. Stale(m) \in SUBSET Note
  BY StaleRecent
<1>3. Shapes'
  BY <1>1, <1>2 DEF Shapes, clocks
<1>4. PresentNotLeft'
  BY DEF PresentNotLeft, Members
<1>5. AnswersRecent' /\ OneWaited'
  BY GivenUpRecent
<1>6. LeaseRecent'
  BY DEF clocks, LeaseRecent, NoLease, Shapes, ExpelledAfter
<1>7. SuspendedIdle'
  BY DEF SuspendedIdle, Pending, NoLease, Shapes
<1> QED BY <1>3, <1>4, <1>5, <1>6, <1>7

(***************************************************************************)
(* refresh asks with the clocks as they are; nothing older is waited for.  *)
(***************************************************************************)
LEMMA AskInductive ==
  ASSUME IInv, NEW m \in Device, Ask(m),
         paused' \in [Device -> BOOLEAN], ~paused'[m],
         \A x \in Device \ {m} : paused'[x] => paused[x],
         UNCHANGED <<epochs, left, stored, clocks, troubles>>
  PROVE  IInv'
<1> USE DEF IInv
<1> DEFINE ask == [kind |-> "ask", revision |-> 0, current |-> TRUE]
           new == Checked(lease[m], m)
<1>1. /\ ~Pending(m)
      /\ lease' = [lease EXCEPT ![m] = new]
      /\ shown' = [shown EXCEPT ![m] = @ /\ Valid(m)]
      /\ request' = [request EXCEPT ![m] = Stamp(m)]
      /\ wire' = [wire EXCEPT ![m] = @ \cup {ask}]
  BY DEF Ask
<1>2. /\ new \in [active : BOOLEAN, start : Moment, last : Moment]
      /\ new.active => lease[m].active /\ new.start = lease[m].start
  BY CheckedKeepsStart DEF Shapes
<1>3. Stamp(m) \in Moment /\ Stamp(m) # NoStamp /\ Stamp(m).sent = now
  BY ClockTypes DEF Stamp, Moment, NoStamp
<1>4. ask \in Note /\ ask.kind = "ask" /\ ask.current
  BY DEF Note
<1> HIDE DEF ask, new
<1>5. Shapes'
  BY <1>1, <1>2, <1>3, <1>4 DEF Shapes, clocks
<1>6. PresentNotLeft'
  BY DEF PresentNotLeft, Members
<1>7. AnswersRecent'
  <2>1. ASSUME NEW x \in Device, NEW q \in wire'[x]
        PROVE  AnswerRecent(x, q)'
    <3>1. CASE x = m
      <4>1. request'[m] = Stamp(m) /\ Pending(m)'
        BY <1>1, <1>3 DEF Shapes, Pending
      <4>2. q = ask \/ (q \in wire[m] /\ ~q.current /\ AnswerRecent(m, q))
        BY <1>1, <2>1, <3>1 DEF Shapes, AnswersRecent, AnswerRecent
      <4> QED BY <1>4, <3>1, <4>1, <4>2 DEF AnswerRecent
    <3>2. CASE x # m
      <4>1. q \in wire[x] /\ request'[x] = request[x]
        BY <1>1, <2>1, <3>2 DEF Shapes
      <4> QED BY <4>1 DEF AnswersRecent, AnswerRecent, Pending, ExpelledAfter
    <3> QED BY <3>1, <3>2
  <2>2. \A x \in Device : Pending(x)' => request'[x].sent \in 0..now'
    BY <1>1, <1>3 DEF AnswersRecent, Pending, Shapes, clocks
  <2> QED BY <2>1, <2>2 DEF AnswersRecent
<1>8. LeaseRecent'
  BY <1>1, <1>2 DEF clocks, LeaseRecent, Shapes, ExpelledAfter
<1>9. SuspendedIdle'
  <2> SUFFICES ASSUME NEW x \in Device, paused'[x]
               PROVE  ~lease'[x].active /\ ~Pending(x)'
    BY DEF SuspendedIdle
  <2>1. x # m /\ paused[x]
    OBVIOUS
  <2> QED BY <1>1, <2>1 DEF SuspendedIdle, Pending, Shapes
<1>10. OneWaited'
  <2> SUFFICES ASSUME NEW x \in Device, NEW q \in wire'[x], NEW r \in wire'[x],
                      q.current, r.current
               PROVE  q = r
    BY DEF OneWaited
  <2>1. CASE x = m
    <3>1. \A p \in wire[m] : ~p.current
      BY <1>1 DEF AnswersRecent, AnswerRecent
    <3> QED BY <1>1, <2>1, <3>1 DEF Shapes
  <2>2. CASE x # m
    BY <1>1, <2>2 DEF Shapes, OneWaited
  <2> QED BY <2>1, <2>2
<1> QED BY <1>5, <1>6, <1>7, <1>8, <1>9, <1>10

(***************************************************************************)
(* A step that only notes the clocks in the lease, or ends a validation    *)
(* without an answer, keeps the invariant.                                 *)
(***************************************************************************)
LEMMA NotedInductive ==
  ASSUME IInv, NEW m \in Device, ~paused[m],
         lease' = [lease EXCEPT ![m] = Checked(@, m)],
         \/ UNCHANGED <<request, wire>>
         \/ /\ request' = [request EXCEPT ![m] = NoStamp]
            /\ wire' = [wire EXCEPT ![m] = Stale(m)],
         shown' \in [Device -> BOOLEAN], troubles' \in Nat,
         UNCHANGED <<epochs, left, stored, paused, clocks>>
  PROVE  IInv'
<1> USE DEF IInv
<1> DEFINE new == Checked(lease[m], m)
<1>1. lease' = [lease EXCEPT ![m] = new]
  OBVIOUS
<1>2. /\ new \in [active : BOOLEAN, start : Moment, last : Moment]
      /\ new.active => lease[m].active /\ new.start = lease[m].start
  BY CheckedKeepsStart DEF Shapes
<1>3. NoStamp \in Moment
  BY DEF NoStamp, Moment
<1>4. Stale(m) \in SUBSET Note /\ \A q \in Stale(m) : ~q.current /\ AnswerRecent(m, q)
  BY StaleRecent
<1> HIDE DEF new
<1>5. Shapes'
  <2>1. request' \in [Device -> Moment] /\ wire' \in [Device -> SUBSET Note]
    BY <1>3, <1>4 DEF Shapes
  <2>2. lease' \in [Device -> [active : BOOLEAN, start : Moment, last : Moment]]
    BY <1>1, <1>2 DEF Shapes
  <2> QED BY <2>1, <2>2 DEF Shapes, clocks
<1>6. PresentNotLeft'
  BY DEF PresentNotLeft, Members
<1>7. AnswersRecent' /\ OneWaited'
  <2>1. CASE UNCHANGED <<request, wire>>
    BY <2>1 DEF OneWaited, AnswersRecent, AnswerRecent, Pending, ExpelledAfter, clocks
  <2>2. CASE /\ request' = [request EXCEPT ![m] = NoStamp]
             /\ wire' = [wire EXCEPT ![m] = Stale(m)]
    BY <2>2, GivenUpRecent
  <2> QED BY <2>1, <2>2
<1>8. LeaseRecent'
  BY <1>1, <1>2 DEF clocks, LeaseRecent, Shapes, ExpelledAfter
<1>9. SuspendedIdle'
  <2> SUFFICES ASSUME NEW x \in Device, paused'[x]
               PROVE  ~lease'[x].active /\ ~Pending(x)'
    BY DEF SuspendedIdle
  <2>1. x # m /\ paused[x]
    OBVIOUS
  <2> QED BY <1>1, <2>1 DEF SuspendedIdle, Pending, Shapes
<1> QED BY <1>5, <1>6, <1>7, <1>8, <1>9

(***************************************************************************)
(* A validation starts a lease from the moment of its request, with a list *)
(* that was current after that moment.                                     *)
(***************************************************************************)
LEMMA ReceiveInductive ==
  ASSUME IInv, NEW m \in Device, Receive(m)
  PROVE  IInv'
<1> USE DEF IInv
<1> PICK q \in wire[m] : Receive(m)!(q)
  BY DEF Receive
<1>1. q \in Note /\ AnswerRecent(m, q)
  BY DEF Shapes, AnswersRecent
<1>2. wire' = [wire EXCEPT ![m] = @ \ {q}] /\ UNCHANGED <<epochs, left, paused, clocks, troubles>>
  OBVIOUS
<1>3. CASE ~q.current
  <2>1. UNCHANGED <<stored, lease, shown, request>>
    BY <1>3
  <2>2. Shapes'
    BY <1>2, <2>1 DEF Shapes, clocks
  <2>3. \A x \in Device : wire'[x] \subseteq wire[x]
    BY <1>2 DEF Shapes
  <2> QED BY <1>2, <2>1, <2>2, <2>3
          DEF PresentNotLeft, Members, AnswersRecent, AnswerRecent, OneWaited, LeaseRecent, SuspendedIdle,
              Pending, ExpelledAfter, clocks
<1>4. CASE q.current
  <2> DEFINE accepted == q.kind = "state" /\ m \in epochs[q.revision] /\ q.revision >= stored[m]
             new == IF accepted THEN Checked(Renewed(m), m) ELSE NoLease
  <2>1. /\ stored' = [stored EXCEPT ![m] = IF accepted THEN q.revision ELSE @]
        /\ lease' = [lease EXCEPT ![m] = new]
        /\ shown' = [shown EXCEPT ![m] = new.active]
        /\ request' = [request EXCEPT ![m] = NoStamp]
    BY <1>4
  <2>2. Pending(m)
    BY <1>1, <1>4 DEF AnswerRecent
  <2>3. ~paused[m]
    BY <2>2 DEF SuspendedIdle
  <2>4. /\ NoStamp \in Moment
        /\ NoLease \in [active : BOOLEAN, start : Moment, last : Moment] /\ ~NoLease.active
    BY DEF NoStamp, NoLease, Moment
  <2>5. /\ new \in [active : BOOLEAN, start : Moment, last : Moment]
        /\ new.active => accepted /\ new.start = request[m]
    <3>1. /\ Renewed(m) \in [active : BOOLEAN, start : Moment, last : Moment]
          /\ Renewed(m).start = request[m]
      BY DEF Shapes, Renewed
    <3>2. /\ Checked(Renewed(m), m) \in [active : BOOLEAN, start : Moment, last : Moment]
          /\ Checked(Renewed(m), m).active => Checked(Renewed(m), m).start = request[m]
      BY <3>1, CheckedKeepsStart
    <3> QED BY <2>4, <3>2
  <2>6. accepted => q.revision \in 1..Len(epochs)
                    /\ ExpelledAfter(epochs[q.revision], request[m].sent)
    BY <1>1, <1>4 DEF AnswerRecent
  <2> HIDE DEF new
  <2>7. Shapes'
    <3>1. stored' \in [Device -> Nat] /\ \A x \in Device : stored'[x] <= Len(epochs)
      BY <2>1, <2>6 DEF Shapes
    <3>2. lease' \in [Device -> [active : BOOLEAN, start : Moment, last : Moment]]
      BY <2>1, <2>5 DEF Shapes
    <3>3. shown' \in [Device -> BOOLEAN]
      BY <2>1, <2>5 DEF Shapes
    <3>4. request' \in [Device -> Moment] /\ wire' \in [Device -> SUBSET Note]
      BY <1>2, <2>1, <2>4 DEF Shapes
    <3> QED BY <1>2, <3>1, <3>2, <3>3, <3>4 DEF Shapes, clocks
  <2>8. PresentNotLeft'
    BY <1>2 DEF PresentNotLeft, Members
  <2>9. AnswersRecent'
    <3>1. ASSUME NEW x \in Device, NEW a \in wire'[x]
          PROVE  AnswerRecent(x, a)'
      <4>1. CASE x = m
        <5>1. a \in wire[m] /\ a # q
          BY <1>2, <3>1, <4>1 DEF Shapes
        <5>2. ~a.current
          BY <5>1, <1>4 DEF OneWaited
        <5> QED BY <1>2, <4>1, <5>1, <5>2 DEF AnswersRecent, AnswerRecent
      <4>2. CASE x # m
        <5>1. a \in wire[x] /\ request'[x] = request[x]
          BY <1>2, <2>1, <3>1, <4>2 DEF Shapes
        <5> QED BY <1>2, <5>1 DEF AnswersRecent, AnswerRecent, Pending, ExpelledAfter
      <4> QED BY <4>1, <4>2
    <3>2. \A x \in Device : Pending(x)' => request'[x].sent \in 0..now'
      BY <1>2, <2>1 DEF AnswersRecent, Pending, Shapes, clocks
    <3> QED BY <3>1, <3>2 DEF AnswersRecent
  <2>10. LeaseRecent'
    <3>1. request[m].sent \in 0..now
      BY <2>2 DEF AnswersRecent
    <3> SUFFICES ASSUME NEW x \in Device, lease'[x].active
                 PROVE  /\ stored'[x] > 0
                        /\ lease'[x].start.sent \in 0..now
                        /\ ExpelledAfter(epochs[stored'[x]], lease'[x].start.sent)
      BY <1>2 DEF LeaseRecent, ExpelledAfter, clocks
    <3>2. CASE x = m
      <4>1. lease'[m] = new /\ accepted /\ stored'[m] = q.revision
        BY <2>1, <2>5, <3>2 DEF Shapes
      <4> QED BY <2>5, <2>6, <3>1, <3>2, <4>1
    <3>3. CASE x # m
      BY <2>1, <3>3 DEF LeaseRecent, Shapes
    <3> QED BY <3>2, <3>3
  <2>11. SuspendedIdle'
    BY <1>2, <2>1, <2>3 DEF SuspendedIdle, Pending, Shapes
  <2>12. OneWaited'
    BY <1>2 DEF OneWaited, Shapes
  <2> QED BY <2>7, <2>8, <2>9, <2>10, <2>11, <2>12
<1> QED BY <1>3, <1>4

(***************************************************************************)
(* A publication keeps the earlier ones: what was current after a request  *)
(* stays so, since whoever is expelled leaves now.                         *)
(***************************************************************************)
LEMMA PublishInductive ==
  ASSUME IInv, NEW S \in SUBSET Member,
         epochs' = Append(epochs, S),
         left' \in [Member -> Int],
         \A x \in S : left'[x] = -1,
         \A x \in Member : left'[x] = left[x] \/ (x \in Members /\ left'[x] = now),
         UNCHANGED <<device, wire, clocks, troubles>>
  PROVE  IInv'
<1> USE DEF IInv
<1>1. /\ epochs' \in Seq(SUBSET Member)
      /\ Len(epochs') = Len(epochs) + 1
      /\ epochs'[Len(epochs')] = S
      /\ \A i \in 1..Len(epochs) : epochs'[i] = epochs[i]
  BY DEF Shapes
<1>2. Shapes'
  BY <1>1 DEF Shapes, device, clocks
<1>3. PresentNotLeft'
  <2>1. \A x \in Members' : left'[x] = -1
    BY <1>1 DEF Members
  <2>2. ASSUME NEW x \in Member, left'[x] # -1
        PROVE  \E i \in DOMAIN epochs' : x \in epochs'[i]
    <3>1. PICK i \in 1..Len(epochs) : x \in epochs[i]
      BY <2>2 DEF PresentNotLeft, Members, Shapes
    <3>2. i \in DOMAIN epochs' /\ x \in epochs'[i]
      BY <1>1, <3>1 DEF Shapes
    <3> QED BY <3>2
  <2> QED BY <2>1, <2>2 DEF PresentNotLeft
<1>4. ASSUME NEW i \in 1..Len(epochs), NEW t \in 0..now, ExpelledAfter(epochs[i], t)
      PROVE  ExpelledAfter(epochs[i], t)'
  <2>1. epochs[i] \subseteq Member /\ epochs'[i] = epochs[i]
    BY <1>1 DEF Shapes
  <2>2. ASSUME NEW x \in epochs[i] PROVE left'[x] = -1 \/ left'[x] >= t
    <3>1. x \in Member /\ now >= t /\ (left[x] = -1 \/ left[x] >= t)
      BY <1>4, <2>1 DEF ExpelledAfter, Shapes
    <3> QED BY <3>1
  <2> QED BY <2>1, <2>2 DEF ExpelledAfter
<1>5. ASSUME NEW m \in Device, NEW q \in wire[m]
      PROVE  AnswerRecent(m, q)'
  <2>1. AnswerRecent(m, q) /\ q \in Note
    BY DEF AnswersRecent, Shapes
  <2>2. Pending(m)' = Pending(m) /\ request' = request
    BY DEF Pending, device
  <2>3. ASSUME q.kind = "state" PROVE q.revision \in 1..Len(epochs')
    BY <1>1, <2>1, <2>3 DEF AnswerRecent, Shapes
  <2>4. ASSUME q.current, q.kind = "state"
        PROVE  ExpelledAfter(epochs[q.revision], request[m].sent)'
    <3>1. request[m].sent \in 0..now /\ q.revision \in 1..Len(epochs)
      BY <2>1, <2>4 DEF AnswersRecent, AnswerRecent
    <3>2. ExpelledAfter(epochs[q.revision], request[m].sent)
      BY <2>1, <2>4 DEF AnswerRecent
    <3>3. epochs'[q.revision] = epochs[q.revision]
      BY <1>1, <3>1
    <3>4. \A x \in epochs[q.revision] : left'[x] = -1 \/ left'[x] >= request[m].sent
      BY <1>1, <1>4, <3>1, <3>2 DEF ExpelledAfter
    <3> QED BY <2>2, <3>3, <3>4 DEF ExpelledAfter
  <2> QED BY <2>1, <2>2, <2>3, <2>4 DEF AnswerRecent
<1>6. AnswersRecent' /\ OneWaited'
  <2>1. wire' = wire /\ request' = request /\ now' = now
    BY DEF device, clocks
  <2> QED BY <1>5, <2>1 DEF AnswersRecent, OneWaited, Pending
<1>7. LeaseRecent'
  <2> SUFFICES ASSUME NEW m \in Device, lease[m].active
               PROVE  /\ stored[m] > 0
                      /\ lease[m].start.sent \in 0..now
                      /\ \A x \in epochs'[stored[m]] : left'[x] = -1 \/ left'[x] >= lease[m].start.sent
    BY DEF LeaseRecent, ExpelledAfter, device, clocks
  <2>1. /\ stored[m] \in 1..Len(epochs)
        /\ lease[m].start.sent \in 0..now
        /\ ExpelledAfter(epochs[stored[m]], lease[m].start.sent)
    BY DEF LeaseRecent, Shapes
  <2>3. epochs'[stored[m]] = epochs[stored[m]] /\ stored' = stored /\ lease' = lease
    BY <1>1, <2>1 DEF device
  <2>4. \A x \in epochs'[stored[m]] : left'[x] = -1 \/ left'[x] >= lease[m].start.sent
    BY <1>4, <2>1, <2>3 DEF ExpelledAfter
  <2> QED BY <2>1, <2>4
<1>8. SuspendedIdle'
  BY DEF SuspendedIdle, Pending, device
<1> QED BY <1>2, <1>3, <1>6, <1>7, <1>8

(***************************************************************************)
(* The authority answers with the current list, of whose members none is   *)
(* expelled, so it is recent for every request.                            *)
(***************************************************************************)
LEMMA ValidateInductive ==
  ASSUME IInv, NEW m \in Device, Validate(m)
  PROVE  IInv'
<1> USE DEF IInv
<1> DEFINE answer(q) == IF m \in Members
                        THEN [kind |-> "state", revision |-> Len(epochs), current |-> q.current]
                        ELSE [kind |-> "denied", revision |-> 0, current |-> q.current]
<1>1. PICK q \in wire[m] : /\ wire' = [wire EXCEPT ![m] = (@ \ {q}) \cup {answer(q)}]
                           /\ UNCHANGED <<epochs, left, device, clocks, troubles>>
  BY DEF Validate
<1>2. q \in Note /\ AnswerRecent(m, q)
  BY DEF Shapes, AnswersRecent
<1> DEFINE r == answer(q)
<1>3. /\ r \in Note /\ r.current = q.current /\ r.kind # "ask"
      /\ r.kind = "state" => r.revision = Len(epochs)
  BY <1>2 DEF Note, Shapes
<1>4. wire' = [wire EXCEPT ![m] = (@ \ {q}) \cup {r}]
  BY <1>1
<1> HIDE DEF answer, r
<1>5. Shapes'
  <2>1. wire' \in [Device -> SUBSET Note]
    BY <1>3, <1>4 DEF Shapes
  <2> QED BY <1>1, <2>1 DEF Shapes, device, clocks
<1>6. AnswerRecent(m, r)
  <2>1. ASSUME r.kind = "state" PROVE r.revision \in 1..Len(epochs)
    BY <1>3, <2>1 DEF Shapes
  <2>2. ASSUME r.kind = "state" PROVE ExpelledAfter(epochs[r.revision], request[m].sent)
    BY <1>3, <2>2 DEF PresentNotLeft, Members, ExpelledAfter
  <2> QED BY <1>2, <1>3, <2>1, <2>2 DEF AnswerRecent
<1>7. AnswersRecent'
  <2>1. ASSUME NEW x \in Device, NEW a \in wire'[x]
        PROVE  AnswerRecent(x, a)
    <3>1. a \in wire[x] \/ (x = m /\ a = r)
      BY <1>4, <2>1 DEF Shapes
    <3> QED BY <1>6, <3>1 DEF AnswersRecent
  <2>2. request' = request /\ now' = now /\ epochs' = epochs /\ left' = left
    BY <1>1 DEF device, clocks
  <2> QED BY <2>1, <2>2 DEF AnswersRecent, AnswerRecent, Pending, ExpelledAfter
<1>8. OneWaited'
  <2> SUFFICES ASSUME NEW x \in Device, NEW a \in wire'[x], NEW b \in wire'[x],
                      a.current, b.current
               PROVE  a = b
    BY DEF OneWaited
  <2>1. CASE x = m
    <3>1. \A c \in wire'[m] : c = r \/ (c \in wire[m] /\ c # q)
      BY <1>4 DEF Shapes
    <3> QED BY <1>3, <2>1, <3>1 DEF OneWaited
  <2>2. CASE x # m
    BY <1>4, <2>2 DEF Shapes, OneWaited
  <2> QED BY <2>1, <2>2
<1>9. PresentNotLeft' /\ LeaseRecent' /\ SuspendedIdle'
  BY <1>1 DEF PresentNotLeft, Members, LeaseRecent, SuspendedIdle, Pending, ExpelledAfter, device, clocks
<1> QED BY <1>5, <1>7, <1>8, <1>9

(***************************************************************************)
(* A step of the clocks, or one that changes no more than the phase shown, *)
(* keeps the invariant: time only goes on.                                 *)
(***************************************************************************)
LEMMA ClocksInductive ==
  ASSUME IInv,
         now' \in Nat, now' >= now,
         slept' \in [Device -> Int], shift' \in [Device -> Int],
         asleep' \in [Device -> BOOLEAN], shown' \in [Device -> BOOLEAN], troubles' \in Nat,
         UNCHANGED <<epochs, left, stored, lease, request, paused, wire>>
  PROVE  IInv'
<1> USE DEF IInv
<1>1. Shapes'
  BY DEF Shapes
<1>2. AnswersRecent' /\ OneWaited'
  BY DEF AnswersRecent, OneWaited, AnswerRecent, Pending, ExpelledAfter, Shapes
<1>3. LeaseRecent'
  BY DEF LeaseRecent, ExpelledAfter, Shapes
<1>4. PresentNotLeft' /\ SuspendedIdle'
  BY DEF PresentNotLeft, Members, SuspendedIdle, Pending
<1> QED BY <1>1, <1>2, <1>3, <1>4

(***************************************************************************)
(* Every step keeps the invariant.                                         *)
(***************************************************************************)
LEMMA NextInductive == IInv /\ [Next]_vars => IInv'
<1> SUFFICES ASSUME IInv, [Next]_vars PROVE IInv'
  OBVIOUS
<1>s. Shapes
  BY DEF IInv
<1>1. CASE UNCHANGED vars
  BY <1>1, <1>s, ClocksInductive DEF vars, device, clocks, Shapes
<1>2. CASE Elapse
  <2>1. slept' \in [Device -> Int] /\ now' \in Nat /\ now' >= now
    BY <1>2, <1>s DEF Elapse, Shapes
  <2> QED BY <1>2, <1>s, <2>1, ClocksInductive DEF Elapse, Shapes, device
<1>3. ASSUME NEW m \in Member, Admit(m) PROVE IInv'
  <2>1. m \notin Members /\ Members \cup {m} \in SUBSET Member
    BY <1>3, <1>s DEF Admit, Members, Shapes
  <2>2. left[m] = -1
    BY <1>3 DEF Admit, IInv, PresentNotLeft
  <2>3. \A x \in Members \cup {m} : left[x] = -1
    BY <2>2 DEF IInv, PresentNotLeft
  <2> QED BY <1>3, <1>s, <2>1, <2>3, PublishInductive DEF Admit, Shapes
<1>4. ASSUME NEW m \in Member, Expel(m) PROVE IInv'
  <2>1. Members \ {m} \in SUBSET Member /\ left' \in [Member -> Int]
    BY <1>4, <1>s DEF Expel, Members, Shapes
  <2>2. \A x \in Members \ {m} : left'[x] = -1
    BY <1>4, <1>s, <2>1 DEF Expel, IInv, PresentNotLeft, Shapes
  <2>3. \A x \in Member : left'[x] = left[x] \/ (x \in Members /\ left'[x] = now)
    BY <1>4, <1>s DEF Expel, Shapes
  <2> QED BY <1>4, <2>1, <2>2, <2>3, PublishInductive DEF Expel
<1>5. ASSUME NEW m \in Device, Refresh(m) PROVE IInv'
  BY <1>5, <1>s, AskInductive DEF Refresh, Shapes
<1>6. ASSUME NEW m \in Device, Resume(m) PROVE IInv'
  BY <1>6, <1>s, AskInductive DEF Resume, Shapes
<1>7. ASSUME NEW m \in Device, Timeout(m) PROVE IInv'
  <2>1. ~paused[m] /\ troubles' \in Nat
    BY <1>7, <1>s DEF Timeout, Trouble, IInv, SuspendedIdle, Shapes
  <2>2. shown' \in [Device -> BOOLEAN]
    BY <1>7, <1>s DEF Timeout, Shapes, Valid, Fresh
  <2> QED BY <1>7, <2>1, <2>2, NotedInductive DEF Timeout
<1>8. ASSUME NEW m \in Device, Use(m) PROVE IInv'
  BY <1>8, <1>s, NotedInductive DEF Use, Shapes
<1>9. ASSUME NEW m \in Device, Recovered(m) PROVE IInv'
  BY <1>9, <1>s, NotedInductive DEF Recovered, Shapes
<1>10. ASSUME NEW m \in Device, Tick(m) PROVE IInv'
  <2>1. /\ shown' \in [Device -> BOOLEAN] /\ paused' \in [Device -> BOOLEAN]
        /\ \A x \in Device \ {m} : paused'[x] => paused[x]
        /\ troubles' \in Nat
    BY <1>10, <1>s DEF Tick, Shapes
  <2> QED BY <1>10, <2>1, RevokedInductive DEF Tick
<1>11. ASSUME NEW m \in Device, Suspend(m) PROVE IInv'
  <2>1. /\ shown' \in [Device -> BOOLEAN] /\ paused' \in [Device -> BOOLEAN]
        /\ \A x \in Device \ {m} : paused'[x] => paused[x]
        /\ troubles' \in Nat
    BY <1>11, <1>s DEF Suspend, Trouble, Shapes
  <2> QED BY <1>11, <2>1, RevokedInductive DEF Suspend, Trouble
<1>12. ASSUME NEW m \in Device, Restart(m) PROVE IInv'
  <2>1. /\ shown' \in [Device -> BOOLEAN] /\ paused' \in [Device -> BOOLEAN]
        /\ \A x \in Device \ {m} : paused'[x] => paused[x]
        /\ troubles' \in Nat
    BY <1>12, <1>s DEF Restart, Trouble, Shapes
  <2> QED BY <1>12, <2>1, RevokedInductive DEF Restart, Trouble
<1>13. ASSUME NEW m \in Device, Obscure(m) PROVE IInv'
  BY <1>13, <1>s, ClocksInductive DEF Obscure, Shapes, clocks
<1>14. ASSUME NEW m \in Device, FallAsleep(m) \/ Wake(m) PROVE IInv'
  <2>1. asleep' \in [Device -> BOOLEAN] /\ troubles' \in Nat
    <3>1. CASE FallAsleep(m)
      BY <3>1, <1>s DEF FallAsleep, Trouble, Shapes
    <3>2. CASE Wake(m)
      BY <3>2, <1>s DEF Wake, Shapes
    <3> QED BY <1>14, <3>1, <3>2
  <2>2. UNCHANGED <<epochs, left, device, wire, now, slept, shift>>
    BY <1>14 DEF FallAsleep, Wake
  <2> QED BY <1>s, <2>1, <2>2, ClocksInductive DEF Shapes, device
<1>15. ASSUME NEW m \in Device, NEW off \in -MaxShift..MaxShift, SetClock(m, off) PROVE IInv'
  <2>1. off \in Int
    BY MembershipAssumption
  <2>2. shift' \in [Device -> Int] /\ troubles' \in Nat
    BY <1>15, <1>s, <2>1 DEF SetClock, Trouble, Shapes
  <2> QED BY <1>15, <1>s, <2>2, ClocksInductive DEF SetClock, Shapes, device
<1> QED
  BY <1>1, <1>2, <1>3, <1>4, <1>5, <1>6, <1>7, <1>8, <1>9, <1>10, <1>11, <1>12, <1>13, <1>14, <1>15,
     ValidateInductive, ReceiveInductive DEF Next

(***************************************************************************)
(* The invariant holds in every reachable state.                           *)
(***************************************************************************)
THEOREM Inductive == Spec => []IInv
BY InitInductive, NextInductive, PTL DEF Spec

(***************************************************************************)
(* A lease that would be answered valid is younger than the lifetime, but  *)
(* for what both clocks hide of its age.                                   *)
(***************************************************************************)
LEMMA ValidIsYoung ==
  ASSUME Shapes, NEW m \in Device, Valid(m)
  PROVE  /\ Hidden(m) \in Int
         /\ now - lease[m].start.sent < Lifetime + Hidden(m)
<1> DEFINE start == lease[m].start
<1>1. /\ start.sent \in Int /\ start.steady \in Int /\ start.wall \in Int
      /\ now \in Int /\ steady(m) \in Int /\ wall(m) \in Int /\ Lifetime \in Int
  <2>1. lease[m] \in [active : BOOLEAN, start : Moment, last : Moment]
    BY DEF Shapes
  <2>2. start.sent \in Int /\ start.steady \in Int /\ start.wall \in Int
    BY <2>1 DEF Moment
  <2> QED BY <2>2, ClockTypes, MembershipAssumption
<1>2. steady(m) - start.steady < Lifetime /\ wall(m) - start.wall < Lifetime
  BY DEF Valid, Fresh
<1>3. Hidden(m) = (now - start.sent) - (steady(m) - start.steady)
      \/ Hidden(m) = (now - start.sent) - (wall(m) - start.wall)
  BY DEF Hidden
<1>4. \A h, n, b, c, d, l \in Int : h = (n - b) - (c - d) /\ c - d < l => n - b < l + h
  OBVIOUS
<1> DEFINE h == Hidden(m)
           b == start.sent
           c == steady(m)
           d == start.steady
           w == wall(m)
           v == start.wall
<1> HIDE DEF b, c, d, w, v, h
<1>5. h \in Int /\ (h = (now - b) - (c - d) \/ h = (now - b) - (w - v))
  BY <1>1, <1>3 DEF b, c, d, w, v, h
<1>6. now - b < Lifetime + h
  BY <1>1, <1>2, <1>4, <1>5 DEF b, c, d, w, v
<1> QED BY <1>5, <1>6 DEF b, h

(***************************************************************************)
(* Expulsion takes effect everywhere within a lease's lifetime, for every  *)
(* group, lifetime and tolerance and whatever troubles the devices meet.   *)
(***************************************************************************)
THEOREM Expulsion == Spec => []ExpulsionTakesEffect
<1>1. IInv => ExpulsionTakesEffect
  <2> SUFFICES ASSUME IInv, NEW m \in Device, NEW p \in Member, Allowed(m, p),
                      NEW x \in {m, p}, left[x] # -1
               PROVE  now - left[x] < Lifetime + (IF Hidden(m) > 0 THEN Hidden(m) ELSE 0)
    BY DEF ExpulsionTakesEffect
  <2>1. Shapes /\ Valid(m) /\ lease[m].active /\ x \in epochs[stored[m]] /\ x \in Member
    BY MembershipAssumption DEF IInv, Allowed, Valid
  <2>2. left[x] >= lease[m].start.sent
    BY <2>1 DEF IInv, LeaseRecent, ExpelledAfter
  <2>3. Hidden(m) \in Int /\ now - lease[m].start.sent < Lifetime + Hidden(m)
    BY <2>1, ValidIsYoung
  <2>4. left[x] \in Int /\ now \in Int /\ Lifetime \in Int /\ lease[m].start.sent \in Int
    BY <2>1, MembershipAssumption DEF Shapes, Moment
  <2> QED BY <2>2, <2>3, <2>4
<1> QED BY <1>1, Inductive, PTL

(***************************************************************************)
(* The types; an answer is waited for only while a validation is pending,  *)
(* and a suspended session has neither a lease nor a validation.           *)
(***************************************************************************)
THEOREM TypeCorrect == Spec => []TypeOK
<1>1. IInv => TypeOK
  BY DEF IInv, Shapes, AnswersRecent, AnswerRecent, LeaseRecent, SuspendedIdle, TypeOK
<1> QED BY <1>1, Inductive, PTL
============================================================================
