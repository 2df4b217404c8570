-------------------------- MODULE ConflictDecision --------------------------
(***************************************************************************)
(* How a group agrees on the result of a conflict.  A device that sees     *)
(* several heads of an object prepares a merge of exactly those heads as a *)
(* durable proposal and submits it to the authority, which decides every   *)
(* set of branches once.  The winner's merge enters the journal of its     *)
(* device and travels to the others like any revision; each device admits  *)
(* it once it has the decision, from the decision feed or by asking.       *)
(*                                                                         *)
(* A device keeps three databases (proposals and decisions, the feed, the  *)
(* journal) and commits to them one after the other, so that it may crash  *)
(* between two commits.  The order in which its timer takes up pending     *)
(* proposals and merges is left open, and the feed's "handled" column,     *)
(* which nothing reads, is left out.  Its requests to the authority time   *)
(* out after 30 s and may be executed all the same.                        *)
(***************************************************************************)
EXTENDS Journal, Sequences

CONSTANTS
  Device,
  Operation,  \* request identities, drawn at random
  Start,      \* the journal that the devices have in common at first
  Following,  \* bound: the devices whose feed requests are answered
  PageLimit,  \* decisions in one page of the feed: 64
  MaxFaults   \* bound: how many requests are lost and devices crash

ASSUME DecisionAssumption ==
  /\ Device \subseteq Member /\ Following \subseteq Device
  /\ PageLimit \in Nat \ {0} /\ MaxFaults \in Nat

\* No conflict has been decided at first, so no journal holds a merge.
ASSUME StartAssumption ==
  /\ Consistent(Start)
  /\ Start.approved = {} /\ \A r \in Rows(Start) : ~IsMerge(r)

Merge == {r \in Revision : IsMerge(r)}

VARIABLES
  events,     \* the authority's decision_events, by sequence
  late,       \* "decide" requests given up by their device and still under way
  journal,    \* journal[d]: the revision store
  proposals,  \* proposals[d]: operation -> prepared merge
  settled,    \* proposals[d] with settled = 1
  decisions,  \* decisions[d]: table decisions, rows of conflict_store
  published,  \* published[d]: table publications
  feed,       \* feed[d]: feed_state and feed_latest
  call,       \* call[d]: where the owner's thread is with a decision
  fetch,      \* fetch[d]: the feed request
  faults

stores == <<journal, proposals, settled, decisions, published, feed>>
vars == <<events, late, stores, call, fetch, faults>>

\* A decision.  It also carries the member who asked, which is the origin of
\* the merge, and the version, which is 1.
Decision == [operation : Operation, resolution : Merge]

\* derive_conflict_tokens: the conflict is named by the branches merged.
Scope(m) == ParentsOf[m]

Deciding(S, m) == {e \in S : Scope(e.resolution) = Scope(m)}

Idle == [step |-> "idle"]

Init ==
  /\ events = <<>> /\ late = {} /\ faults = 0
  /\ journal = [d \in Device |-> Start]
  /\ proposals = [d \in Device |-> [o \in {} |-> 0]]
  /\ settled = [d \in Device |-> {}]
  /\ decisions = [d \in Device |-> {}]
  /\ published = [d \in Device |-> {}]
  /\ feed = [d \in Device |-> [next |-> 0, watermark |-> 0, latest |-> {}]]
  /\ call = [d \in Device |-> Idle]
  /\ fetch = [d \in Device |-> Idle]

---------------------------------------------------------------------------
(***************************************************************************)
(* The authority.  Each handler is one SQL transaction, and a trigger      *)
(* appends to decision_events what decide inserts.                         *)
(***************************************************************************)
Newest(E, i) == \A k \in i+1..Len(E) : Scope(E[k].resolution) # Scope(E[i].resolution)

Latest(E, m) ==
  {E[i] : i \in {i \in DOMAIN E : Newest(E, i) /\ Scope(E[i].resolution) = Scope(m)}}

\* Mutant: the branches may be decided again.
DecideAnew(o, m) == Append(events, [operation |-> o, resolution |-> m])

\* decide: the events after it.  A request that was executed before changes
\* nothing, one for branches that are decided is refused.
Decide(o, m) ==
  IF Latest(events, m) # {} THEN events
  ELSE Append(events, [operation |-> o, resolution |-> m])

\* The "decide" request of d reaches the authority.  ErrConflict ends it: the
\* client only tries again later, after a refresh.
Serve(d) ==
  /\ call[d].step = "submit"
  /\ LET o == call[d].operation
         m == proposals[d][o]
     IN  /\ events' = Decide(o, m)
         /\ LET answer == Latest(events', m)
            IN  call' = [call EXCEPT ![d] =
                  IF \A e \in answer : e.operation # o THEN Idle
                  ELSE [step |-> "answered", operation |-> o, write |-> TRUE,
                        answer |-> answer]]
  /\ UNCHANGED <<late, stores, fetch, faults>>

\* A request whose device no longer waits for it is executed.
ServeLate(e) ==
  /\ e \in late
  /\ events' = Decide(e.operation, e.resolution)
  /\ late' = late \ {e}
  /\ UNCHANGED <<stores, call, fetch, faults>>

\* decisionFeed: the first PageLimit decisions after a sequence number.
PageEntries(after) ==
  {i \in after+1..Len(events) :
     Newest(events, i) /\ Cardinality({k \in after+1..i-1 : Newest(events, k)}) < PageLimit}

Page(after) ==
  LET S == PageEntries(after)
  IN  [step |-> "page", after |-> after, watermark |-> Len(events),
       next |-> IF S = {} THEN Len(events) ELSE CHOOSE i \in S : \A k \in S : k <= i,
       entries |-> {[sequence |-> i, decision |-> events[i]] : i \in S}]

---------------------------------------------------------------------------
(***************************************************************************)
(* The decision feed of a device.  The owner's thread runs one handler to  *)
(* its end before the next.                                                *)
(***************************************************************************)
Free(d) == call[d].step \in {"idle", "submit", "answered", "looked"}

FeedLatest(d, m) == {e \in feed[d].latest : Scope(e.decision.resolution) = Scope(m)}

CaughtUp(d) == feed[d].next = feed[d].watermark

\* The timer asks for the page after the cursor.  A question that is lost is
\* like an answer that is lost, so the page is that of the authority at once;
\* asking in vain changes nothing and is left out.
RefreshDecisions(d) ==
  /\ d \in Following
  /\ Free(d) /\ fetch[d] = Idle
  /\ feed[d].next < Len(events)
  /\ fetch' = [fetch EXCEPT ![d] = Page(feed[d].next)]
  /\ UNCHANGED <<events, late, stores, call, faults>>

\* Mutant: the watermark is kept from the first page.
StoredPageAlone(f, p) ==
  [f EXCEPT !.next = p.next, !.latest = @ \cup p.entries]

\* Mutant: the cursor moves to the end of the feed, not of the page.
StoredPageToEnd(f, p) ==
  [f EXCEPT !.next = p.watermark, !.watermark = p.watermark, !.latest = @ \cup p.entries]

StoredPage(f, p) ==
  [f EXCEPT !.next = p.next, !.watermark = p.watermark, !.latest = @ \cup p.entries]

\* decision_feed_store::accept, after verify_page.  A page that rolls back
\* or repeats a conflict is refused and leaves the feed as it is.
AcceptPage(d) ==
  /\ Free(d) /\ fetch[d] # Idle
  /\ LET p == fetch[d]
         valid == /\ feed[d].next = p.after
                  /\ p.watermark >= feed[d].watermark
                  /\ \A e \in p.entries : FeedLatest(d, e.decision.resolution) = {}
     IN  feed' = [feed EXCEPT ![d] = IF valid THEN StoredPage(@, p) ELSE @]
  /\ fetch' = [fetch EXCEPT ![d] = Idle]
  /\ UNCHANGED <<events, late, journal, proposals, settled, decisions, published,
                 call, faults>>

---------------------------------------------------------------------------
(***************************************************************************)
(* The conflict store and the owner's thread of a device.                  *)
(***************************************************************************)
\* prepare_resolution and conflict_store::prepare, called by the user for a
\* merge of the heads shown to them.  Which unused operation is drawn does not
\* matter.
PrepareResolution(d, m) ==
  LET unused == Operation \ UNION {DOMAIN proposals[e] : e \in Device}
      o == CHOOSE o \in unused : TRUE
  IN  /\ Free(d) /\ unused # {}
      /\ OriginOf[m] = d
      /\ Deciding(decisions[d], m) = {} /\ FeedLatest(d, m) = {}
      /\ ParentsOf[m] = Heads(journal[d])
      /\ proposals' = [proposals EXCEPT ![d] =
           [p \in DOMAIN @ \cup {o} |-> IF p = o THEN m ELSE @[p]]]
      /\ UNCHANGED <<events, late, journal, settled, decisions, published, feed,
                     call, fetch, faults>>

\* Mutant: a proposal whose decision is known is done with.
PendingUnsettled(d) == DOMAIN proposals[d] \ (published[d] \cup settled[d])

\* pending: also the decided one that a crash kept from being published.
PendingProposals(d) ==
  {o \in DOMAIN proposals[d] \ published[d] :
     o \notin settled[d] \/ \E e \in decisions[d] : e.operation = o}

\* pending_resolutions of the journal.
PendingResolutions(d) ==
  {m \in Merge \cap Rows(journal[d]) :
     m \notin journal[d].approved /\ ParentsOf[m] \subseteq journal[d].eligible}

\* decide_next with a pending proposal: submit_proposal first asks for the
\* decision.  As with the feed, a question that only reads and its answer are
\* one step.
SubmitNext(d) ==
  /\ call[d] = Idle
  /\ \E o \in PendingProposals(d) :
       call' = [call EXCEPT ![d] = [step |-> "answered", operation |-> o, write |-> FALSE,
                                    answer |-> Latest(events, proposals[d][o])]]
  /\ UNCHANGED <<events, late, stores, fetch, faults>>

\* accept_resolution: the journals it may leave.  There is none when the merge
\* is not in the journal or the evidence decides for another.
Approvals(j, m, evidence) ==
  IF m \in Rows(j) /\ \E e \in evidence : e.resolution = m
  THEN {Resolved(j, m, S) :
          S \in {S \in {j.eligible \cup R : R \in SUBSET (Descendants(j, m) \ j.eligible)} :
                   AdmissionPass(j, m, S)}}
  ELSE {}

\* decide_next with a received merge.  The feed answers when it is complete
\* and has the decision, else the authority is asked.
ResolveNext(d) ==
  \E m \in PendingResolutions(d) :
    LET known == {e.decision : e \in FeedLatest(d, m)}
        choices == Approvals(journal[d], m, known)
        feeds == CaughtUp(d) /\ known # {}
    IN  /\ call[d] = Idle
        /\ \/ /\ feeds
              /\ \E j \in choices : journal' = [journal EXCEPT ![d] = j]
              /\ UNCHANGED call
           \/ /\ ~feeds
              /\ call' = [call EXCEPT ![d] = [step |-> "looked", resolution |-> m,
                                              answer |-> Latest(events, m)]]
              /\ UNCHANGED journal
        /\ UNCHANGED <<events, late, proposals, settled, decisions, published, feed,
                       fetch, faults>>

\* The authority's answer about a received merge; false leaves the journal.
ApproveLooked(d) ==
  LET choices == Approvals(journal[d], call[d].resolution, call[d].answer)
  IN  /\ call[d].step = "looked"
      /\ \E j \in IF choices = {} THEN {journal[d]} ELSE choices :
           journal' = [journal EXCEPT ![d] = j]
      /\ call' = [call EXCEPT ![d] = Idle]
      /\ UNCHANGED <<events, late, proposals, settled, decisions, published, feed,
                     fetch, faults>>

\* Mutant: whatever was decided, the proposal goes on.
FollowUpAnyway(o, write, answer) ==
  IF answer # {} THEN [step |-> "receive", operation |-> o]
  ELSE IF write THEN Idle ELSE [step |-> "submit", operation |-> o]

\* What submit_proposal does with the decision that was accepted: without one
\* it writes, with another's it keeps the draft, with its own it goes on.
FollowUp(o, write, answer) ==
  IF \E e \in answer : e.operation = o THEN [step |-> "receive", operation |-> o]
  ELSE IF answer # {} \/ write THEN Idle
  ELSE [step |-> "submit", operation |-> o]

\* The answer about a proposal: conflict_store::accept in one transaction.
\* It throws when the authority goes back on a decision.
AcceptAnswer(d) ==
  LET o == call[d].operation
      answer == call[d].answer
      previous == Deciding(decisions[d], proposals[d][o])
  IN  /\ call[d].step = "answered"
      /\ IF previous \subseteq answer
         THEN /\ decisions' = [decisions EXCEPT ![d] = @ \cup answer]
              /\ settled' = [settled EXCEPT ![d] = IF answer # {} THEN @ \cup {o} ELSE @]
              /\ call' = [call EXCEPT ![d] = FollowUp(o, @.write, answer)]
         ELSE /\ call' = [call EXCEPT ![d] = Idle]
              /\ UNCHANGED <<decisions, settled>>
      /\ UNCHANGED <<events, late, journal, proposals, published, feed,
                     fetch, faults>>

\* Mutant: the merge is dropped when its branches are no longer the heads.
ReceivedIfHeads(j, m) ==
  IF CanReceive(j, m) /\ ParentsOf[m] = Heads(j) THEN Inserted(j, m) ELSE j

\* revision_store::receive of the prepared merge; a known one is left alone.
Received(j, m) == IF CanReceive(j, m) THEN Inserted(j, m) ELSE j

\* The rest of submit_proposal: three more commits to two databases.
ReceiveResolution(d) ==
  LET m == proposals[d][call[d].operation]
  IN  /\ call[d].step = "receive"
      /\ journal' = [journal EXCEPT ![d] = Received(@, m)]
      /\ call' = [call EXCEPT ![d].step = "approve"]
      /\ UNCHANGED <<events, late, proposals, settled, decisions, published, feed,
                     fetch, faults>>

ApproveResolution(d) ==
  LET m == proposals[d][call[d].operation]
      choices == Approvals(journal[d], m, Deciding(decisions[d], m))
  IN  /\ call[d].step = "approve"
      /\ \E j \in IF choices = {} THEN {journal[d]} ELSE choices :
           journal' = [journal EXCEPT ![d] = j]
      /\ call' = [call EXCEPT ![d] = IF choices = {} THEN Idle ELSE [@ EXCEPT !.step = "publish"]]
      /\ UNCHANGED <<events, late, proposals, settled, decisions, published, feed,
                     fetch, faults>>

Publish(d) ==
  /\ call[d].step = "publish"
  /\ published' = [published EXCEPT ![d] = @ \cup {call[d].operation}]
  /\ call' = [call EXCEPT ![d] = Idle]
  /\ UNCHANGED <<events, late, journal, proposals, settled, decisions, feed,
                 fetch, faults>>

---------------------------------------------------------------------------
(***************************************************************************)
(* Faults, and the other users of the journal.                             *)
(***************************************************************************)
\* The "decide" request of d, when it is under way.
UnderWay(d) ==
  IF call[d].step = "submit"
  THEN {[operation |-> call[d].operation, resolution |-> proposals[d][call[d].operation]]}
  ELSE {}

\* A request or its answer is lost, or comes after the deadline.
Timeout(d) ==
  /\ faults < MaxFaults /\ faults' = faults + 1
  /\ call[d] # Idle /\ Free(d)
  /\ late' = late \cup UnderWay(d)
  /\ call' = [call EXCEPT ![d] = Idle]
  /\ UNCHANGED <<events, stores, fetch>>

FeedTimeout(d) ==
  /\ faults < MaxFaults /\ faults' = faults + 1
  /\ fetch[d] # Idle
  /\ fetch' = [fetch EXCEPT ![d] = Idle]
  /\ UNCHANGED <<events, late, stores, call>>

\* The device stops, perhaps between two commits, and starts again.
Crash(d) ==
  /\ faults < MaxFaults /\ faults' = faults + 1
  /\ late' = late \cup UnderWay(d)
  /\ call' = [call EXCEPT ![d] = Idle]
  /\ fetch' = [fetch EXCEPT ![d] = Idle]
  /\ UNCHANGED <<events, stores>>

\* A save on top of a revision of the journal (see DocumentCapture).
Save(d, r) ==
  /\ OriginOf[r] = d /\ ~IsMerge(r)
  /\ r \notin Rows(journal[d]) /\ ParentsOf[r] \subseteq journal[d].eligible
  /\ journal' = [journal EXCEPT ![d] = Inserted(@, r)]
  /\ UNCHANGED <<events, late, proposals, settled, decisions, published, feed,
                 call, fetch, faults>>

\* A revision of another device arrives (see RevisionExchange).
Deliver(d, r) ==
  /\ \E e \in Device \ {d} : r \in Rows(journal[e])
  /\ CanReceive(journal[d], r)
  /\ journal' = [journal EXCEPT ![d] = Inserted(@, r)]
  /\ UNCHANGED <<events, late, proposals, settled, decisions, published, feed,
                 call, fetch, faults>>

\* proposal_summary: the state that a losing draft is listed with.
Retained(d, o) ==
  /\ o \in DOMAIN proposals[d] \ published[d]
  /\ \E e \in Deciding(decisions[d], proposals[d][o]) : e.operation # o

---------------------------------------------------------------------------
Owner(d) ==
  \/ SubmitNext(d) \/ ResolveNext(d) \/ ApproveLooked(d)
  \/ AcceptAnswer(d) \/ ReceiveResolution(d) \/ ApproveResolution(d) \/ Publish(d)

Feed(d) == RefreshDecisions(d) \/ AcceptPage(d)

Next ==
  \/ \E e \in late : ServeLate(e)
  \/ \E d \in Device :
       \/ Serve(d)
       \/ Owner(d) \/ Feed(d)
       \/ Timeout(d) \/ FeedTimeout(d) \/ Crash(d)
       \/ \E m \in Merge : PrepareResolution(d, m)
       \/ \E r \in Revision : Save(d, r) \/ Deliver(d, r)

Spec == Init /\ [][Next]_vars

\* The timer and the event loop run on, the authority answers what reaches
\* it, and revisions travel.  Nothing makes a user act, a late request run or
\* the feed arrive.
FairSpec ==
  /\ Spec
  /\ \A d \in Device :
       /\ WF_vars(Owner(d) \/ Serve(d))
       /\ WF_vars(\E r \in Revision : Deliver(d, r))

---------------------------------------------------------------------------
(***************************************************************************)
(* The stores hold what their columns are declared to hold, and no feed is *)
(* past its watermark or its watermark past the authority's.               *)
(***************************************************************************)
TypeOK ==
  /\ events \in Seq(Decision) /\ late \subseteq Decision
  /\ \A d \in Device :
       /\ JournalType(journal[d])
       /\ DOMAIN proposals[d] \subseteq Operation
       /\ \A o \in DOMAIN proposals[d] : proposals[d][o] \in Merge
       /\ settled[d] \cup published[d] \subseteq DOMAIN proposals[d]
       /\ decisions[d] \subseteq Decision
       /\ feed[d].next <= feed[d].watermark /\ feed[d].watermark <= Len(events)

(***************************************************************************)
(* One decision for each set of branches, and every device builds on that  *)
(* one only, whatever is asked twice, answered late or interrupted.        *)
(***************************************************************************)
AbstractAdjudication == INSTANCE Adjudication WITH
  BranchesOf <- ParentsOf,
  chosen <- {events[i].resolution : i \in DOMAIN events},
  admitted <- [d \in Device |-> Merge \cap journal[d].eligible]

ImplementsAdjudication == AbstractAdjudication!Spec

(***************************************************************************)
(* Only winners travel: a merge in any journal, admitted or waiting, is    *)
(* the one that the authority chose for its branches.  A losing draft      *)
(* stays in its device's proposals, and no journal ever waits for a        *)
(* decision that will not come.                                            *)
(***************************************************************************)
OnlyWinnersTravel ==
  \A d \in Device : \A m \in Merge \cap Rows(journal[d]) :
    \E e \in Latest(events, m) : e.resolution = m

(***************************************************************************)
(* A device's feed has skipped nothing: it holds exactly the decisions up  *)
(* to its cursor, although pages are cut at a limit, answers are lost and  *)
(* decisions are made while a page is under way.                           *)
(***************************************************************************)
FeedComplete ==
  \A d \in Device :
    feed[d].latest = {[sequence |-> i, decision |-> events[i]] : i \in 1..feed[d].next}

(***************************************************************************)
(* Every proposal comes to an end, in spite of crashes between its commits *)
(* and of lost answers: it is published, or its device knows that another  *)
(* was chosen and reports the draft as retained.                           *)
(***************************************************************************)
ProposalsSettle ==
  \A o \in Operation :
    (\E d \in Device : o \in DOMAIN proposals[d]) ~>
      \E d \in Device : o \in published[d] \/ Retained(d, o)

(***************************************************************************)
(* A chosen merge is admitted by every device in the end, although the     *)
(* revision, the decisions it depends on and the feed come in any order.   *)
(***************************************************************************)
WinnersAdmitted ==
  \A m \in Merge :
    (\E i \in DOMAIN events : events[i].resolution = m) ~>
      \A d \in Device : m \in journal[d].eligible
============================================================================
