-------------------------- MODULE RevisionExchange --------------------------
(***************************************************************************)
(* How the revisions of one Vault travel between devices.  On every        *)
(* connection each end runs a vault_revision_sender (probe a head, walk    *)
(* its ancestry, send what is missing, parents first) and answers the      *)
(* other's requests with a revision_receiver.  One request is outstanding  *)
(* per direction.  The journal and the staging table are durable and are   *)
(* shared by all connections of a device; the sender's cursor and the      *)
(* receiver's accepted offers live as long as the connection.              *)
(*                                                                         *)
(* An exception in a handler ends the connection, as does a network        *)
(* failure, a timeout or a restart of either end.  That no message of an   *)
(* ended connection reaches a later one is shown in PeerRoutes.            *)
(***************************************************************************)
EXTENDS Integers, Sequences, FiniteSets

CONSTANTS
  Device,
  Link,        \* pairs {a, b} of devices that can connect
  Revision,    \* identities of the Vault's revisions, of all its objects
  ParentList,  \* the parents of a revision, sorted by identity
  AuthorOf,
  SizeOf,      \* length of the payload in chunks, 0 for a tombstone
  MaxStaged,   \* rows of the staging table: 32
  PageSize,    \* heads fetched by one inventory query: 256
  MaxFaults    \* bound: how often the network fails or an end restarts

ASSUME ExchangeAssumption ==
  /\ Link \subseteq SUBSET Device
  /\ ParentList \in [Revision -> Seq(Revision)]
  /\ AuthorOf \in [Revision -> Device]
  /\ SizeOf \in [Revision -> Nat]
  /\ MaxStaged \in Nat \ {0} /\ PageSize \in Nat \ {0} /\ MaxFaults \in Nat

VARIABLES
  log,     \* revisions table: log[d] in order of rowid
  staged,  \* incoming table: chunks received of each staged revision
  up,      \* established connections
  sender,  \* sender[<<a, b>>]: a's vault_revision_sender for b
  active,  \* active[<<a, b>>]: offers of a that b's receiver accepted
  wire,    \* wire[<<a, b>>]: the request of a, or b's reply to it
  faults   \* faults so far

vars == <<log, staged, up, sender, active, wire, faults>>

ParentsOf == [r \in Revision |-> {ParentList[r][i] : i \in DOMAIN ParentList[r]}]

Pair == {p \in Device \X Device : {p[1], p[2]} \in Link /\ p[1] # p[2]}

Rows(d) == {log[d][i] : i \in DOMAIN log[d]}

Silent == [type |-> "none"]

\* A sender before start; also what a new connection begins with.
FreshSender ==
  [phase |-> "idle", cursor |-> 0, at |-> 0, through |-> 0,
   heads |-> {}, stack |-> <<>>, offset |-> 0]

Init ==
  /\ log = [d \in Device |-> <<>>]
  /\ staged = [d \in Device |-> [r \in {} |-> 0]]
  /\ up = {}
  /\ sender = [p \in Pair |-> FreshSender]
  /\ active = [p \in Pair |-> {}]
  /\ wire = [p \in Pair |-> Silent]
  /\ faults = 0

---------------------------------------------------------------------------
(***************************************************************************)
(* The sender.                                                             *)
(***************************************************************************)
\* Mutant: the query lacks its bound on the children.
HeadsOfAll(rows, after, through) ==
  {i \in DOMAIN rows :
     /\ after < i /\ i <= through
     /\ \A j \in DOMAIN rows : rows[i] \notin ParentsOf[rows[j]]}

\* inventory_heads: rows after the cursor without a child up to through.
InventoryHeads(rows, after, through) ==
  {i \in DOMAIN rows :
     /\ after < i /\ i <= through
     /\ \A j \in DOMAIN rows : j <= through => rows[i] \notin ParentsOf[rows[j]]}

Smallest(S) == CHOOSE i \in S : \A j \in S : i <= j
Largest(S) == CHOOSE i \in S : \A j \in S : j <= i

\* ORDER BY rowid LIMIT
FirstPage(S) == {i \in S : Cardinality({j \in S : j < i}) < PageSize}

Top(s) == s.stack[Len(s.stack)]
Popped(s) == [s EXCEPT !.stack = SubSeq(@, 1, Len(@) - 1)]

\* advance(): fetch heads when both lists are used up, complete when there
\* are none, else probe the top of the stack or offer it once it is expanded.
Advanced(rows, s) ==
  IF s.stack # <<>>
  THEN [s EXCEPT !.phase = IF Top(s).expanded THEN "offer" ELSE "probe"]
  ELSE LET page == IF s.heads # {} THEN s.heads
                   ELSE FirstPage(InventoryHeads(rows, s.at, s.through))
       IN  IF page = {}
           THEN [s EXCEPT !.phase = "idle", !.cursor = s.through]
           ELSE [s EXCEPT !.phase = "probe",
                          !.at = IF s.heads # {} THEN @ ELSE Largest(page),
                          !.heads = page \ {Smallest(page)},
                          !.stack = <<[id |-> rows[Smallest(page)], expanded |-> FALSE]>>]

\* The request a sender has outstanding in a phase.
Request(s) ==
  CASE s.phase = "idle" -> Silent
    [] s.phase = "probe" -> [type |-> "have?", rev |-> Top(s).id]
    [] s.phase = "offer" -> [type |-> "offer", rev |-> Top(s).id]
    [] s.phase = "chunk" -> [type |-> "chunk", rev |-> Top(s).id, offset |-> s.offset]
    [] s.phase = "finish" -> [type |-> "finish", rev |-> Top(s).id]

Put(p, s) ==
  /\ sender' = [sender EXCEPT ![p] = s]
  /\ wire' = [wire EXCEPT ![p] = Request(s)]

\* Mutant: the cursor is compared as if it named the next row.
StartBehind(p) ==
  /\ {p[1], p[2]} \in up
  /\ sender[p].phase = "idle"
  /\ Len(log[p[1]]) > sender[p].cursor + 1
  /\ Put(p, Advanced(log[p[1]],
              [FreshSender EXCEPT !.cursor = sender[p].cursor, !.at = sender[p].cursor,
                                  !.through = Len(log[p[1]])]))
  /\ UNCHANGED <<log, staged, up, active, faults>>

\* pump(): begin a cycle.  One that would find nothing new leaves all as is.
Start(p) ==
  /\ {p[1], p[2]} \in up
  /\ sender[p].phase = "idle"
  /\ Len(log[p[1]]) > sender[p].cursor
  /\ Put(p, Advanced(log[p[1]],
              [FreshSender EXCEPT !.cursor = sender[p].cursor, !.at = sender[p].cursor,
                                  !.through = Len(log[p[1]])]))
  /\ UNCHANGED <<log, staged, up, active, faults>>

\* Mutant: a revision is offered before its ancestry.
ExpandedAlone(s) == [s EXCEPT !.stack[Len(s.stack)].expanded = TRUE]

\* The parents go on the stack above their child, the first of them on top.
Expanded(s) ==
  LET parents == ParentList[Top(s).id]
      n == Len(parents)
  IN  [s EXCEPT !.stack =
         [@ EXCEPT ![Len(s.stack)].expanded = TRUE]
         \o [i \in 1..n |-> [id |-> parents[n + 1 - i], expanded |-> FALSE]]]

\* The answer to a probe.
AnswerHave(p) ==
  /\ wire[p].type = "have"
  /\ sender[p].phase = "probe" /\ wire[p].rev = Top(sender[p]).id
  /\ LET s == IF wire[p].known THEN Popped(sender[p]) ELSE Expanded(sender[p])
     IN  Put(p, Advanced(log[p[1]], s))
  /\ UNCHANGED <<log, staged, up, active, faults>>

\* The acknowledgement of an offer or a chunk: send the next chunk from the
\* receiver's offset, or finish.
Acknowledge(p) ==
  LET s == sender[p]
      size == SizeOf[Top(s).id]
  IN  /\ wire[p].type = "ack" /\ ~wire[p].complete
      /\ s.phase \in {"offer", "chunk"} /\ wire[p].rev = Top(s).id
      /\ wire[p].offset <= size
      /\ s.phase = "chunk" => wire[p].offset = s.offset + 1
      /\ Put(p, [s EXCEPT !.phase = IF wire[p].offset = size THEN "finish" ELSE "chunk",
                          !.offset = wire[p].offset])
      /\ UNCHANGED <<log, staged, up, active, faults>>

\* The acknowledgement of a finish.
AcknowledgeFinish(p) ==
  /\ wire[p].type = "ack" /\ wire[p].complete
  /\ sender[p].phase = "finish" /\ wire[p].rev = Top(sender[p]).id
  /\ Put(p, Advanced(log[p[1]], Popped(sender[p])))
  /\ UNCHANGED <<log, staged, up, active, faults>>

---------------------------------------------------------------------------
(***************************************************************************)
(* The receiver.                                                           *)
(***************************************************************************)
Reply(p, m) == wire' = [wire EXCEPT ![p] = m]

\* Mutant: the offset is one too small.
AckShort(r, offset, complete) ==
  [type |-> "ack", rev |-> r, offset |-> offset - 1, complete |-> complete]

Ack(r, offset, complete) ==
  [type |-> "ack", rev |-> r, offset |-> offset, complete |-> complete]

Without(f, r) == [x \in DOMAIN f \ {r} |-> f[x]]

AcceptHave(p) ==
  LET m == wire[p] IN
  /\ m.type = "have?"
  /\ Reply(p, [type |-> "have", rev |-> m.rev, known |-> m.rev \in Rows(p[2])])
  /\ UNCHANGED <<log, staged, up, sender, active, faults>>

\* begin_receive for a revision the journal has: the row is dropped.
\* Otherwise an interrupted receipt goes on where it stopped, and a new one
\* needs room in the staging table.
CanStage(b, r) == r \in Rows(b) \cup DOMAIN staged[b] \/ Cardinality(DOMAIN staged[b]) < MaxStaged

ResumeOffset(b, r) == IF r \in DOMAIN staged[b] THEN staged[b][r] ELSE 0

AcceptOffer(p) ==
  LET b == p[2]
      r == wire[p].rev
  IN  /\ wire[p].type = "offer"
      /\ CanStage(b, r)
      /\ active' = [active EXCEPT ![p] = @ \cup {r}]
      /\ IF r \in Rows(b)
         THEN /\ staged' = [staged EXCEPT ![b] = Without(@, r)]
              /\ Reply(p, Ack(r, SizeOf[r], FALSE))
         ELSE LET received == ResumeOffset(b, r)
              IN  /\ staged' = [staged EXCEPT ![b] =
                       [x \in DOMAIN @ \cup {r} |-> IF x = r THEN received ELSE @[x]]]
                  /\ Reply(p, Ack(r, received, FALSE))
      /\ UNCHANGED <<log, up, sender, faults>>

\* Mutant: the offset of a chunk is not compared.
ChunkAnywhere(b, m) == m.rev \in DOMAIN staged[b]

ChunkFits(b, m) == m.rev \in DOMAIN staged[b] /\ staged[b][m.rev] = m.offset

AcceptChunk(p) ==
  LET b == p[2]
      r == wire[p].rev
  IN  /\ wire[p].type = "chunk"
      /\ r \in active[p]
      /\ ChunkFits(b, wire[p])
      /\ staged' = [staged EXCEPT ![b][r] = wire[p].offset + 1]
      /\ Reply(p, Ack(r, wire[p].offset + 1, FALSE))
      /\ UNCHANGED <<log, up, sender, active, faults>>

\* finish_receive
CanFinish(b, r) ==
  \/ r \in Rows(b)
  \/ r \in DOMAIN staged[b] /\ staged[b][r] = SizeOf[r] /\ ParentsOf[r] \subseteq Rows(b)

\* Mutant: a revision that another connection delivered is inserted again.
FinishTwice(p) ==
  LET b == p[2]
      r == wire[p].rev
  IN  /\ wire[p].type = "finish"
      /\ r \in active[p]
      /\ CanFinish(b, r)
      /\ log' = [log EXCEPT ![b] = Append(@, r)]
      /\ staged' = [staged EXCEPT ![b] = Without(@, r)]
      /\ active' = [active EXCEPT ![p] = @ \ {r}]
      /\ Reply(p, Ack(r, SizeOf[r], TRUE))
      /\ UNCHANGED <<up, sender, faults>>

AcceptFinish(p) ==
  LET b == p[2]
      r == wire[p].rev
  IN  /\ wire[p].type = "finish"
      /\ r \in active[p]
      /\ CanFinish(b, r)
      /\ log' = [log EXCEPT ![b] = IF r \in Rows(b) THEN @ ELSE Append(@, r)]
      /\ staged' = [staged EXCEPT ![b] = Without(@, r)]
      /\ active' = [active EXCEPT ![p] = @ \ {r}]
      /\ Reply(p, Ack(r, SizeOf[r], TRUE))
      /\ UNCHANGED <<up, sender, faults>>

---------------------------------------------------------------------------
(***************************************************************************)
(* Connections, and the rest of the device.                                *)
(***************************************************************************)
\* A new connection has new senders, cursors and receivers at both ends.
Connect(c) ==
  /\ c \in Link \ up
  /\ up' = up \cup {c}
  /\ UNCHANGED <<log, staged, sender, active, wire, faults>>

Ends(c) == {p \in Pair : {p[1], p[2]} = c}

Drop(c) ==
  /\ up' = up \ {c}
  /\ sender' = [p \in Pair |-> IF p \in Ends(c) THEN FreshSender ELSE sender[p]]
  /\ active' = [p \in Pair |-> IF p \in Ends(c) THEN {} ELSE active[p]]
  /\ wire' = [p \in Pair |-> IF p \in Ends(c) THEN Silent ELSE wire[p]]
  /\ UNCHANGED <<log, staged>>

\* Network failure, timeout, restart.
Break(c) ==
  /\ c \in up
  /\ faults < MaxFaults
  /\ faults' = faults + 1
  /\ Drop(c)

\* A handler throws: the request at the receiver is refused.
Refused(p) ==
  LET m == wire[p] IN
  \/ m.type = "offer" /\ ~CanStage(p[2], m.rev)
  \/ m.type = "chunk" /\ ~(m.rev \in active[p] /\ ChunkFits(p[2], m))
  \/ m.type = "finish" /\ ~(m.rev \in active[p] /\ CanFinish(p[2], m.rev))

Refuse(p) == Refused(p) /\ Drop({p[1], p[2]}) /\ UNCHANGED faults

\* The device's own journal transactions add a revision (capture_saved, a
\* submitted merge); Inserted in Journal.
Capture(r) ==
  LET d == AuthorOf[r] IN
  /\ r \notin Rows(d)
  /\ ParentsOf[r] \subseteq Rows(d)
  /\ log' = [log EXCEPT ![d] = Append(@, r)]
  /\ UNCHANGED <<staged, up, sender, active, wire, faults>>

Handle(p) ==
  \/ AnswerHave(p) \/ Acknowledge(p) \/ AcknowledgeFinish(p)
  \/ AcceptHave(p) \/ AcceptOffer(p) \/ AcceptChunk(p) \/ AcceptFinish(p)
  \/ Refuse(p)

Next ==
  \/ \E r \in Revision : Capture(r)
  \/ \E c \in Link : Connect(c) \/ Break(c)
  \/ \E p \in Pair : Start(p) \/ Handle(p)

Spec == Init /\ [][Next]_vars

\* The threads of both ends run and reconnect; a handler that can answer does.
Fairness ==
  /\ \A c \in Link : WF_vars(Connect(c))
  /\ \A p \in Pair : WF_vars(Start(p)) /\ WF_vars(Handle(p))

FairSpec == Spec /\ Fairness

---------------------------------------------------------------------------
Entry == [id : Revision, expanded : BOOLEAN]

Sender ==
  [phase : {"idle", "probe", "offer", "chunk", "finish"},
   cursor : Nat, at : Nat, through : Nat, heads : SUBSET Nat,
   stack : Seq(Entry), offset : Nat]

Message ==
  {Silent}
  \cup [type : {"have?", "offer", "finish"}, rev : Revision]
  \cup [type : {"chunk"}, rev : Revision, offset : Nat]
  \cup [type : {"have"}, rev : Revision, known : BOOLEAN]
  \cup [type : {"ack"}, rev : Revision, offset : Nat, complete : BOOLEAN]

\* The variables hold what the code declares.
TypeOK ==
  /\ log \in [Device -> Seq(Revision)]
  /\ \A d \in Device : DOMAIN staged[d] \subseteq Revision
                       /\ staged[d] \in [DOMAIN staged[d] -> Nat]
  /\ up \subseteq Link
  /\ sender \in [Pair -> Sender]
  /\ active \in [Pair -> SUBSET Revision]
  /\ wire \in [Pair -> Message]
  /\ faults \in Nat

(***************************************************************************)
(* A cursor is sound: when a's cursor for b stands at a row, b has every   *)
(* revision of a's journal up to that row.  The sender only probed the     *)
(* heads of the window and walked down until the peer knew a revision, on  *)
(* a journal that was growing meanwhile; completed_through() lets later    *)
(* cycles skip everything below.                                           *)
(***************************************************************************)
CursorSound ==
  \A p \in Pair : \A i \in DOMAIN log[p[1]] :
    i <= sender[p].cursor => log[p[1]][i] \in Rows(p[2])

(***************************************************************************)
(* Whatever is staged can be finished: its parents are in the journal      *)
(* before the first byte is accepted, and no more is received than was     *)
(* offered.  A row of the staging table is otherwise never removed.        *)
(***************************************************************************)
StagedFinishable ==
  \A d \in Device : \A r \in DOMAIN staged[d] :
    /\ ParentsOf[r] \subseteq Rows(d)
    /\ staged[d][r] <= SizeOf[r]

(***************************************************************************)
(* A sender is never ahead of the receiver's durable receipt, although     *)
(* other connections move and remove the same staging row: what it was     *)
(* told is received is staged, or the revision is in the journal.          *)
(***************************************************************************)
AcknowledgedIsDurable ==
  \A p \in Pair :
    sender[p].phase \in {"chunk", "finish"} =>
      LET r == Top(sender[p]).id
          b == p[2]
      IN  r \in Rows(b) \/ (r \in DOMAIN staged[b] /\ staged[b][r] >= sender[p].offset)

(***************************************************************************)
(* The exchange implements the dissemination of revisions.                 *)
(***************************************************************************)
AbstractDissemination ==
  INSTANCE Dissemination WITH journal <- log

ImplementsDissemination == AbstractDissemination!Spec

(***************************************************************************)
(* Every revision a device has arrives at every device it is linked to,    *)
(* when the network fails no more: reconnecting resumes what was           *)
(* interrupted, and two senders of one revision do not keep each other     *)
(* from delivering it.                                                     *)
(***************************************************************************)
Delivered ==
  \A p \in Pair, r \in Revision : r \in Rows(p[1]) ~> r \in Rows(p[2])
============================================================================
