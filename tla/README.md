# Verification of ATHENA's document replication

ATHENA is a mathematical editor derived from TeXmacs. Most of its half million
lines transform data sequentially (trees, layout, fonts, conversion). The part
with the hardest control is **Hodarium**, which replicates the documents of a
Vault between the devices of a group without a trusted server: several threads,
two databases and the file system share state without a common transaction, the
user and other programs write the same files at any time, and the process may
end between any two steps, and messages between devices and with the group's
authority are lost, late or cut off. This project models that part.

Paths below are relative to the repository; `src/` in the manifest stands for its root.

## 1. Inventory

| Component | State | Operations | Hard behaviour |
|---|---|---|---|
| Revision journal, `src/Sync/Hodarium/revisions.cpp` | SQLite: revisions, parents, eligible, resolution_approvals, applied, apply_intents, incoming | receive, capture_saved, accept_resolution, prepare/abandon/finish_apply, record_applied, recover_applied_deletions, staging | callers on several threads, incremental tables, crash recovery by intents |
| Document application, `src/Sync/State/hodarium_application*.cpp` | an attempt's local variables, publication mutex | apply a head over a closed file, or through the actor that owns an open one | saves, opens and crashes between its checks |
| Worker, `src/Sync/State/hodarium_worker.cpp`, `hodarium_inventory.cpp`, `src/App/Runtime/background_workers.cpp` | inventory cache, watch revision, queues, retry timers | capture a save, inventory the Vault, infer deletions, start applications | overtaken inventories, stale notifications |
| File History, `document_history_store.cpp` | protected versions by operation | protect, reconstruct | idempotence across crashes |
| Confined file system, `src/Infrastructure/Files/confined_filesystem.cpp` | descriptors, metadata | conditional replace, create, remove | check-to-rename window |
| Editor buffers, `buffer_actor.cpp`, `new_buffer.cpp`, `QTMHodarium.cpp` | captured storage, dirty flag, notification queue | open, save, close, reload, retire | ownership changes during an application |
| Revision exchange, `revision_transfer.cpp`, `peer_replication.cpp` | cursors, staging rows | offer, chunk, acknowledge, reconnect | lost connections, two senders, budget |
| Peer network, `peer_network.cpp`, sessions of `peer_replication.cpp` | a connection per route, the selected route, sessions | dial, accept, select, activate, fail | crossing connections, deferred callbacks, data of an old route |
| Conflict decisions, `conflict_store.cpp`, `decision_feed.cpp`, `services/hodarium/internal/authority/decisions.go` | proposals, decisions, feed cursor | prepare, decide, accept, publish, acknowledge | lost answers, retries, crash between databases |
| Membership and leases, `membership.cpp`, `profile_session.cpp`, `authority/store.go` | epochs, lease, phase | renew, revoke, expel, recover | expiry during work |
| Relay, rendezvous, notifications, passkeys, vault secrets | rooms, tickets, ciphertext | join, pair, notify | expiry, capacity |
| Actor runtime, `src/App/Runtime/actor_transport.*` | rings, blobs, continuations | submit, deliver, cancel | bounded queues, lifetime |
| Watchdog, delegation queue, plugins, AUDMAP, RAG, web service | own processes | heartbeat, dispatch | later candidates |
| Document model, editor, typesetter, rendering, UI | trees, boxes | sequential transformations | not for a model checker |

How they interact: the exchange inserts revisions into the journal on its own
thread; the editor saves a file and posts a notification to the worker, which
captures it as a revision; the worker's inventory finds what no notification
reported; when the journal has a single eligible head that is not applied, the
worker starts an application thread, which protects the file's bytes in File
History, records an intent, replaces the file and finishes the intent. An open
document is handed to its actor. Decisions of the authority make merges
eligible. Everything meets in the journal and in the file.

What makes it correct: the user's bytes are never destroyed unprotected; what a
device publishes under its name is what its user did; everything the user did
is published in the end; history moves forward only and merges need a decision;
a device with a single head ends there; a crash anywhere is recovered from;
every revision reaches every device, after its parents; two devices exchange on
one route and start over together; a set of branches is decided once and
everyone builds on that decision; an expelled device is out within a lease.

## 2. Modules

| Module | Models | Notes |
|---|---|---|
| `Journal` | the journal record of one object and every transaction as an operator | no variables; shared by all others |
| `RevisionStore` | the transactions in every order | one action per method of `revision_store` |
| `Replica` | abstract specification of a device | refined by `RevisionStore` |
| `DocumentState` | shared state of one document on one device: file per path, history, buffer, queue, worker, application | variables and their helpers |
| `DocumentApply` | `apply_document_on_disk` and `apply_open_document` | one action per access to shared state |
| `DocumentCapture` | `saved()`, inventory, `reconcile_deletions` | one action per access to shared state |
| `DocumentSync` | composition with user, other programs, delivery and crashes; properties | |
| `RevisionExchange` | `vault_revision_sender`, `revision_receiver` and the staging table, on every connection of a graph of devices | one action per message handled |
| `Dissemination` | abstract specification of the exchange | refined by `RevisionExchange` |
| `PeerRoutes` | `peer_network` at two ends, sessions of `peer_replication` | one action per event of an event loop |
| `ConflictDecision` | proposals, the authority's decisions, the decision feed, admission to the journals | one action per commit; uses `Journal` |
| `Adjudication` | abstract specification of decisions | refined by `ConflictDecision` |
| `Membership` | publications, validation, lease, clocks and sleep | one action per handler |
| `JournalProofs`, `RevisionStoreProofs`, `DocumentSyncProofs`, `RevisionExchangeProofs`, `ConflictDecisionProofs`, `MembershipProofs`, `PeerRoutesProofs`, `PairingProofs` | lemmas and theorems | TLAPS |
| `MCRevisionStore`, `MCDocumentSync`, `MCRevisionExchange`, `MCConflictDecision` | instances for TLC | revision graphs and bounds |

**Correspondence.** A revision's identity is the hash of its descriptor and
payload, so revisions are a constant graph (`ParentsOf`, `PathOf`, `ContentOf`)
and `Seal` maps fields to identities. A payload is its fingerprint; `None` is a
tombstone or a missing file. `journal.rowid` is SQLite's rowid (receipt order).
`disk[p].stamp` stands for the metadata that `same_revision` compares; every
write gets a new one. `app.pc` names the point `apply_document_on_disk` has
reached; an exception is `Throw`, a `live_source` is `Defer`. `work` is a call
of `saved()` between reading the applied revision and `capture_saved`.
`scan.phase` follows `inventory_sources` (list, read) and `inventory_step`
(capture, protect, check, tombstone, end). `stale` says that the watch's
revision differs from `observed`; `source_watch::revision` drains inotify, so an
event is never late. `authored` is a history variable: what the user wrote to a
path since the application last wrote it.

In `RevisionExchange`, `log[d]` is the revisions table by rowid, `staged[d]` the
incoming table, `sender[<<a, b>>]` what a's end of a connection knows about b
(its stack is the ancestry being walked) and `wire` the one request of a
direction or its answer. An exception in a handler is `Refuse`, a failing
network `Break`: the connection ends and both ends start over. In `PeerRoutes`,
`link`, `selected` and `selecting` are `links_`, `selected_` and `selecting_`;
frames 3, 4 and 5 are ask, agree and go; `callbacks` are the closed callbacks
that run in a later turn of the event loop. In `ConflictDecision`, `events` is
the authority's decision_events, the stores of a device are one function each
per table, and `call[d].step` says between which two commits the owner's thread
is. In `Membership`, `epochs` are the signed publications, a lease holds the two
clocks when it began and when it was last looked at, and `now` is real time,
which no device can read.

How they fit together: the exchange and the routes deliver what `RevisionStore`'s
`Receive` takes in; `ConflictDecision` uses the operators of `Journal` itself, so
a decided merge enters the journal by the transaction that is proved about; its
`Deliver` is what `RevisionExchange` shows to arrive. `RevisionExchange` assumes
that both ends of a connection start over together, which `PeerRoutes` shows
(`ExchangesPaired`). `Membership` decides when all of this may run.

**Abstractions.** One object of one Vault; two paths in different directories.
Timers (5 s after a failed application, 30 s after a failed inventory, 2 s poll)
are nondeterminism plus fairness. Loss of authorization, pause, a busy mutex and
the 5 s deadline of a live application are the `Interrupt` and `LiveTimeout`
steps, which may happen at any gate that no other buffer closes. The queue's byte
budget is `MaxQueue`. Peers deliver at most `MaxDeliveries` revisions, which may be
rivals. Other programs write, remove and move the file and may bring a removed one
back at any path; they do not make a second copy of it.
A conditional write is atomic with its check; the few system calls between
`check_revision` and `renameat` are listed as a hazard. Namespace records,
artifact paths and the history's path rename of a renaming revision belong to
its `Verify` step. A retired buffer is closed at once. Failing disks
(directory sync, short writes) and the XML version checks are left out.

In `RevisionExchange` a payload is its number of chunks, and the 32 staging rows
are `MaxStaged`; the Vaults that the two ends have in common are one. In
`PeerRoutes` probes and costs are a free choice of a better route, and a handshake
completes at an end only while the other end still has the connection, where the
code learns of its loss a moment later. Data of an old
session may reach the new session of a route that was selected again; the code
then ends the connection ("Invalid Vault announcement"), and so does the model.
In `ConflictDecision` a question that only reads and its answer are one step (a
lost question is like a lost answer), the order in which pending work is taken up
is left open, and the feed's `handled` column, which `acknowledge` writes and only
tests read, is left out. A request carries the epoch of its sender and is refused
in another; such a refusal is a request that failed. In `Membership` an error of
another source may take the phase's place at any time (`Obscure`).

## 3. Runs

| Run | Instance | Shows |
|---|---|---|
| `revision_store` | nine revisions: genesis, two branches, two rival merges with descendants, a tombstone, a recovered deletion; one merge decided | consistency of the journal in every order, refinement of `Replica` |
| `document_sync` | two deliveries out of an update, a second one on it, a deletion and a rename by another peer; two user actions of all kinds; one crash | `PreimageSafe`, `CapturesAreAuthored`, `InventoriedIsCurrent`, `DeletionIsOfMissing`, types and `JournalSteps` |
| `document_recovery` | the same deliveries, two opens, two crashes, fairness | `Converges` |
| `document_capture` | no delivery, three user actions, the genesis' bytes among what is written, one crash, fairness | `EditsCaptured` |
| `intents_settle` | one update, one edit (violated) | an intent that is never settled |
| `rename_delete` | rename, then deletion of the renamed document (violated) | a head that is never applied |
| `exchange_walk` | two devices, two documents, a merge of both devices' branches; pages of one head; one fault | `CursorSound`, `StagedFinishable`, types |
| `exchange_contention` | three devices, all linked, one revision of two chunks, fairness | `AcknowledgedIsDurable`, refinement of `Dissemination`, `Delivered` |
| `exchange_staging` | a staging table of one row, one interrupted revision, one later save (violated) | a receipt that blocks all others |
| `peer_routes` | a direct route and a relay, both ends dial, one failure or change of route, fairness | `ExchangesPaired`, `RoutesAgree`, types |
| `conflict_decision` | two devices, rival merges, a save on a branch, pages of one decision, one fault, fairness | refinement of `Adjudication`, `OnlyWinnersTravel`, `FeedComplete`, `ProposalsSettle`, `WinnersAdmitted`, types |
| `membership` | three members, a device, two publications, two troubles, fairness | `ExpulsionTakesEffect`, `Reauthorized`, types |

* `PreimageSafe`: a file the application replaces or removes holds exactly the
  applied revision, is protected, and is not open elsewhere or dirty.
* `CapturesAreAuthored`: a captured revision, a tombstone included, is something
  the user did to that path since the application last wrote there.
* `InventoriedIsCurrent`: with a completed inventory, a quiet watch and idle
  threads, the files are those of the applied revision.
* `DeletionIsOfMissing`: `reconcile_deletions` goes on to a tombstone only when
  the document is at no path and no buffer has its path open, and none opens it
  until the tombstone is captured, although only the applied path is looked at.
* `JournalSteps`: the threads change the journal only as `RevisionStore` allows.
* `EditsCaptured`: once the document is closed for good the files become those of
  the applied revision and stay so, as long as no file is given back the bytes
  that its waiting notification replaced (`[]~Restored`, see section 4).
* `Converges`: the only head becomes the applied revision. It assumes that
  interruptions end (`Undisturbed`) and that in the end an open document is the
  applied one, without unsaved changes (`<>[]Available`).
* `IntentsSettle`: an application does not stay unfinished, under `Undisturbed`
  and with the document closed in the end.
* `CursorSound`: what lies below a sender's cursor is in the peer's journal,
  although only heads were probed and the journal grew meanwhile.
* `StagedFinishable`, `AcknowledgedIsDurable`: a staging row can be completed,
  and no sender is ahead of it, although several connections move it.
* `Delivered`: every revision arrives on every link. It holds where the staging
  table has room and is violated where it is full (`exchange_staging`).
* `ExchangesPaired`: an exchange takes messages of one exchange of the other end
  only. `RoutesAgree`: after the last failure both ends work on one route.
* `OnlyWinnersTravel`: a merge in any journal is the one that was chosen.
  `FeedComplete`: the feed has every decision up to its cursor.
* `ProposalsSettle`, `WinnersAdmitted`: every proposal is published or reported
  as retained, and every chosen merge is admitted everywhere.
* `ExpulsionTakesEffect`: a lifetime after an expulsion no device works with the
  expelled one. Real time may exceed the lifetime only by what a sleep and a
  clock set back hide from both clocks at once (`Hidden`).
* `Reauthorized`: a member that lost its lease gets one again.

**Bounds.** Two paths give one rename; three contents besides the genesis tell
apart peer and user and allow a second save; a queue of one makes dropping
happen; one crash falls between any two steps, two also hit the recovery. The
graphs are finite (`MaxCaptures` local captures on a delivered revision): a
capture that would leave the graph is disabled, and each run's number of edits
keeps within it. In `document_sync` user contents differ from the peer's, so that
bytes of an applied revision that the user restores (ABA) are outside it; the
theorems of section 4 cover them up to a stated condition, and `document_capture`
has them: its user may write the genesis' bytes again. Two deliveries give a chain
or two rivals, which leave two heads and nothing to apply. The passing runs
have between about 10 000 and 1.4 million states. Deadlock is not an error: a device
whose work is done has nothing to do until the user or a peer acts, and real
time ends at `MaxTime`.

A triangle is the smallest graph in which two senders offer one revision to a
third device; two devices suffice for the walk, whose history has a merge of
branches of both. Pages of one head or one decision make every list longer than
a page. One connection per dialling end and route is enough for crossing: a
number is used again once nobody refers to it. In `conflict_decision` one device
follows the feed and the other always asks: a feed influences its own device
only. The save `c` makes x's merge one of the branches of a further conflict, so
that decisions depend on one another. In `membership` one device is followed,
since devices meet only at the authority; lifetime 2 and tolerance 1 keep the
order of the code's 24 h and 2 s, and a clock off by one is within the tolerance
while two changes exceed it.

**Fairness** (`FairSpec`). Threads that can step do (weak fairness of the
worker's calls, of the scan and of the application). Starting a scan and
starting an application exclude each other; each backs off after a failure (5 s,
30 s) and thereby leaves room for the other, hence strong fairness for both.
Nothing is assumed of the user, of delivery or of crashes. `Converges` and
`IntentsSettle` assume that interruptions end: `Undisturbed` says that from some
time on no step is an `Interrupt` or a `LiveTimeout`. (Meeting an open document is
neither: `Interrupt` has no other buffer at either path. Where an interruption
falls together with a step of the application that ends the same way, that step
counts.) Without it a mutex that is busy at every attempt would refute both. In `RevisionExchange` links
reconnect, senders start and what has arrived is handled; in `PeerRoutes` event
loops run: frames, callbacks and timers are served; in `ConflictDecision` the
owner's timer runs (it is one thread: weak fairness of all its steps together),
the authority answers, and revisions travel, while nothing is assumed of users,
of late requests and of the feed; in `Membership` the authority answers, the
timer runs, and a machine asleep or a session suspended comes back. The number
of faults is bounded in each, so they end.

**What the violated runs show.** (1) A save between `prepare_apply` and the
inspection of the file makes every further attempt throw; the intent is taken
back only on the `live_source` path of the attempt that prepared it, and while it
is pending the save cannot be captured. (2) Only heads are applied, so a rename
may be skipped; the tombstone that follows is refused because its path is not
the applied one. (3) A
revision whose receipt was cut off keeps its row of the staging table until it
is offered again; when the rows are used up, every other offer is refused and
ends the connection, and a sender that begins with another revision never gets
to the one that would free a row. Each is quoted against the repository's text in the manifest.

**An open document that was renamed.** `Converges` needs `<>[]Available`. If a
rename has been published at its new path, the process ends before `finish_apply`
and the user opens the document there and leaves it open, every attempt is
deferred by `ensure_closed`, since the target's path has an owner, and then
declined, since `apply_open_document` looks for an owner of the applied, old path
(hodarium_application_live.cpp:44). TLC finds this repetition when the assumption
is left out. It ends when the document is closed. A buffer with unsaved changes is
declined on purpose.

## 4. Proofs

Every theorem is of the specification itself, for all values of the constants
that satisfy the named assumptions; two of them are of the behaviors of `Spec` in
which a stated condition holds throughout (`InventoryIsCurrent`: `[]~Restored`,
`CapturesAreTheUsers`: `[]~Echoed`). A proof module has one inductive invariant,
`IInv` (`Inductive`: `Spec => []IInv`; TLC found it true on the instances before
it was proved), one lemma per group of actions that it is preserved by, and the
theorems that follow. No part named below is inductive alone.

**Assumptions.** `GraphAssumption` and `AncestryAssumption` say what content
hashing gives: fields determine the identity, ancestry is the acyclic closure of
parents. `StoreAssumption` and `DeviceAssumption`: this device is a member, and
the origin of an inventory's genesis, a fixed string, is not a member's identity,
which the authority draws at random; and a buffer without a path has none of the
Vault's. `StartAssumption`: `ConflictDecision` starts
with a consistent journal that has no merges and no decisions. `NoneAssumption`: no
connection and no session number is the value that stands for their absence.
`SyncAssumption`, `ExchangeAssumption`, `MembershipAssumption`,
`DecisionAssumption` and `RoutesAssumption` (which says that the configured routes
are finitely many) give the constants their types. TLC evaluates each of them in the runs.

| Module | Theorem | Property |
|---|---|---|
| `RevisionStoreProofs` | `JournalConsistent` | the inductive invariant, `Consistent(journal)` |
| | `TypeCorrect`, `ReceiptOrder`, `Eligibility`, `AppliedAdmitted`, `UnfinishedResumable`, `CompletedNeverUndone` | its parts, as the runs check them |
| | `RefinesReplica` | `ImplementsReplica` |
| `DocumentSyncProofs` | `Inductive`, `TypeCorrect` | `IInv`, `TypeOK` |
| | `UserBytesSurvive` | `PreimageSafe` |
| | `JournalByTransactions` | `JournalSteps` |
| | `MarksHold`, `InventoryIsCurrent` | `CInv`, `InventoriedIsCurrent`, given `[]~Restored` |
| | `OriginsHold`, `CapturesAreTheUsers` | `AInv`, `CapturesAreAuthored`, given `[]~Echoed` |
| | `DeletionsAreOfMissing` | `DeletionIsOfMissing` |
| `RevisionExchangeProofs` | `Inductive`, `TypeCorrect` | `IInv`, `TypeOK` |
| | `CursorsSound`, `StagedCanFinish`, `AcknowledgedStays` | `CursorSound`, `StagedFinishable`, `AcknowledgedIsDurable` |
| | `RefinesDissemination` | `ImplementsDissemination` |
| `ConflictDecisionProofs` | `Inductive`, `TypeCorrect` | `IInv`, `TypeOK` |
| | `WinnersTravel`, `FeedSkipsNothing` | `OnlyWinnersTravel`, `FeedComplete` |
| | `RefinesAdjudication` | `ImplementsAdjudication` |
| `MembershipProofs` | `Inductive`, `TypeCorrect` | `IInv`, `TypeOK` |
| | `Expulsion` | `ExpulsionTakesEffect` |
| `PeerRoutesProofs` | `TypeCorrect` | `TypeOK` |
| `PairingProofs` | `Inductive` | `IInv` |
| | `PeersPaired` | `ExchangesPaired` |

**Journal.** `Consistent` joins types, receipt order, exact eligibility, applied
eligible, resumable intent and completed operations in the applied history.
`AppliedEligible` needs exact eligibility, because a capture may meet its own
identity in the journal, and it is then eligible only because its single parent
is; exactness after a decision needs receipt order, because one ordered pass must
reach every waiting descendant; `CompletedStaysApplied` needs the resumable
intent, whose target descends from the applied revision. `JournalProofs` has one
lemma per transaction; the modules below that write a journal reuse them.

**Document synchronization.** `PreimageSafe` speaks of one step, but its reason
lies steps back: `publish` compares the file with `app.source` only. `IInv`
carries the chain: `ObserveSource` found the applied revision's bytes
(`AppSound` at "protect"), `ProtectSource` put them in File History ("prepare"),
`PrepareIntent` recorded them in an intent (`IntentsSound`: an intent's preimage
is its base's bytes and protected, which outlasts crashes), `Inspect` read them
again ("publish", "remove"), and the base is still applied because an unfinished
intent stops every other transaction (`Resumable`). History is only added to
(`HistoryKept`), so a step of another thread breaks none of this (`AppKept`). An
application by an owner needs a clean buffer all along. `JournalSteps` needs for a capture
that a notification never carries an absent file, for a tombstone that its base
has a content, and for an intent that the observed source is the base's.

*What the conditions say.* A notification carries the bytes that a save wrote and
those it replaced, and `capture_saved` (revisions.cpp:309) compares the latter
with the applied revision, never with the file. If the file is given the replaced
bytes back while the notification waits (`Restored`), or any file holds them
(`Echoed`, which includes the first), the comparison succeeds for a save that was
undone. TLC then refutes both properties: a user saves L over A, restores A, an
inventory finds A applied and has nothing to do, and the notification makes L the
applied revision, which the file does not hold; or an application brings back the
bytes that a queued save had replaced, and that save, which is no longer on disk,
is captured on top of them. Neither asks for an inventory, so that the file differs
from the applied revision for good, unless a later change that the watch reports, a
restart or a completed application brings one. `EditsCaptured` is false of the first
for the same reason, and has the same condition. The theorems show that there is no other way to it. Both
conditions are of states (`Notices` are the queued saves and the one at work);
`UnrestoredSpec` and `UnechoedSpec` are `Spec` with them, in a form that TLC takes.
With `UserContent = {"L", "A"}` and three edits in `DocumentSync.cfg`, TLC finds
both properties violated under `Spec` and true under `UnechoedSpec`.

*Inventory.* `CInv` is `IInv` with what the worker knows. A file is `Marked` if
the cache, or the inventory in progress, has its stamp; `MarkedIsApplied` says
that such a file holds what is applied, and `StampsKnown` that a stamp of the
past is never met again on other bytes. The reason that nothing is missed is the
order of the inventory: a directory is watched before it is listed (`ListSound`),
so that a change since is either in the list or makes it `stale`; a capture that
was refused or overtaken sets `retry` (`ScanComplete`), so that an inventory that
ends without it has captured everything. What breaks marks is a change of the
applied revision: a capture does it only for bytes that replace the applied ones,
which by `~Restored` are in no file at that path, and the application only after
`Verify` (`AppMarks`). From `Known`, `InventoriedIsCurrent` follows.

*Origins.* `AInv` adds to it where every file comes from: the user since the
application last wrote there (`Mine`), the applied revision, or an unfinished
application (`FilesAuthored`); an empty disk is the user's removal
(`EmptyAuthored`). A queued save that an application wrote over is not `Mine`,
and must be refused: `LateForeign` says that it, and every save queued before
it, names replaced bytes other than those applied now or about to be. Whatever
makes a revision applied keeps this, an application because its `Verify` finds
the target's bytes in a file, which by `~Echoed` no waiting notification names;
the capture of a notification because none behind it was written over, or it would
have been refused itself; and that of an inventory because the bytes it found in a
file are not those that such a save replaced (`WorkAuthored`). A capture is refused
while an application is unfinished, so that `Settled` states alone need be spoken of.

*Deletions.* `LInv` is `IInv` with `Looked`: a directory that was listed is watched
(`LookedList`), after the listing all are and what was not met is absent unless the
watch has seen a change or a file was dropped with `retry` (`LookedAll`), and a
deletion is looked into only when no file was met, while no capture is under way
(`LookedNone`). It needs no condition on notifications, unlike the parts of `CInv`
that resemble it, because it says nothing of what is applied.

**Exchange.** `CycleSound` is what makes `CursorSound` inductive: every head of a
window is at the peer, is still to be fetched, is the bottom of the stack being
walked, or lies beyond the page; a cycle that ends has none of the others left,
and what is below a head follows because journals are closed under parents.
`StackSound` says that the parents of an expanded revision are at the peer or
above it on the stack, hence an offer finds its parents there; `PhaseSound` and
`WireSound` tie the one message under way to what the sender waits for, so that a
late answer cannot be taken for another. The staging rows are shared by all
connections: rows only grow until they become revisions (`ReceivedTo`).

**Decisions.** `DecidedOnce` needs that the authority looks for a decision of the
same branches in the transaction that records one; `OnlyWinnersTravel` that the
local tables and every answer under way are the authority's (`TablesSound`,
`CallSound`), also when the answer belongs to a call that was given up (`Asked`).
`FeedComplete` needs that a page under way begins where it was asked for
(`PageSound`) and that `events` is only appended to.

**Membership.** `LeaseRecent`: a lease begins no later than the publication it
carries was current, because the moment of the request is taken before it is
sent and its answer carries a list no older than the question (`AnswersRecent`);
validity asks both clocks, and one of them hides no more than `Hidden` of the
time since, from which `ExpulsionTakesEffect` follows by arithmetic.

**Routes.** `PeerRoutesProofs` shows what each end keeps (`Shapes`) and how it
hangs together (`Wiring`): a connection works only in its place, has no session
before its handshake, and at `lo` is never displaced, so that `lo` never asks for
the route it has selected. `PairingProofs` adds the frames. On a connection `ask`
comes last in what `lo` sends, and nothing follows it until `agree` is read; `go`
comes first (`Channel`). So when `lo` activates a route it has read what the
instance `hi` had before sent ahead of `agree`, and what that instance still sends
is not accepted, because the new instance wants an announcement first and no old
one announces and then sends data behind `agree` (`Clear`, `Poised`). `hi` reads
`go` before anything of the new instance, and everything of `lo` that it has not
read comes from one instance (`Carried`). `Paired` says for each point of this
whose pairs the two instances are in: none while `go` is under way, each other's
after that. `Separate` keeps an instance to one connection, so that data on a
displaced connection or on the old route pairs nothing. Numbers of instances are
used again; `FreshInstance` shows that a new one is named by no frame and no pair.

**Only model-checked.**

* All liveness (`Delivered`, `RoutesAgree`, `EditsCaptured`, `Converges`,
  `ProposalsSettle`, `WinnersAdmitted`, `Reauthorized`): fairness and ENABLED are
  out of the prover's reach.
* `CapturesAreAuthored` and `InventoriedIsCurrent` where a file comes to hold the
  bytes that a waiting notification replaced. They are false of some of these
  behaviors, so there is no theorem about them; `document_sync` has others, in
  which the properties hold.

## 5. Plan

1. Done: journal, abstract replica, document synchronization.
2. Done: exchange of revisions, routes, conflict decisions, membership.
3. Done: theorems for the safety properties and refinements of all of these, but
   for the ones that section 4 leaves to TLC.
4. Further components: `ActorTransport` (bounded rings, continuations with
   cancellation, actor lifetime), the relay's rooms, enrollment, recovery
   settlement, resources and logical databases as further appliers.

## 6. Not modelled

Enrollment (Join, Poll, Resolve), the registration of Vault secrets, presence
and the relay's rooms; a denial for an expired challenge. Cryptography, TLS, key stores and enrollment (delivery is taken as
authenticated); user interface; document formats; typesetting; search and
external services; the web service. Reasons are with each component in
`PROJECT.json`.
