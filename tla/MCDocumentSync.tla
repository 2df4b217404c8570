--------------------------- MODULE MCDocumentSync ---------------------------
(***************************************************************************)
(* Instances of DocumentSync.  Revisions are numbered: the first are those *)
(* that peers deliver, the others what this device can capture on top of   *)
(* each, in a fixed order.                                                 *)
(***************************************************************************)
EXTENDS DocumentSync

CONSTANT MaxCaptures   \* bound on local captures on top of a delivered revision

Rev(origin, path, content, parents) ==
  [origin |-> origin, path |-> path, content |-> content, parents |-> parents]

Start == 1
Update == 2
Update2 == 3
Delete == 4
Rename == 5
DeleteRenamed == 6

Delivered ==
  <<Rev("base", "p", "A", {}),
    Rev("peer", "p", "T", {Start}),
    Rev("peer", "p", "A", {Update}),
    Rev("peer", "p", None, {Start}),
    Rev("other", "q", "T", {Start}),
    Rev("other", "q", None, {Rename})>>

MCIncomingNone == {}
MCIncomingUpdate == {Update}
MCIncomingAny == {Update, Update2, Delete, Rename}
MCIncomingRenameDelete == {Rename, DeleteRenamed}

\* What the device can capture, as <<path, content>>.
Snapshot ==
  <<<<"p", "A">>, <<"p", "L">>, <<"p", "M">>, <<"p", "T">>, <<"p", None>>,
    <<"q", "A">>, <<"q", "L">>, <<"q", "M">>, <<"q", "T">>, <<"q", None>>>>

Kinds == Len(Snapshot)
First == Len(Delivered)
Child(base, kind) == First + (base - 1) * Kinds + kind

MCRevision ==
  LET last[n \in 0..MaxCaptures] == IF n = 0 THEN First ELSE First + last[n - 1] * Kinds
  IN  1..last[MaxCaptures]

Descriptor ==
  [r \in MCRevision |->
     IF r <= First THEN Delivered[r]
     ELSE LET base == ((r - First - 1) \div Kinds) + 1
              shot == Snapshot[((r - First - 1) % Kinds) + 1]
          IN  Rev("me", shot[1], shot[2], {base})]

MCParentsOf == [r \in MCRevision |-> Descriptor[r].parents]
MCOriginOf == [r \in MCRevision |-> Descriptor[r].origin]
MCPathOf == [r \in MCRevision |-> Descriptor[r].path]
MCContentOf == [r \in MCRevision |-> Descriptor[r].content]
MCAncestorsOf ==
  LET ancestors[r \in MCRevision] == {r} \cup UNION {ancestors[p] : p \in Descriptor[r].parents}
  IN  [r \in MCRevision |-> ancestors[r]]

\* None stands for every identity outside the bound.
MCSeal(origin, path, content, parents) ==
  IF origin = "me" /\ parents # {} /\ <<path, content>> \in {Snapshot[k] : k \in 1..Kinds}
  THEN LET base == CHOOSE r \in parents : TRUE
           kind == CHOOSE k \in 1..Kinds : Snapshot[k] = <<path, content>>
       IN  IF Child(base, kind) \in MCRevision THEN Child(base, kind) ELSE None
  ELSE LET same == {r \in 1..First : Delivered[r] = Rev(origin, path, content, parents)}
       IN  IF same = {} THEN None ELSE CHOOSE r \in same : TRUE
============================================================================
