-------------------------- MODULE MCRevisionStore --------------------------
(***************************************************************************)
(* An instance of RevisionStore: two devices edit and rename a document    *)
(* from a shared genesis, each proposes a merge of the same two branches,  *)
(* the authority decides for one, and both merges have descendants.        *)
(***************************************************************************)
EXTENDS RevisionStore

Rev(origin, path, content, parents) ==
  [origin |-> origin, path |-> path, content |-> content, parents |-> parents]

\* Bound: these revisions, by name.
Table ==
  [genesis   |-> Rev("base", "p", "A", {}),
   mine      |-> Rev("me", "p", "B", {"genesis"}),
   theirs    |-> Rev("peer", "q", "A", {"genesis"}),
   myMerge   |-> Rev("me", "p", "A", {"mine", "theirs"}),
   peerMerge |-> Rev("peer", "q", "B", {"mine", "theirs"}),
   afterMine |-> Rev("peer", "p", "B", {"myMerge"}),
   afterPeer |-> Rev("me", "q", "A", {"peerMerge"}),
   deleted   |-> Rev("me", "q", None, {"afterPeer"}),
   oldDelete |-> Rev("me", "p", None, {})]

MCRevision == DOMAIN Table
MCParentsOf == [r \in MCRevision |-> Table[r].parents]
MCOriginOf == [r \in MCRevision |-> Table[r].origin]
MCPathOf == [r \in MCRevision |-> Table[r].path]
MCContentOf == [r \in MCRevision |-> Table[r].content]
MCAncestorsOf ==
  LET ancestors[r \in MCRevision] == {r} \cup UNION {ancestors[p] : p \in Table[r].parents}
  IN  [r \in MCRevision |-> ancestors[r]]
MCDecided == {"peerMerge"}

\* None stands for every identity outside the bound.
MCSeal(origin, path, content, parents) ==
  LET same == {r \in MCRevision : Table[r] = Rev(origin, path, content, parents)}
  IN  IF same = {} THEN None ELSE CHOOSE r \in same : TRUE
============================================================================
