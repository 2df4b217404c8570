------------------------- MODULE MCConflictDecision -------------------------
(***************************************************************************)
(* Two devices that share the branches a and b.  Each may merge them;      *)
(* device y may also save c on top of b, at any time, which leaves a       *)
(* conflict between x's merge and c when that merge is chosen.             *)
(***************************************************************************)
EXTENDS ConflictDecision

a == 1
b == 2
c == 3
mx == 4
my == 5
ey == 6

MCRevision == 1..6
MCParentsOf ==
  [r \in MCRevision |->
     CASE r \in {a, b} -> {}
       [] r = c -> {b}
       [] r \in {mx, my} -> {a, b}
       [] r = ey -> {mx, c}]
MCOriginOf == [r \in MCRevision |-> IF r \in {a, mx} THEN "x" ELSE "y"]
MCAncestorsOf ==
  [r \in MCRevision |->
     CASE r \in {a, b} -> {r}
       [] r = c -> {b, c}
       [] r \in {mx, my} -> {a, b, r}
       [] r = ey -> {a, b, c, mx, ey}]

\* Contents and paths play no part here: the revision stands for its content.
MCContentOf == [r \in MCRevision |-> r]
MCPathOf == [r \in MCRevision |-> "p"]
MCSeal(origin, path, content, parents) ==
  IF content \in MCRevision /\ MCOriginOf[content] = origin /\ MCParentsOf[content] = parents
  THEN content ELSE None

MCStart == Inserted(Inserted(EmptyJournal, a), b)
============================================================================
