------------------------------ MODULE Replica ------------------------------
(***************************************************************************)
(* What a device promises about one replicated object, with none of the    *)
(* tables that bring it about: a set of admitted revisions that only       *)
(* grows, is closed under parents and holds a merge only if the authority  *)
(* decided for it, and an installed revision that is admitted and moves    *)
(* only forward along causal history.                                      *)
(***************************************************************************)
CONSTANTS Revision, None, ParentsOf, AncestorsOf,
          Decided   \* merges the authority's decisions name

VARIABLES admitted, installed

vars == <<admitted, installed>>

Merges == {r \in Revision : \E p, q \in ParentsOf[r] : p # q}

Init ==
  /\ admitted = {}
  /\ installed = None

\* Learn of further revisions, several at once when a decision releases them.
Admit ==
  /\ admitted' \subseteq Revision
  /\ admitted \subseteq admitted'
  /\ \A r \in admitted' \ admitted : ParentsOf[r] \subseteq admitted'
  /\ (admitted' \ admitted) \cap Merges \subseteq Decided

\* Install r over the revision it descends from.
Install(r) ==
  /\ r \in admitted'
  /\ installed = None \/ installed \in AncestorsOf[r]
  /\ installed' = r

Next ==
  /\ Admit
  /\ installed' = installed \/ \E r \in Revision : Install(r)

Spec == Init /\ [][Next]_vars
============================================================================
