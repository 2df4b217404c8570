--------------------------- MODULE Dissemination ---------------------------
(***************************************************************************)
(* What the exchange of revisions promises, without messages: a device's   *)
(* journal only grows at its end, holds a revision once and after its      *)
(* parents, and a revision enters it because the device wrote it or        *)
(* because another device has it.                                          *)
(***************************************************************************)
EXTENDS Sequences

CONSTANTS Device, Revision, ParentsOf, AuthorOf

VARIABLE journal

Known(d) == {journal[d][i] : i \in DOMAIN journal[d]}

Init == journal = [d \in Device |-> <<>>]

Learn(d, r) ==
  /\ r \notin Known(d)
  /\ ParentsOf[r] \subseteq Known(d)
  /\ d = AuthorOf[r] \/ \E e \in Device \ {d} : r \in Known(e)
  /\ journal' = [journal EXCEPT ![d] = Append(@, r)]

Next == \E d \in Device, r \in Revision : Learn(d, r)

Spec == Init /\ [][Next]_journal
============================================================================
