---------------------------- MODULE Adjudication ----------------------------
(***************************************************************************)
(* What the decision of conflicts promises, without requests or stores: of *)
(* the merges of one exact set of branches one is chosen, for ever, and a  *)
(* device admits a merge only if it is the chosen one.                     *)
(***************************************************************************)
CONSTANTS Device, Merge, BranchesOf

VARIABLES
  chosen,   \* the merges that have been chosen
  admitted  \* admitted[d]: the merges that device d builds on

Init ==
  /\ chosen = {}
  /\ admitted = [d \in Device |-> {}]

Choose(m) ==
  /\ \A n \in chosen : BranchesOf[n] # BranchesOf[m]
  /\ chosen' = chosen \cup {m}
  /\ UNCHANGED admitted

Admit(d, m) ==
  /\ m \in chosen \ admitted[d]
  /\ admitted' = [admitted EXCEPT ![d] = @ \cup {m}]
  /\ UNCHANGED chosen

Next == \E m \in Merge : Choose(m) \/ \E d \in Device : Admit(d, m)

Spec == Init /\ [][Next]_<<chosen, admitted>>
============================================================================
