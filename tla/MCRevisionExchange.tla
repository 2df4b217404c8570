------------------------- MODULE MCRevisionExchange -------------------------
(***************************************************************************)
(* Instances of RevisionExchange.  Race: three devices, all linked, and    *)
(* one revision, so that two senders offer the same revision to the        *)
(* third.  Walk: two devices and a history with a merge, in both           *)
(* directions.  Staging: the histories of two documents at one device.     *)
(***************************************************************************)
EXTENDS RevisionExchange

Rev(author, size, parents) == [author |-> author, size |-> size, parents |-> parents]

RaceTable ==
  [g |-> Rev("x", 2, <<>>)]

WalkTable ==
  [g |-> Rev("x", 1, <<>>),
   a |-> Rev("x", 1, <<"g">>),
   b |-> Rev("y", 1, <<"g">>),
   m |-> Rev("y", 0, <<"a", "b">>),
   k |-> Rev("x", 1, <<>>)]

StagingTable ==
  [d1 |-> Rev("x", 2, <<>>),
   e1 |-> Rev("x", 2, <<>>),
   d2 |-> Rev("x", 1, <<"d1">>)]

CONSTANT Table

MCRevision == DOMAIN Table
MCParentList == [r \in MCRevision |-> Table[r].parents]
MCAuthorOf == [r \in MCRevision |-> Table[r].author]
MCSizeOf == [r \in MCRevision |-> Table[r].size]

Triangle == {{"x", "y"}, {"y", "z"}, {"x", "z"}}
OneLink == {{"x", "y"}}
============================================================================
