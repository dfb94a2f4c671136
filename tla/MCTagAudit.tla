------------------------------ MODULE MCTagAudit ------------------------------
(***************************************************************************)
(* TagService and its trail on small instances.                            *)
(***************************************************************************)
EXTENDS TagAudit

CONSTANTS alice, bob, t1

\* alice owns the tag that is there at first; bob may be granted one thing on it.
MCSeedRow == CHOOSE row \in Row : row.owner = alice
MCGrants == {[actor |-> bob, operation |-> "update", target |-> t1]}
===============================================================================
