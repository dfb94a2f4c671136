----------------------------- MODULE MCTagEditor -----------------------------
(***************************************************************************)
(* TagEditor on small instances.                                           *)
(***************************************************************************)
EXTENDS TagEditor, TLC

CONSTANTS s1, s2, p1, p2, v1, t1, t2

\* Two tags of the first subject, of different purposes, or only the one of them
\* that may be alone of its purpose; none of the second subject.
MCSeed == t1 :> TagOf(s1, p1, v1)
MCSeedPair == MCSeed @@ (t2 :> TagOf(s1, p2, v1))

MCPurposeSets == {{}, {p1}}
==============================================================================
