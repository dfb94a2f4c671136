---------------------------- MODULE MCTagPaging ----------------------------
(***************************************************************************)
(* TagPaging on a small instance.                                          *)
(***************************************************************************)
EXTENDS TagPaging, TLC

\* No constant and no property names a tag.
Symmetry == Permutations(TagIds)
============================================================================
