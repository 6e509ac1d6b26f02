----------------------------- MODULE MCIdFormat -----------------------------
(***************************************************************************)
(* The sequences on both sides of every change of width, for two members.  *)
(***************************************************************************)
EXTENDS IdFormat, TLC

CONSTANTS ann, bob

MemberSymmetry == Permutations(Members)
=============================================================================
