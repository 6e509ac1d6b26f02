------------------------------ MODULE MCContent ------------------------------
(* One item of each kind, two requests.                                   *)
EXTENDS Content, TLC

CONSTANTS k1, k2, k3, k4, r1, r2

\* No property tells one key or one request from another.
Symmetry == Permutations(Keys) \cup Permutations(Requests)
=============================================================================
