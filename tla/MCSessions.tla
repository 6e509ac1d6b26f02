---- MODULE MCSessions ----
(***************************************************************************)
(* No account yet; a member that was approved and is logged in.            *)
(***************************************************************************)
EXTENDS Sessions, TLC

CONSTANTS pw, r1, r2

MCPasswords == {pw}
MCRequests == {r1, r2}

MCStarts ==
  {[user |-> [state |-> "none", active |-> FALSE, password |-> None], status |-> "none",
    tokens |-> <<>>],
   [user |-> [state |-> "live", active |-> TRUE, password |-> pw], status |-> "APPROVED",
    tokens |-> <<[live |-> TRUE, family |-> 1]>>]}

Symmetry == Permutations(MCRequests)
====
