------------------------------ MODULE IdIssuer ------------------------------
(***************************************************************************)
(* What the platform promises of its business identifiers, whatever issues *)
(* them: an identifier is a key (a district for Group IDs, a group for     *)
(* member IDs) and a sequence number, and the numbers issued under one key *)
(* only ever go up, so none is issued a second time, not even after the    *)
(* row that carried it is deleted.                                         *)
(***************************************************************************)
EXTENDS Naturals, Sequences

CONSTANT Key        \* what has a sequence of its own

VARIABLE issued     \* the numbers committed under each key, in that order

Init == issued = [k \in Key |-> <<>>]

Extends(new, old) ==
  /\ Len(old) <= Len(new)
  /\ \A i \in 1..Len(old) : new[i] = old[i]

Rising(s) == \A i \in 1..(Len(s) - 1) : s[i] < s[i + 1]

\* A transaction commits the numbers it drew, under one key or several.
Issue ==
  /\ issued' \in [Key -> Seq(Nat)]
  /\ \A k \in Key : Extends(issued'[k], issued[k]) /\ Rising(issued'[k])

Next == Issue

Spec == Init /\ [][Next]_issued
=============================================================================
