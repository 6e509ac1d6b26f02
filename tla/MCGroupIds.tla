----------------------------- MODULE MCGroupIds -----------------------------
(***************************************************************************)
(* One district, for which three creates compete (GroupIdsProofs has any   *)
(* number of both).  Elsewhere is no configured city.                      *)
(***************************************************************************)
EXTENDS GroupIds

CONSTANTS r1, r2, r3, Unity, Pride, MP09, Indore, Elsewhere

MCOneCity == [c \in {Indore} |-> MP09]

None == [d \in Districts |-> Absent]
PrideGroup == [name |-> Pride, city |-> Indore, id |-> <<MP09, 1>>]

\* A new deployment; one with a group from before the district counters; and
\* a restored one, whose counter is behind the group that is stored.
New == [groups |-> {}, counter |-> None]
Legacy == [groups |-> {PrideGroup}, counter |-> None]
Lagging == [groups |-> {PrideGroup}, counter |-> [None EXCEPT ![MP09] = 0]]

AllDeployments == {New, Legacy, Lagging}
=============================================================================
