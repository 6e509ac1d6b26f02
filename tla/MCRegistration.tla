--------------------------- MODULE MCRegistration ---------------------------
EXTENDS Registration, TLC

CONSTANTS a1, a2, m1, m2, v1, v2, p1, p2, lo, up, cron, manual

MCAccounts == {a1, a2}
MCMembers == {m1, m2}
MCPhones == {p1, p2}
MCEmails == {lo, up}
MCLower == [e \in MCEmails |-> lo]
MCValues == {v1, v2}
MCEntered == {v1}

Of(p, e, address, photo) ==
  [phone |-> p, email |-> e, cells |-> [address |-> address, photo |-> photo]]

\* Two rows that find their accounts by number and address; an invalid row and
\* two of one address; two rows of one member.
MCSheets ==
  {<<Of(p1, up, v1, None), Of(p2, None, v1, v2)>>,
   <<Of(p1, lo, v1, v1), Of(None, None, v1, None), Of(p2, up, v1, None)>>,
   <<Of(p1, None, v1, None), Of(p2, lo, None, v2)>>}

MCRunners == {cron, manual}

Symmetry == Permutations(MCRunners) \cup Permutations(MCAccounts) \cup Permutations(MCMembers)
=============================================================================
