--------------------------- MODULE MembershipList ---------------------------
(***************************************************************************)
(* What the memberships of a member look like from outside: an ordered     *)
(* list of groups without repetition, the first of which is the primary    *)
(* one.  Whoever changes a list, by whichever request, keeps the order of  *)
(* the groups that stay and puts the groups that join behind them.         *)
(***************************************************************************)
EXTENDS Sequences, SequencesExt

CONSTANTS Members, Groups

VARIABLE list

Lists == {s \in Seq(Groups) : IsInjective(s)}

TypeOK == list \in [Members -> Lists]

Init == TypeOK

\* g comes before h in s.
Before(s, g, h) == \E i, j \in DOMAIN s : i < j /\ s[i] = g /\ s[j] = h

\* s becomes t: what comes before an old group is old, and came before it.
Follows(s, t) ==
  \A g, h \in Groups : Before(t, g, h) /\ h \in ToSet(s) => Before(s, g, h)

Change(m) ==
  /\ TypeOK'
  /\ Follows(list[m], list'[m])
  /\ \A o \in Members \ {m} : list'[o] = list[o]

\* A group is dissolved: it leaves every list, and nothing else moves.
Dissolve(g) ==
  /\ TypeOK'
  /\ \A m \in Members : /\ ToSet(list'[m]) = ToSet(list[m]) \ {g}
                        /\ Follows(list[m], list'[m])

Next == (\E m \in Members : Change(m)) \/ (\E g \in Groups : Dissolve(g))

Spec == Init /\ [][Next]_list
=============================================================================
