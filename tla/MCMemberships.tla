--------------------------- MODULE MCMemberships ----------------------------
(***************************************************************************)
(* Ann has a login account, Bob has none.  Unity and Pride have Group IDs; *)
(* Rural is a group from before there were any.                            *)
(***************************************************************************)
EXTENDS Memberships, TLC

CONSTANTS ann, bob, Unity, Pride, Rural, r1, r2

OneWishes == {<<>>, <<Unity>>, <<Rural, Pride>>, <<Pride, Unity>>, <<Unity, Rural, Pride>>}
TwoWishes == {<<>>, <<Unity>>, <<Pride>>, <<Pride, Unity>>}
BothOrders == {<<>>, <<Unity, Pride>>, <<Pride, Unity>>}
\* Nobody has a profile yet, or everybody has and none has a group.
Empty == [member |-> [m \in Members |-> Nobody], groups |-> Groups,
          counter |-> [g \in Groups |-> 0]]
Ungrouped == [Empty EXCEPT !.member = [m \in Members |-> [Nobody EXCEPT !.live = TRUE]]]

NewOne == {Empty}
\* Two members and one group, with a counter or without; or one and two.
OneOfTwo ==
  {[Ungrouped EXCEPT !.groups = {Unity}, !.counter[Unity] = c] : c \in {0, Absent}}
    \cup {[Ungrouped EXCEPT !.member[bob] = Nobody]}
RequestSymmetry == Permutations(Requests)
=============================================================================
