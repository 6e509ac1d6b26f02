------------------------------ MODULE IdFormat ------------------------------
(***************************************************************************)
(* The texts of Group IDs and member IDs (format_group_id,                 *)
(* format_member_id) and the one place that reads them back: when a member *)
(* joins a group, assign_member_id takes a visible number that looks like  *)
(* one of the group's (membership_number_matches) for its own and draws no *)
(* other.  The models of the counters (GroupIds, Memberships) take a       *)
(* number and its key for the identifier; this module asks when the text   *)
(* identifies them.                                                        *)
(*                                                                         *)
(* All groups are of one district: the prefix of two letters and two       *)
(* digits is the same for all of them and left out.  What follows it is    *)
(* decimal text, of which the length and the value say everything.         *)
(***************************************************************************)
EXTENDS Integers, FiniteSets

CONSTANTS
  Members,
  GroupSeqs,      \* group sequences of the district: the boundaries of widths
  MemberSeqs,     \* values a member counter can have reached
  MaxJoins        \* bound: memberships started

\* Both sequences are columns of type Integer, of ten digits at most.
MaxInteger == 2147483647
MaxDigits == 10

ASSUME Widths == GroupSeqs \cup MemberSeqs \subseteq 1..MaxInteger

VARIABLES
  last,       \* group_member_counters.last_member_seq of each group
  held,       \* held[m][g]: the number of m's membership in g
  visible,    \* members.membership_number
  users,      \* the members with a login account: they get GroupMember rows
  refused     \* the group and number of a join that was answered 409, 0 for a
              \* number that was not drawn

joinVars == <<last, held, visible, users, refused>>

GROUP_SEQUENCE_WIDTH == 2
MEMBER_SEQUENCE_WIDTH == 3

Larger(a, b) == IF a > b THEN a ELSE b

\* The number of digits of a positive integer.
Digits(n) == CHOOSE k \in 1..MaxDigits : 10^(k - 1) <= n /\ n < 10^k

\* f"{n:0{width}d}"
Padded(n, width) == [len |-> Larger(width, Digits(n)), val |-> n]

Joined(s, t) == [len |-> s.len + t.len, val |-> s.val * 10^(t.len) + t.val]

StartsWith(t, s) == t.len >= s.len /\ t.val \div 10^(t.len - s.len) = s.val

NoText == [len |-> 0, val |-> 0]

FormatGroupId(g) == Padded(g, GROUP_SEQUENCE_WIDTH)

\* Faulty: the member's sequence without its zeros.
FormatMemberIdUnpadded(g, n) == Joined(FormatGroupId(g), Padded(n, 1))

FormatMemberId(g, n) == Joined(FormatGroupId(g), Padded(n, MEMBER_SEQUENCE_WIDTH))

\* Faulty: membership_number_matches without its test of the prefix.
MatchesLength(t, g) == t.len - FormatGroupId(g).len >= MEMBER_SEQUENCE_WIDTH

Matches(t, g) ==
  /\ StartsWith(t, FormatGroupId(g))
  /\ t.len - FormatGroupId(g).len >= MEMBER_SEQUENCE_WIDTH

-----------------------------------------------------------------------------
JoinInit ==
  /\ last = [g \in GroupSeqs |-> 0]
  /\ held = [m \in Members |-> [g \in GroupSeqs |-> NoText]]
  /\ visible = [m \in Members |-> NoText]
  /\ users \in SUBSET Members
  /\ refused = <<>>

In(m) == {g \in GroupSeqs : held[m][g] # NoText}

MayJoin(m, g) ==
  /\ held[m][g] = NoText
  /\ Cardinality({p \in Members \X GroupSeqs : held[p[1]][p[2]] # NoText}) < MaxJoins

\* The first membership shows its number; members.membership_number is unique.
Shown(m, t) == In(m) = {} /\ \E o \in Members : visible[o] = t

\* A GroupMember's number is unique in its group.
Listed(m, g, t) == m \in users /\ \E o \in users : held[o][g] = t

Taken(m, g, t) == Shown(m, t) \/ Listed(m, g, t)

\* Faulty: assign_member_id without the membership row.
GiveShown(m, g, t) ==
  /\ visible' = IF In(m) = {} THEN [visible EXCEPT ![m] = t] ELSE visible
  /\ UNCHANGED <<held, users, refused>>

Give(m, g, t) ==
  /\ held' = [held EXCEPT ![m][g] = t]
  /\ visible' = IF In(m) = {} THEN [visible EXCEPT ![m] = t] ELSE visible
  /\ UNCHANGED <<users, refused>>

\* A member of the group keeps the number it has there.
JoinAgain(m, g) == held[m][g] # NoText /\ UNCHANGED joinVars

\* The visible number passes for one of the group's.
JoinKeeping(m, g) ==
  /\ MayJoin(m, g)
  /\ Matches(visible[m], g)
  /\ ~Taken(m, g, visible[m])
  /\ Give(m, g, visible[m])
  /\ UNCHANGED last

\* The group's counter draws the next one: n, others having joined and left
\* since the last that is modelled.
JoinDrawing(m, g, n) ==
  /\ MayJoin(m, g)
  /\ ~Matches(visible[m], g)
  /\ n > last[g]
  /\ ~Taken(m, g, FormatMemberId(g, n))
  /\ Give(m, g, FormatMemberId(g, n))
  /\ last' = [last EXCEPT ![g] = n]

\* A unique index refuses the number; the counter rolls back with the
\* request, so a retry finds or draws the same one.
JoinRefused(m, g, n) ==
  /\ MayJoin(m, g)
  /\ \/ /\ Matches(visible[m], g) /\ n = 0
        /\ Taken(m, g, visible[m])
     \/ /\ ~Matches(visible[m], g) /\ n > last[g]
        /\ Taken(m, g, FormatMemberId(g, n))
  /\ refused' = <<g, n>>
  /\ UNCHANGED <<last, held, visible, users>>

JoinNext ==
  \E m \in Members, g \in GroupSeqs :
    \/ JoinAgain(m, g)
    \/ JoinKeeping(m, g)
    \/ \E n \in MemberSeqs : JoinDrawing(m, g, n)
    \/ \E n \in MemberSeqs \cup {0} : JoinRefused(m, g, n)

JoinSpec == JoinInit /\ [][JoinNext]_joinVars

-----------------------------------------------------------------------------
Texts == [len : Nat, val : Nat]

(* Every number given is a decimal text, and a member's visible number is  *)
(* one of its memberships' (none before the first).                        *)
TextsOK ==
  /\ last \in [GroupSeqs -> MemberSeqs \cup {0}]
  /\ held \in [Members -> [GroupSeqs -> Texts]]
  /\ visible \in [Members -> Texts]
  /\ users \subseteq Members
  /\ refused \in {<<>>} \cup GroupSeqs \X (MemberSeqs \cup {0})
  /\ \A m \in Members :
       IF In(m) = {} THEN visible[m] = NoText
                     ELSE \E g \in In(m) : visible[m] = held[m][g]

Width(g) == FormatGroupId(g).len

Drawing == {g \in GroupSeqs : last[g] # 0}

\* A group of the set and a member of the other are past their widths.
PastWidths(gs, ns) ==
  /\ \E g \in gs : g >= 10^GROUP_SEQUENCE_WIDTH
  /\ \E n \in ns : n >= 10^MEMBER_SEQUENCE_WIDTH

(* "A member ID belongs to one group membership" (group_id_service.py:41), *)
(* as far as the texts have it: one text is never a number of two groups   *)
(* whose sequences have the same width, whatever the members' have; and it *)
(* is never that of two members before one group's sequence and one        *)
(* member's are past their widths.                                         *)
OneMembership ==
  \A m, o \in Members : \A g \in In(m), h \in In(o) : held[m][g] = held[o][h] =>
    /\ Width(g) = Width(h) => g = h
    /\ m = o \/ PastWidths(Drawing, {last[k] : k \in GroupSeqs})

(* The 409 "retry the request" is no matter of chance: two texts coincide  *)
(* only where one group's sequence and one member's are past their widths. *)
RefusedPastWidths ==
  refused # <<>> =>
    PastWidths(Drawing \cup {refused[1]}, {last[g] : g \in GroupSeqs} \cup {refused[2]})
=============================================================================
