------------------------------ MODULE MCAccess ------------------------------
(***************************************************************************)
(* Two groups, all kinds of accounts and rows; the day before, the two     *)
(* ends and the day after the window of upcoming events.                   *)
(***************************************************************************)
EXTENDS Access

CONSTANTS g1, g2, w, v

MCGroups == {g1, g2}
MCLabels == {"SUPER_ADMIN", "GROUP_ADMIN", "REGIONAL_ADMIN", "MEMBER", "EDITOR"}
MCOffices == {"president", "adviser"}
MCStarts == {-1, 0, 7, 8}

Plain == [name |-> {w}, narrow |-> {}, other |-> {}]
Scattered == [name |-> {w}, narrow |-> {{v}}, other |-> {}]
Whole == [name |-> {}, narrow |-> {}, other |-> {{w, v}}]
MCTexts == {Plain, Scattered, Whole}

Face(l, o, m, s, t) == [label |-> l, office |-> o, mirrored |-> m, social |-> s, text |-> t]

MCFaces ==
  {Face(l, None, None, None, Plain) : l \in MCLabels \cup {None}}
    \cup {Face("MEMBER", o, m, None, Plain) : o, m \in MCOffices \cup {None}}
    \cup {Face("MEMBER", None, None, s, t) : s \in {None, g2}, t \in MCTexts}

MCFilters ==
  {[Unfiltered EXCEPT !.social = g2], [Unfiltered EXCEPT !.status = "PENDING"]}
    \cup {[Unfiltered EXCEPT !.trustee = TRUE, !.office = o] : o \in MCOffices \cup {None}}
    \cup {[Unfiltered EXCEPT !.trustee = TRUE, !.role = "GROUP_ADMIN"]}
    \cup {[Unfiltered EXCEPT !.query = q] : q \in {{}, {w}, {w, v}}}
============================================================================
