------------------------------- MODULE Access -------------------------------
(***************************************************************************)
(* Who sees and who changes a row: roles and permissions                   *)
(* (core/permissions.py), the scope of a caller (core/scope.py), and the   *)
(* list, detail and write endpoints that each put them to use on their     *)
(* own.  The state is one caller and one row of the database, of any kind; *)
(* pages and orders of lists are left out.                                 *)
(*                                                                         *)
(* Memberships are written in module Memberships, the contents of events,  *)
(* tirths, advertisements and news in Content; here these writes keep the  *)
(* columns that decide about access.                                       *)
(***************************************************************************)
EXTENDS Integers, FiniteSets

CONSTANTS
  Groups,
  Labels,     \* labels found in roles.name
  Faces,      \* what a member's row shows to filters: see Member
  Texts,      \* texts of a group, as of a member
  Offices,    \* designations
  Starts,     \* days from now to the start of an event
  Filters,    \* what callers of lists ask for: see ListMembers
  None

NoRecord == "no record"     \* the account has no member

\* The labels that resolve_role_name knows, in any case and padding.
Resolved ==
  [SUPER_ADMIN |-> "SUPER_ADMIN", ADMIN |-> "SUPER_ADMIN",
   FEDERATION_ADMIN |-> "SUPER_ADMIN", GROUP_ADMIN |-> "GROUP_ADMIN",
   REGIONAL_ADMIN |-> "GROUP_ADMIN", MEMBER |-> "MEMBER"]

RoleOf(label) == IF label \in DOMAIN Resolved THEN Resolved[label] ELSE None

ASSUME Parameters ==
  /\ None \notin Groups \cup Labels \cup Offices \cup {"PAST", "UPCOMING", "FUTURE"}
  /\ Starts \subseteq Int
  /\ \A f \in Faces :
       /\ f.label \in Labels \cup {None}
       /\ {f.office, f.mirrored} \subseteq Offices \cup {None}
       /\ f.social \in Groups \cup {None} /\ f.text \in Texts
  /\ \A q \in Filters : DOMAIN q = {"status", "social", "trustee", "role", "office", "query"}

GroupOrNone == Groups \cup {None}

User == [label : Labels \cup {None}, group : GroupOrNone,
         own : GroupOrNone \cup {NoRecord}]      \* members.group_id of its member

\* A member's group pointer lags only while it has no membership at all.
Member ==
  {m \in [kind : {"member"}, group : GroupOrNone, in : SUBSET Groups, deleted : BOOLEAN,
          status : {"PENDING", "APPROVED"}, mine : BOOLEAN, face : Faces] :
     m.in # {} => m.group \in m.in}

Event == [kind : {"event"}, group : GroupOrNone, deleted : BOOLEAN, public : BOOLEAN,
          starts : Starts]
JainTirth == [kind : {"tirth"}, group : GroupOrNone, deleted : BOOLEAN, public : BOOLEAN]
News == [kind : {"news"}, group : GroupOrNone, deleted : BOOLEAN, published : BOOLEAN]
Advertisement == [kind : {"ad"}, group : GroupOrNone, deleted : BOOLEAN, running : BOOLEAN]

\* A seat of a group's board; "of" is the member it is linked to.
NoHolder == [group |-> None, office |-> None, linked |-> FALSE]
Holder == {NoHolder} \cup [group : GroupOrNone, office : Offices \cup {None}, linked : {TRUE}]
Trustee == [kind : {"seat"}, group : Groups, deleted : BOOLEAN, current : BOOLEAN,
            office : Offices, of : Holder]

\* "in" are the groups of the owner, "mine" says that it is the caller's member.
Owner == {o \in [type : {"member", "event", "folder"}, in : SUBSET Groups, mine : BOOLEAN] :
            /\ o.type # "member" => ~o.mine /\ Cardinality(o.in) <= 1
            /\ o.type = "folder" => o.in = {}}
Media == [kind : {"media"}, group : GroupOrNone, deleted : BOOLEAN, public : BOOLEAN,
          uploaded : BOOLEAN, owner : Owner]

SocialGroup == [kind : {"group"}, group : Groups, text : Texts]

NoRow == [kind |-> "none"]

VARIABLES
  user,     \* the caller
  row       \* the row asked for

vars == <<user, row>>

Init ==
  /\ user \in User
  /\ row \in Member \cup Event \cup JainTirth \cup News \cup Advertisement \cup Trustee
             \cup Media \cup SocialGroup \cup {NoRow}
  \* The caller's member is the row itself.
  /\ (row.kind = "member" /\ row.mine) =>
       /\ user.own = row.group
       /\ row.face.label = user.label

-----------------------------------------------------------------------------
(* Roles, permissions (those of the endpoints below) and scopes *)

Reads == {"member.read", "group.read", "trustee.read", "event.read", "jain_tirth.read",
          "news.read", "media.read"}

AdminPermissions ==
  Reads \cup
  {"member.create", "member.update", "trustee.create", "trustee.update", "trustee.delete",
   "event.create", "event.update", "jain_tirth.create", "jain_tirth.update",
   "news.create", "advertisement.create", "media.upload"}

AllPermissions ==
  AdminPermissions \cup
  {"member.delete", "event.delete", "jain_tirth.delete", "news.publish", "news.update",
   "news.delete", "media.delete"}

Role == RoleOf(user.label)

May(permission) ==
  permission \in CASE Role = "SUPER_ADMIN" -> AllPermissions
                   [] Role = "GROUP_ADMIN" -> AdminPermissions
                   [] Role = "MEMBER" -> Reads
                   [] OTHER -> {}

HasRecord == user.own # NoRecord

\* The account's group, or else the group of its member.
HomeGroup ==
  IF user.group # None THEN user.group ELSE IF HasRecord THEN user.own ELSE None

\* get_access_scope answers 403 for the others.
Scoped == Role = "GROUP_ADMIN" => HomeGroup # None

Scope ==
  [open |-> Role = "SUPER_ADMIN",
   group |-> IF Role = "SUPER_ADMIN" THEN None ELSE HomeGroup,
   self |-> Role = "MEMBER" /\ HasRecord]

Allowed(permission) == May(permission) /\ Scoped

AdminGroup == HomeGroup

MemberInGroup(g) == g # None /\ (row.group = g \/ g \in row.in)

\* assert_group_access, assert_member_access
GroupAccess(g) == Role = "SUPER_ADMIN" \/ (g # None /\ g = AdminGroup)
MemberAccess == Role = "SUPER_ADMIN" \/ MemberInGroup(AdminGroup)

\* Faulty: resolve_managed_group takes the group that is asked for.
ManagedAsAsked(g) == {g}

\* The group a new row is filed under, of the one asked for.
Managed(g) ==
  CASE Role = "SUPER_ADMIN" -> {g}
    [] Role # "SUPER_ADMIN" /\ AdminGroup # None /\ g \in {None, AdminGroup} -> {AdminGroup}
    [] OTHER -> {}

\* A caller with a scope may ask for its own group only.
MayAsk(g) == g # None => Scope.open \/ g = Scope.group

-----------------------------------------------------------------------------
(* The lists of members *)

MemberGroupFilter(g) == g # None => MemberInGroup(g)

\* The designation lies in profile_data or in the professional record.
Designated(office) == office \in {row.face.office, row.face.mirrored}

PostHolderDesignation == {row.face.office, row.face.mirrored} \cap {"president"} # {}

PostHolder(role) ==
  LET held == RoleOf(row.face.label) IN
  IF role # None THEN held = role
  ELSE held \in {"SUPER_ADMIN", "GROUP_ADMIN"} \/ PostHolderDesignation

NamedGroup(g) == row.face.social = g \/ g \in row.in \/ row.group = g

\* A text has a name, fields searched by every word and fields searched for the
\* whole phrase only; a phrase is the set of its words.
Found(text, words) ==
  \/ \E f \in {text.name} \cup text.narrow \cup text.other : words \subseteq f
  \/ /\ Cardinality(words) > 1
     /\ \A w \in words : \E f \in {text.name} \cup text.narrow : w \in f

\* GET /members.  q.query is None, or the words that are searched for.
ListMembers(g, q) ==
  /\ Allowed("member.read") /\ MayAsk(g)
  /\ ~row.deleted
  /\ MemberGroupFilter(IF g # None THEN g ELSE Scope.group)
  /\ q.status # None => row.status = q.status
  /\ q.social # None => NamedGroup(q.social)
  /\ q.trustee => PostHolder(None)
  /\ q.office # None => Designated(q.office)
  /\ IF q.query # None THEN Found(row.face.text, q.query)
     ELSE (Scope.self /\ Scope.group = None) => row.mine

\* Faulty: the trustees of a group are those whose primary group it is.
ListTrusteesOfPrimary(g, q) ==
  LET h == IF Scope.open THEN g ELSE Scope.group IN
  /\ Allowed("trustee.read") /\ MayAsk(g)
  /\ ~row.deleted
  /\ h # None => row.group = h
  /\ (Scope.self /\ Scope.group = None) => row.mine
  /\ q.status # None => row.status = q.status
  /\ PostHolder(q.role)
  /\ q.office # None => Designated(q.office)
  /\ q.query # None => q.query \subseteq row.face.text.name

\* GET /trustees and GET /trustees/directory
ListTrustees(g, q) ==
  /\ Allowed("trustee.read") /\ MayAsk(g)
  /\ ~row.deleted
  /\ MemberGroupFilter(IF Scope.open THEN g ELSE Scope.group)
  /\ (Scope.self /\ Scope.group = None) => row.mine
  /\ q.status # None => row.status = q.status
  /\ PostHolder(q.role)
  /\ q.office # None => Designated(q.office)
  /\ q.query # None => q.query \subseteq row.face.text.name

\* GET /search; a search for blanks alone is refused.
SearchMembers(g, q) ==
  /\ Allowed("member.read") /\ MayAsk(g)
  /\ q.query \notin {None, {}}
  /\ ~row.deleted
  /\ Found(row.face.text, q.query)
  /\ MemberGroupFilter(IF g # None THEN g ELSE Scope.group)
  /\ (Scope.self /\ Scope.group = None) => row.mine
  /\ q.status # None => row.status = q.status
  /\ q.social # None => NamedGroup(q.social)

\* GET /groups/{id}/members
ListGroupMembers(g) ==
  /\ Allowed("group.read")
  /\ Scope.open \/ Scope.group = g
  /\ ~row.deleted /\ MemberInGroup(g)

\* GET /members/social-groups: the row adds g to the names that are offered.
Offered(g) ==
  /\ Allowed("member.read")
  /\ ~row.deleted
  /\ MemberGroupFilter(Scope.group)
  /\ (Scope.self /\ Scope.group = None) => row.mine
  /\ row.face.social = g \/ g \in row.in

\* GET /celebrations: the members whose dates are compared.
Celebrated ==
  /\ Allowed("member.read")
  /\ ~row.deleted
  /\ CASE Scope.open -> TRUE
       [] ~Scope.open /\ Scope.group # None -> Scope.group \in row.in
       [] OTHER -> Scope.self => row.mine

\* Faulty: only the primary group opens a member.
OpensMemberOfPrimary ==
  /\ Allowed("member.read") /\ ~row.deleted
  /\ Scope.open \/ row.mine \/ (Scope.group # None /\ row.group = Scope.group)

\* GET /members/{id}
OpensMember ==
  /\ Allowed("member.read") /\ ~row.deleted
  /\ Scope.open \/ row.mine \/ MemberInGroup(Scope.group)

-----------------------------------------------------------------------------
(* The other lists and details *)

\* _clauses of the repositories of events and of tirths: _read_scope passes on
\* the group asked for and nothing of the caller.
Clauses(g) == ~row.deleted /\ (g # None => row.group = g)

UpcomingWindow == 7     \* days

InFrame(frame) ==
  CASE frame = "PAST" -> row.starts < 0
    [] frame = "UPCOMING" -> 0 <= row.starts /\ row.starts <= UpcomingWindow
    [] frame = "FUTURE" -> row.starts > UpcomingWindow
    [] OTHER -> TRUE

\* The bucket that is shown with an event (classify_time_frame).
TimeFrame ==
  CASE row.starts < 0 -> "PAST"
    [] 0 <= row.starts /\ row.starts <= UpcomingWindow -> "UPCOMING"
    [] OTHER -> "FUTURE"

\* GET /events with a bucket; the endpoints of one bucket ask for no group.
ListEvents(g, frame) == Clauses(g) /\ InFrame(frame)
ListByFrame(frame) == May("event.read") /\ ListEvents(None, frame)
ListTirths(g) == Clauses(g)

\* Faulty: a group admin sees the private events of no group, not its own.
VisiblePublic ==
  /\ ~row.deleted
  /\ Scope.open \/ (row.public /\ (Scope.group # None => row.group \in {None, Scope.group}))

\* _get_visible_event, _get_visible_tirth
Visible ==
  /\ ~row.deleted
  /\ CASE Scope.open -> TRUE
       [] Role = "GROUP_ADMIN" -> row.group \in {None, Scope.group}
       [] OTHER -> row.public /\ (Scope.group # None => row.group \in {None, Scope.group})

OpensEvent == Allowed("event.read") /\ Visible
OpensTirth == Allowed("jain_tirth.read") /\ Visible

\* apply_filters leaves out a filter that is None: so of a caller without a group.
Filtered(g) == g # None => row.group = g

ListNews(g, drafts) ==
  /\ Allowed("news.read") /\ MayAsk(g)
  /\ row.published \/ drafts
  /\ Filtered(IF Scope.open THEN g ELSE Scope.group)

OpensNews == Allowed("news.read") /\ (Scope.open \/ row.group = Scope.group)

\* GET /trustees/board
ListSeats(g, current) ==
  /\ Allowed("trustee.read") /\ MayAsk(g)
  /\ current => row.current
  /\ Filtered(IF Scope.open THEN g ELSE Scope.group)

OpensSeat == Allowed("trustee.read") /\ (Scope.open \/ row.group = Scope.group)

\* GET /advertisements; the detail is open to everybody.
ListAdvertisements(g, running) ==
  /\ Role # None /\ Scoped
  /\ ~row.deleted
  /\ Filtered(IF Scope.open THEN g ELSE Scope.group)
  /\ running => row.running

OpensAdvertisement == ~row.deleted

\* GET /groups, with a name or without, and the groups of GET /search
ListGroups(query) ==
  /\ Role # None /\ Scoped
  /\ Scope.group # None => row.group = Scope.group
  /\ query # None => query \subseteq row.text.name

SearchGroups(query) ==
  /\ Allowed("group.read")
  /\ query \notin {None, {}}
  /\ Scope.open \/ (Scope.group # None /\ row.group = Scope.group)
  /\ Found(row.text, query)

OpensGroup == Allowed("group.read") /\ (Scope.open \/ Scope.group = row.group)

OwnerInScope(owner) ==
  /\ owner.type # "folder"
  /\ Scope.group # None /\ Scope.group \in owner.in

\* GET /media, by group or by owner.  A caller without limits gets all groups.
ListMediaOfGroup(g) ==
  /\ Allowed("media.read")
  /\ Scope.open \/ g = Scope.group
  /\ ~row.deleted
  /\ Scope.group # None => row.group = Scope.group

ListMediaOfOwner ==
  /\ Allowed("media.read")
  /\ Scope.open \/ OwnerInScope(row.owner)
  /\ ~row.deleted

\* _can_access_private, for the content of a file
OpensPrivate ==
  \/ row.uploaded
  \/ Role = "SUPER_ADMIN"
  \/ Role = "GROUP_ADMIN" /\ Scoped /\ row.group = Scope.group
  \/ Role \notin {"SUPER_ADMIN", "GROUP_ADMIN"} /\ row.owner.type = "member" /\ row.owner.mine

OpensContent == ~row.deleted /\ (row.public \/ OpensPrivate)

Opens ==
  CASE row.kind = "member" -> OpensMember
    [] row.kind = "event" -> OpensEvent
    [] row.kind = "tirth" -> OpensTirth
    [] row.kind = "news" -> OpensNews
    [] row.kind = "seat" -> OpensSeat
    [] row.kind = "ad" -> OpensAdvertisement
    [] row.kind = "media" -> OpensContent
    [] row.kind = "group" -> OpensGroup

-----------------------------------------------------------------------------
(* Writes.  g is the group that the body of the request names. *)

Adds(r) == row.kind = "none" /\ row' = r

CreateEvent(g, public, starts) ==
  /\ May("event.create")
  /\ \E h \in Managed(g) :
       Adds([kind |-> "event", group |-> h, deleted |-> FALSE, public |-> public,
             starts |-> starts])

CreateTirth(g, public) ==
  /\ May("jain_tirth.create")
  /\ \E h \in Managed(g) :
       Adds([kind |-> "tirth", group |-> h, deleted |-> FALSE, public |-> public])

CreateNews(g, published) ==
  /\ May("news.create")
  /\ \E h \in Managed(g) :
       /\ h = None => Scope.open
       /\ Adds([kind |-> "news", group |-> h, deleted |-> FALSE, published |-> published])

CreateAdvertisement(g) ==
  /\ May("advertisement.create")
  /\ \E h \in Managed(g) :
       Adds([kind |-> "ad", group |-> h, deleted |-> FALSE, running |-> FALSE])

\* The designation of a seat is also that of its member.
Mirrored(of, office) == IF of.linked THEN [of EXCEPT !.office = office] ELSE of

CreateTrustee(g, office, of) ==
  /\ May("trustee.create")
  /\ \E h \in Managed(g) :
       /\ of.linked => of.group = h
       /\ Adds([kind |-> "seat", group |-> h, deleted |-> FALSE, current |-> TRUE,
                office |-> office, of |-> Mirrored(of, office)])

\* The group is filed as asked by a caller without limits, else its own.
UploadMedia(owner, g, public) ==
  /\ Allowed("media.upload")
  /\ Scope.open \/ OwnerInScope(owner)
  /\ Adds([kind |-> "media", group |-> IF Scope.open THEN g ELSE Scope.group,
           deleted |-> FALSE, public |-> public, uploaded |-> TRUE, owner |-> owner])

Changes(kind) == row.kind = kind /\ GroupAccess(row.group)

\* A group that is not sent, or sent as null, stays.
UpdateEvent(g, public, starts) ==
  /\ May("event.update") /\ Changes("event") /\ ~row.deleted
  /\ g # None => GroupAccess(g)
  /\ row' = [row EXCEPT !.group = IF g = None THEN @ ELSE g, !.public = public,
                        !.starts = starts]

UpdateTirth(g, public) ==
  /\ May("jain_tirth.update") /\ Changes("tirth") /\ ~row.deleted
  /\ g # None => GroupAccess(g)
  /\ row' = [row EXCEPT !.group = IF g = None THEN @ ELSE g, !.public = public]

UpdateNews(g, published) ==
  /\ May("news.update") /\ Changes("news")
  /\ \E h \in Managed(g) \cup {row.group} :
       row' = [row EXCEPT !.group = h, !.published = published]

PublishNews(published) ==
  /\ May("news.publish") /\ Changes("news")
  /\ row' = [row EXCEPT !.published = published]

\* The group that is sent is not looked at.
UpdateAdvertisement(g) ==
  /\ May("advertisement.create") /\ Changes("ad")
  /\ row' = [row EXCEPT !.group = g]

\* trustees.group_id is not null; a new member is not compared with the group.
UpdateTrustee(g, office, of) ==
  /\ May("trustee.update") /\ Changes("seat")
  /\ g # row.group => GroupAccess(g)
  /\ row' = [row EXCEPT !.group = g, !.office = office, !.of = Mirrored(of, office)]

\* A designation that the member has since changed stays.
DeleteTrustee ==
  /\ May("trustee.delete") /\ Changes("seat")
  /\ row' = [row EXCEPT !.deleted = TRUE,
                        !.of = IF @.office = row.office THEN Mirrored(@, None) ELSE @]

\* DELETE of an event or tirth looks for a live one, of news and ads for any.
DeleteItem ==
  /\ \/ row.kind = "event" /\ May("event.delete") /\ ~row.deleted
     \/ row.kind = "tirth" /\ May("jain_tirth.delete") /\ ~row.deleted
     \/ row.kind = "news" /\ May("news.delete")
     \/ row.kind = "ad" /\ May("advertisement.create")
  /\ GroupAccess(row.group)
  /\ row' = [row EXCEPT !.deleted = TRUE]

DeleteMedia ==
  /\ Allowed("media.delete")
  /\ row.kind = "media"
  /\ Scope.open \/ row.group = Scope.group
  /\ row' = [row EXCEPT !.deleted = TRUE]

\* PATCH /members without its groups: names, designation.
EditMember(face) ==
  /\ May("member.update")
  /\ row.kind = "member" /\ ~row.deleted /\ MemberAccess
  /\ face.label = row.face.label
  /\ row' = [row EXCEPT !.face = face]

\* The family and the profession of a member, deleted ones included.
EditFamily(face) ==
  /\ May("member.update")
  /\ row.kind = "member" /\ GroupAccess(row.group)
  /\ face = [row.face EXCEPT !.text = face.text]
  /\ row' = [row EXCEPT !.face = face]

EditProfession(face) ==
  /\ May("member.update")
  /\ row.kind = "member" /\ GroupAccess(row.group)
  /\ face = [row.face EXCEPT !.mirrored = face.mirrored]
  /\ row' = [row EXCEPT !.face = face]

Next ==
  /\ UNCHANGED user
  /\ \/ \E g \in GroupOrNone, b \in BOOLEAN :
          \/ CreateTirth(g, b) \/ CreateNews(g, b)
          \/ UpdateTirth(g, b) \/ UpdateNews(g, b)
          \/ \E s \in Starts : CreateEvent(g, b, s) \/ UpdateEvent(g, b, s)
          \/ \E o \in Owner : UploadMedia(o, g, b)
     \/ \E b \in BOOLEAN : PublishNews(b)
     \/ \E g \in GroupOrNone : CreateAdvertisement(g) \/ UpdateAdvertisement(g)
     \/ \E g \in Groups, o \in Offices, of \in Holder :
          CreateTrustee(g, o, of) \/ UpdateTrustee(g, o, of)
     \/ DeleteTrustee \/ DeleteItem \/ DeleteMedia
     \/ \E face \in Faces : EditMember(face) \/ EditFamily(face) \/ EditProfession(face)

Spec == Init /\ [][Next]_vars

-----------------------------------------------------------------------------
(* Properties *)

Inside ==
  /\ HomeGroup # None
  /\ IF row.kind = "member" THEN MemberInGroup(HomeGroup) ELSE row.group = HomeGroup

(***************************************************************************)
(* A group admin changes no row of another group, and puts none there:     *)
(* every write of the endpoints finds the row in the admin's group and     *)
(* leaves it there.  The one way out is PATCH of an advertisement, which   *)
(* takes any group.  Members write nothing of these rows.                  *)
(***************************************************************************)
KeptInside ==
  [][/\ Role \in {"GROUP_ADMIN", "SUPER_ADMIN"}
     /\ Role = "GROUP_ADMIN" =>
          /\ row.kind = "none" \/ Inside
          /\ row.kind = "ad" \/ Inside']_row

(***************************************************************************)
(* Whoever writes a row can open it afterwards: the rules for reading and  *)
(* those for writing are separate code with separate notions of the        *)
(* caller's group, of private rows and of memberships.                     *)
(***************************************************************************)
OpensWhatItWrites == [][row'.deleted \/ Opens']_row

Placed == Scoped /\ (Scope.open \/ Scope.group # None)
Finds(g, q) ==
  \/ SearchMembers(g, q) \/ ListTrustees(g, q) \/ Celebrated
  \/ ListMembers(g, [q EXCEPT !.query = None])

(***************************************************************************)
(* What a list gives the detail opens.  Every list applies the scope by    *)
(* itself.  Left out are the callers a scope without a group says nothing  *)
(* about (except that a member without a group finds itself), and the      *)
(* lists of events, tirths and media where they do not look at the caller: *)
(* there the admin's list of its own group is taken.                       *)
(***************************************************************************)
ListedOpens ==
  \A g \in GroupOrNone, q \in Filters :
    CASE row.kind = "member" ->
           (\/ Placed /\ (ListMembers(g, q) \/ ListGroupMembers(g))
            \/ (Placed \/ Scope.self) /\ Finds(g, q)) => OpensMember
      [] row.kind = "news" -> Placed /\ ListNews(g, TRUE) => OpensNews
      [] row.kind = "seat" -> Placed /\ ListSeats(g, FALSE) => OpensSeat
      [] row.kind = "ad" -> ListAdvertisements(g, FALSE) => OpensAdvertisement
      [] row.kind = "group" ->
           (Placed /\ ListGroups(q.query)) \/ SearchGroups(q.query) => OpensGroup
      [] row.kind = "event" ->
           Allowed("event.update") /\ g = Scope.group /\ ListEvents(g, None) => OpensEvent
      [] row.kind = "tirth" ->
           Allowed("jain_tirth.update") /\ g = Scope.group /\ ListTirths(g) => OpensTirth
      [] row.kind = "media" ->
           Allowed("media.upload") /\ ListMediaOfGroup(g) => OpensContent
      [] OTHER -> TRUE

Unfiltered == [status |-> None, social |-> None, trustee |-> FALSE, role |-> None,
               office |-> None, query |-> None]

(***************************************************************************)
(* Lists that are to show the same agree: GET /trustees and the members    *)
(* with trustee_only ("so the two never drift apart", members.py:250); the *)
(* two searches of members; a name that is offered as a filter finds the   *)
(* members it was taken from ("exactly the values members actually carry", *)
(* members.py:351); who is celebrated is in the directory; an event is     *)
(* listed in the bucket that is shown with it.                             *)
(***************************************************************************)
ListsAgree ==
  /\ row.kind = "member" =>
       /\ \A g \in GroupOrNone, q \in Filters :
            /\ (q.trustee /\ q.role = None /\ q.query = None /\ q.social = None) =>
                 (ListTrustees(g, q) <=> ListMembers(g, q))
            /\ (Placed /\ q.query \notin {None, {}} /\ ~q.trustee /\ q.office = None) =>
                 (SearchMembers(g, q) <=> ListMembers(g, q))
       /\ \A g \in Groups : Offered(g) => ListMembers(None, [Unfiltered EXCEPT !.social = g])
       /\ Celebrated => ListMembers(None, Unfiltered)
  /\ row.kind = "event" =>
       \A g \in GroupOrNone, frame \in {"PAST", "UPCOMING", "FUTURE"} :
         ListEvents(g, frame) <=> ListEvents(g, None) /\ frame = TimeFrame
============================================================================
