---------------------------- MODULE AccessProofs ----------------------------
(***************************************************************************)
(* The scopes of callers, for all groups, labels of roles, texts, offices  *)
(* and filters there may be.                                               *)
(***************************************************************************)
EXTENDS Access, TLAPS

Row == Member \cup Event \cup JainTirth \cup News \cup Advertisement \cup Trustee
         \cup Media \cup SocialGroup \cup {NoRow}

TypeInv == user \in User /\ row \in Row

\* The kind of a row tells its columns.
LEMMA Kinds ==
  ASSUME NEW r \in Row
  PROVE  /\ r.kind = "none" => r = NoRow
         /\ r.kind = "member" => r \in Member
         /\ r.kind = "event" => r \in Event
         /\ r.kind = "tirth" => r \in JainTirth
         /\ r.kind = "news" => r \in News
         /\ r.kind = "ad" => r \in Advertisement
         /\ r.kind = "seat" => r \in Trustee
         /\ r.kind = "media" => r \in Media
         /\ r.kind = "group" => r \in SocialGroup
<1>1. /\ r \in Member => r.kind = "member"
      /\ r \in Event => r.kind = "event"
      /\ r \in JainTirth => r.kind = "tirth"
      /\ r \in News => r.kind = "news"
      /\ r \in Advertisement => r.kind = "ad"
      /\ r \in Trustee => r.kind = "seat"
      /\ r \in Media => r.kind = "media"
      /\ r \in SocialGroup => r.kind = "group"
      /\ r = NoRow => r.kind = "none"
  BY DEF Member, Event, JainTirth, News, Advertisement, Trustee, Media, SocialGroup, NoRow
<1> QED
  BY <1>1 DEF Row

-----------------------------------------------------------------------------
(* Roles.                                                                  *)

\* What a caller may write says what it is.
Administers == Role \in {"SUPER_ADMIN", "GROUP_ADMIN"}

LEMMA Roles ==
  /\ \A p \in AllPermissions \ Reads : May(p) => Administers
  /\ \A p \in Reads : Administers => May(p)
  /\ Scope.open <=> Role = "SUPER_ADMIN"
  /\ Scope.group = (IF Scope.open THEN None ELSE HomeGroup)
  /\ Scope.self => Role = "MEMBER"
  BY DEF May, Administers, AllPermissions, AdminPermissions, Reads, Scope

\* The callers that may file a row under h.
LEMMA Manages ==
  ASSUME Administers, NEW g, NEW h \in Managed(g)
  PROVE  \/ Role = "SUPER_ADMIN" /\ h = g
         \/ Role = "GROUP_ADMIN" /\ h = HomeGroup /\ HomeGroup # None
  BY DEF Managed, Administers, AdminGroup

LEMMA Accesses ==
  ASSUME Administers, NEW g, GroupAccess(g)
  PROVE  \/ Role = "SUPER_ADMIN"
         \/ Role = "GROUP_ADMIN" /\ g = HomeGroup /\ HomeGroup # None
  BY DEF GroupAccess, Administers, AdminGroup

-----------------------------------------------------------------------------
(* Types.                                                                  *)

\* The writes, by what they do to the row.
Create ==
  \/ \E g \in GroupOrNone, b \in BOOLEAN :
       \/ CreateTirth(g, b) \/ CreateNews(g, b)
       \/ \E s \in Starts : CreateEvent(g, b, s)
       \/ \E o \in Owner : UploadMedia(o, g, b)
  \/ \E g \in GroupOrNone : CreateAdvertisement(g)
  \/ \E g \in Groups, o \in Offices, of \in Holder : CreateTrustee(g, o, of)

Update ==
  \/ \E g \in GroupOrNone, b \in BOOLEAN :
       \/ UpdateTirth(g, b) \/ UpdateNews(g, b)
       \/ \E s \in Starts : UpdateEvent(g, b, s)
  \/ \E b \in BOOLEAN : PublishNews(b)
  \/ \E g \in GroupOrNone : UpdateAdvertisement(g)
  \/ \E g \in Groups, o \in Offices, of \in Holder : UpdateTrustee(g, o, of)
  \/ \E face \in Faces : EditMember(face) \/ EditFamily(face) \/ EditProfession(face)

Delete == DeleteTrustee \/ DeleteItem \/ DeleteMedia

LEMMA Writes == Next <=> UNCHANGED user /\ (Create \/ Update \/ Delete)
  BY DEF Next, Create, Update, Delete

LEMMA HomeType ==
  ASSUME TypeInv
  PROVE  /\ HomeGroup \in GroupOrNone
         /\ \A g \in GroupOrNone : Managed(g) \subseteq GroupOrNone
         /\ \A g \in Groups : Managed(g) \subseteq Groups
  BY DEF TypeInv, User, GroupOrNone, HomeGroup, HasRecord, Managed, AdminGroup

LEMMA MirroredType ==
  ASSUME NEW of \in Holder, NEW office \in Offices \cup {None}
  PROVE  Mirrored(of, office) \in Holder
<1>1. CASE of.linked
  <2>1. of \in [group : GroupOrNone, office : Offices \cup {None}, linked : {TRUE}]
    <3>1. NoHolder.linked = FALSE
      BY DEF NoHolder
    <3>2. of # NoHolder
      BY <1>1, <3>1
    <3> QED
      BY <3>2 DEF Holder
  <2> QED
    BY <1>1, <2>1 DEF Mirrored, Holder
<1>2. CASE ~of.linked
  BY <1>2 DEF Mirrored
<1> QED
  BY <1>1, <1>2

LEMMA CreateType ==
  ASSUME TypeInv, Create
  PROVE  row.kind = "none" /\ row' \in Row
<1>1. ASSUME NEW g \in GroupOrNone, NEW b \in BOOLEAN, CreateTirth(g, b)
      PROVE  row.kind = "none" /\ row' \in Row
  <2>1. PICK h \in GroupOrNone :
          Adds([kind |-> "tirth", group |-> h, deleted |-> FALSE, public |-> b])
    BY <1>1, HomeType DEF CreateTirth
  <2> QED
    BY <2>1 DEF Adds, Row, JainTirth
<1>2. ASSUME NEW g \in GroupOrNone, NEW b \in BOOLEAN, CreateNews(g, b)
      PROVE  row.kind = "none" /\ row' \in Row
  <2>1. PICK h \in GroupOrNone :
          Adds([kind |-> "news", group |-> h, deleted |-> FALSE, published |-> b])
    BY <1>2, HomeType DEF CreateNews
  <2> QED
    BY <2>1 DEF Adds, Row, News
<1>3. ASSUME NEW g \in GroupOrNone, NEW b \in BOOLEAN, NEW s \in Starts, CreateEvent(g, b, s)
      PROVE  row.kind = "none" /\ row' \in Row
  <2>1. PICK h \in GroupOrNone :
          Adds([kind |-> "event", group |-> h, deleted |-> FALSE, public |-> b, starts |-> s])
    BY <1>3, HomeType DEF CreateEvent
  <2> QED
    BY <2>1 DEF Adds, Row, Event
<1>4. ASSUME NEW g \in GroupOrNone, NEW b \in BOOLEAN, NEW o \in Owner, UploadMedia(o, g, b)
      PROVE  row.kind = "none" /\ row' \in Row
  <2>1. (IF Scope.open THEN g ELSE Scope.group) \in GroupOrNone
    BY HomeType, Roles
  <2> QED
    BY <1>4, <2>1 DEF UploadMedia, Adds, Row, Media
<1>5. ASSUME NEW g \in GroupOrNone, CreateAdvertisement(g)
      PROVE  row.kind = "none" /\ row' \in Row
  <2>1. PICK h \in GroupOrNone :
          Adds([kind |-> "ad", group |-> h, deleted |-> FALSE, running |-> FALSE])
    BY <1>5, HomeType DEF CreateAdvertisement
  <2> QED
    BY <2>1 DEF Adds, Row, Advertisement
<1>6. ASSUME NEW g \in Groups, NEW o \in Offices, NEW of \in Holder, CreateTrustee(g, o, of)
      PROVE  row.kind = "none" /\ row' \in Row
  <2>1. PICK h \in Groups :
          Adds([kind |-> "seat", group |-> h, deleted |-> FALSE, current |-> TRUE,
                office |-> o, of |-> Mirrored(of, o)])
    BY <1>6, HomeType DEF CreateTrustee
  <2> QED
    BY <2>1, MirroredType DEF Adds, Row, Trustee
<1> QED
  BY <1>1, <1>2, <1>3, <1>4, <1>5, <1>6 DEF Create

\* What an update leaves as it was.
LEMMA UpdateType ==
  ASSUME TypeInv, Update
  PROVE  /\ row.kind \in {"event", "tirth", "news", "ad", "seat", "member"}
         /\ row' \in Row /\ row'.kind = row.kind /\ row'.deleted = row.deleted
<1> DEFINE Still == /\ row.kind \in {"event", "tirth", "news", "ad", "seat", "member"}
                    /\ row' \in Row /\ row'.kind = row.kind /\ row'.deleted = row.deleted
<1>1. ASSUME NEW g \in GroupOrNone, NEW b \in BOOLEAN, UpdateTirth(g, b) PROVE Still
  <2>1. row \in JainTirth /\ row' = [row EXCEPT !.group = IF g = None THEN @ ELSE g, !.public = b]
    BY <1>1, Kinds DEF UpdateTirth, Changes, TypeInv
  <2> QED
    BY <2>1 DEF JainTirth, Row
<1>2. ASSUME NEW g \in GroupOrNone, NEW b \in BOOLEAN, UpdateNews(g, b) PROVE Still
  <2>1. row \in News
    BY <1>2, Kinds DEF UpdateNews, Changes, TypeInv
  <2>2. row.group \in GroupOrNone
    BY <2>1 DEF News
  <2>3. PICK h \in GroupOrNone : row' = [row EXCEPT !.group = h, !.published = b]
    BY <1>2, <2>2, HomeType DEF UpdateNews
  <2> QED
    BY <2>1, <2>3 DEF News, Row
<1>3. ASSUME NEW g \in GroupOrNone, NEW b \in BOOLEAN, NEW s \in Starts, UpdateEvent(g, b, s) PROVE Still
  <2>1. row \in Event /\ row' = [row EXCEPT !.group = IF g = None THEN @ ELSE g, !.public = b,
                                            !.starts = s]
    BY <1>3, Kinds DEF UpdateEvent, Changes, TypeInv
  <2> QED
    BY <2>1 DEF Event, Row
<1>4. ASSUME NEW b \in BOOLEAN, PublishNews(b) PROVE Still
  <2>1. row \in News /\ row' = [row EXCEPT !.published = b]
    BY <1>4, Kinds DEF PublishNews, Changes, TypeInv
  <2> QED
    BY <2>1 DEF News, Row
<1>5. ASSUME NEW g \in GroupOrNone, UpdateAdvertisement(g) PROVE Still
  <2>1. row \in Advertisement /\ row' = [row EXCEPT !.group = g]
    BY <1>5, Kinds DEF UpdateAdvertisement, Changes, TypeInv
  <2> QED
    BY <2>1 DEF Advertisement, Row
<1>6. ASSUME NEW g \in Groups, NEW o \in Offices, NEW of \in Holder, UpdateTrustee(g, o, of) PROVE Still
  <2>1. row \in Trustee
    BY <1>6, Kinds DEF UpdateTrustee, Changes, TypeInv
  <2>2. PICK h \in Holder : row' = [row EXCEPT !.group = g, !.office = o, !.of = h]
    BY <1>6, MirroredType DEF UpdateTrustee
  <2> QED
    BY <2>1, <2>2 DEF Trustee, Row
<1>7. ASSUME NEW face \in Faces, EditMember(face) \/ EditFamily(face) \/ EditProfession(face) PROVE Still
  <2>1. row \in Member /\ row' = [row EXCEPT !.face = face]
    BY <1>7, Kinds DEF EditMember, EditFamily, EditProfession, TypeInv
  <2> QED
    BY <2>1 DEF Member, Row
<1> QED
  BY <1>1, <1>2, <1>3, <1>4, <1>5, <1>6, <1>7 DEF Update

LEMMA DeleteType ==
  ASSUME TypeInv, Delete
  PROVE  /\ row.kind \in {"event", "tirth", "news", "ad", "seat", "media"}
         /\ row' \in Row /\ row'.kind = row.kind /\ row'.deleted /\ row'.group = row.group
<1>1. CASE DeleteTrustee
  <2>1. row \in Trustee
    BY <1>1, Kinds DEF DeleteTrustee, Changes, TypeInv
  <2>2. row.of \in Holder
    BY <2>1 DEF Trustee
  <2>3. PICK h \in Holder : row' = [row EXCEPT !.deleted = TRUE, !.of = h]
    BY <1>1, <2>2, MirroredType DEF DeleteTrustee
  <2> QED
    BY <2>1, <2>3 DEF Trustee, Row
<1>2. CASE DeleteItem
  <2>1. /\ row.kind \in {"event", "tirth", "news", "ad"}
        /\ row' = [row EXCEPT !.deleted = TRUE]
    BY <1>2 DEF DeleteItem
  <2>2. row \in Event \cup JainTirth \cup News \cup Advertisement
    BY <2>1, Kinds DEF TypeInv
  <2> QED
    BY <2>1, <2>2 DEF Event, JainTirth, News, Advertisement, Row
<1>3. CASE DeleteMedia
  <2>1. row \in Media /\ row' = [row EXCEPT !.deleted = TRUE]
    BY <1>3, Kinds DEF DeleteMedia, TypeInv
  <2> QED
    BY <2>1 DEF Media, Row
<1> QED
  BY <1>1, <1>2, <1>3 DEF Delete

LEMMA Typed == Spec => []TypeInv
<1>1. Init => TypeInv
  BY DEF Init, TypeInv, Row
<1>2. TypeInv /\ [Next]_vars => TypeInv'
  <2> SUFFICES ASSUME TypeInv, [Next]_vars PROVE TypeInv'
    OBVIOUS
  <2>1. CASE Next
    BY <2>1, Writes, CreateType, UpdateType, DeleteType DEF TypeInv
  <2>2. CASE UNCHANGED vars
    BY <2>2 DEF vars, TypeInv
  <2> QED
    BY <2>1, <2>2
<1> QED
  BY <1>1, <1>2, PTL DEF Spec

-----------------------------------------------------------------------------
(* Writes stay in the group of the admin.                                  *)

LEMMA SameCaller ==
  ASSUME UNCHANGED user
  PROVE  /\ Role' = Role /\ HomeGroup' = HomeGroup /\ Scope' = Scope /\ Scoped' = Scoped
         /\ (\A p \in AllPermissions : May(p)' = May(p))
  BY DEF Role, HomeGroup, HasRecord, Scope, Scoped, May

LEMMA WritersAdminister ==
  ASSUME TypeInv, Next
  PROVE  Administers
<1> USE Roles DEF AllPermissions, AdminPermissions, Reads, Allowed
<1>1. CASE Create
  BY <1>1 DEF Create, CreateTirth, CreateNews, CreateEvent, UploadMedia, CreateAdvertisement, CreateTrustee
<1>2. CASE Update
  BY <1>2 DEF Update, UpdateTirth, UpdateNews, UpdateEvent, PublishNews, UpdateAdvertisement,
              UpdateTrustee, EditMember, EditFamily, EditProfession
<1>3. CASE Delete
  BY <1>3 DEF Delete, DeleteTrustee, DeleteItem, DeleteMedia
<1> QED
  BY <1>1, <1>2, <1>3, Writes

\* Where a group admin files a new row.
LEMMA CreatesInside ==
  ASSUME TypeInv, Create, UNCHANGED user, Administers, Role = "GROUP_ADMIN"
  PROVE  Inside'
<1>1. HomeGroup' = HomeGroup /\ ~Scope.open /\ Scope.group = HomeGroup
  BY SameCaller, Roles
<1>2. ASSUME NEW h, h = HomeGroup, HomeGroup # None, row'.group = h, row'.kind # "member"
      PROVE  Inside'
  BY <1>1, <1>2 DEF Inside
<1>3. ASSUME NEW g \in GroupOrNone, NEW b \in BOOLEAN,
             \/ CreateTirth(g, b) \/ CreateNews(g, b) \/ \E s \in Starts : CreateEvent(g, b, s)
             \/ CreateAdvertisement(g)
      PROVE  Inside'
  <2>1. PICK h \in Managed(g) : row'.group = h /\ row'.kind # "member"
    BY <1>3 DEF CreateTirth, CreateNews, CreateEvent, CreateAdvertisement, Adds
  <2> QED
    BY <1>2, <2>1, Manages
<1>4. ASSUME NEW g \in GroupOrNone, NEW b \in BOOLEAN, NEW o \in Owner, UploadMedia(o, g, b) PROVE Inside'
  <2>1. HomeGroup # None
    BY <1>4 DEF UploadMedia, Allowed, Scoped
  <2>2. row'.group = HomeGroup /\ row'.kind # "member"
    BY <1>1, <1>4 DEF UploadMedia, Adds
  <2> QED
    BY <1>2, <2>1, <2>2
<1>5. ASSUME NEW g \in Groups, NEW o \in Offices, NEW of \in Holder, CreateTrustee(g, o, of) PROVE Inside'
  <2>1. PICK h \in Managed(g) : row'.group = h /\ row'.kind # "member"
    BY <1>5 DEF CreateTrustee, Adds
  <2> QED
    BY <1>2, <2>1, Manages
<1> QED
  BY <1>3, <1>4, <1>5 DEF Create

\* Where it finds a row that it changes, and where it leaves it.
LEMMA UpdatesInside ==
  ASSUME TypeInv, Update, UNCHANGED user, Administers, Role = "GROUP_ADMIN"
  PROVE  Inside /\ (row.kind = "ad" \/ Inside')
<1>1. HomeGroup' = HomeGroup /\ ~Scope.open
  BY SameCaller, Roles
<1>2. row.kind \in {"event", "tirth", "news", "ad", "seat", "member"} /\ row'.kind = row.kind
  BY UpdateType
<1>3. ASSUME NEW kind, Changes(kind), kind # "member"
      PROVE  Inside /\ row.group = HomeGroup /\ HomeGroup # None
  BY <1>3, Accesses DEF Changes, Inside
<1>4. ASSUME row.kind # "member", HomeGroup # None, row'.group = HomeGroup PROVE Inside'
  BY <1>1, <1>2, <1>4 DEF Inside
<1>5. ASSUME NEW g \in GroupOrNone, NEW b \in BOOLEAN,
             UpdateTirth(g, b) \/ \E s \in Starts : UpdateEvent(g, b, s)
      PROVE  Inside /\ Inside'
  <2>1. Inside /\ row.group = HomeGroup /\ HomeGroup # None /\ row.kind # "member"
    BY <1>3, <1>5 DEF UpdateTirth, UpdateEvent, Changes
  <2>2. g # None => g = HomeGroup
    BY <1>5, Accesses DEF UpdateTirth, UpdateEvent
  <2>3. row \in Event \cup JainTirth
    BY <1>5, Kinds DEF UpdateTirth, UpdateEvent, Changes, TypeInv
  <2>4. row'.group = IF g = None THEN row.group ELSE g
    BY <1>5, <2>3 DEF UpdateTirth, UpdateEvent, Event, JainTirth
  <2> QED
    BY <1>4, <2>1, <2>2, <2>4
<1>6. ASSUME NEW g \in GroupOrNone, NEW b \in BOOLEAN, UpdateNews(g, b) \/ PublishNews(b)
      PROVE  Inside /\ Inside'
  <2>1. Inside /\ row.group = HomeGroup /\ HomeGroup # None /\ row.kind # "member"
    BY <1>3, <1>6 DEF UpdateNews, PublishNews, Changes
  <2>2. row \in News
    BY <1>6, Kinds DEF UpdateNews, PublishNews, Changes, TypeInv
  <2>3. row'.group \in Managed(g) \cup {row.group}
    BY <1>6, <2>2 DEF UpdateNews, PublishNews, News
  <2> QED
    BY <1>4, <2>1, <2>3, Manages
<1>7. ASSUME NEW g \in GroupOrNone, UpdateAdvertisement(g) PROVE Inside /\ row.kind = "ad"
  BY <1>3, <1>7 DEF UpdateAdvertisement, Changes
<1>8. ASSUME NEW g \in Groups, NEW o \in Offices, NEW of \in Holder, UpdateTrustee(g, o, of)
      PROVE  Inside /\ Inside'
  <2>1. Inside /\ row.group = HomeGroup /\ HomeGroup # None /\ row.kind # "member"
    BY <1>3, <1>8 DEF UpdateTrustee, Changes
  <2>2. g = HomeGroup
    BY <1>8, <2>1, Accesses DEF UpdateTrustee
  <2>3. row \in Trustee
    BY <1>8, Kinds DEF UpdateTrustee, Changes, TypeInv
  <2>4. row'.group = g
    BY <1>8, <2>3 DEF UpdateTrustee, Trustee
  <2> QED
    BY <1>4, <2>1, <2>2, <2>4
<1>9. ASSUME NEW face \in Faces, EditMember(face) \/ EditFamily(face) \/ EditProfession(face)
      PROVE  Inside /\ Inside'
  <2>1. row \in Member /\ row' = [row EXCEPT !.face = face]
    BY <1>9, Kinds DEF EditMember, EditFamily, EditProfession, TypeInv
  <2>2. MemberInGroup(HomeGroup) /\ HomeGroup # None
    <3>1. CASE EditMember(face)
      BY <3>1 DEF EditMember, MemberAccess, AdminGroup, MemberInGroup
    <3>2. CASE EditFamily(face) \/ EditProfession(face)
      BY <3>2, Accesses DEF EditFamily, EditProfession, MemberInGroup
    <3> QED
      BY <1>9, <3>1, <3>2
  <2>3. row'.kind = "member" /\ row'.group = row.group /\ row'.in = row.in /\ row.kind = "member"
    BY <2>1 DEF Member
  <2> QED
    BY <1>1, <2>2, <2>3 DEF Inside, MemberInGroup
<1>10. None \in GroupOrNone
  BY DEF GroupOrNone
<1> QED
  BY <1>5, <1>6, <1>7, <1>8, <1>9, <1>10 DEF Update

LEMMA DeletesInside ==
  ASSUME TypeInv, Delete, UNCHANGED user, Administers, Role = "GROUP_ADMIN"
  PROVE  Inside /\ Inside'
<1>1. HomeGroup' = HomeGroup /\ ~Scope.open /\ ~May("media.delete")
  BY SameCaller, Roles DEF May, AdminPermissions, Reads
<1>2. row.kind # "member" /\ row'.kind = row.kind /\ row'.group = row.group
  BY DeleteType
<1>3. GroupAccess(row.group)
  BY <1>1 DEF Delete, DeleteTrustee, DeleteItem, DeleteMedia, Changes, Allowed
<1> QED
  BY <1>1, <1>2, <1>3, Accesses DEF Inside

\* No write of a group admin touches a row of another group or moves one
\* there, but for the PATCH of an advertisement; nobody below an admin writes.
THEOREM WritesKeptInside == Spec => KeptInside
<1> DEFINE Kept == /\ Role \in {"GROUP_ADMIN", "SUPER_ADMIN"}
                   /\ Role = "GROUP_ADMIN" =>
                        /\ row.kind = "none" \/ Inside
                        /\ row.kind = "ad" \/ Inside'
<1>1. TypeInv /\ [Next]_vars => [Kept]_row
  <2> SUFFICES ASSUME TypeInv, Next PROVE Kept
    BY DEF vars
  <2>1. Administers
    BY WritersAdminister
  <2>2. UNCHANGED user /\ (Create \/ Update \/ Delete)
    BY Writes
  <2> QED
    BY <2>1, <2>2, CreateType, CreatesInside, UpdatesInside, DeletesInside DEF Administers
<1> QED
  BY <1>1, Typed, PTL DEF Spec, KeptInside

-----------------------------------------------------------------------------
(* Writers and readers.                                                    *)

LEMMA AdminsRead ==
  ASSUME Administers
  PROVE  /\ \A p \in Reads : May(p)
         /\ Role = "SUPER_ADMIN" => Scope.open /\ Scoped
         /\ Role = "GROUP_ADMIN" => ~Scope.open /\ Scope.group = HomeGroup /\ (HomeGroup # None => Scoped)
  BY Roles DEF Scoped

\* A row that lies in the group of an admin, or any row for a super admin,
\* opens to it.
Within ==
  /\ TypeInv /\ Administers
  /\ row.kind \in {"member", "event", "tirth", "news", "seat", "ad"} /\ ~row.deleted
  /\ Role = "GROUP_ADMIN" => row.kind = "ad" \/ Inside

LEMMA WithinOpens == Within => Opens
<1> SUFFICES ASSUME Within PROVE Opens
  OBVIOUS
<1>1. CASE row.kind = "ad"
  BY <1>1 DEF Within, Opens, OpensAdvertisement
<1>2. CASE row.kind # "ad"
  <2>1. /\ \A p \in Reads : Allowed(p)
        /\ \/ Scope.open
           \/ Role = "GROUP_ADMIN" /\ Scope.group = HomeGroup /\ HomeGroup # None /\ ~Scope.open
    BY <1>2, AdminsRead DEF Within, Administers, Allowed, Inside
  <2>2. ~Scope.open => Inside
    BY <1>2, <2>1 DEF Within
  <2>3. CASE row.kind = "member"
    BY <2>1, <2>2, <2>3 DEF Within, Opens, OpensMember, Inside, Reads
  <2>4. CASE row.kind = "event" \/ row.kind = "tirth"
    <3>1. Visible
      <4>1. CASE Scope.open
        BY <4>1, Roles DEF Within, Visible
      <4>2. CASE ~Scope.open
        <5>1. Role = "GROUP_ADMIN" /\ row.group = Scope.group
          BY <2>1, <2>2, <2>4, <4>2 DEF Inside
        <5> QED
          BY <4>2, <5>1 DEF Within, Visible
      <4> QED
        BY <4>1, <4>2
    <3> QED
      BY <2>1, <2>4, <3>1 DEF Opens, OpensEvent, OpensTirth, Reads
  <2>5. CASE row.kind = "news" \/ row.kind = "seat"
    BY <2>1, <2>2, <2>5 DEF Opens, OpensNews, OpensSeat, Inside, Reads
  <2> QED
    BY <1>2, <2>3, <2>4, <2>5 DEF Within
<1> QED
  BY <1>1, <1>2

LEMMA WithinOpensNext == Within' => Opens'
  BY WithinOpens, PTL

\* The rules for reading let in whoever the rules for writing let in: a row
\* that was written, and is not deleted, opens to its writer.
THEOREM WritersRead == Spec => OpensWhatItWrites
<1>1. TypeInv /\ [Next]_vars => [row'.deleted \/ Opens']_row
  <2> SUFFICES ASSUME TypeInv, Next, ~row'.deleted PROVE Opens'
    BY DEF vars
  <2>1. Administers /\ UNCHANGED user
    BY WritersAdminister, Writes
  <2>2. TypeInv' /\ Administers' /\ Role' = Role
    BY <2>1, Writes, CreateType, UpdateType, DeleteType, SameCaller DEF TypeInv, Administers
  <2>3. CASE Update
    <3>1. Role = "GROUP_ADMIN" => row.kind = "ad" \/ Inside'
      BY <2>1, <2>3, UpdatesInside
    <3>2. row'.kind = row.kind /\ row'.kind \in {"event", "tirth", "news", "ad", "seat", "member"}
      BY <2>3, UpdateType
    <3> QED
      BY <2>2, <3>1, <3>2, WithinOpensNext DEF Within
  <2>4. CASE Create /\ row'.kind = "media"
    <3>1. row'.uploaded
      <4>1. PICK g \in GroupOrNone, b \in BOOLEAN, o \in Owner : UploadMedia(o, g, b)
        BY <2>4 DEF Create, CreateTirth, CreateNews, CreateEvent, CreateAdvertisement, CreateTrustee, Adds
      <4> QED
        BY <4>1 DEF UploadMedia, Adds
    <3> QED
      BY <2>4, <3>1 DEF Opens, OpensContent, OpensPrivate
  <2>5. CASE Create /\ row'.kind # "media"
    <3>1. Role = "GROUP_ADMIN" => Inside'
      BY <2>1, <2>5, CreatesInside
    <3>2. row'.kind \in {"event", "tirth", "news", "seat", "ad"}
      BY <2>5 DEF Create, CreateTirth, CreateNews, CreateEvent, UploadMedia, CreateAdvertisement,
                  CreateTrustee, Adds
    <3> QED
      BY <2>2, <3>1, <3>2, WithinOpensNext DEF Within
  <2>6. ~Delete
    BY DeleteType
  <2> QED
    BY <2>3, <2>4, <2>5, <2>6, Writes
<1> QED
  BY <1>1, Typed, PTL DEF Spec, OpensWhatItWrites

-----------------------------------------------------------------------------
(* The lists.                                                              *)

\* A caller with limits of whom the scope knows a group.
LEMMA Placements ==
  /\ Placed => Scoped
  /\ Placed /\ ~Scope.open => Scope.group # None
  /\ Scope.open => ~Scope.self /\ Scope.group = None
  /\ \A p \in {"member.update", "event.update", "jain_tirth.update", "media.upload"} :
       May(p) => Administers
  BY Roles DEF Placed, AllPermissions, AdminPermissions, Reads

\* A member that a list gives to a caller with a group, or to itself, opens.
LEMMA ListedMembers ==
  ASSUME row.kind = "member", NEW g \in GroupOrNone, NEW q \in Filters,
         \/ Placed /\ (ListMembers(g, q) \/ ListGroupMembers(g))
         \/ (Placed \/ Scope.self) /\ Finds(g, q)
  PROVE  OpensMember
<1>1. CASE Placed /\ ListMembers(g, q)
  BY <1>1, Placements DEF ListMembers, MemberGroupFilter, MayAsk, OpensMember
<1>2. CASE Placed /\ ListGroupMembers(g)
  <2>1. May("member.read")
    BY <1>2 DEF ListGroupMembers, Allowed, May, AllPermissions, AdminPermissions, Reads
  <2> QED
    BY <1>2, <2>1, Placements DEF ListGroupMembers, Allowed, OpensMember
<1>3. CASE (Placed \/ Scope.self) /\ SearchMembers(g, q)
  BY <1>3, Placements DEF SearchMembers, MemberGroupFilter, MayAsk, OpensMember
<1>4. CASE (Placed \/ Scope.self) /\ ListTrustees(g, q)
  <2>1. May("member.read")
    BY <1>4 DEF ListTrustees, Allowed, May, AllPermissions, AdminPermissions, Reads
  <2> QED
    BY <1>4, <2>1, Placements DEF ListTrustees, Allowed, MemberGroupFilter, OpensMember
<1>5. CASE (Placed \/ Scope.self) /\ Celebrated
  BY <1>5, Placements DEF Celebrated, MemberInGroup, OpensMember
<1>6. CASE (Placed \/ Scope.self) /\ ListMembers(g, [q EXCEPT !.query = None])
  BY <1>6, Placements DEF ListMembers, MemberGroupFilter, MayAsk, OpensMember
<1> QED
  BY <1>1, <1>2, <1>3, <1>4, <1>5, <1>6 DEF Finds

LEMMA ListedOthers ==
  ASSUME TypeInv, NEW g \in GroupOrNone, NEW q
  PROVE  /\ row.kind = "news" /\ Placed /\ ListNews(g, TRUE) => OpensNews
         /\ row.kind = "seat" /\ Placed /\ ListSeats(g, FALSE) => OpensSeat
         /\ row.kind = "ad" /\ ListAdvertisements(g, FALSE) => OpensAdvertisement
         /\ row.kind = "group" /\ ((Placed /\ ListGroups(q)) \/ SearchGroups(q)) => OpensGroup
<1>1. row.kind = "news" /\ Placed /\ ListNews(g, TRUE) => OpensNews
  BY Placements DEF ListNews, OpensNews, Filtered
<1>2. row.kind = "seat" /\ Placed /\ ListSeats(g, FALSE) => OpensSeat
  BY Placements DEF ListSeats, OpensSeat, Filtered
<1>3. row.kind = "ad" /\ ListAdvertisements(g, FALSE) => OpensAdvertisement
  BY DEF ListAdvertisements, OpensAdvertisement
<1>4. SearchGroups(q) => OpensGroup
  BY DEF SearchGroups, OpensGroup
<1>5. Placed /\ ListGroups(q) => OpensGroup
  <2> SUFFICES ASSUME Placed, ListGroups(q) PROVE OpensGroup
    OBVIOUS
  <2>1. Role \in {"SUPER_ADMIN", "GROUP_ADMIN", "MEMBER"}
    BY DEF ListGroups, Role, RoleOf, Resolved
  <2>2. May("group.read")
    BY <2>1 DEF May, AllPermissions, AdminPermissions, Reads
  <2> QED
    BY <2>2, Placements DEF ListGroups, OpensGroup, Allowed
<1> QED
  BY <1>1, <1>2, <1>3, <1>4, <1>5

\* The lists of events, tirths and media, of an admin's own group.
LEMMA ListedOwn ==
  ASSUME TypeInv, NEW g \in GroupOrNone
  PROVE  /\ Allowed("event.update") /\ g = Scope.group /\ ListEvents(g, None) => OpensEvent
         /\ Allowed("jain_tirth.update") /\ g = Scope.group /\ ListTirths(g) => OpensTirth
         /\ row.kind = "media" /\ Allowed("media.upload") /\ ListMediaOfGroup(g) => OpensContent
<1>1. ASSUME Administers, Scoped, g = Scope.group, Clauses(g) PROVE Visible
  <2>1. CASE Scope.open
    BY <1>1, <2>1, Roles DEF Clauses, Visible
  <2>2. CASE ~Scope.open
    <3>1. Role = "GROUP_ADMIN" /\ Scope.group # None
      BY <1>1, <2>2, Roles DEF Administers, Scoped
    <3> QED
      BY <1>1, <2>2, <3>1 DEF Clauses, Visible
  <2> QED
    BY <2>1, <2>2
<1>2. \A p \in {"event.update", "jain_tirth.update", "media.upload"} :
        Allowed(p) => Administers /\ Scoped /\ Allowed("event.read") /\ Allowed("jain_tirth.read")
  BY Placements, AdminsRead DEF Allowed, Reads
<1>3. Allowed("event.update") /\ g = Scope.group /\ ListEvents(g, None) => OpensEvent
  BY <1>1, <1>2 DEF ListEvents, OpensEvent
<1>4. Allowed("jain_tirth.update") /\ g = Scope.group /\ ListTirths(g) => OpensTirth
  BY <1>1, <1>2 DEF ListTirths, OpensTirth
<1>5. Allowed("media.upload") /\ ListMediaOfGroup(g) => OpensContent
  <2> SUFFICES ASSUME Allowed("media.upload"), ListMediaOfGroup(g) PROVE OpensContent
    OBVIOUS
  <2>1. Administers /\ Scoped
    BY <1>2
  <2>2. \/ Role = "SUPER_ADMIN"
        \/ Role = "GROUP_ADMIN" /\ Scope.group # None
    BY <2>1, Roles DEF Administers, Scoped
  <2> QED
    BY <2>1, <2>2 DEF ListMediaOfGroup, OpensContent, OpensPrivate
<1> QED
  BY <1>3, <1>4, <1>5

\* What any list gives, the detail opens, for the callers ListedOpens names.
THEOREM ListsOpen == Spec => []ListedOpens
<1>1. TypeInv => ListedOpens
  <2> SUFFICES ASSUME TypeInv, NEW g \in GroupOrNone, NEW q \in Filters
               PROVE  ListedOpens!(g, q)
    BY DEF ListedOpens
  <2> QED
    BY ListedMembers, ListedOthers, ListedOwn
<1> QED
  BY <1>1, Typed, PTL

\* ListsAgree, for members: the trustees and the members with trustee_only.
LEMMA TrusteesAlike ==
  TypeInv /\ row.kind = "member" =>
    \A g \in GroupOrNone, q \in Filters :
      (q.trustee /\ q.role = None /\ q.query = None /\ q.social = None) =>
        (ListTrustees(g, q) <=> ListMembers(g, q))
<1> SUFFICES ASSUME TypeInv, row.kind = "member", NEW g \in GroupOrNone, NEW q \in Filters,
                    q.trustee, q.role = None, q.query = None, q.social = None
             PROVE  ListTrustees(g, q) <=> ListMembers(g, q)
  OBVIOUS
<1>1. Allowed("trustee.read") <=> Allowed("member.read")
  BY AdminsRead DEF Allowed, May, Reads, AdminPermissions, AllPermissions
<1>2. MayAsk(g) => (IF Scope.open THEN g ELSE Scope.group) = (IF g # None THEN g ELSE Scope.group)
  BY DEF MayAsk, Scope
<1> QED
  BY <1>1, <1>2 DEF ListTrustees, ListMembers

LEMMA SearchesAlike ==
  TypeInv /\ row.kind = "member" =>
    \A g \in GroupOrNone, q \in Filters :
      (Placed /\ q.query \notin {None, {}} /\ ~q.trustee /\ q.office = None) =>
        (SearchMembers(g, q) <=> ListMembers(g, q))
<1> SUFFICES ASSUME TypeInv, row.kind = "member", NEW g \in GroupOrNone, NEW q \in Filters,
                    Placed, q.query \notin {None, {}}, ~q.trustee, q.office = None
             PROVE  SearchMembers(g, q) <=> ListMembers(g, q)
  OBVIOUS
<1>1. (Scope.self /\ Scope.group = None) => row.mine
  BY DEF Placed, Scope
<1> QED
  BY <1>1 DEF SearchMembers, ListMembers

LEMMA OffersFind ==
  TypeInv /\ row.kind = "member" =>
    /\ \A g \in Groups : Offered(g) => ListMembers(None, [Unfiltered EXCEPT !.social = g])
    /\ Celebrated => ListMembers(None, Unfiltered)
<1> SUFFICES ASSUME TypeInv, row.kind = "member"
             PROVE  /\ \A g \in Groups :
                         Offered(g) => ListMembers(None, [Unfiltered EXCEPT !.social = g])
                    /\ Celebrated => ListMembers(None, Unfiltered)
  OBVIOUS
<1>1. MayAsk(None)
  BY DEF MayAsk
<1>2. ASSUME NEW g \in Groups, Offered(g)
      PROVE  ListMembers(None, [Unfiltered EXCEPT !.social = g])
  BY <1>1, <1>2 DEF Offered, ListMembers, Unfiltered, NamedGroup
<1>3. Celebrated => MemberGroupFilter(Scope.group)
  BY DEF Celebrated, MemberGroupFilter, MemberInGroup, Scope
<1>4. Celebrated => ((Scope.self /\ Scope.group = None) => row.mine)
  BY DEF Celebrated, Scope
<1>5. Celebrated => ListMembers(None, Unfiltered)
  BY <1>1, <1>3, <1>4 DEF Celebrated, ListMembers, Unfiltered
<1> QED
  BY <1>2, <1>5

LEMMA BucketsAlike ==
  TypeInv /\ row.kind = "event" =>
    \A g \in GroupOrNone, frame \in {"PAST", "UPCOMING", "FUTURE"} :
      ListEvents(g, frame) <=> ListEvents(g, None) /\ frame = TimeFrame
<1> SUFFICES ASSUME TypeInv, row.kind = "event", NEW g \in GroupOrNone,
                    NEW frame \in {"PAST", "UPCOMING", "FUTURE"}
             PROVE  ListEvents(g, frame) <=> ListEvents(g, None) /\ frame = TimeFrame
  OBVIOUS
<1>1. row.starts \in Int
  BY Parameters, Kinds DEF TypeInv, Event
<1>2. InFrame(None)
  BY Parameters DEF InFrame
<1>3. InFrame(frame) <=> frame = TimeFrame
  BY <1>1 DEF InFrame, TimeFrame, UpcomingWindow
<1> QED
  BY <1>2, <1>3 DEF ListEvents

\* Lists that are to show the same agree, for every directory: the trustees,
\* the two searches, the names offered, the celebrated, the buckets of events.
THEOREM ListsAreAlike == Spec => []ListsAgree
<1>1. TypeInv => ListsAgree
  BY TrusteesAlike, SearchesAlike, OffersFind, BucketsAlike DEF ListsAgree
<1> QED
  BY <1>1, Typed, PTL
=============================================================================
