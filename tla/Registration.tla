---------------------------- MODULE Registration ----------------------------
(***************************************************************************)
(* Accounts (users) and member records: the import of the registration     *)
(* sheet (registration_sync_service.py) beside self registration, the      *)
(* administrators' calls (users.py, members.py) and profile edits          *)
(* (profile_service.py).                                                   *)
(*                                                                         *)
(* A field of a member is kept twice: in a column and in the JSON bag      *)
(* profile_data, which is read, changed and written back as a whole.       *)
(***************************************************************************)
EXTENDS Integers, FiniteSets, Sequences

CONSTANTS
  Accounts, Members,   \* ids
  Phones,              \* mobile numbers, whatever form they are written in
  Emails, Lower,       \* spellings of addresses, and the lower-case one of each
  Values,              \* of a field
  Entered,             \* those that clients send
  Sheets,              \* the contents the sheet may have: sequences of Row
  Runners,             \* the scheduled sync and the manual one
  MaxCalls,            \* bound: runs and requests; an edit is two
  MaxFaults,           \* bound: rows and transactions that fail
  None

ASSUME Parameters ==
  /\ Lower \in [Emails -> Emails] /\ Entered \subseteq Values
  /\ None \notin Accounts \cup Members \cup Phones \cup Emails \cup Values
  /\ MaxCalls \in Nat /\ MaxFaults \in Nat

Opt(S) == S \cup {None}

\* Two of the fields a sheet, a profile and a member's columns share.
Fields == {"address", "photo"}
Cells == [Fields -> Opt(Values)]
Blank == [f \in Fields |-> None]

\* What a form and an edit have for each field: nothing, a value or, an edit, a
\* null, which clears.
Null == "null"
Forms == [Fields -> Opt(Entered)]
Edits == [Fields -> Opt(Entered) \cup {Null}]

SetTo(old, sent) ==
  IF sent = Null THEN None ELSE IF sent = None THEN old ELSE sent

\* A parsed row; without a valid number it is not imported.
Row == [phone : Opt(Phones), email : Opt(Emails), cells : Cells]

User == [state : {"none", "live", "deleted"}, phone : Opt(Phones), email : Opt(Emails),
         by : {None, "sync", "other"}]
Member == [state : {"none", "live", "deleted"}, user : Opt(Accounts), phone : Opt(Phones),
           columns : Cells, bag : Cells]

NoUser == [state |-> "none", phone |-> None, email |-> None, by |-> None]
NoMember == [state |-> "none", user |-> None, phone |-> None, columns |-> Blank, bag |-> Blank]

ASSUME Sheet == Sheets \subseteq Seq(Row)
ASSUME Absent == None \notin User \cup Member \cup Sheets \cup {"sync", "other", Null}
ASSUME Marked == Null \notin Phones \cup Emails \cup Values

VARIABLES
  sheet,          \* the sheet as its organisers have it
  user, member,   \* the committed rows
  run,            \* the runs of the sync
  edit,           \* the edit of a member under way
  settled,        \* history: the sheet last imported, while nothing has changed since
  overlap,        \* history: a run and an edit have been under way at once
  taken,          \* history: the accounts whose record an appointment gave to another
  calls, faults

vars == <<sheet, user, member, run, edit, settled, overlap, taken, calls, faults>>

Run ==
  [at      : {"idle", "lock", "index", "rows", "commit"},
   table   : Seq(Row),                       \* the sheet as read
   next    : Nat,                            \* the row it is at
   byPhone : [Phones -> Opt(Accounts)],      \* users_by_phone
   byEmail : [Emails -> Opt(Accounts)],      \* users_by_email
   byUser  : [Accounts -> Opt(Members)],     \* members_by_user
   bags    : [Members -> Cells],             \* profile_data, as its session has it
   detached : SUBSET Members,                \* the objects that have left the session
   phones  : SUBSET Phones, emails : SUBSET Emails,     \* seen_phones, seen_emails
   users   : [Accounts -> Opt(User)],        \* what it has written
   members : [Members -> Opt(Member)],
   results : Seq({"insert", "link", "update", "skipped", "failed"}),
   calm    : BOOLEAN]                        \* history: no fault and no other request

IdleRun ==
  [at |-> "idle", table |-> <<>>, next |-> 1,
   byPhone |-> [p \in Phones |-> None], byEmail |-> [e \in Emails |-> None],
   byUser |-> [a \in Accounts |-> None], bags |-> [m \in Members |-> Blank],
   detached |-> {}, phones |-> {}, emails |-> {},
   users |-> [a \in Accounts |-> None], members |-> [m \in Members |-> None],
   results |-> <<>>, calm |-> TRUE]

NoEdit == [at |-> "idle", member |-> None, seen |-> NoMember, cells |-> Blank]

Init ==
  /\ sheet \in Sheets
  /\ user = [a \in Accounts |-> NoUser] /\ member = [m \in Members |-> NoMember]
  /\ run = [r \in Runners |-> IdleRun] /\ edit = NoEdit
  /\ settled = None /\ overlap = FALSE /\ taken = {}
  /\ calls = 0 /\ faults = 0

-----------------------------------------------------------------------------
(* Rows, locks and unique indexes.                                         *)

LiveUser(a) == user[a].state = "live"
LiveMember(m) == member[m].state = "live"

\* What a run has written is locked until it ends.
Unlocked(m) == \A r \in Runners : run[r].members[m] = None

\* The unique indexes of users; deleted rows are in them, and so are, for
\* whoever waits for them, the uncommitted rows of a run.
PhoneFree(p) ==
  /\ \A a \in Accounts : user[a].state # "none" => user[a].phone # p
  /\ \A r \in Runners, a \in Accounts : run[r].users[a] # None => run[r].users[a].phone # p
EmailFree(e) ==
  e = None \/ /\ \A a \in Accounts : user[a].state # "none" => user[a].email # e
              /\ \A r \in Runners, a \in Accounts :
                    run[r].users[a] # None => run[r].users[a].email # e

NewAccount(a) == user[a].state = "none" /\ \A r \in Runners : run[r].users[a] = None
NewMember(m) == member[m].state = "none" /\ Unlocked(m)

\* uq_members_user_id: deleted records keep their account.
Unlinked(a) ==
  /\ \A m \in Members : member[m].state # "none" => member[m].user # a
  /\ \A r \in Runners, m \in Members : run[r].members[m] # None => run[r].members[m].user # a

Counted == calls < MaxCalls /\ calls' = calls + 1
Fault == faults < MaxFaults /\ faults' = faults + 1

\* A request other than a run has committed.
Disturbed == [r \in Runners |-> IF run[r].at = "idle" THEN run[r] ELSE [run[r] EXCEPT !.calm = FALSE]]
Changed == Counted /\ settled' = None /\ run' = Disturbed /\ UNCHANGED <<sheet, overlap, faults>>
Other == Changed /\ UNCHANGED taken

-----------------------------------------------------------------------------
(* The import.  The table is read before the lock is asked for.            *)

StartRun(r) ==
  /\ run[r].at = "idle" /\ Counted
  /\ run' = [run EXCEPT ![r] = [IdleRun EXCEPT !.at = "lock", !.table = sheet]]
  /\ overlap' = (overlap \/ edit.at # "idle")
  /\ UNCHANGED <<sheet, user, member, edit, settled, taken, faults>>

\* pg_try_advisory_xact_lock: a second run is refused.
Lock(r) ==
  /\ run[r].at = "lock"
  /\ run' = [run EXCEPT ![r] =
       IF \E q \in Runners \ {r} : run[q].at \in {"index", "rows", "commit"}
       THEN IdleRun ELSE [@ EXCEPT !.at = "index"]]
  /\ UNCHANGED <<sheet, user, member, edit, settled, overlap, taken, calls, faults>>

Valid(row) == row.phone # None
Cased(e) == IF e = None THEN None ELSE Lower[e]

\* _existing_users: by number, and by the address exactly as a row spells it,
\* indexed by its lower-case form.
WithPhone(p) == {a \in Accounts : LiveUser(a) /\ user[a].phone = p}
WithEmail(table, e) ==
  {a \in Accounts :
     /\ LiveUser(a) /\ user[a].email # None /\ Lower[user[a].email] = e
     /\ \E i \in DOMAIN table : Valid(table[i]) /\ table[i].email = user[a].email}

OneOf(S, x) == IF S = {} THEN x = None ELSE x \in S

\* _members_by_user.
RecordOf(a) == {m \in Members : LiveMember(m) /\ member[m].user = a}

Index(r) ==
  /\ run[r].at = "index"
  /\ \E byEmail \in [Emails -> Opt(Accounts)] :
       /\ \A e \in Emails : OneOf(WithEmail(run[r].table, e), byEmail[e])
       /\ run' = [run EXCEPT
            ![r].at = IF run[r].table = <<>> THEN "commit" ELSE "rows",
            ![r].byPhone = [p \in Phones |-> CHOOSE x \in Opt(Accounts) : OneOf(WithPhone(p), x)],
            ![r].byEmail = byEmail,
            ![r].byUser = [a \in Accounts |-> CHOOSE x \in Opt(Members) : OneOf(RecordOf(a), x)],
            ![r].bags = [m \in Members |-> member[m].bag]]
  /\ UNCHANGED <<sheet, user, member, edit, settled, overlap, taken, calls, faults>>

\* The account a row belongs to: by its number, else by its address.
Matched(q, row) ==
  LET p == q.byPhone[row.phone]
      e == IF row.email = None THEN None ELSE q.byEmail[Lower[row.email]]
  IN  [user |-> IF p # None THEN p ELSE e, clash |-> p # None /\ e # None /\ p # e]

Seen(q, row) == row.phone \in q.phones \/ (row.email # None /\ Cased(row.email) \in q.emails)

\* The next row is through.
Ends(q, result) ==
  [q EXCEPT !.results = Append(@, result), !.next = @ + 1,
            !.at = IF q.next = Len(q.table) THEN "commit" ELSE "rows"]

\* A number and an address that were seen once are not imported again.
Noted(q, row) ==
  [q EXCEPT !.phones = @ \cup {row.phone}, !.emails = @ \cup ({Cased(row.email)} \ {None})]

\* A row that has to wait for nothing: it is not written.
PassRow(r) ==
  LET q == run[r]
      row == q.table[q.next]
  IN  /\ q.at = "rows"
      /\ \/ ~Valid(row) /\ run' = [run EXCEPT ![r] = Ends(q, "failed")]
         \/ Valid(row) /\ Seen(q, row) /\ run' = [run EXCEPT ![r] = Ends(q, "skipped")]
         \/ /\ Valid(row) /\ ~Seen(q, row) /\ Matched(q, row).clash
            /\ run' = [run EXCEPT ![r] = Ends(Noted(q, row), "failed")]
      /\ UNCHANGED <<sheet, user, member, edit, settled, overlap, taken, calls, faults>>

Writes(q, row) == q.at = "rows" /\ Valid(row) /\ ~Seen(q, row) /\ ~Matched(q, row).clash

\* Faulty: a blank cell clears.
Replace(old, cells) == cells

\* Non-blank cells win.
Merge(old, cells) == [f \in Fields |-> IF cells[f] = None THEN old[f] ELSE cells[f]]

\* A photo a member has is not replaced by the sheet's.
Offered(q, m, cells) ==
  IF member[m].columns["photo"] # None \/ q.bags[m]["photo"] # None
  THEN [cells EXCEPT !["photo"] = None] ELSE cells

\* The row of a member as the run's transaction sees it.
Current(q, m) == IF q.members[m] = None THEN member[m] ELSE q.members[m]

\* Faulty: the bag is merged into the one that is stored.
UpdatedAfresh(q, m, row) ==
  LET cells == Offered(q, m, row.cells)
      now == Current(q, m)
  IN  [q EXCEPT
        !.members[m] = [now EXCEPT !.phone = row.phone,
                                   !.columns = Merge(now.columns, cells),
                                   !.bag = Merge(member[m].bag, cells)]]

\* _update_row: the columns by an UPDATE, the bag by the session's object.
Updated(q, m, row) ==
  LET cells == Offered(q, m, row.cells)
      bag == Merge(q.bags[m], cells)
      now == Current(q, m)
  IN  [q EXCEPT
        !.bags[m] = bag,
        !.members[m] = [now EXCEPT !.phone = row.phone,
                                   !.columns = Merge(now.columns, cells),
                                   !.bag = IF m \in q.detached THEN now.bag ELSE bag]]

UpdateRow(r) ==
  LET q == run[r]
      row == q.table[q.next]
      u == Matched(q, row).user
  IN  /\ Writes(q, row) /\ u # None /\ q.byUser[u] # None
      /\ run' = [run EXCEPT ![r] =
           Ends(Noted(Updated(q, q.byUser[u], row), row), "update")]
      /\ UNCHANGED <<sheet, user, member, edit, settled, overlap, taken, calls, faults>>

\* Faulty: a record for an account that exists is not linked to it.
InsertedUnlinked(q, a, m, row, new) ==
  [q EXCEPT
     !.users[a] = IF new THEN [state |-> "live", phone |-> row.phone, email |-> row.email,
                               by |-> "sync"] ELSE @,
     !.members[m] = [state |-> "live", user |-> IF new THEN a ELSE None, phone |-> row.phone,
                     columns |-> row.cells, bag |-> row.cells]]

\* _insert_row: an account where there is none, and its member record.
Inserted(q, a, m, row, new) ==
  [q EXCEPT
     !.users[a] = IF new THEN [state |-> "live", phone |-> row.phone, email |-> row.email,
                               by |-> "sync"] ELSE @,
     !.members[m] = [state |-> "live", user |-> a, phone |-> row.phone,
                     columns |-> row.cells, bag |-> row.cells],
     !.bags[m] = row.cells,
     !.byUser[a] = m,
     !.byPhone[row.phone] = IF new THEN a ELSE @,
     !.byEmail = IF new /\ row.email # None THEN [@ EXCEPT ![Lower[row.email]] = a] ELSE @]

InsertRow(r) ==
  LET q == run[r]
      row == q.table[q.next]
  IN  /\ Writes(q, row) /\ Matched(q, row).user = None
      /\ PhoneFree(row.phone) /\ EmailFree(row.email)
      /\ \E a \in Accounts, m \in Members :
           /\ NewAccount(a) /\ NewMember(m)
           /\ run' = [run EXCEPT ![r] =
                Ends(Noted(Inserted(q, a, m, row, TRUE), row), "insert")]
      /\ UNCHANGED <<sheet, user, member, edit, settled, overlap, taken, calls, faults>>

LinkRow(r) ==
  LET q == run[r]
      row == q.table[q.next]
      u == Matched(q, row).user
  IN  /\ Writes(q, row) /\ u # None /\ q.byUser[u] = None /\ Unlinked(u)
      /\ \E m \in Members :
           /\ NewMember(m)
           /\ run' = [run EXCEPT ![r] =
                Ends(Noted(Inserted(q, u, m, row, FALSE), row), "link")]
      /\ UNCHANGED <<sheet, user, member, edit, settled, overlap, taken, calls, faults>>

\* A unique index refuses the row.
Refused(q, row) ==
  LET u == Matched(q, row).user
  IN  \/ u = None /\ ~(PhoneFree(row.phone) /\ EmailFree(row.email))
      \/ u # None /\ q.byUser[u] = None /\ ~Unlinked(u)

\* Faulty: the account stays, the record does not.
FailedHalf(q, row) ==
  LET a == CHOOSE b \in Accounts : NewAccount(b) \/ \A c \in Accounts : ~NewAccount(c)
  IN  [Ends(Noted(q, row), "failed") EXCEPT
        !.detached = Members,
        !.users[a] = [state |-> "live", phone |-> row.phone, email |-> None, by |-> "sync"]]

\* _row_failure: the savepoint is rolled back, and every object leaves the
\* session.
Failed(q, row) ==
  [Ends(Noted(q, row), "failed") EXCEPT !.detached = {q.byUser[a] : a \in Accounts} \cap Members]

FailRow(r) ==
  LET q == run[r]
      row == q.table[q.next]
  IN  /\ Writes(q, row)
      /\ \/ Refused(q, row) /\ run' = [run EXCEPT ![r] = Failed(q, row)] /\ UNCHANGED faults
         \/ /\ Fault
            /\ run' = [run EXCEPT ![r] = [Failed(q, row) EXCEPT !.calm = FALSE]]
      /\ UNCHANGED <<sheet, user, member, edit, settled, overlap, taken, calls>>

CommitRun(r) ==
  LET q == run[r]
  IN  /\ q.at = "commit"
      /\ user' = [a \in Accounts |-> IF q.users[a] = None THEN user[a] ELSE q.users[a]]
      /\ member' = [m \in Members |-> IF q.members[m] = None THEN member[m] ELSE q.members[m]]
      /\ run' = [run EXCEPT ![r] = IdleRun]
      /\ settled' = IF q.calm /\ q.table = sheet /\ edit.at = "idle" THEN q.table ELSE None
      /\ UNCHANGED <<sheet, edit, overlap, taken, calls, faults>>

AbortRun(r) ==
  /\ run[r].at \notin {"idle", "lock"} /\ Fault
  /\ run' = [run EXCEPT ![r] = IdleRun]
  /\ UNCHANGED <<sheet, user, member, edit, settled, overlap, taken, calls>>

\* An organiser changes the sheet.
EditSheet ==
  /\ Counted /\ sheet' \in Sheets \ {sheet} /\ settled' = None
  /\ UNCHANGED <<user, member, run, edit, overlap, taken, faults>>

-----------------------------------------------------------------------------
(* Registration and the administrators' calls.                             *)

Account(p, e) == [state |-> "live", phone |-> p, email |-> e, by |-> "other"]
Record(a, p, cells) ==
  [state |-> "live", user |-> a, phone |-> p, columns |-> cells, bag |-> cells]

\* The addresses these calls store are lower-case.
Stored == {Lower[e] : e \in Emails} \cup {None}

Register(a, m, p, e) ==
  /\ Other /\ NewAccount(a) /\ NewMember(m) /\ PhoneFree(p) /\ EmailFree(e)
  /\ user' = [user EXCEPT ![a] = Account(p, e)]
  /\ member' = [member EXCEPT ![m] = Record(a, p, Blank)]
  /\ UNCHANGED edit

CreateUser(a, p, e) ==
  /\ Other /\ NewAccount(a) /\ PhoneFree(p) /\ EmailFree(e)
  /\ user' = [user EXCEPT ![a] = Account(p, e)]
  /\ UNCHANGED <<member, edit>>

\* PATCH /users/{id}: the member record keeps its contact number.
UpdateUser(a, p) ==
  /\ Other /\ user[a].state # "none" /\ PhoneFree(p)
  /\ user' = [user EXCEPT ![a].phone = p]
  /\ UNCHANGED <<member, edit>>

DeleteUser(a) ==
  /\ Other /\ LiveUser(a)
  /\ user' = [user EXCEPT ![a].state = "deleted"]
  /\ UNCHANGED <<member, edit>>

DeleteMember(m) ==
  /\ Other /\ LiveMember(m) /\ Unlocked(m)
  /\ member' = [member EXCEPT ![m].state = "deleted"]
  /\ UNCHANGED <<user, edit>>

\* POST /members: for an account, for the account its number has or gets, or for none.
CreateMember(m, p, cells) ==
  /\ Other /\ NewMember(m)
  /\ \/ /\ \E a \in Accounts :
             /\ user[a].state # "none" /\ Unlinked(a)
             /\ member' = [member EXCEPT ![m] = Record(a, p, cells)]
        /\ UNCHANGED user
     \/ /\ PhoneFree(p)
        /\ \E a \in Accounts :
             /\ NewAccount(a)
             /\ user' = [user EXCEPT ![a] = Account(p, None)]
             /\ member' = [member EXCEPT ![m] = Record(a, p, cells)]
     \/ member' = [member EXCEPT ![m] = Record(None, p, cells)] /\ UNCHANGED user
  /\ UNCHANGED edit

\* The groups' calls look for the record of an account among deleted ones too.
Kept(a) == {m \in Members : member[m].state # "none" /\ member[m].user = a}

\* POST /groups/{id}/members with an account.
AddGroupMember(a, m) ==
  /\ Other /\ user[a].state # "none" /\ Unlinked(a) /\ NewMember(m)
  /\ member' = [member EXCEPT ![m] = Record(a, user[a].phone, Blank)]
  /\ UNCHANGED <<user, edit>>

\* POST /groups/{id}/admins, and POST /groups with a number: the administrator's
\* record is its own, else the live one that carries its number, whoever's it
\* is, else a new one.
Appointed(a, p, m) ==
  IF Kept(a) # {} THEN m \in Kept(a) /\ Unlocked(m) /\ UNCHANGED <<member, taken>>
  ELSE /\ Unlinked(a)
       /\ LET carriers == {n \in Members : LiveMember(n) /\ member[n].phone = p}
          IN  IF carriers # {}
              THEN /\ m \in carriers /\ Unlocked(m)
                   /\ member' = [member EXCEPT ![m].user = a]
                   /\ taken' = taken \cup ({member[m].user} \ {None})
              ELSE /\ NewMember(m) /\ UNCHANGED taken
                   /\ member' = [member EXCEPT ![m] = Record(a, p, Blank)]

AppointAdmin(a, p, m) ==
  /\ Changed
  /\ \/ user[a].state # "none" /\ user[a].phone = p /\ UNCHANGED user
     \/ /\ NewAccount(a) /\ PhoneFree(p)
        /\ user' = [user EXCEPT ![a] = Account(p, None)]
  /\ Appointed(a, p, m)
  /\ UNCHANGED edit

-----------------------------------------------------------------------------
(* Edits: PATCH /members/{id} and PUT /profile load a record and write its *)
(* bag back as a whole.                                                    *)

Ready == edit.at = "idle" /\ calls + 2 <= MaxCalls

BeginEdit(m, rows) ==
  /\ Ready /\ calls' = calls + 2
  /\ \E cells \in Edits :
       edit' = [at |-> "edit", member |-> m, seen |-> rows[m], cells |-> cells]
  /\ overlap' = (overlap \/ \E r \in Runners : run[r].at # "idle")
  /\ settled' = None /\ run' = Disturbed
  /\ UNCHANGED <<sheet, taken, faults>>

\* A number or address an account has, or nobody.
Takes(a, p, e) ==
  /\ p \in {None, Null, user[a].phone} \/ PhoneFree(p)
  /\ e \in {None, Null, user[a].email} \/ EmailFree(e)
Passed(old, sent) == IF sent = Null THEN old ELSE SetTo(old, sent)

\* A record without an account is joined to the one of its number or address.
Joined(n, e) ==
  LET Has(f, x) == {a \in Accounts : user[a].state # "none" /\ x # None /\ user[a][f] = x}
  IN  IF n = None THEN {} ELSE IF Has("phone", n) # {} THEN Has("phone", n) ELSE Has("email", e)

\* PATCH /members/{id}: number and address go to the record's account too; with
\* a password, a record that finds none gets an account of its own.
UpdateMember(m, p, e) ==
  LET number == IF p \in Phones THEN p ELSE member[m].phone
      found == IF member[m].user # None THEN {member[m].user} ELSE Joined(number, e)
  IN  /\ Ready /\ LiveMember(m) /\ Unlocked(m)
      /\ \E a \in Opt(Accounts) :
           /\ \/ OneOf(found, a) /\ a = None /\ UNCHANGED user
              \/ /\ OneOf(found, a) /\ a # None /\ Takes(a, p, e)
                 /\ member[m].user = None => Unlinked(a)
                 /\ user' = [user EXCEPT ![a].phone = Passed(@, p), ![a].email = SetTo(@, e)]
              \/ /\ found = {} /\ number # None /\ a # None
                 /\ NewAccount(a) /\ PhoneFree(number)
                 /\ \E address \in IF e = None THEN Opt(Emails) ELSE {e} :
                      /\ EmailFree(address)
                      /\ user' = [user EXCEPT ![a] = Account(number, address)]
           /\ member' = [member EXCEPT ![m].phone = SetTo(@, p), ![m].user = a]
      /\ BeginEdit(m, member')

\* _get_member: the record of the account, else one with its number.
Own(a) == {m \in Members : LiveMember(m) /\ member[m].user = a}
ByNumber(a) == {m \in Members : LiveMember(m) /\ member[m].phone = user[a].phone}
Profiles(a) == IF Own(a) # {} THEN Own(a) ELSE ByNumber(a)

\* Faulty: whoever asks last has the record.
ClaimedAnew(a, m) == [member EXCEPT ![m].user = a]

Claimable(a, m) == member[m].user = None => Unlinked(a)
Claimed(a, m) ==
  IF member[m].user = None THEN [member EXCEPT ![m].user = a] ELSE member

GetProfile(a, m) ==
  /\ Other /\ LiveUser(a) /\ m \in Profiles(a) /\ Claimable(a, m) /\ Unlocked(m)
  /\ member' = Claimed(a, m)
  /\ UNCHANGED <<user, edit>>

\* PUT /profile: a number and an address go to the account of the record.
UpdateProfile(a, m, p, e) ==
  LET x == Claimed(a, m)[m].user
  IN  /\ Ready /\ LiveUser(a) /\ m \in Profiles(a) /\ Claimable(a, m) /\ Unlocked(m)
      /\ Takes(x, p, e)
      /\ user' = [user EXCEPT ![x].phone = Passed(@, p), ![x].email = SetTo(@, e)]
      /\ member' = [Claimed(a, m) EXCEPT ![m].phone = SetTo(@, p)]
      /\ BeginEdit(m, member')

\* apply_values: the columns sent, and the bag as loaded with what was sent.
Put(old, sent) == [f \in Fields |-> SetTo(old[f], sent[f])]

CommitEdit ==
  /\ edit.at = "edit" /\ Unlocked(edit.member)
  /\ member' = [member EXCEPT
       ![edit.member].columns = Put(@, edit.cells),
       ![edit.member].bag = Put(edit.seen.bag, edit.cells)]
  /\ edit' = NoEdit
  /\ UNCHANGED <<sheet, user, run, settled, overlap, taken, calls, faults>>

-----------------------------------------------------------------------------
Request ==
  \/ \E a \in Accounts, m \in Members, p \in Phones, e \in Stored : Register(a, m, p, e)
  \/ \E a \in Accounts, p \in Phones, e \in Stored : CreateUser(a, p, e)
  \/ \E a \in Accounts, p \in Phones : UpdateUser(a, p)
  \/ \E a \in Accounts : DeleteUser(a)
  \/ \E m \in Members : DeleteMember(m)
  \/ \E m \in Members, p \in Phones, c \in Forms : CreateMember(m, p, c)
  \/ \E m \in Members, p \in Phones \cup {None, Null}, e \in Stored : UpdateMember(m, p, e)
  \/ \E a \in Accounts, m \in Members : AddGroupMember(a, m) \/ GetProfile(a, m)
  \/ \E a \in Accounts, p \in Phones, m \in Members : AppointAdmin(a, p, m)
  \/ \E a \in Accounts, m \in Members, p \in Phones \cup {None, Null},
        e \in Stored \cup {Null} : UpdateProfile(a, m, p, e)

Next ==
  \/ \E r \in Runners :
       \/ StartRun(r) \/ Lock(r) \/ Index(r)
       \/ PassRow(r) \/ UpdateRow(r) \/ InsertRow(r) \/ LinkRow(r) \/ FailRow(r)
       \/ CommitRun(r) \/ AbortRun(r)
  \/ EditSheet \/ Request \/ CommitEdit

Spec == Init /\ [][Next]_vars

-----------------------------------------------------------------------------
(* Properties.                                                             *)

\* "would leave a half-imported member behind" (_insert_row), "so a later
\* commit cannot re-insert a member whose profile was never written"
\* (_row_failure): whatever row fails where, an account the import has created
\* has its member record, unless an appointment has given it to another.
NoHalfImport ==
  \A a \in Accounts \ taken :
    user[a].by = "sync" => \E m \in Members : member[m].state # "none" /\ member[m].user = a

\* The record row i is of.
Indexed(q, i) ==
  LET u == Matched(q, q.table[i]).user
  IN  IF Valid(q.table[i]) /\ u # None THEN q.byUser[u] ELSE None

\* A row reported as "update" has its non-blank cells in the columns and in the
\* bag of its member, unless a later row has written that field.
Reaches(q, i, m) ==
  \A f \in Fields :
    (q.table[i].cells[f] # None /\ f # "photo"
     /\ ~\E j \in (i + 1)..Len(q.results) :
           q.results[j] = "update" /\ q.table[j].cells[f] # None /\ Indexed(q, j) = m) =>
      /\ q.members[m].columns[f] = q.table[i].cells[f]
      /\ q.members[m].bag[f] = q.table[i].cells[f]

Reported(q, i) == q.results[i] = "update" => Reaches(q, i, Indexed(q, i))

MergedUntilFailure ==
  \A r \in Runners : \A i \in DOMAIN run[r].results :
    Indexed(run[r], i) \notin run[r].detached => Reported(run[r], i)

\* Two accounts whose addresses differ only in case: a row of that address finds
\* whichever of them the query returned last.
CaseTwins ==
  \E a, b \in Accounts :
    /\ a # b /\ LiveUser(a) /\ LiveUser(b) /\ user[a].email # None /\ user[b].email # None
    /\ Lower[user[a].email] = Lower[user[b].email]

\* A second import of an unchanged sheet over an unchanged directory creates
\* nothing, whatever the first one created, linked or could not import.
Rerun ==
  [][\A r \in Runners :
       (run[r].at = "commit" /\ run'[r].at = "idle" /\ run[r].calm
        /\ settled = run[r].table /\ ~CaseTwins) =>
         user' = user /\ \A m \in Members : member[m].state = member'[m].state]_vars

\* The edit that ends sends the field of the member.
Sends(m, f) ==
  edit.at = "edit" /\ edit'.at = "idle" /\ edit.member = m /\ edit.cells[f] # None

Stays(old, new, f) == old[f] # None => new[f] # None /\ (f = "photo" => new[f] = old[f])

\* "a blank cell means 'leave the stored value alone', never 'clear it'"
\* (_update_row), "Photo protection", and "keys it did not send are left alone"
\* (MemberUpdate): whatever is imported, claimed, deleted or edited, only an edit
\* that sends a field of a member clears it or replaces its photo, in the column
\* and in the bag, unless a run and an edit have been under way at once.
BlankKept ==
  [][\A m \in Members, f \in Fields :
       (member[m].state # "none" /\ ~overlap /\ ~Sends(m, f)) =>
         /\ Stays(member[m].columns, member'[m].columns, f)
         /\ Stays(member[m].bag, member'[m].bag, f)]_vars

\* "Fallback: check by user's phone number if member.user_id was not yet
\* linked" (_get_member): a profile that is found by its number and belongs to
\* an account stays that account's; only an appointment takes it.
NeverRelinked ==
  [][\A m \in Members :
       member[m].user \notin taken' \cup {None} => member'[m].user = member[m].user]_vars
=============================================================================
