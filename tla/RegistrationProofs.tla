------------------------- MODULE RegistrationProofs -------------------------
(***************************************************************************)
(* Accounts and member records under the import of the sheet: for any      *)
(* number of accounts, records, runs and requests, any sheets and any      *)
(* number of rows and transactions that fail.                              *)
(***************************************************************************)
EXTENDS Registration, SequenceTheorems, TLAPS

\* A copy of a bag, or of the columns, that has all of its fields, and its photo.
Spared(bag, copy) ==
  \A f \in Fields : bag[f] # None => copy[f] # None /\ (f = "photo" => copy[f] = bag[f])

Holding == {"index", "rows", "commit"}

\* The parts of a run's state.  Before its first row it has found and written
\* nothing.
Fresh(q) ==
  q.at \in {"idle", "lock", "index"} =>
    /\ q.next = 1
    /\ \A a \in Accounts : q.byUser[a] = None /\ q.users[a] = None
    /\ \A m \in Members : q.members[m] = None

InTable(q) == q.at = "rows" => q.next \in 1..Len(q.table)

\* A record it has written keeps the account of the stored one.
SameOwner(q, rows) ==
  \A m \in Members :
    q.members[m] # None =>
      /\ q.members[m].state # "none"
      /\ rows[m].user # None => q.members[m].user = rows[m].user

\* It writes an account together with its record.
Whole(q) ==
  \A a \in Accounts :
    q.users[a] # None => \E m \in Members : q.members[m] # None /\ q.members[m].user = a

\* The records it has found exist.
Found(q, rows) ==
  \A a \in Accounts :
    q.byUser[a] # None =>
      \/ rows[q.byUser[a]].state # "none"
      \/ q.members[q.byUser[a]] # None

\* Its copies of a bag are spared, and so is what it has written.
SparesRow(old, new) == Spared(old.bag, new.bag) /\ Spared(old.columns, new.columns)

Spares(q, rows) ==
  \A m \in Members :
    rows[m].state # "none" =>
      /\ q.members[m] # None => SparesRow(rows[m], q.members[m])
      /\ \A a \in Accounts : q.byUser[a] = m => Spared(rows[m].bag, q.bags[m])

Sound(q, rows, met) ==
  /\ q \in Run /\ Fresh(q) /\ InTable(q)
  /\ SameOwner(q, rows) /\ Whole(q) /\ Found(q, rows)
  /\ ~met => Spares(q, rows)

Edit == [at : {"idle", "edit"}, member : Opt(Members), seen : Member, cells : Edits]

TypeInv ==
  /\ sheet \in Seq(Row)
  /\ user \in [Accounts -> User]
  /\ member \in [Members -> Member]
  /\ run \in [Runners -> Run]
  /\ edit \in Edit
  /\ overlap \in BOOLEAN
  /\ taken \subseteq Accounts
  /\ calls \in Nat /\ faults \in Nat

Runs == \A r \in Runners : Sound(run[r], member, overlap)

\* pg_try_advisory_xact_lock.
OneHolds ==
  \A r, s \in Runners : run[r].at \in Holding /\ run[s].at \in Holding => r = s

NoneOwned == \A m \in Members : member[m].state = "none" => member[m].user = None

Editing ==
  edit.at = "edit" =>
    /\ edit.member \in Members
    /\ member[edit.member].state # "none"
    /\ ~overlap => /\ \A r \in Runners : run[r].at = "idle"
                   /\ edit.seen.bag = member[edit.member].bag

IInv ==
  /\ TypeInv /\ Runs /\ OneHolds /\ NoneOwned /\ Editing
  /\ NoHalfImport

-----------------------------------------------------------------------------
(* Types.                                                                  *)

LEMMA MergeType ==
  ASSUME NEW old \in Cells, NEW cells \in Cells
  PROVE  Merge(old, cells) \in Cells
  BY DEF Merge, Cells

LEMMA PutType ==
  ASSUME NEW old \in Cells, NEW sent \in Edits
  PROVE  Put(old, sent) \in Cells
  BY Parameters DEF Put, SetTo, Cells, Edits, Opt

LEMMA FormType == Forms \subseteq Cells
  BY Parameters DEF Forms, Cells, Opt

LEMMA IdleType == IdleRun \in Run
<1>1. <<>> \in Seq(Row) /\ <<>> \in Seq({"insert", "link", "update", "skipped", "failed"})
  OBVIOUS
<1>2. Blank \in Cells
  BY DEF Blank, Cells, Opt
<1> QED
  BY <1>1, <1>2 DEF IdleRun, Run, Opt

LEMMA EndsType ==
  ASSUME NEW q \in Run, NEW result \in {"insert", "link", "update", "skipped", "failed"}
  PROVE  /\ Ends(q, result) \in Run
         /\ Ends(q, result).at = (IF q.next = Len(q.table) THEN "commit" ELSE "rows")
         /\ Ends(q, result).next = q.next + 1
         /\ Ends(q, result).table = q.table
         /\ Ends(q, result).byPhone = q.byPhone
         /\ Ends(q, result).byEmail = q.byEmail
         /\ Ends(q, result).byUser = q.byUser
         /\ Ends(q, result).bags = q.bags
         /\ Ends(q, result).users = q.users
         /\ Ends(q, result).members = q.members
<1> DEFINE results == Append(q.results, result)
           at == IF q.next = Len(q.table) THEN "commit" ELSE "rows"
<1>1. results \in Seq({"insert", "link", "update", "skipped", "failed"})
  BY DEF Run
<1>2. at \in {"idle", "lock", "index", "rows", "commit"}
  OBVIOUS
<1>3. q.next + 1 \in Nat
  BY DEF Run
<1>4. Ends(q, result) = [q EXCEPT !.results = results, !.next = q.next + 1, !.at = at]
  BY DEF Ends, Run
<1> HIDE DEF results, at
<1>5. [q EXCEPT !.results = results, !.next = q.next + 1, !.at = at] \in Run
  BY <1>1, <1>2, <1>3 DEF Run
<1> QED
  BY <1>4, <1>5 DEF Run, at

LEMMA NotedType ==
  ASSUME NEW q \in Run, NEW row \in Row, Valid(row)
  PROVE  /\ Noted(q, row) \in Run
         /\ Noted(q, row).at = q.at
         /\ Noted(q, row).next = q.next
         /\ Noted(q, row).table = q.table
         /\ Noted(q, row).byPhone = q.byPhone
         /\ Noted(q, row).byEmail = q.byEmail
         /\ Noted(q, row).byUser = q.byUser
         /\ Noted(q, row).bags = q.bags
         /\ Noted(q, row).users = q.users
         /\ Noted(q, row).members = q.members
<1> DEFINE phones == q.phones \cup {row.phone}
           emails == q.emails \cup ({Cased(row.email)} \ {None})
<1>1. phones \in SUBSET Phones
  BY DEF Run, Row, Valid, Opt
<1>2. emails \in SUBSET Emails
  BY Parameters DEF Run, Row, Cased, Opt
<1>3. Noted(q, row) = [q EXCEPT !.phones = phones, !.emails = emails]
  BY DEF Noted, Run
<1> HIDE DEF phones, emails
<1>4. [q EXCEPT !.phones = phones, !.emails = emails] \in Run
  BY <1>1, <1>2 DEF Run
<1> QED
  BY <1>3, <1>4 DEF Run

\* A row of the table that a run is at.
LEMMA RowType ==
  ASSUME NEW q \in Run, InTable(q), q.at = "rows"
  PROVE  q.table[q.next] \in Row
  BY DEF InTable, Run

LEMMA MatchedType ==
  ASSUME NEW q \in Run, NEW row \in Row, Valid(row)
  PROVE  Matched(q, row).user \in Opt(Accounts)
<1>1. q.byPhone[row.phone] \in Opt(Accounts)
  BY DEF Run, Row, Valid, Opt
<1>2. row.email # None => q.byEmail[Lower[row.email]] \in Opt(Accounts)
  BY Parameters DEF Run, Row, Opt
<1>3. None \in Opt(Accounts)
  BY DEF Opt
<1> QED
  BY <1>1, <1>2, <1>3 DEF Matched

-----------------------------------------------------------------------------
(* What a row does to the state of its run.                                *)

\* The end of a row leaves what was found and written.
LEMMA EndsFresh ==
  ASSUME NEW p \in Run, NEW rows, NEW met, p.at = "rows", Sound(p, rows, met),
         NEW result \in {"insert", "link", "update", "skipped", "failed"}
  PROVE  Sound(Ends(p, result), rows, met)
<1>1. Fresh(Ends(p, result)) /\ InTable(Ends(p, result))
  <2>1. p.next \in 1..Len(p.table) /\ Len(p.table) \in Nat
    BY DEF Sound, InTable, Run
  <2> QED
    BY <2>1, EndsType DEF Fresh, InTable
<1>2. SameOwner(Ends(p, result), rows) /\ Whole(Ends(p, result))
  BY EndsType DEF Sound, SameOwner, Whole
<1>3. Found(Ends(p, result), rows)
  BY EndsType DEF Sound, Found
<1>4. ~met => Spares(Ends(p, result), rows)
  BY EndsType DEF Sound, Spares
<1> QED
  BY <1>1, <1>2, <1>3, <1>4, EndsType DEF Sound

LEMMA EndsSound ==
  ASSUME NEW q \in Run, NEW rows, NEW met, NEW row \in Row, Valid(row),
         NEW result \in {"insert", "link", "update", "skipped", "failed"},
         q.at = "rows", Sound(q, rows, met)
  PROVE  Sound(Ends(Noted(q, row), result), rows, met)
<1>1. Sound(Noted(q, row), rows, met)
  <2>1. Fresh(Noted(q, row)) /\ InTable(Noted(q, row))
    BY NotedType DEF Sound, Fresh, InTable
  <2>2. SameOwner(Noted(q, row), rows) /\ Whole(Noted(q, row)) /\ Found(Noted(q, row), rows)
    BY NotedType DEF Sound, SameOwner, Whole, Found
  <2>3. ~met => Spares(Noted(q, row), rows)
    BY NotedType DEF Sound, Spares
  <2> QED
    BY <2>1, <2>2, <2>3, NotedType DEF Sound
<1> QED
  BY <1>1, NotedType, EndsFresh

LEMMA OfferedType ==
  ASSUME TypeInv, NEW q \in Run, NEW m \in Members, NEW cells \in Cells
  PROVE  /\ Offered(q, m, cells) \in Cells
         /\ q.bags[m]["photo"] # None \/ member[m].columns["photo"] # None
              => Offered(q, m, cells)["photo"] = None
  BY DEF Offered, Cells, Opt, Fields

\* A copy that is spared stays so when cells are merged that offer no photo to
\* a member that has one.
LEMMA MergeSpares ==
  ASSUME NEW bag \in Cells, NEW copy \in Cells, NEW cells \in Cells,
         Spared(bag, copy), copy["photo"] # None => cells["photo"] = None
  PROVE  Spared(bag, Merge(copy, cells))
  BY DEF Spared, Merge

LEMMA UpdatedType ==
  ASSUME TypeInv, NEW q \in Run, NEW m \in Members, NEW row \in Row, Valid(row)
  PROVE  /\ Updated(q, m, row) \in Run
         /\ Updated(q, m, row).at = q.at
         /\ Updated(q, m, row).next = q.next
         /\ Updated(q, m, row).table = q.table
         /\ Updated(q, m, row).byUser = q.byUser
         /\ Updated(q, m, row).users = q.users
         /\ \A n \in Members \ {m} : /\ Updated(q, m, row).members[n] = q.members[n]
                                     /\ Updated(q, m, row).bags[n] = q.bags[n]
         /\ Updated(q, m, row).bags[m] = Merge(q.bags[m], Offered(q, m, row.cells))
         /\ Updated(q, m, row).members[m] \in Member
         /\ Updated(q, m, row).members[m].state = Current(q, m).state
         /\ Updated(q, m, row).members[m].user = Current(q, m).user
         /\ Updated(q, m, row).members[m].bag =
              IF m \in q.detached THEN Current(q, m).bag
              ELSE Merge(q.bags[m], Offered(q, m, row.cells))
         /\ Updated(q, m, row).members[m].columns =
              Merge(Current(q, m).columns, Offered(q, m, row.cells))
<1> DEFINE cells == Offered(q, m, row.cells)
           now == Current(q, m)
           bag == Merge(q.bags[m], cells)
           new == [now EXCEPT !.phone = row.phone, !.columns = Merge(now.columns, cells),
                              !.bag = IF m \in q.detached THEN now.bag ELSE bag]
<1>1. cells \in Cells
  BY OfferedType DEF Row
<1>2. now \in Member
  <2>1. member[m] \in Member /\ q.members[m] \in Opt(Member)
    BY DEF TypeInv, Run
  <2> QED
    BY <2>1 DEF Current, Opt
<1>3. q.bags[m] \in Cells /\ now.columns \in Cells /\ now.bag \in Cells
  BY <1>2 DEF Run, Member
<1>4. bag \in Cells /\ Merge(now.columns, cells) \in Cells
  BY <1>1, <1>3, MergeType
<1>5. row.phone \in Opt(Phones)
  BY DEF Row
<1>6. Updated(q, m, row) = [q EXCEPT !.bags[m] = bag, !.members[m] = new]
  BY DEF Updated
<1> HIDE DEF cells, now, bag
<1>7. new \in Member /\ new.state = now.state /\ new.user = now.user
      /\ new.bag = (IF m \in q.detached THEN now.bag ELSE bag)
      /\ new.columns = Merge(now.columns, cells)
  BY <1>2, <1>3, <1>4, <1>5 DEF Member
<1> HIDE DEF new
<1>8. [q.bags EXCEPT ![m] = bag] \in [Members -> Cells]
  BY <1>4 DEF Run
<1>9. [q.members EXCEPT ![m] = new] \in [Members -> Opt(Member)]
  BY <1>7 DEF Run, Opt
<1>10. Updated(q, m, row) = [q EXCEPT !.bags = [q.bags EXCEPT ![m] = bag],
                                      !.members = [q.members EXCEPT ![m] = new]]
  BY <1>6
<1>11. Updated(q, m, row) \in Run
  BY <1>8, <1>9, <1>10 DEF Run
<1>12. /\ Updated(q, m, row).bags = [q.bags EXCEPT ![m] = bag]
       /\ Updated(q, m, row).members = [q.members EXCEPT ![m] = new]
       /\ Updated(q, m, row).at = q.at
       /\ Updated(q, m, row).next = q.next
       /\ Updated(q, m, row).table = q.table
       /\ Updated(q, m, row).byUser = q.byUser
       /\ Updated(q, m, row).users = q.users
  BY <1>10 DEF Run
<1>13. /\ \A n \in Members \ {m} : /\ Updated(q, m, row).members[n] = q.members[n]
                                   /\ Updated(q, m, row).bags[n] = q.bags[n]
       /\ Updated(q, m, row).bags[m] = bag
       /\ Updated(q, m, row).members[m] = new
  BY <1>12 DEF Run
<1> QED
  BY <1>7, <1>11, <1>12, <1>13 DEF cells, now, bag

LEMMA UpdatedSound ==
  ASSUME TypeInv, NEW q \in Run, Sound(q, member, overlap), q.at = "rows",
         NEW a \in Accounts, NEW m \in Members, q.byUser[a] = m, NEW row \in Row, Valid(row)
  PROVE  Sound(Updated(q, m, row), member, overlap)
<1> DEFINE p == Updated(q, m, row)
<1>m. m # None
  BY Parameters
<1>n. p.members[m] # None
  BY UpdatedType, Absent
<1>c. /\ Current(q, m).state # "none"
      /\ member[m].user # None => Current(q, m).user = member[m].user
  BY <1>m DEF Sound, SameOwner, Found, Current
<1>1. Fresh(p) /\ InTable(p)
  BY UpdatedType DEF Sound, Fresh, InTable
<1>u. /\ p.members[m].state = Current(q, m).state
      /\ p.members[m].user = Current(q, m).user
      /\ \A n \in Members \ {m} : p.members[n] = q.members[n]
  BY UpdatedType
<1>2. SameOwner(p, member)
  <2>1. SameOwner(q, member)
    BY DEF Sound
  <2> HIDE DEF p
  <2> QED
    BY <1>c, <1>u, <2>1 DEF SameOwner
<1>3. Whole(p)
  <2> SUFFICES ASSUME NEW b \in Accounts, q.users[b] # None
               PROVE  \E n \in Members : p.members[n] # None /\ p.members[n].user = b
    BY UpdatedType DEF Whole
  <2>1. PICK n \in Members : q.members[n] # None /\ q.members[n].user = b
    BY DEF Sound, Whole
  <2>2. CASE n = m
    <3>1. p.members[m].user = b
      BY <1>u, <2>1, <2>2 DEF Current
    <3> QED
      BY <1>n, <3>1
  <2>3. CASE n # m
    <3>1. p.members[n] = q.members[n]
      BY <1>u, <2>3
    <3> QED
      BY <2>1, <3>1
  <2> QED
    BY <2>2, <2>3
<1>4. Found(p, member)
  <2> SUFFICES ASSUME NEW b \in Accounts, q.byUser[b] # None
               PROVE  member[q.byUser[b]].state # "none" \/ p.members[q.byUser[b]] # None
    BY UpdatedType DEF Found
  <2>1. q.byUser[b] \in Members
    BY DEF Run, Opt
  <2>2. member[q.byUser[b]].state # "none" \/ q.members[q.byUser[b]] # None
    BY DEF Sound, Found
  <2> HIDE DEF p
  <2> QED
    BY <1>n, <1>u, <2>1, <2>2
<1>5. ASSUME ~overlap, NEW n \in Members, member[n].state # "none"
      PROVE  /\ p.members[n] # None => SparesRow(member[n], p.members[n])
             /\ \A b \in Accounts : q.byUser[b] = n => Spared(member[n].bag, p.bags[n])
  <2>1. /\ q.members[n] # None => SparesRow(member[n], q.members[n])
        /\ \A b \in Accounts : q.byUser[b] = n => Spared(member[n].bag, q.bags[n])
    BY <1>5 DEF Sound, Spares
  <2>2. CASE n # m
    BY <2>1, <2>2, UpdatedType
  <2>3. CASE n = m
    <3>1. member[m].bag \in Cells /\ q.bags[m] \in Cells /\ row.cells \in Cells
      BY DEF TypeInv, Run, Row, Member
    <3>2. Spared(member[m].bag, Merge(q.bags[m], Offered(q, m, row.cells)))
      BY <2>1, <2>3, <3>1, OfferedType, MergeSpares
    <3>3. SparesRow(member[m], Current(q, m))
      <4>1. CASE q.members[m] = None
        BY <4>1 DEF Current, SparesRow, Spared
      <4>2. CASE q.members[m] # None
        BY <2>1, <2>3, <4>2 DEF Current
      <4> QED
        BY <4>1, <4>2
    <3>4. Spared(member[m].columns, Merge(Current(q, m).columns, Offered(q, m, row.cells)))
      <4>1. member[m].columns["photo"] # None => Offered(q, m, row.cells)["photo"] = None
        BY <3>1, OfferedType
      <4> QED
        BY <3>3, <4>1 DEF SparesRow, Spared, Merge
    <3>5. SparesRow(member[m], p.members[m])
      BY <3>2, <3>3, <3>4, UpdatedType DEF SparesRow
    <3> QED
      BY <2>3, <3>2, <3>5, UpdatedType
  <2> QED
    BY <2>2, <2>3
<1>6. ~overlap => Spares(p, member)
  BY <1>5, UpdatedType DEF Spares
<1> QED
  BY <1>1, <1>2, <1>3, <1>4, <1>6, UpdatedType DEF Sound

LEMMA InsertedType ==
  ASSUME NEW q \in Run, NEW a \in Accounts, NEW m \in Members, NEW row \in Row, Valid(row),
         NEW new \in BOOLEAN
  PROVE  /\ Inserted(q, a, m, row, new) \in Run
         /\ Inserted(q, a, m, row, new).at = q.at
         /\ Inserted(q, a, m, row, new).next = q.next
         /\ Inserted(q, a, m, row, new).table = q.table
         /\ \A b \in Accounts \ {a} : /\ Inserted(q, a, m, row, new).users[b] = q.users[b]
                                      /\ Inserted(q, a, m, row, new).byUser[b] = q.byUser[b]
         /\ Inserted(q, a, m, row, new).byUser[a] = m
         /\ ~new => Inserted(q, a, m, row, new).users = q.users
         /\ \A n \in Members \ {m} :
              /\ Inserted(q, a, m, row, new).members[n] = q.members[n]
              /\ Inserted(q, a, m, row, new).bags[n] = q.bags[n]
         /\ Inserted(q, a, m, row, new).members[m] \in Member
         /\ Inserted(q, a, m, row, new).members[m].state = "live"
         /\ Inserted(q, a, m, row, new).members[m].user = a
<1> DEFINE account == [state |-> "live", phone |-> row.phone, email |-> row.email, by |-> "sync"]
           record == [state |-> "live", user |-> a, phone |-> row.phone,
                      columns |-> row.cells, bag |-> row.cells]
           users == [q.users EXCEPT ![a] = IF new THEN account ELSE @]
           members == [q.members EXCEPT ![m] = record]
           bags == [q.bags EXCEPT ![m] = row.cells]
           byUser == [q.byUser EXCEPT ![a] = m]
           byPhone == [q.byPhone EXCEPT ![row.phone] = IF new THEN a ELSE @]
           byEmail == IF new /\ row.email # None THEN [q.byEmail EXCEPT ![Lower[row.email]] = a]
                      ELSE q.byEmail
<1>1. account \in User
  BY DEF User, Row, Opt
<1>2. record \in Member
  BY DEF Member, Row, Opt
<1>3. users \in [Accounts -> Opt(User)]
  BY <1>1 DEF Run, Opt
<1>4. members \in [Members -> Opt(Member)]
  BY <1>2 DEF Run, Opt
<1>5. bags \in [Members -> Cells]
  BY DEF Run, Row
<1>6. byUser \in [Accounts -> Opt(Members)]
  BY DEF Run, Opt
<1>7. byPhone \in [Phones -> Opt(Accounts)]
  BY DEF Run, Opt
<1>8. byEmail \in [Emails -> Opt(Accounts)]
  BY DEF Run, Opt
<1>9. Inserted(q, a, m, row, new) =
        [q EXCEPT !.users = users, !.members = members, !.bags = bags, !.byUser = byUser,
                  !.byPhone = byPhone, !.byEmail = byEmail]
  BY DEF Inserted
<1>10. /\ users[a] = IF new THEN account ELSE q.users[a]
       /\ \A b \in Accounts \ {a} : users[b] = q.users[b] /\ byUser[b] = q.byUser[b]
       /\ byUser[a] = m
       /\ ~new => users = q.users
  BY DEF Run
<1>11. /\ \A n \in Members \ {m} : members[n] = q.members[n] /\ bags[n] = q.bags[n]
       /\ members[m] = record
  BY DEF Run
<1> HIDE DEF account, users, members, bags, byUser, byPhone, byEmail
<1>12. Inserted(q, a, m, row, new) \in Run
  BY ZenonT(60), <1>3, <1>4, <1>5, <1>6, <1>7, <1>8, <1>9 DEF Run
<1>13. /\ Inserted(q, a, m, row, new).users = users
       /\ Inserted(q, a, m, row, new).members = members
       /\ Inserted(q, a, m, row, new).bags = bags
       /\ Inserted(q, a, m, row, new).byUser = byUser
       /\ Inserted(q, a, m, row, new).at = q.at
       /\ Inserted(q, a, m, row, new).next = q.next
       /\ Inserted(q, a, m, row, new).table = q.table
  BY <1>9 DEF Run
<1> QED
  BY <1>2, <1>10, <1>11, <1>12, <1>13

LEMMA InsertedSound ==
  ASSUME TypeInv, NoneOwned, NEW q \in Run, Sound(q, member, overlap), q.at = "rows",
         NEW a \in Accounts, NEW m \in Members, NEW row \in Row, Valid(row), NEW new \in BOOLEAN,
         member[m].state = "none", q.members[m] = None
  PROVE  Sound(Inserted(q, a, m, row, new), member, overlap)
<1> DEFINE p == Inserted(q, a, m, row, new)
<1>p. p \in Run /\ p.at = q.at /\ p.next = q.next /\ p.table = q.table
  BY InsertedType
<1>n. p.members[m] # None
  BY InsertedType, Absent
<1>u. /\ p.members[m].state = "live" /\ p.members[m].user = a
      /\ \A n \in Members \ {m} : p.members[n] = q.members[n]
      /\ \A n \in Members \ {m} : p.bags[n] = q.bags[n]
      /\ \A b \in Accounts \ {a} : p.users[b] = q.users[b]
      /\ \A b \in Accounts \ {a} : p.byUser[b] = q.byUser[b]
      /\ p.byUser[a] = m
  BY InsertedType
<1> HIDE DEF p
<1>1. Fresh(p) /\ InTable(p)
  BY <1>p DEF Sound, Fresh, InTable
<1>2. SameOwner(p, member)
  BY <1>u DEF Sound, SameOwner, NoneOwned
<1>3. Whole(p)
  <2> SUFFICES ASSUME NEW b \in Accounts, p.users[b] # None
               PROVE  \E n \in Members : p.members[n] # None /\ p.members[n].user = b
    BY DEF Whole
  <2>1. CASE b = a
    BY <2>1, <1>n, <1>u
  <2>2. CASE b # a
    <3>1. q.users[b] # None
      BY <2>2, <1>u
    <3>2. PICK n \in Members : q.members[n] # None /\ q.members[n].user = b
      BY <3>1 DEF Sound, Whole
    <3>3. p.members[n] = q.members[n]
      BY <3>2, <1>u
    <3> QED
      BY <3>2, <3>3
  <2> QED
    BY <2>1, <2>2
<1>4. ASSUME NEW b \in Accounts, p.byUser[b] # None
      PROVE  member[p.byUser[b]].state # "none" \/ p.members[p.byUser[b]] # None
  <2>1. CASE p.byUser[b] = m
    BY <2>1, <1>n
  <2>2. CASE p.byUser[b] # m
    <3>1. p.byUser[b] = q.byUser[b] /\ q.byUser[b] \in Members \ {m}
      BY <1>4, <1>u, <2>2 DEF Run, Opt
    <3> QED
      BY <1>4, <1>u, <3>1 DEF Sound, Found
  <2> QED
    BY <2>1, <2>2
<1>5. Found(p, member)
  BY <1>4 DEF Found
<1>6. ~overlap => Spares(p, member)
  BY <1>u DEF Sound, Spares
<1>7. Sound(p, member, overlap)
  BY <1>1, <1>2, <1>3, <1>5, <1>6, <1>p DEF Sound
<1> QED
  BY <1>7 DEF p

LEMMA FailedSound ==
  ASSUME TypeInv, NEW q \in Run, Sound(q, member, overlap), q.at = "rows",
         NEW row \in Row, Valid(row), NEW calm \in BOOLEAN
  PROVE  /\ Sound(Failed(q, row), member, overlap)
         /\ Sound([Failed(q, row) EXCEPT !.calm = calm], member, overlap)
         /\ Failed(q, row).at \in Holding
<1> DEFINE e == Ends(Noted(q, row), "failed")
           gone == {q.byUser[a] : a \in Accounts} \cap Members
<1>1. Sound(e, member, overlap)
  BY EndsSound
<1>2. e \in Run
  BY <1>1 DEF Sound
<1>3. e.at \in Holding
  BY NotedType, EndsType DEF Holding
<1>4. Failed(q, row) = [e EXCEPT !.detached = gone]
  BY DEF Failed
<1> HIDE DEF e, gone
<1>5. ASSUME NEW c \in Run, NEW d, Sound(c, member, overlap),
             d \in Run, d.at = c.at, d.next = c.next, d.table = c.table, d.byUser = c.byUser,
             d.users = c.users, d.members = c.members, d.bags = c.bags
      PROVE  Sound(d, member, overlap)
  <2>1. Fresh(d) /\ InTable(d)
    BY <1>5 DEF Sound, Fresh, InTable
  <2>2. SameOwner(d, member) /\ Whole(d) /\ Found(d, member)
    BY <1>5 DEF Sound, SameOwner, Whole, Found
  <2>3. ~overlap => Spares(d, member)
    BY <1>5 DEF Sound, Spares
  <2> QED
    BY <1>5, <2>1, <2>2, <2>3 DEF Sound
<1>6. gone \in SUBSET Members
  BY DEF gone
<1>7. LET f == [e EXCEPT !.detached = gone]
      IN  /\ f \in Run /\ f.at = e.at /\ f.next = e.next /\ f.table = e.table
          /\ f.byUser = e.byUser /\ f.users = e.users /\ f.members = e.members /\ f.bags = e.bags
  BY <1>2, <1>6 DEF Run
<1>8. Sound(Failed(q, row), member, overlap) /\ Failed(q, row) \in Run /\ Failed(q, row).at = e.at
  BY <1>1, <1>2, <1>4, <1>5, <1>7
<1>9. \A c \in Run :
        LET f == [c EXCEPT !.calm = calm]
        IN  /\ f \in Run /\ f.at = c.at /\ f.next = c.next /\ f.table = c.table
            /\ f.byUser = c.byUser /\ f.users = c.users /\ f.members = c.members
            /\ f.bags = c.bags
  BY DEF Run
<1>10. Sound([Failed(q, row) EXCEPT !.calm = calm], member, overlap)
  BY <1>5, <1>8, <1>9
<1> QED
  BY <1>3, <1>8, <1>10

-----------------------------------------------------------------------------
(* What a request does.                                                    *)

\* It writes no record that a run has written, and leaves the fields and the
\* owners of those that exist, unless an appointment takes the owner.
KeepsRecord(m) ==
  \/ member'[m] = member[m]
  \/ /\ Unlocked(m)
     /\ member'[m].state # "none"
     /\ member[m].state # "none" => /\ member'[m].bag = member[m].bag
                                   /\ member'[m].columns = member[m].columns
     /\ member[m].user \notin taken' \cup {None} => member'[m].user = member[m].user

KeepsRecords == member' \in [Members -> Member] /\ \A m \in Members : KeepsRecord(m)

\* No account becomes one of the import's.
KeepsUsers ==
  /\ user' \in [Accounts -> User]
  /\ \A a \in Accounts : user'[a].by = "sync" => user[a].by = "sync"

KeepsTaken == taken \subseteq taken' /\ taken' \subseteq Accounts

\* An edit begins with the record as the request leaves it.
Begins ==
  /\ edit' \in Edit /\ edit'.at = "edit" /\ edit'.member \in Members
  /\ member'[edit'.member].state # "none"
  /\ edit'.seen = member'[edit'.member]
  /\ overlap' = (overlap \/ \E r \in Runners : run[r].at # "idle")

Requested ==
  /\ KeepsRecords /\ KeepsUsers /\ KeepsTaken
  /\ run' = Disturbed /\ calls' \in Nat /\ faults' = faults /\ sheet' = sheet
  /\ (edit' = edit /\ overlap' = overlap) \/ Begins

LEMMA OtherStep ==
  ASSUME TypeInv
  PROVE  /\ Changed => /\ run' = Disturbed /\ calls' \in Nat /\ faults' = faults
                       /\ sheet' = sheet /\ overlap' = overlap
         /\ Other => KeepsTaken /\ taken' = taken
  BY DEF TypeInv, Changed, Other, Counted, KeepsTaken

\* The unchanged halves.
LEMMA Unchanged ==
  ASSUME TypeInv
  PROVE  /\ UNCHANGED member => KeepsRecords
         /\ UNCHANGED user => KeepsUsers
  BY DEF TypeInv, KeepsRecords, KeepsRecord, KeepsUsers

LEMMA AccountType ==
  ASSUME NEW p \in Phones, NEW e \in Opt(Emails)
  PROVE  Account(p, e) \in User /\ Account(p, e).by = "other"
  BY DEF Account, User, Opt

LEMMA StoredType == Stored \subseteq Opt(Emails) /\ None \in Opt(Emails)
  BY Parameters DEF Stored, Opt

LEMMA RecordType ==
  ASSUME NEW a \in Opt(Accounts), NEW p \in Opt(Phones), NEW cells \in Cells
  PROVE  Record(a, p, cells) \in Member /\ Record(a, p, cells).state = "live"
  BY DEF Record, Member

LEMMA BlankType == Blank \in Cells /\ Blank \in Edits
  BY DEF Blank, Cells, Edits, Opt

\* A new account and a new record.
LEMMA NewUser ==
  ASSUME TypeInv, NEW a \in Accounts, NEW p \in Phones, NEW e \in Opt(Emails),
         user' = [user EXCEPT ![a] = Account(p, e)]
  PROVE  KeepsUsers
<1> DEFINE u == Account(p, e)
<1>1. u \in User /\ u.by = "other"
  BY AccountType
<1> HIDE DEF u
<1>2. user' = [user EXCEPT ![a] = u]
  BY DEF u
<1> QED
  BY <1>1, <1>2 DEF TypeInv, KeepsUsers

LEMMA NewRecord ==
  ASSUME TypeInv, NoneOwned, NEW m \in Members, NewMember(m), NEW x \in Member,
         x.state = "live", member' = [member EXCEPT ![m] = x]
  PROVE  KeepsRecords
<1>1. member' \in [Members -> Member]
  BY DEF TypeInv
<1>2. ASSUME NEW n \in Members
      PROVE  KeepsRecord(n)
  <2>1. CASE n = m
    BY <2>1 DEF TypeInv, KeepsRecord, NewMember, NoneOwned
  <2>2. CASE n # m
    BY <2>2 DEF TypeInv, KeepsRecord
  <2> QED
    BY <2>1, <2>2
<1> QED
  BY <1>1, <1>2 DEF KeepsRecords

LEMMA AccountRequests ==
  ASSUME TypeInv, NoneOwned, NEW a \in Accounts, NEW p \in Phones
  PROVE  /\ \A m \in Members, e \in Stored : Register(a, m, p, e) => Requested
         /\ \A e \in Stored : CreateUser(a, p, e) => Requested
         /\ UpdateUser(a, p) => Requested
<1>1. ASSUME NEW m \in Members, NEW e \in Stored, Register(a, m, p, e)
      PROVE  Requested
  <2>1. KeepsUsers
    BY <1>1, NewUser, StoredType DEF Register
  <2>2. KeepsRecords
    <3>1. Record(a, p, Blank) \in Member /\ Record(a, p, Blank).state = "live"
      BY RecordType, BlankType DEF Opt
    <3> QED
      BY <1>1, <3>1, NewRecord DEF Register
  <2> QED
    BY <1>1, <2>1, <2>2, OtherStep DEF Register, Requested, Other
<1>2. ASSUME NEW e \in Stored, CreateUser(a, p, e)
      PROVE  Requested
  BY <1>2, NewUser, StoredType, Unchanged, OtherStep DEF CreateUser, Requested, Other
<1>3. ASSUME UpdateUser(a, p)
      PROVE  Requested
  <2>1. KeepsUsers
    BY <1>3 DEF UpdateUser, KeepsUsers, TypeInv, User, Opt
  <2> QED
    BY <1>3, <2>1, Unchanged, OtherStep DEF UpdateUser, Requested, Other
<1> QED
  BY <1>1, <1>2, <1>3

LEMMA RecordRequests ==
  ASSUME TypeInv, NoneOwned, NEW m \in Members
  PROVE  /\ DeleteMember(m) => Requested
         /\ \A p \in Phones, c \in Forms : CreateMember(m, p, c) => Requested
         /\ \A a \in Accounts : AddGroupMember(a, m) => Requested
<1>1. ASSUME DeleteMember(m)
      PROVE  Requested
  <2>1. KeepsRecords
    BY <1>1 DEF DeleteMember, KeepsRecords, KeepsRecord, TypeInv, Member
  <2> QED
    BY <1>1, <2>1, Unchanged, OtherStep DEF DeleteMember, Requested, Other
<1>2. ASSUME NEW p \in Phones, NEW c \in Forms, CreateMember(m, p, c)
      PROVE  Requested
  <2>1. \A a \in Opt(Accounts) : Record(a, p, c) \in Member /\ Record(a, p, c).state = "live"
    BY RecordType, FormType DEF Opt
  <2>2. \E a \in Opt(Accounts) : member' = [member EXCEPT ![m] = Record(a, p, c)]
    BY <1>2 DEF CreateMember, Opt
  <2>3. KeepsRecords
    BY <1>2, <2>1, <2>2, NewRecord DEF CreateMember
  <2>4. KeepsUsers
    BY <1>2, StoredType, NewUser, Unchanged DEF CreateMember
  <2> QED
    BY <1>2, <2>3, <2>4, OtherStep DEF CreateMember, Requested, Other
<1>3. ASSUME NEW a \in Accounts, AddGroupMember(a, m)
      PROVE  Requested
  <2>1. user[a].phone \in Opt(Phones)
    BY DEF TypeInv, User
  <2>2. Record(a, user[a].phone, Blank) \in Member /\ Record(a, user[a].phone, Blank).state = "live"
    BY <2>1, RecordType, BlankType DEF Opt
  <2>3. KeepsRecords
    BY <1>3, <2>2, NewRecord DEF AddGroupMember
  <2> QED
    BY <1>3, <2>3, Unchanged, OtherStep DEF AddGroupMember, Requested, Other
<1> QED
  BY <1>1, <1>2, <1>3

LEMMA AppointRequest ==
  ASSUME TypeInv, NoneOwned, NEW a \in Accounts, NEW p \in Phones, NEW m \in Members,
         AppointAdmin(a, p, m)
  PROVE  Requested
<1>1. KeepsUsers
  BY StoredType, NewUser, Unchanged DEF AppointAdmin
<1>2. KeepsRecords /\ KeepsTaken
  <2>1. CASE UNCHANGED <<member, taken>>
    BY <2>1, Unchanged DEF KeepsTaken, TypeInv
  <2>2. CASE /\ LiveMember(m) /\ Unlocked(m)
             /\ member' = [member EXCEPT ![m].user = a]
             /\ taken' = taken \cup ({member[m].user} \ {None})
    <3>1. member[m].user \in Opt(Accounts)
      BY DEF TypeInv, Member
    <3>2. KeepsTaken
      BY <2>2, <3>1 DEF KeepsTaken, TypeInv, Opt
    <3>3. member' \in [Members -> Member]
      BY <2>2 DEF TypeInv, Member, Opt
    <3>4. KeepsRecord(m)
      BY <2>2 DEF KeepsRecord, LiveMember, TypeInv, Member
    <3>5. \A n \in Members \ {m} : KeepsRecord(n)
      BY <2>2 DEF KeepsRecord, TypeInv
    <3> QED
      BY <3>2, <3>3, <3>4, <3>5 DEF KeepsRecords
  <2>3. CASE /\ NewMember(m) /\ UNCHANGED taken
             /\ member' = [member EXCEPT ![m] = Record(a, p, Blank)]
    <3>1. Record(a, p, Blank) \in Member /\ Record(a, p, Blank).state = "live"
      BY RecordType, BlankType DEF Opt
    <3> QED
      BY <2>3, <3>1, NewRecord DEF KeepsTaken, TypeInv
  <2> QED
    BY <2>1, <2>2, <2>3 DEF AppointAdmin, Appointed
<1> QED
  BY <1>1, <1>2, OtherStep DEF AppointAdmin, Requested

LEMMA BeginsStep ==
  ASSUME TypeInv, NEW m \in Members, BeginEdit(m, member'),
         KeepsRecords, KeepsUsers, member'[m].state # "none"
  PROVE  Requested
<1>1. member'[m] \in Member
  BY DEF KeepsRecords
<1>2. Begins
  BY <1>1 DEF BeginEdit, Begins, Edit, Opt
<1>3. run' = Disturbed /\ calls' \in Nat /\ faults' = faults /\ sheet' = sheet
  BY DEF BeginEdit, TypeInv
<1>4. KeepsTaken
  BY DEF BeginEdit, KeepsTaken, TypeInv
<1> QED
  BY <1>2, <1>3, <1>4 DEF Requested

\* An owner is given to a record that has none.
LEMMA OwnerGiven ==
  ASSUME TypeInv, NEW m \in Members, LiveMember(m), Unlocked(m), NEW x \in Member,
         x.state = "live", x.bag = member[m].bag, x.columns = member[m].columns,
         member[m].user # None => x.user = member[m].user,
         member' = [member EXCEPT ![m] = x]
  PROVE  KeepsRecords /\ member'[m].state # "none"
<1>1. member' \in [Members -> Member] /\ member'[m] = x
  BY DEF TypeInv
<1>2. \A n \in Members \ {m} : KeepsRecord(n)
  BY DEF TypeInv, KeepsRecord
<1>3. KeepsRecord(m)
  BY <1>1 DEF KeepsRecord
<1> QED
  BY <1>1, <1>2, <1>3 DEF KeepsRecords

\* Numbers and addresses as the calls store them.
LEMMA PassedType ==
  ASSUME NEW p \in Phones \cup {None, Null}, NEW old \in Opt(Phones),
         NEW e \in Stored \cup {Null}, NEW address \in Opt(Emails)
  PROVE  /\ SetTo(old, p) \in Opt(Phones) /\ Passed(old, p) \in Opt(Phones)
         /\ SetTo(address, e) \in Opt(Emails)
  BY StoredType DEF SetTo, Passed, Opt

\* They go to an account.
LEMMA PassedKeeps ==
  ASSUME TypeInv, NEW a \in Accounts, NEW p \in Phones \cup {None, Null},
         NEW e \in Stored \cup {Null},
         user' = [user EXCEPT ![a].phone = Passed(@, p), ![a].email = SetTo(@, e)]
  PROVE  /\ KeepsUsers
         /\ \A b \in Accounts : user'[b].state = user[b].state
<1> DEFINE u == [user[a] EXCEPT !.phone = Passed(user[a].phone, p),
                                !.email = SetTo(user[a].email, e)]
<1>1. user[a] \in User /\ user[a].phone \in Opt(Phones) /\ user[a].email \in Opt(Emails)
  BY DEF TypeInv, User
<1>2. user' = [user EXCEPT ![a] = u]
  BY DEF TypeInv
<1>3. u \in User /\ u.by = user[a].by /\ u.state = user[a].state
  BY <1>1, PassedType DEF User
<1> HIDE DEF u
<1> QED
  BY <1>2, <1>3 DEF KeepsUsers, TypeInv

LEMMA UpdateMemberRequest ==
  ASSUME TypeInv, NoneOwned, NEW m \in Members, NEW p \in Phones \cup {None, Null},
         NEW e \in Stored, UpdateMember(m, p, e)
  PROVE  Requested
<1> DEFINE number == IF p \in Phones THEN p ELSE member[m].phone
           found == IF member[m].user # None THEN {member[m].user} ELSE Joined(number, e)
<1>1. PICK a \in Opt(Accounts) :
        /\ \/ OneOf(found, a) /\ a = None /\ UNCHANGED user
           \/ /\ OneOf(found, a) /\ a # None
              /\ user' = [user EXCEPT ![a].phone = Passed(@, p), ![a].email = SetTo(@, e)]
           \/ /\ found = {} /\ number # None /\ a # None
              /\ \E address \in IF e = None THEN Opt(Emails) ELSE {e} :
                   user' = [user EXCEPT ![a] = Account(number, address)]
        /\ member' = [member EXCEPT ![m].phone = SetTo(@, p), ![m].user = a]
  BY DEF UpdateMember
<1>2. number \in Opt(Phones) /\ member[m] \in Member
  BY DEF TypeInv, Member, Opt
<1>3. member[m].user # None => a = member[m].user
  BY <1>1 DEF OneOf
<1> HIDE DEF number, found
<1> DEFINE x == [member[m] EXCEPT !.phone = SetTo(member[m].phone, p), !.user = a]
<1>4. /\ x \in Member /\ x.state = member[m].state /\ x.bag = member[m].bag
      /\ x.columns = member[m].columns /\ x.user = a
  <2>1. SetTo(member[m].phone, p) \in Opt(Phones)
    BY <1>2 DEF SetTo, Opt, Member
  <2> QED
    BY <1>2, <2>1 DEF Member
<1>5. LiveMember(m) /\ Unlocked(m) /\ BeginEdit(m, member')
  BY DEF UpdateMember
<1>6. member' = [member EXCEPT ![m] = x]
  BY <1>1 DEF TypeInv
<1> HIDE DEF x
<1>7. KeepsRecords /\ member'[m].state # "none"
  BY ZenonT(60), <1>3, <1>4, <1>5, <1>6, OwnerGiven DEF LiveMember
<1>8. KeepsUsers
  <2>1. CASE UNCHANGED user
    BY <2>1, Unchanged
  <2>2. CASE /\ a # None
             /\ user' = [user EXCEPT ![a].phone = Passed(@, p), ![a].email = SetTo(@, e)]
    BY <2>2, PassedKeeps DEF Opt
  <2>3. CASE /\ number # None /\ a # None
             /\ \E address \in IF e = None THEN Opt(Emails) ELSE {e} :
                  user' = [user EXCEPT ![a] = Account(number, address)]
    BY <1>2, <2>3, NewUser, StoredType DEF Opt
  <2> QED
    BY <1>1, <2>1, <2>2, <2>3
<1> QED
  BY <1>5, <1>7, <1>8, BeginsStep

\* The profile's record, claimed and with its number.
LEMMA ClaimedKeeps ==
  ASSUME TypeInv, NEW a \in Accounts, NEW m \in Members, m \in Profiles(a), Unlocked(m),
         NEW p \in Phones \cup {None, Null},
         member' = [Claimed(a, m) EXCEPT ![m].phone = SetTo(@, p)]
  PROVE  /\ KeepsRecords /\ member'[m].state # "none"
         /\ Claimed(a, m)[m].user \in Accounts
         /\ member' = [member EXCEPT ![m] = [member[m] EXCEPT
                          !.phone = SetTo(member[m].phone, p), !.user = Claimed(a, m)[m].user]]
<1> DEFINE o == Claimed(a, m)[m].user
           x == [member[m] EXCEPT !.phone = SetTo(member[m].phone, p), !.user = o]
<1>1. LiveMember(m) /\ member[m] \in Member
  BY DEF Profiles, Own, ByNumber, TypeInv
<1>2. /\ o \in Accounts
      /\ member[m].user # None => o = member[m].user
      /\ member' = [member EXCEPT ![m] = x]
  <2>1. CASE member[m].user = None
    <3>1. Claimed(a, m) = [member EXCEPT ![m].user = a] /\ o = a
      BY <2>1 DEF Claimed, TypeInv, Member
    <3> QED
      BY <2>1, <3>1 DEF TypeInv, Member
  <2>2. CASE member[m].user # None
    <3>1. Claimed(a, m) = member
      BY <2>2 DEF Claimed
    <3>2. o = member[m].user /\ o \in Accounts
      BY <1>1, <2>2, <3>1 DEF Member, Opt
    <3>3. x = [member[m] EXCEPT !.phone = SetTo(member[m].phone, p)]
      BY <1>1, <3>2 DEF Member
    <3> QED
      BY <3>1, <3>2, <3>3 DEF TypeInv
  <2> QED
    BY <2>1, <2>2
<1> HIDE DEF o
<1>3. /\ x \in Member /\ x.state = member[m].state /\ x.bag = member[m].bag
      /\ x.columns = member[m].columns /\ x.user = o
  BY <1>1, <1>2, PassedType DEF Member, Opt
<1> HIDE DEF x
<1>4. KeepsRecords /\ member'[m].state # "none"
  BY ZenonT(60), <1>1, <1>2, <1>3, OwnerGiven DEF LiveMember
<1> QED
  BY <1>2, <1>4 DEF o, x

\* Asking for it is sending nothing.
LEMMA ClaimedOnly ==
  ASSUME TypeInv, NEW a \in Accounts, NEW m \in Members, member' = Claimed(a, m)
  PROVE  member' = [Claimed(a, m) EXCEPT ![m].phone = SetTo(@, None)]
<1>1. Claimed(a, m) \in [Members -> Member]
  BY DEF Claimed, TypeInv, Member, Opt
<1>2. \A old : SetTo(old, None) = old
  BY Absent DEF SetTo
<1> DEFINE c == Claimed(a, m)
<1> HIDE DEF c
<1>3. c = [c EXCEPT ![m].phone = SetTo(@, None)]
  BY <1>1, <1>2 DEF c, Member
<1> QED
  BY <1>3 DEF c

LEMMA ProfileRequests ==
  ASSUME TypeInv, NoneOwned, NEW a \in Accounts, NEW m \in Members
  PROVE  /\ GetProfile(a, m) => Requested
         /\ \A p \in Phones \cup {None, Null}, e \in Stored \cup {Null} :
              UpdateProfile(a, m, p, e) => Requested
<1>1. ASSUME GetProfile(a, m)
      PROVE  Requested
  <2>1. /\ m \in Profiles(a) /\ Unlocked(m) /\ UNCHANGED <<user, edit>> /\ Other
        /\ member' = Claimed(a, m)
    BY <1>1 DEF GetProfile
  <2>2. KeepsRecords
    BY <2>1, ClaimedOnly, ClaimedKeeps
  <2> QED
    BY <2>1, <2>2, Unchanged, OtherStep DEF Requested, Other
<1>2. ASSUME NEW p \in Phones \cup {None, Null}, NEW e \in Stored \cup {Null},
             UpdateProfile(a, m, p, e)
      PROVE  Requested
  <2> DEFINE x == Claimed(a, m)[m].user
  <2>1. /\ m \in Profiles(a) /\ Unlocked(m) /\ BeginEdit(m, member')
        /\ user' = [user EXCEPT ![x].phone = Passed(@, p), ![x].email = SetTo(@, e)]
        /\ member' = [Claimed(a, m) EXCEPT ![m].phone = SetTo(@, p)]
    BY <1>2 DEF UpdateProfile
  <2>2. KeepsRecords /\ member'[m].state # "none" /\ x \in Accounts
    BY <2>1, ClaimedKeeps
  <2> HIDE DEF x
  <2>3. KeepsUsers
    BY <2>1, <2>2, PassedKeeps
  <2> QED
    BY <2>1, <2>2, <2>3, BeginsStep
<1> QED
  BY <1>1, <1>2

LEMMA RequestStep ==
  ASSUME TypeInv, NoneOwned, Request
  PROVE  Requested
<1>1. ASSUME NEW a \in Accounts, NEW p \in Phones,
             \/ \E m \in Members, e \in Stored : Register(a, m, p, e)
             \/ \E e \in Stored : CreateUser(a, p, e)
             \/ UpdateUser(a, p)
      PROVE  Requested
  BY <1>1, AccountRequests
<1>2. ASSUME NEW a \in Accounts, DeleteUser(a)
      PROVE  Requested
  <2>1. KeepsUsers
    BY <1>2 DEF DeleteUser, KeepsUsers, TypeInv, User
  <2> QED
    BY <1>2, <2>1, Unchanged, OtherStep DEF DeleteUser, Requested, Other
<1>3. ASSUME NEW m \in Members,
             \/ DeleteMember(m)
             \/ \E p \in Phones, c \in Forms : CreateMember(m, p, c)
             \/ \E a \in Accounts : AddGroupMember(a, m)
      PROVE  Requested
  BY <1>3, RecordRequests
<1>4. ASSUME NEW m \in Members, NEW p \in Phones \cup {None, Null}, NEW e \in Stored,
             UpdateMember(m, p, e)
      PROVE  Requested
  BY <1>4, UpdateMemberRequest
<1>5. ASSUME NEW a \in Accounts, NEW p \in Phones, NEW m \in Members, AppointAdmin(a, p, m)
      PROVE  Requested
  BY <1>5, AppointRequest
<1>6. ASSUME NEW a \in Accounts, NEW m \in Members,
             \/ GetProfile(a, m)
             \/ \E p \in Phones \cup {None, Null}, e \in Stored \cup {Null} :
                  UpdateProfile(a, m, p, e)
      PROVE  Requested
  BY <1>6, ProfileRequests
<1> QED
  BY <1>1, <1>2, <1>3, <1>4, <1>5, <1>6 DEF Request

-----------------------------------------------------------------------------
(* The invariant.                                                          *)

LEMMA SoundRun ==
  ASSUME NEW q, NEW rows, NEW met, Sound(q, rows, met)
  PROVE  q \in Run /\ (q.at \in Holding \/ q.at \in {"idle", "lock"})
  BY DEF Sound, Run, Holding

LEMMA SoundMet ==
  ASSUME NEW q, NEW rows, NEW met, NEW met2, Sound(q, rows, met), met => met2
  PROVE  Sound(q, rows, met2)
  BY DEF Sound

\* A step of one run that commits nothing.
LEMMA RunStep ==
  ASSUME IInv, NEW r \in Runners, NEW x,
         Sound(x, member, overlap),
         x.at \in Holding => \A s \in Runners \ {r} : run[s].at \notin Holding,
         edit.at = "edit" /\ ~overlap' => x.at = "idle",
         run' = [run EXCEPT ![r] = x],
         overlap' \in BOOLEAN, overlap => overlap',
         sheet' = sheet, user' = user, member' = member, edit' = edit, taken' = taken,
         calls' \in Nat, faults' \in Nat
  PROVE  IInv'
<1>1. run' \in [Runners -> Run] /\ run'[r] = x /\ \A s \in Runners \ {r} : run'[s] = run[s]
  BY SoundRun DEF IInv, TypeInv
<1>2. TypeInv'
  BY <1>1 DEF IInv, TypeInv
<1>3. \A s \in Runners : Sound(run'[s], member, overlap')
  BY <1>1, SoundMet DEF IInv, Runs
<1>4. Runs'
  BY <1>3 DEF Runs
<1>5. OneHolds'
  BY <1>1 DEF IInv, OneHolds
<1>6. NoneOwned' /\ NoHalfImport'
  BY DEF IInv, NoneOwned, NoHalfImport
<1>7. Editing'
  BY <1>1 DEF IInv, Editing
<1> QED
  BY <1>2, <1>4, <1>5, <1>6, <1>7 DEF IInv

\* The step of a run that holds the lock.
LEMMA HoldingStep ==
  ASSUME IInv, NEW r \in Runners, NEW x, run[r].at \in Holding,
         Sound(x, member, overlap),
         run' = [run EXCEPT ![r] = x],
         UNCHANGED <<sheet, user, member, edit, overlap, taken>>, calls' \in Nat, faults' \in Nat
  PROVE  IInv'
<1>1. \A s \in Runners \ {r} : run[s].at \notin Holding
  BY DEF IInv, OneHolds
<1>2. ~(edit.at = "edit" /\ ~overlap)
  BY DEF IInv, Editing, Holding
<1> QED
  BY <1>1, <1>2, RunStep DEF IInv, TypeInv

LEMMA IdleSound ==
  ASSUME NEW rows, NEW met
  PROVE  Sound(IdleRun, rows, met)
<1>1. /\ IdleRun.at = "idle" /\ IdleRun.next = 1
      /\ \A a \in Accounts : IdleRun.byUser[a] = None /\ IdleRun.users[a] = None
      /\ \A m \in Members : IdleRun.members[m] = None
  BY DEF IdleRun
<1>2. \A a \in Accounts, m \in Members : IdleRun.byUser[a] # m
  BY <1>1, Parameters
<1> QED
  BY <1>1, <1>2, IdleType
  DEF Sound, Fresh, InTable, SameOwner, Whole, Found, Spares

\* A run without anything found or written.
LEMMA FreshSound ==
  ASSUME NEW q \in Run, NEW rows, NEW met, Fresh(q), q.at \in {"idle", "lock", "index"}
  PROVE  Sound(q, rows, met)
<1>1. /\ \A a \in Accounts : q.byUser[a] = None /\ q.users[a] = None
      /\ \A m \in Members : q.members[m] = None
  BY DEF Fresh
<1>2. \A a \in Accounts, m \in Members : q.byUser[a] # m
  BY <1>1, Parameters
<1> QED
  BY <1>1, <1>2 DEF Sound, InTable, SameOwner, Whole, Found, Spares

LEMMA StartKeeps ==
  ASSUME IInv, NEW r \in Runners, StartRun(r)
  PROVE  IInv'
<1> DEFINE x == [IdleRun EXCEPT !.at = "lock", !.table = sheet]
<1>1. x \in Run /\ x.at = "lock"
  BY IdleType DEF Run, IInv, TypeInv
<1>2. Fresh(x)
  BY IdleType DEF Fresh, Run, IdleRun
<1>3. Sound(x, member, overlap)
  BY <1>1, <1>2, FreshSound
<1>4. run' = [run EXCEPT ![r] = x]
  BY DEF StartRun
<1> HIDE DEF x
<1>5. /\ overlap' = (overlap \/ edit.at # "idle") /\ calls' \in Nat
      /\ UNCHANGED <<sheet, user, member, edit, taken, faults>>
  BY DEF StartRun, Counted, IInv, TypeInv
<1> QED
  BY <1>1, <1>3, <1>4, <1>5, RunStep DEF Holding, IInv, TypeInv

LEMMA LockKeeps ==
  ASSUME IInv, NEW r \in Runners, Lock(r)
  PROVE  IInv'
<1> DEFINE held == \E s \in Runners \ {r} : run[s].at \in {"index", "rows", "commit"}
           x == IF held THEN IdleRun ELSE [run[r] EXCEPT !.at = "index"]
<1>1. Sound(run[r], member, overlap) /\ run[r].at = "lock"
  BY DEF IInv, Runs, Lock
<1>2. ~held => x \in Run /\ x.at = "index" /\ Fresh(x)
  BY <1>1 DEF Sound, Run, Fresh
<1>3. Sound(x, member, overlap)
  BY <1>2, IdleSound, FreshSound
<1>4. x.at \in Holding => \A s \in Runners \ {r} : run[s].at \notin Holding
  BY DEF IdleRun, Holding
<1>5. run' = [run EXCEPT ![r] = x]
  BY DEF Lock
<1> HIDE DEF x
<1>6. edit.at = "edit" /\ ~overlap => FALSE
  BY <1>1 DEF IInv, Editing
<1>7. UNCHANGED <<sheet, user, member, edit, overlap, taken, calls, faults>>
  BY DEF Lock
<1> QED
  BY <1>3, <1>4, <1>5, <1>6, <1>7, RunStep DEF IInv, TypeInv

\* The index: records that are live, their bags as they are stored.
LEMMA IndexKeeps ==
  ASSUME IInv, NEW r \in Runners, Index(r)
  PROVE  IInv'
<1> DEFINE q == run[r]
<1>1. Sound(q, member, overlap) /\ q.at = "index" /\ q \in Run
  BY DEF IInv, Runs, Index, Sound
<1>2. PICK byEmail \in [Emails -> Opt(Accounts)] :
        run' = [run EXCEPT
          ![r].at = IF q.table = <<>> THEN "commit" ELSE "rows",
          ![r].byPhone = [p \in Phones |-> CHOOSE x \in Opt(Accounts) : OneOf(WithPhone(p), x)],
          ![r].byEmail = byEmail,
          ![r].byUser = [a \in Accounts |-> CHOOSE x \in Opt(Members) : OneOf(RecordOf(a), x)],
          ![r].bags = [m \in Members |-> member[m].bag]]
  BY DEF Index
<1> DEFINE at == IF q.table = <<>> THEN "commit" ELSE "rows"
           byPhone == [p \in Phones |-> CHOOSE x \in Opt(Accounts) : OneOf(WithPhone(p), x)]
           byUser == [a \in Accounts |-> CHOOSE x \in Opt(Members) : OneOf(RecordOf(a), x)]
           bags == [m \in Members |-> member[m].bag]
           n == [q EXCEPT !.at = at, !.byPhone = byPhone, !.byEmail = byEmail,
                          !.byUser = byUser, !.bags = bags]
<1>3. run' = [run EXCEPT ![r] = n]
  BY <1>2 DEF IInv, TypeInv
<1>4. \A S \in SUBSET Accounts : \E x \in Opt(Accounts) : OneOf(S, x)
  BY DEF OneOf, Opt
<1>5. \A S \in SUBSET Members : \E x \in Opt(Members) : OneOf(S, x)
  BY DEF OneOf, Opt
<1>6. byPhone \in [Phones -> Opt(Accounts)]
  <2>1. ASSUME NEW p \in Phones
        PROVE  (CHOOSE x \in Opt(Accounts) : OneOf(WithPhone(p), x)) \in Opt(Accounts)
    <3>1. WithPhone(p) \in SUBSET Accounts
      BY DEF WithPhone
    <3> QED
      BY <1>4, <3>1
  <2> QED
    BY <2>1
<1>7. ASSUME NEW a \in Accounts
      PROVE  byUser[a] \in Opt(Members) /\ OneOf(RecordOf(a), byUser[a])
  <2>1. RecordOf(a) \in SUBSET Members
    BY DEF RecordOf
  <2> QED
    BY <1>5, <2>1
<1>8. byUser \in [Accounts -> Opt(Members)]
  BY <1>7
<1>9. \A a \in Accounts : byUser[a] # None => member[byUser[a]].state # "none"
  BY <1>7 DEF OneOf, RecordOf, LiveMember
<1>10. bags \in [Members -> Cells]
  BY DEF IInv, TypeInv, Member
<1>11. at \in {"rows", "commit"} /\ (at = "rows" => q.table # <<>>)
  OBVIOUS
<1>12. \A m \in Members : bags[m] = member[m].bag
  OBVIOUS
<1> HIDE DEF q, at, byPhone, byUser, bags
<1>13. n \in Run /\ n.at = at /\ n.next = q.next /\ n.table = q.table /\ n.byUser = byUser
       /\ n.bags = bags /\ n.users = q.users /\ n.members = q.members
  BY <1>1, <1>6, <1>8, <1>10, <1>11 DEF Run
<1> HIDE DEF n
<1>14. /\ q.next = 1
       /\ \A a \in Accounts : q.users[a] = None
       /\ \A m \in Members : q.members[m] = None
  BY <1>1 DEF Sound, Fresh
<1>15. Fresh(n)
  BY <1>11, <1>13 DEF Fresh
<1>16. InTable(n)
  <2>1. q.table # <<>> => Len(q.table) \in Nat \ {0}
    BY <1>1 DEF Run
  <2> QED
    BY <1>11, <1>13, <1>14, <2>1 DEF InTable
<1>17. SameOwner(n, member) /\ Whole(n) /\ Found(n, member)
  BY <1>9, <1>13, <1>14 DEF SameOwner, Whole, Found
<1>18. Spares(n, member)
  BY <1>12, <1>13, <1>14 DEF Spares, Spared
<1>19. Sound(n, member, overlap)
  BY <1>13, <1>15, <1>16, <1>17, <1>18 DEF Sound
<1>20. run[r].at \in Holding
  BY <1>1 DEF Holding, q
<1>21. UNCHANGED <<sheet, user, member, edit, overlap, taken, calls, faults>>
  BY DEF Index
<1> QED
  BY <1>3, <1>19, <1>20, <1>21, HoldingStep DEF IInv, TypeInv

\* The row a run is at.
LEMMA AtRow ==
  ASSUME IInv, NEW r \in Runners, run[r].at = "rows"
  PROVE  /\ run[r] \in Run /\ run[r].at \in Holding
         /\ Sound(run[r], member, overlap)
         /\ run[r].table[run[r].next] \in Row
         /\ TypeInv /\ NoneOwned
  BY RowType DEF IInv, Runs, Sound, Holding

LEMMA PassKeeps ==
  ASSUME IInv, NEW r \in Runners, PassRow(r)
  PROVE  IInv'
<1> DEFINE q == run[r]
           row == q.table[q.next]
<1>1. run[r].at = "rows" /\ UNCHANGED <<sheet, user, member, edit, overlap, taken, calls, faults>>
  BY DEF PassRow
<1>2. CASE run' = [run EXCEPT ![r] = Ends(q, "failed")] \/ run' = [run EXCEPT ![r] = Ends(q, "skipped")]
  <2>1. Sound(Ends(q, "failed"), member, overlap) /\ Sound(Ends(q, "skipped"), member, overlap)
    BY <1>1, AtRow, EndsFresh
  <2> QED
    BY <1>1, <1>2, <2>1, AtRow, HoldingStep DEF TypeInv
<1>3. CASE Valid(row) /\ run' = [run EXCEPT ![r] = Ends(Noted(q, row), "failed")]
  <2>1. Sound(Ends(Noted(q, row), "failed"), member, overlap)
    BY <1>1, <1>3, AtRow, EndsSound
  <2> QED
    BY <1>1, <1>3, <2>1, AtRow, HoldingStep DEF TypeInv
<1> QED
  BY <1>2, <1>3 DEF PassRow

LEMMA UpdateKeeps ==
  ASSUME IInv, NEW r \in Runners, UpdateRow(r)
  PROVE  IInv'
<1> DEFINE q == run[r]
           row == q.table[q.next]
           a == Matched(q, row).user
           m == q.byUser[a]
           x == Ends(Noted(Updated(q, m, row), row), "update")
<1>1. /\ q.at = "rows" /\ Valid(row) /\ a # None /\ m # None
      /\ run' = [run EXCEPT ![r] = x]
      /\ UNCHANGED <<sheet, user, member, edit, overlap, taken, calls, faults>>
  BY DEF UpdateRow, Writes
<1>2. a \in Accounts /\ m \in Members
  <2>1. a \in Opt(Accounts) /\ q \in Run
    BY <1>1, AtRow, MatchedType
  <2> HIDE DEF a
  <2>2. a \in Accounts
    BY <1>1, <2>1 DEF Opt
  <2>3. m \in Opt(Members)
    BY <2>1, <2>2 DEF Run
  <2> QED
    BY <1>1, <2>2, <2>3 DEF Opt
<1>3. Sound(Updated(q, m, row), member, overlap)
  BY <1>1, <1>2, AtRow, UpdatedSound
<1>4. Updated(q, m, row).at = "rows" /\ Updated(q, m, row) \in Run
  BY <1>1, <1>2, AtRow, UpdatedType
<1>5. Sound(x, member, overlap)
  BY <1>1, <1>3, <1>4, AtRow, EndsSound
<1> QED
  BY <1>1, <1>5, AtRow, HoldingStep DEF TypeInv

LEMMA InsertKeeps ==
  ASSUME IInv, NEW r \in Runners, InsertRow(r) \/ LinkRow(r)
  PROVE  IInv'
<1> DEFINE q == run[r]
           row == q.table[q.next]
<1>1. /\ q.at = "rows" /\ Valid(row)
      /\ UNCHANGED <<sheet, user, member, edit, overlap, taken, calls, faults>>
  BY DEF InsertRow, LinkRow, Writes
<1>2. PICK a \in Accounts, m \in Members, new \in BOOLEAN, result \in {"insert", "link"} :
        /\ NewMember(m)
        /\ run' = [run EXCEPT ![r] = Ends(Noted(Inserted(q, a, m, row, new), row), result)]
  <2>1. CASE InsertRow(r)
    BY <2>1 DEF InsertRow
  <2>2. CASE LinkRow(r)
    <3>1. Matched(q, row).user \in Accounts
      BY <1>1, <2>2, AtRow, MatchedType DEF LinkRow, Opt
    <3> QED
      BY <2>2, <3>1 DEF LinkRow
  <2> QED
    BY <2>1, <2>2
<1>3. member[m].state = "none" /\ q.members[m] = None
  BY <1>2 DEF NewMember, Unlocked
<1>4. Sound(Inserted(q, a, m, row, new), member, overlap)
  BY <1>1, <1>3, AtRow, InsertedSound
<1>5. Inserted(q, a, m, row, new).at = "rows" /\ Inserted(q, a, m, row, new) \in Run
  BY <1>1, AtRow, InsertedType
<1>6. Sound(Ends(Noted(Inserted(q, a, m, row, new), row), result), member, overlap)
  BY <1>1, <1>4, <1>5, AtRow, EndsSound
<1> QED
  BY <1>1, <1>2, <1>6, AtRow, HoldingStep DEF TypeInv

LEMMA FailKeeps ==
  ASSUME IInv, NEW r \in Runners, FailRow(r)
  PROVE  IInv'
<1> DEFINE q == run[r]
           row == q.table[q.next]
<1>1. /\ q.at = "rows" /\ Valid(row)
      /\ UNCHANGED <<sheet, user, member, edit, overlap, taken, calls>>
  BY DEF FailRow, Writes
<1>2. faults' \in Nat
  BY AtRow, <1>1 DEF FailRow, Fault, TypeInv
<1>3. \/ run' = [run EXCEPT ![r] = Failed(q, row)]
      \/ run' = [run EXCEPT ![r] = [Failed(q, row) EXCEPT !.calm = FALSE]]
  BY DEF FailRow
<1>4. /\ Sound(Failed(q, row), member, overlap)
      /\ Sound([Failed(q, row) EXCEPT !.calm = FALSE], member, overlap)
  BY <1>1, AtRow, FailedSound
<1> QED
  BY <1>1, <1>2, <1>3, <1>4, AtRow, HoldingStep DEF TypeInv

LEMMA AbortKeeps ==
  ASSUME IInv, NEW r \in Runners, AbortRun(r)
  PROVE  IInv'
<1>1. run[r].at \in Holding
  BY SoundRun DEF AbortRun, IInv, Runs
<1>2. run' = [run EXCEPT ![r] = IdleRun]
      /\ UNCHANGED <<sheet, user, member, edit, overlap, taken, calls>> /\ faults' \in Nat
  BY DEF AbortRun, Fault, IInv, TypeInv
<1> QED
  BY <1>1, <1>2, IdleSound, HoldingStep DEF IInv, TypeInv

\* The records that a commit leaves keep their owners, their bags are spared.
LEMMA CommitRows ==
  ASSUME IInv, NEW r \in Runners, CommitRun(r)
  PROVE  /\ Sound(run[r], member, overlap)
         /\ run[r].at = "commit"
         /\ run' = [run EXCEPT ![r] = IdleRun]
         /\ user' \in [Accounts -> User] /\ member' \in [Members -> Member]
         /\ \A m \in Members :
              /\ run[r].members[m] = None => member'[m] = member[m]
              /\ run[r].members[m] # None => member'[m] = run[r].members[m]
              /\ member[m].state # "none" => member'[m].state # "none"
              /\ member[m].user # None => member'[m].user = member[m].user
              /\ ~overlap /\ member[m].state # "none" => SparesRow(member[m], member'[m])
<1> DEFINE q == run[r]
<1>1. Sound(q, member, overlap) /\ q.at = "commit" /\ q \in Run
  BY DEF IInv, Runs, CommitRun, Sound
<1>2. /\ user' = [a \in Accounts |-> IF q.users[a] = None THEN user[a] ELSE q.users[a]]
      /\ member' = [m \in Members |-> IF q.members[m] = None THEN member[m] ELSE q.members[m]]
      /\ run' = [run EXCEPT ![r] = IdleRun]
  BY DEF CommitRun
<1> HIDE DEF q
<1>3. user' \in [Accounts -> User] /\ member' \in [Members -> Member]
  BY <1>1, <1>2 DEF Run, IInv, TypeInv, Opt
<1>4. ASSUME NEW m \in Members, q.members[m] = None
      PROVE  member'[m] = member[m] /\ SparesRow(member[m], member'[m])
  BY <1>2, <1>4 DEF SparesRow, Spared
<1>5. ASSUME NEW m \in Members, q.members[m] # None
      PROVE  /\ member'[m] = q.members[m]
             /\ member'[m].state # "none"
             /\ member[m].user # None => member'[m].user = member[m].user
             /\ ~overlap /\ member[m].state # "none" => SparesRow(member[m], member'[m])
  BY <1>1, <1>2, <1>5 DEF Sound, SameOwner, Spares
<1> QED
  BY <1>1, <1>2, <1>3, <1>4, <1>5 DEF q

LEMMA CommitKeeps ==
  ASSUME IInv, NEW r \in Runners, CommitRun(r)
  PROVE  IInv'
<1>1. UNCHANGED <<sheet, edit, overlap, taken, calls, faults>>
  BY DEF CommitRun
<1>2. TypeInv'
  BY <1>1, CommitRows, IdleType DEF IInv, TypeInv
<1>3. \A s \in Runners \ {r} : run'[s] = run[s] /\ run'[s].at \in {"idle", "lock"}
  BY CommitRows, SoundRun DEF IInv, TypeInv, Runs, OneHolds, Holding
<1>4. ASSUME NEW s \in Runners
      PROVE  Sound(run'[s], member', overlap')
  <2>1. CASE s = r
    BY <2>1, CommitRows, IdleSound DEF IInv, TypeInv
  <2>2. CASE s # r
    <3>1. Sound(run[s], member, overlap)
      BY DEF IInv, Runs
    <3> QED
      BY <1>3, <2>2, <3>1, FreshSound DEF Sound
  <2> QED
    BY <2>1, <2>2
<1>5. Runs'
  BY <1>4 DEF Runs
<1>6. OneHolds'
  BY <1>3, CommitRows DEF OneHolds, Holding, IInv, TypeInv, IdleRun
<1>7. NoneOwned'
  <2> SUFFICES ASSUME NEW m \in Members, member'[m].state = "none"
               PROVE  member'[m].user = None
    BY DEF NoneOwned
  <2>1. run[r].members[m] = None
    BY CommitRows DEF Sound, SameOwner
  <2> QED
    BY <2>1, CommitRows DEF IInv, NoneOwned
<1>8. Editing'
  <2>1. overlap \/ edit.at # "edit"
    BY CommitRows DEF IInv, Editing
  <2> QED
    BY <1>1, <2>1, CommitRows DEF IInv, Editing
<1>9. NoHalfImport'
  <2> SUFFICES ASSUME NEW a \in Accounts \ taken, user'[a].by = "sync"
               PROVE  \E m \in Members : member'[m].state # "none" /\ member'[m].user = a
    BY <1>1 DEF NoHalfImport
  <2>0. a # None
    BY Parameters
  <2>1. CASE run[r].users[a] = None
    <3>1. user'[a] = user[a]
      BY <2>1 DEF CommitRun
    <3>2. PICK m \in Members : member[m].state # "none" /\ member[m].user = a
      BY <3>1 DEF IInv, NoHalfImport
    <3>3. member'[m].state # "none" /\ member'[m].user = a
      BY <2>0, <3>2, CommitRows
    <3> QED
      BY <3>3
  <2>2. CASE run[r].users[a] # None
    <3>1. PICK m \in Members : run[r].members[m] # None /\ run[r].members[m].user = a
      BY <2>2, CommitRows DEF Sound, Whole
    <3>2. member'[m].state # "none" /\ member'[m].user = a
      BY <3>1, CommitRows DEF Sound, SameOwner
    <3> QED
      BY <3>2
  <2> QED
    BY <2>1, <2>2
<1> QED
  BY <1>2, <1>5, <1>6, <1>7, <1>8, <1>9 DEF IInv

LEMMA SheetKeeps ==
  ASSUME IInv, EditSheet
  PROVE  IInv'
<1>1. TypeInv'
  BY Sheet DEF EditSheet, Counted, IInv, TypeInv
<1> QED
  BY <1>1 DEF EditSheet, IInv, Runs, OneHolds, NoneOwned, Editing, NoHalfImport

LEMMA EditKeeps ==
  ASSUME IInv, CommitEdit
  PROVE  IInv'
<1> DEFINE e == edit.member
           x == [member[e] EXCEPT !.columns = Put(@, edit.cells),
                                  !.bag = Put(edit.seen.bag, edit.cells)]
<1>1. /\ e \in Members /\ Unlocked(e) /\ member[e].state # "none"
      /\ ~overlap => \A r \in Runners : run[r].at = "idle"
  BY DEF IInv, Editing, CommitEdit
<1>2. member' = [member EXCEPT ![e] = x]
  BY DEF CommitEdit, IInv, TypeInv
<1>3. x \in Member /\ x.state = member[e].state /\ x.user = member[e].user
  <2>1. member[e] \in Member /\ edit.seen \in Member /\ edit.cells \in Edits
    BY <1>1 DEF IInv, TypeInv, Edit
  <2>2. Put(member[e].columns, edit.cells) \in Cells /\ Put(edit.seen.bag, edit.cells) \in Cells
    BY <2>1, PutType DEF Member
  <2> QED
    BY <2>1, <2>2 DEF Member
<1> HIDE DEF e, x
<1>4. /\ member' \in [Members -> Member]
      /\ \A m \in Members \ {e} : member'[m] = member[m]
      /\ \A m \in Members : member'[m].state = member[m].state /\ member'[m].user = member[m].user
  BY <1>1, <1>2, <1>3 DEF IInv, TypeInv
<1>5. edit' = NoEdit /\ UNCHANGED <<sheet, user, run, settled, overlap, taken, calls, faults>>
  BY DEF CommitEdit
<1>6. NoEdit \in Edit
  <2>1. Blank \in Cells /\ Blank \in Edits
    BY BlankType
  <2> QED
    BY <2>1 DEF NoEdit, Edit, NoMember, Member, Opt
<1>7. TypeInv'
  BY <1>4, <1>5, <1>6 DEF IInv, TypeInv
<1>8. ASSUME NEW r \in Runners
      PROVE  Sound(run[r], member', overlap)
  <2>1. Sound(run[r], member, overlap)
    BY DEF IInv, Runs
  <2>2. SameOwner(run[r], member') /\ Whole(run[r])
    BY <1>4, <2>1 DEF Sound, SameOwner
  <2>3. Found(run[r], member')
    <3>1. \A a \in Accounts : run[r].byUser[a] \in Opt(Members)
      BY <2>1 DEF Sound, Run
    <3> QED
      BY <1>4, <2>1, <3>1 DEF Sound, Found, Opt
  <2>4. ~overlap => Spares(run[r], member')
    <3> SUFFICES ASSUME ~overlap
                 PROVE  Spares(run[r], member')
      OBVIOUS
    <3>1. /\ \A m \in Members : run[r].members[m] = None
          /\ \A a \in Accounts : run[r].byUser[a] = None
      BY <1>1, <2>1 DEF Sound, Fresh
    <3> QED
      BY <3>1, Parameters DEF Spares
  <2> QED
    BY <2>1, <2>2, <2>3, <2>4 DEF Sound
<1>9. Runs'
  BY <1>5, <1>8 DEF Runs
<1>10. OneHolds' /\ NoneOwned' /\ NoHalfImport'
  BY <1>4, <1>5 DEF IInv, OneHolds, NoneOwned, NoHalfImport
<1>11. Editing'
  BY <1>5 DEF Editing, NoEdit
<1> QED
  BY <1>7, <1>9, <1>10, <1>11 DEF IInv

\* The runs as a request leaves them.
LEMMA DisturbedRuns ==
  ASSUME TypeInv, run' = Disturbed
  PROVE  /\ run' \in [Runners -> Run]
         /\ \A r \in Runners :
              /\ run'[r].at = run[r].at /\ run'[r].next = run[r].next
              /\ run'[r].table = run[r].table /\ run'[r].byUser = run[r].byUser
              /\ run'[r].bags = run[r].bags /\ run'[r].users = run[r].users
              /\ run'[r].members = run[r].members
<1>1. ASSUME NEW r \in Runners
      PROVE  /\ Disturbed[r] \in Run
             /\ Disturbed[r].at = run[r].at /\ Disturbed[r].next = run[r].next
             /\ Disturbed[r].table = run[r].table /\ Disturbed[r].byUser = run[r].byUser
             /\ Disturbed[r].bags = run[r].bags /\ Disturbed[r].users = run[r].users
             /\ Disturbed[r].members = run[r].members
  <2> DEFINE q == run[r]
  <2>1. q \in Run
    BY DEF TypeInv
  <2>2. Disturbed[r] = IF q.at = "idle" THEN q ELSE [q EXCEPT !.calm = FALSE]
    BY DEF Disturbed
  <2> HIDE DEF q
  <2>3. LET n == [q EXCEPT !.calm = FALSE]
        IN  /\ n \in Run /\ n.at = q.at /\ n.next = q.next /\ n.table = q.table
            /\ n.byUser = q.byUser /\ n.bags = q.bags /\ n.users = q.users
            /\ n.members = q.members
    BY <2>1 DEF Run
  <2>4. /\ Disturbed[r] \in Run
        /\ Disturbed[r].at = q.at /\ Disturbed[r].next = q.next
        /\ Disturbed[r].table = q.table /\ Disturbed[r].byUser = q.byUser
        /\ Disturbed[r].bags = q.bags /\ Disturbed[r].users = q.users
        /\ Disturbed[r].members = q.members
    BY <2>1, <2>2, <2>3
  <2> QED
    BY <2>4 DEF q
<1>2. Disturbed = [r \in Runners |-> Disturbed[r]]
  BY DEF Disturbed
<1> QED
  BY <1>1, <1>2

\* A request disturbs no run: it leaves alone what the run has written, and
\* the bags of what it has found.
LEMMA RequestedSound ==
  ASSUME TypeInv, KeepsRecords, run' = Disturbed, overlap => overlap',
         NEW r \in Runners, Sound(run[r], member, overlap)
  PROVE  Sound(run'[r], member', overlap')
<1> DEFINE q == run[r]
           p == run'[r]
<1>1. /\ p \in Run /\ p.at = q.at /\ p.next = q.next /\ p.table = q.table
      /\ p.byUser = q.byUser /\ p.bags = q.bags /\ p.users = q.users /\ p.members = q.members
  BY DisturbedRuns
<1>2. \A m \in Members : KeepsRecord(m)
  BY DEF KeepsRecords
<1>3. \A m \in Members : q.members[m] # None => member'[m] = member[m]
  BY <1>2 DEF KeepsRecord, Unlocked
<1>4. \A m \in Members : /\ member[m].state # "none" => member'[m].state # "none"
                         /\ member[m].state # "none" =>
                              /\ member'[m].bag = member[m].bag
                              /\ member'[m].columns = member[m].columns
  BY <1>2 DEF KeepsRecord
<1>s. Sound(q, member, overlap)
  OBVIOUS
<1> HIDE DEF p, q
<1>5. Fresh(p) /\ InTable(p)
  BY <1>1, <1>s DEF Sound, Fresh, InTable
<1>6. SameOwner(p, member') /\ Whole(p)
  BY <1>1, <1>3, <1>s DEF Sound, SameOwner, Whole
<1>7. Found(p, member')
  <2>1. \A a \in Accounts : q.byUser[a] \in Opt(Members)
    BY <1>s DEF Sound, Run
  <2> QED
    BY <1>1, <1>4, <1>s, <2>1 DEF Sound, Found, Opt
<1>8. ~overlap' => Spares(p, member')
  <2> SUFFICES ASSUME ~overlap', NEW m \in Members, member'[m].state # "none"
               PROVE  /\ p.members[m] # None => SparesRow(member'[m], p.members[m])
                      /\ \A a \in Accounts : p.byUser[a] = m => Spared(member'[m].bag, p.bags[m])
    BY DEF Spares
  <2>1. Spares(q, member)
    BY <1>s DEF Sound
  <2>2. p.members[m] # None => SparesRow(member'[m], p.members[m])
    BY <1>1, <1>3, <2>1 DEF Spares
  <2>3. ASSUME NEW a \in Accounts, p.byUser[a] = m
        PROVE  Spared(member'[m].bag, p.bags[m])
    <3>1. q.members[m] # None => member'[m] = member[m]
      BY <1>3
    <3>2. m # None
      BY Parameters
    <3>3. q.members[m] = None => member[m].state # "none"
      BY <1>1, <1>s, <2>3, <3>2 DEF Sound, Found
    <3> QED
      BY <1>1, <1>4, <2>1, <2>3, <3>1, <3>3 DEF Spares
  <2> QED
    BY <2>2, <2>3
<1>9. Sound(p, member', overlap')
  BY <1>1, <1>5, <1>6, <1>7, <1>8 DEF Sound
<1> QED
  BY <1>9 DEF p

LEMMA RequestKeeps ==
  ASSUME IInv, Requested
  PROVE  IInv'
<1>1. /\ overlap => overlap' /\ overlap' \in BOOLEAN
      /\ run' = Disturbed /\ KeepsRecords /\ TypeInv
  BY DEF Requested, Begins, IInv, TypeInv
<1>2. TypeInv'
  BY <1>1, DisturbedRuns DEF Requested, Begins, KeepsRecords, KeepsUsers, KeepsTaken, IInv, TypeInv
<1>3. Runs'
  BY <1>1, RequestedSound DEF IInv, Runs
<1>4. OneHolds'
  BY <1>1, DisturbedRuns DEF IInv, OneHolds
<1>5. \A m \in Members : KeepsRecord(m)
  BY <1>1 DEF KeepsRecords
<1>6. NoneOwned'
  BY <1>5 DEF IInv, NoneOwned, KeepsRecord
<1>7. Editing'
  <2>1. CASE Begins
    BY <1>1, <2>1, DisturbedRuns DEF Editing, Begins
  <2>2. CASE edit' = edit /\ overlap' = overlap
    BY <1>1, <1>5, <2>2, DisturbedRuns DEF IInv, Editing, KeepsRecord
  <2> QED
    BY <2>1, <2>2 DEF Requested
<1>8. NoHalfImport'
  <2> SUFFICES ASSUME NEW a \in Accounts \ taken', user'[a].by = "sync"
               PROVE  \E m \in Members : member'[m].state # "none" /\ member'[m].user = a
    BY DEF NoHalfImport
  <2>1. a \notin taken /\ user[a].by = "sync" /\ a # None
    BY Parameters DEF Requested, KeepsTaken, KeepsUsers
  <2>2. PICK m \in Members : member[m].state # "none" /\ member[m].user = a
    BY <2>1 DEF IInv, NoHalfImport
  <2>3. member'[m].state # "none" /\ member'[m].user = a
    BY <1>5, <2>1, <2>2 DEF KeepsRecord
  <2> QED
    BY <2>3
<1> QED
  BY <1>2, <1>3, <1>4, <1>6, <1>7, <1>8 DEF IInv

LEMMA InitKeeps == Init => IInv
<1> SUFFICES ASSUME Init
             PROVE  IInv
  OBVIOUS
<1>1. NoUser \in User /\ NoUser.by = None
  BY DEF NoUser, User, Opt
<1>2. NoMember \in Member /\ NoMember.state = "none" /\ NoMember.user = None
  BY BlankType DEF NoMember, Member, Opt
<1>3. NoEdit \in Edit /\ NoEdit.at = "idle"
  BY <1>2, BlankType DEF NoEdit, Edit, Opt
<1>4. TypeInv
  BY <1>1, <1>2, <1>3, Sheet, IdleType DEF Init, TypeInv
<1>5. Runs
  BY IdleSound DEF Init, Runs
<1>6. OneHolds /\ NoneOwned /\ Editing
  BY <1>2, <1>3 DEF Init, OneHolds, NoneOwned, Editing, IdleRun, Holding
<1>7. NoHalfImport
  BY <1>1, Absent DEF Init, NoHalfImport
<1> QED
  BY <1>4, <1>5, <1>6, <1>7 DEF IInv

LEMMA NextKeeps == IInv /\ [Next]_vars => IInv'
<1> SUFFICES ASSUME IInv, [Next]_vars
             PROVE  IInv'
  OBVIOUS
<1>1. ASSUME NEW r \in Runners,
             \/ StartRun(r) \/ Lock(r) \/ Index(r)
             \/ PassRow(r) \/ UpdateRow(r) \/ InsertRow(r) \/ LinkRow(r) \/ FailRow(r)
             \/ CommitRun(r) \/ AbortRun(r)
      PROVE  IInv'
  BY <1>1, StartKeeps, LockKeeps, IndexKeeps, PassKeeps, UpdateKeeps, InsertKeeps, FailKeeps,
     CommitKeeps, AbortKeeps
<1>2. CASE EditSheet
  BY <1>2, SheetKeeps
<1>3. CASE Request
  BY <1>3, RequestStep, RequestKeeps DEF IInv
<1>4. CASE CommitEdit
  BY <1>4, EditKeeps
<1>5. CASE UNCHANGED vars
  BY <1>5 DEF vars, IInv, TypeInv, Runs, OneHolds, NoneOwned, Editing, NoHalfImport
<1> QED
  BY <1>1, <1>2, <1>3, <1>4, <1>5 DEF Next

LEMMA Invariant == Spec => []IInv
  BY InitKeeps, NextKeeps, PTL DEF Spec

-----------------------------------------------------------------------------
(* What the records keep.                                                  *)

\* Whatever row fails where, and whatever is asked for meanwhile: an account
\* that the import has created has its record, unless an appointment took it.
THEOREM NothingHalfImported == Spec => []NoHalfImport
<1>1. IInv => NoHalfImport
  BY DEF IInv
<1> QED
  BY <1>1, Invariant, PTL

\* The steps of a run before its commit change no record.
LEMMA RunWritesLate ==
  ASSUME NEW r \in Runners,
         \/ StartRun(r) \/ Lock(r) \/ Index(r)
         \/ PassRow(r) \/ UpdateRow(r) \/ InsertRow(r) \/ LinkRow(r) \/ FailRow(r)
         \/ AbortRun(r)
  PROVE  UNCHANGED <<member, taken>>
  BY DEF StartRun, Lock, Index, PassRow, UpdateRow, InsertRow, LinkRow, FailRow, AbortRun

\* A record stays that of the account it belongs to: neither a run that read it
\* earlier, nor an edit, nor a profile found by its number moves it; only an
\* appointment does.
THEOREM OwnersKept == Spec => NeverRelinked
<1>1. ASSUME IInv, Next, NEW m \in Members, member[m].user \notin taken' \cup {None}
      PROVE  member'[m].user = member[m].user
  <2>1. CASE UNCHANGED member
    BY <2>1
  <2>2. ASSUME NEW r \in Runners, CommitRun(r)
        PROVE  member'[m].user = member[m].user
    BY <1>1, <2>2, CommitRows
  <2>3. CASE Request
    <3>1. KeepsRecord(m)
      BY <1>1, <2>3, RequestStep DEF IInv, Requested, KeepsRecords
    <3> QED
      BY <1>1, <3>1 DEF KeepsRecord
  <2>4. CASE CommitEdit
    BY <1>1, <2>4 DEF CommitEdit, IInv, TypeInv, Member
  <2>5. CASE EditSheet
    BY <2>5 DEF EditSheet
  <2> QED
    BY <1>1, <2>1, <2>2, <2>3, <2>4, <2>5, RunWritesLate DEF Next
<1>2. IInv /\ [Next]_vars =>
        [\A m \in Members :
           member[m].user \notin taken' \cup {None} => member'[m].user = member[m].user]_vars
  BY <1>1
<1> QED
  BY <1>2, Invariant, PTL DEF Spec, NeverRelinked

\* "a blank cell means 'leave the stored value alone'", and a photo a member has
\* stays: while runs and edits do not overlap, no import, request or edit clears
\* a field of a member, or replaces its photo, but an edit that sends it.
THEOREM BlanksKeep == Spec => BlankKept
<1> DEFINE Both(m, f) == /\ Stays(member[m].columns, member'[m].columns, f)
                         /\ Stays(member[m].bag, member'[m].bag, f)
<1>1. ASSUME IInv, Next, NEW m \in Members, NEW f \in Fields,
             member[m].state # "none", ~overlap, ~Sends(m, f)
      PROVE  Both(m, f)
  <2>1. CASE UNCHANGED member
    BY <2>1 DEF Stays
  <2>2. ASSUME NEW r \in Runners, CommitRun(r)
        PROVE  Both(m, f)
    <3>1. SparesRow(member[m], member'[m])
      BY <1>1, <2>2, CommitRows
    <3> QED
      BY <3>1 DEF SparesRow, Spared, Stays
  <2>3. CASE Request
    <3>1. KeepsRecord(m)
      BY <1>1, <2>3, RequestStep DEF IInv, Requested, KeepsRecords
    <3> QED
      BY <1>1, <3>1 DEF KeepsRecord, Stays
  <2>4. CASE CommitEdit
    <3>1. CASE m = edit.member
      <4>1. /\ edit.seen.bag = member[m].bag /\ edit.at = "edit"
            /\ member'[m].bag = Put(member[m].bag, edit.cells)
            /\ member'[m].columns = Put(member[m].columns, edit.cells)
        BY <1>1, <2>4, <3>1 DEF IInv, TypeInv, Editing, CommitEdit, Member
      <4>2. edit.cells[f] = None
        BY <1>1, <2>4, <3>1, <4>1 DEF Sends, CommitEdit, NoEdit
      <4>3. \A old : Put(old, edit.cells)[f] = old[f]
        BY <4>2, Absent DEF Put, SetTo
      <4> QED
        BY <4>1, <4>3 DEF Stays
    <3>2. CASE m # edit.member
      BY <1>1, <2>4, <3>2 DEF CommitEdit, IInv, TypeInv, Stays
    <3> QED
      BY <3>1, <3>2
  <2>5. CASE EditSheet
    BY <2>5 DEF EditSheet, Stays
  <2> HIDE DEF Both
  <2> QED
    BY <1>1, <2>1, <2>2, <2>3, <2>4, <2>5, RunWritesLate DEF Next
<1>2. IInv /\ [Next]_vars =>
        [\A m \in Members, f \in Fields :
           (member[m].state # "none" /\ ~overlap /\ ~Sends(m, f)) => Both(m, f)]_vars
  <2> HIDE DEF Both
  <2> QED
    BY <1>1
<1> QED
  BY <1>2, Invariant, PTL DEF Spec, BlankKept

-----------------------------------------------------------------------------
(* What a run reports.                                                     *)

\* The account is stored, or written by the run.
Exists(q, us, a) == us[a].state # "none" \/ q.users[a] # None

\* The accounts it knows exist.
Known(q, us) ==
  /\ \A p \in Phones : q.byPhone[p] # None => Exists(q, us, q.byPhone[p])
  /\ \A e \in Emails : q.byEmail[e] # None => Exists(q, us, q.byEmail[e])
  /\ \A a \in Accounts : /\ q.byUser[a] # None => Exists(q, us, a)
                         /\ q.users[a] # None => q.users[a].state # "none"
  /\ \A m \in Members :
       q.members[m] # None /\ q.members[m].user # None => Exists(q, us, q.members[m].user)

\* It is at the row after those it has a result of.
AtNext(q) ==
  /\ q.next = Len(q.results) + 1
  /\ DOMAIN q.results \subseteq DOMAIN q.table
  /\ q.at \in {"idle", "lock", "index"} => q.results = <<>> /\ q.detached = {}

\* A row that is reported as an update was noted, and its record written.
UpdatesNoted(q) ==
  \A i \in DOMAIN q.results :
    q.results[i] = "update" =>
      /\ Valid(q.table[i]) /\ q.table[i].phone \in q.phones
      /\ q.table[i].email # None => Cased(q.table[i].email) \in q.emails
      /\ Indexed(q, i) \in Members /\ q.members[Indexed(q, i)] # None

\* The objects that left the session are of records it had found; the others
\* have the bags that were written.
InSession(q) ==
  /\ q.detached \subseteq {q.byUser[a] : a \in Accounts}
  /\ \A m \in Members \ q.detached : q.members[m] # None => q.bags[m] = q.members[m].bag

Merged(q) == \A i \in DOMAIN q.results : Indexed(q, i) \notin q.detached => Reported(q, i)

Traced(q, us) == Known(q, us) /\ AtNext(q) /\ UpdatesNoted(q) /\ InSession(q) /\ Merged(q)

Owners == \A m \in Members : member[m].user # None => user[member[m].user].state # "none"

TracedInv == Owners /\ \A r \in Runners : Traced(run[r], user)
SameFinds(x, q) ==
  /\ x.table = q.table /\ x.byPhone = q.byPhone /\ x.byEmail = q.byEmail /\ x.byUser = q.byUser

SameWrites(x, q) == x.users = q.users /\ x.members = q.members /\ x.bags = q.bags

LEMMA EndsFields ==
  ASSUME NEW q \in Run,
         NEW result \in {"insert", "link", "update", "skipped", "failed"}
  PROVE  LET x == Ends(q, result)
         IN  /\ SameFinds(x, q) /\ SameWrites(x, q) /\ x.detached = q.detached
             /\ x.phones = q.phones /\ x.emails = q.emails
             /\ x.results = Append(q.results, result)
<1>1. /\ Ends(q, result).detached = q.detached
      /\ Ends(q, result).phones = q.phones /\ Ends(q, result).emails = q.emails
      /\ Ends(q, result).results = Append(q.results, result)
  BY DEF Ends, Run
<1>2. SameFinds(Ends(q, result), q) /\ SameWrites(Ends(q, result), q)
  BY EndsType DEF SameFinds, SameWrites
<1> QED
  BY <1>1, <1>2

LEMMA NotedFields ==
  ASSUME NEW q \in Run, NEW row \in Row, Valid(row)
  PROVE  LET x == Noted(q, row)
         IN  /\ SameFinds(x, q) /\ SameWrites(x, q) /\ x.detached = q.detached
             /\ x.results = q.results
             /\ x.phones = q.phones \cup {row.phone}
             /\ x.emails = q.emails \cup ({Cased(row.email)} \ {None})
<1>1. /\ Noted(q, row).detached = q.detached /\ Noted(q, row).results = q.results
      /\ Noted(q, row).phones = q.phones \cup {row.phone}
      /\ Noted(q, row).emails = q.emails \cup ({Cased(row.email)} \ {None})
  BY DEF Noted, Run
<1>2. SameFinds(Noted(q, row), q) /\ SameWrites(Noted(q, row), q)
  BY NotedType DEF SameFinds, SameWrites
<1> QED
  BY <1>1, <1>2

LEMMA IndexedAlike ==
  ASSUME NEW x, NEW q, SameFinds(x, q), NEW i
  PROVE  Indexed(x, i) = Indexed(q, i)
<1>1. \A row : Matched(x, row) = Matched(q, row)
  BY DEF SameFinds, Matched
<1> QED
  BY <1>1 DEF SameFinds, Indexed

\* What was reached stays so while no update is added.
LEMMA ReportedAlike ==
  ASSUME NEW x \in Run, NEW q \in Run, SameFinds(x, q), x.members = q.members,
         NEW i \in DOMAIN q.results, Reported(q, i),
         Len(q.results) <= Len(x.results),
         \A j \in DOMAIN q.results : x.results[j] = q.results[j]
  PROVE  Reported(x, i)
<1> SUFFICES ASSUME x.results[i] = "update"
             PROVE  Reaches(x, i, Indexed(q, i))
  BY IndexedAlike DEF Reported
<1>1. Reaches(q, i, Indexed(q, i))
  BY DEF Reported
<1>2. DOMAIN q.results = 1..Len(q.results) /\ Len(q.results) \in Nat /\ Len(x.results) \in Nat
  BY DEF Run
<1>3. \A j \in (i + 1)..Len(q.results) :
        j \in (i + 1)..Len(x.results) /\ x.results[j] = q.results[j] /\ Indexed(x, j) = Indexed(q, j)
  BY <1>2, IndexedAlike
<1>4. x.table = q.table /\ x.members = q.members
  BY DEF SameFinds
<1> QED
  BY <1>1, <1>3, <1>4 DEF Reaches

\* A state of a run, and of the accounts, that tells of no less.
LEMMA TracedAlike ==
  ASSUME NEW x \in Run, NEW q \in Run, NEW us, NEW us2, Traced(q, us),
         SameFinds(x, q), SameWrites(x, q), q.detached \subseteq x.detached,
         x.detached \subseteq {q.byUser[a] : a \in Accounts},
         x.results = q.results, x.phones = q.phones, x.emails = q.emails, x.next = q.next,
         \/ x.at \in {"rows", "commit"}
         \/ q.at \in {"idle", "lock", "index"} /\ x.detached = q.detached,
         \A a \in Accounts : us[a].state # "none" => us2[a].state # "none"
  PROVE  Traced(x, us2)
<1>1. x.byUser = q.byUser /\ x.table = q.table /\ x.members = q.members /\ x.users = q.users
      /\ x.bags = q.bags /\ x.byPhone = q.byPhone /\ x.byEmail = q.byEmail
  BY DEF SameFinds, SameWrites
<1>2. \A a \in Accounts : Exists(q, us, a) => Exists(x, us2, a)
  BY <1>1 DEF Exists
<1>3. Known(x, us2)
  <2>1. /\ \A p \in Phones : q.byPhone[p] # None => q.byPhone[p] \in Accounts
        /\ \A e \in Emails : q.byEmail[e] # None => q.byEmail[e] \in Accounts
        /\ \A m \in Members : q.members[m] # None /\ q.members[m].user # None =>
                                q.members[m].user \in Accounts
    BY DEF Run, Opt, Member
  <2>2. Known(q, us)
    BY DEF Traced
  <2> QED
    BY <1>1, <1>2, <2>1, <2>2 DEF Known
<1>4. AtNext(x)
  BY <1>1 DEF Traced, AtNext
<1>5. UpdatesNoted(x)
  BY <1>1, IndexedAlike DEF Traced, UpdatesNoted
<1>6. InSession(x)
  BY <1>1 DEF Traced, InSession
<1>7. Merged(x)
  <2> SUFFICES ASSUME NEW i \in DOMAIN x.results, Indexed(x, i) \notin x.detached
               PROVE  Reported(x, i)
    BY DEF Merged
  <2>1. i \in DOMAIN q.results /\ Indexed(q, i) \notin q.detached
    BY IndexedAlike
  <2>2. Reported(q, i)
    BY <2>1 DEF Traced, Merged
  <2>3. Len(q.results) <= Len(x.results)
    BY DEF Run
  <2> QED
    BY <1>1, <2>1, <2>2, <2>3, ReportedAlike
<1> QED
  BY <1>3, <1>4, <1>5, <1>6, <1>7 DEF Traced

\* The same run further on.
CarriesOn(x, q) ==
  /\ SameFinds(x, q) /\ SameWrites(x, q) /\ q.detached \subseteq x.detached
  /\ x.detached \subseteq {q.byUser[a] : a \in Accounts}
  /\ x.results = q.results /\ x.phones = q.phones /\ x.emails = q.emails /\ x.next = q.next
  /\ x.at \in {"rows", "commit"}

LEMMA TracedOn ==
  ASSUME NEW x \in Run, NEW q \in Run, NEW us, Traced(q, us), CarriesOn(x, q)
  PROVE  Traced(x, us)
<1>1. /\ SameFinds(x, q) /\ SameWrites(x, q) /\ q.detached \subseteq x.detached
      /\ x.detached \subseteq {q.byUser[a] : a \in Accounts}
      /\ x.results = q.results /\ x.phones = q.phones /\ x.emails = q.emails /\ x.next = q.next
      /\ x.at \in {"rows", "commit"}
  BY DEF CarriesOn
<1>2. \A a \in Accounts : us[a].state # "none" => us[a].state # "none"
  OBVIOUS
<1> QED
  BY <1>1, <1>2, TracedAlike

\* A result that is not an update.
LEMMA TracedMore ==
  ASSUME NEW x \in Run, NEW q \in Run, NEW us, Traced(q, us), q.at = "rows", InTable(q),
         SameFinds(x, q), SameWrites(x, q), x.detached = q.detached,
         NEW result \in {"insert", "link", "skipped", "failed"},
         x.results = Append(q.results, result), x.next = q.next + 1,
         x.at \in {"rows", "commit"},
         q.phones \subseteq x.phones, q.emails \subseteq x.emails
  PROVE  Traced(x, us)
<1>1. x.byUser = q.byUser /\ x.table = q.table /\ x.members = q.members /\ x.users = q.users
      /\ x.bags = q.bags /\ x.byPhone = q.byPhone /\ x.byEmail = q.byEmail
  BY DEF SameFinds, SameWrites
<1>2. /\ Len(q.results) \in Nat /\ DOMAIN q.results = 1..Len(q.results)
      /\ DOMAIN x.results = 1..(Len(q.results) + 1)
      /\ Len(x.results) = Len(q.results) + 1
      /\ \A i \in DOMAIN q.results : x.results[i] = q.results[i]
      /\ x.results[Len(q.results) + 1] = result
  BY DEF Run
<1>3. Known(x, us)
  BY <1>1 DEF Traced, Known, Exists
<1>4. AtNext(x)
  <2>1. q.next \in DOMAIN q.table /\ q.next = Len(q.results) + 1 /\ DOMAIN q.results \subseteq DOMAIN q.table
    BY DEF Traced, AtNext, InTable, Run
  <2> QED
    BY <1>1, <1>2, <2>1 DEF AtNext
<1>5. \A i \in DOMAIN x.results : i \in DOMAIN q.results \/ x.results[i] # "update"
  BY <1>2
<1>6. UpdatesNoted(x)
  BY <1>1, <1>2, <1>5, IndexedAlike DEF Traced, UpdatesNoted
<1>7. InSession(x)
  BY <1>1 DEF Traced, InSession
<1>8. Merged(x)
  <2> SUFFICES ASSUME NEW i \in DOMAIN x.results, Indexed(x, i) \notin x.detached
               PROVE  Reported(x, i)
    BY DEF Merged
  <2>1. CASE i \in DOMAIN q.results
    <3>1. Reported(q, i)
      BY <2>1, IndexedAlike DEF Traced, Merged
    <3> QED
      BY <1>1, <1>2, <2>1, <3>1, ReportedAlike
  <2>2. CASE i \notin DOMAIN q.results
    BY <1>5, <2>2 DEF Reported
  <2> QED
    BY <2>1, <2>2
<1> QED
  BY <1>3, <1>4, <1>6, <1>7, <1>8 DEF Traced

\* A row that ends without a write, and one that is noted first.
LEMMA TracedEnds ==
  ASSUME NEW q \in Run, NEW us, Traced(q, us), q.at = "rows", InTable(q), NEW row \in Row,
         NEW result \in {"insert", "link", "skipped", "failed"}
  PROVE  /\ Traced(Ends(q, result), us)
         /\ Valid(row) => Traced(Ends(Noted(q, row), result), us)
<1>1. ASSUME NEW p \in Run, SameFinds(p, q), SameWrites(p, q), p.detached = q.detached,
             p.results = q.results, p.next = q.next, p.table = q.table,
             q.phones \subseteq p.phones, q.emails \subseteq p.emails
      PROVE  Traced(Ends(p, result), us)
  <2> DEFINE x == Ends(p, result)
  <2>1. /\ x \in Run /\ x.at \in {"rows", "commit"} /\ x.next = q.next + 1
    BY <1>1, EndsType
  <2>2. /\ SameFinds(x, p) /\ SameWrites(x, p) /\ x.detached = q.detached
        /\ x.phones = p.phones /\ x.emails = p.emails
        /\ x.results = Append(q.results, result)
    BY <1>1, EndsFields
  <2> HIDE DEF x
  <2>3. SameFinds(x, q) /\ SameWrites(x, q)
    BY <1>1, <2>2 DEF SameFinds, SameWrites
  <2>4. Traced(x, us)
    BY <1>1, <2>1, <2>2, <2>3, TracedMore
  <2> QED
    BY <2>4 DEF x
<1>2. Traced(Ends(q, result), us)
  BY <1>1 DEF SameFinds, SameWrites
<1>3. ASSUME Valid(row)
      PROVE  Traced(Ends(Noted(q, row), result), us)
  <2>1. /\ SameFinds(Noted(q, row), q) /\ SameWrites(Noted(q, row), q)
        /\ Noted(q, row).detached = q.detached /\ Noted(q, row).results = q.results
        /\ q.phones \subseteq Noted(q, row).phones /\ q.emails \subseteq Noted(q, row).emails
    BY <1>3, NotedFields
  <2> QED
    BY <1>1, <1>3, <2>1, NotedType
<1> QED
  BY <1>2, <1>3

LEMMA UpdatedFields ==
  ASSUME TypeInv, NEW q \in Run, NEW m \in Members, NEW row \in Row, Valid(row)
  PROVE  LET y == Updated(q, m, row)
         IN  /\ SameFinds(y, q) /\ y.detached = q.detached /\ y.results = q.results
             /\ y.phones = q.phones /\ y.emails = q.emails
             /\ y.members[m].columns = Merge(Current(q, m).columns, Offered(q, m, row.cells))
<1> DEFINE cells == Offered(q, m, row.cells)
           now == Current(q, m)
           bags == [q.bags EXCEPT ![m] = Merge(q.bags[m], cells)]
           new == [now EXCEPT !.phone = row.phone, !.columns = Merge(now.columns, cells),
                              !.bag = IF m \in q.detached THEN now.bag ELSE Merge(q.bags[m], cells)]
           members == [q.members EXCEPT ![m] = new]
           y == Updated(q, m, row)
<1>1. y = [q EXCEPT !.bags = bags, !.members = members]
  BY DEF Updated
<1>2. now \in Member
  <2>1. member[m] \in Member /\ q.members[m] \in Opt(Member)
    BY DEF TypeInv, Run
  <2> QED
    BY <2>1 DEF Current, Opt
<1>3. new.columns = Merge(now.columns, cells)
  <2> HIDE DEF now, cells
  <2> QED
    BY <1>2 DEF Member
<1>4. members[m] = new
  BY DEF Run
<1> HIDE DEF bags, new, members, y
<1>5. /\ y.detached = q.detached /\ y.results = q.results
      /\ y.phones = q.phones /\ y.emails = q.emails
      /\ y.table = q.table /\ y.byPhone = q.byPhone /\ y.byEmail = q.byEmail
      /\ y.byUser = q.byUser /\ y.members = members
  BY <1>1 DEF Run
<1> QED
  BY <1>3, <1>4, <1>5 DEF SameFinds, y

\* What the update of a member's record leaves and what it changes.
UpdatesTo(y, q, m, cells) ==
  /\ y \in Run /\ SameFinds(y, q) /\ y.users = q.users /\ y.detached = q.detached
  /\ y.results = q.results /\ y.phones = q.phones /\ y.emails = q.emails /\ y.next = q.next
  /\ \A k \in Members \ {m} : y.members[k] = q.members[k] /\ y.bags[k] = q.bags[k]
  /\ y.bags[m] = Merge(q.bags[m], cells)
  /\ y.members[m] \in Member
  /\ y.members[m].user = Current(q, m).user
  /\ y.members[m].columns = Merge(Current(q, m).columns, cells)
  /\ m \notin q.detached => y.members[m].bag = Merge(q.bags[m], cells)

LEMMA UpdatedTo ==
  ASSUME TypeInv, NEW q \in Run, NEW m \in Members, NEW row \in Row, Valid(row)
  PROVE  UpdatesTo(Updated(q, m, row), q, m, Offered(q, m, row.cells))
<1> DEFINE y == Updated(q, m, row)
           cells == Offered(q, m, row.cells)
<1>1. /\ SameFinds(y, q) /\ y.detached = q.detached /\ y.results = q.results
      /\ y.phones = q.phones /\ y.emails = q.emails
      /\ y.members[m].columns = Merge(Current(q, m).columns, cells)
  BY UpdatedFields
<1>2. /\ y \in Run
      /\ y.at = q.at
      /\ y.next = q.next
      /\ y.table = q.table
      /\ y.byUser = q.byUser
      /\ y.users = q.users
      /\ \A n \in Members \ {m} : /\ y.members[n] = q.members[n]
                                  /\ y.bags[n] = q.bags[n]
      /\ y.bags[m] = Merge(q.bags[m], cells)
      /\ y.members[m] \in Member
      /\ y.members[m].state = Current(q, m).state
      /\ y.members[m].user = Current(q, m).user
      /\ y.members[m].bag =
           IF m \in q.detached THEN Current(q, m).bag
           ELSE Merge(q.bags[m], cells)
  BY UpdatedType
<1> HIDE DEF y, cells
<1>3. UpdatesTo(y, q, m, cells)
  BY <1>1, <1>2 DEF UpdatesTo
<1> QED
  BY <1>3 DEF y, cells


\* The row of a record that is found: its cells reach the record, and take
\* nothing from what other rows have written.
LEMMA TracedUpdated ==
  ASSUME IInv, Owners, NEW q \in Run, Traced(q, user), Sound(q, member, overlap),
         q.at = "rows", NEW row \in Row, row = q.table[q.next], Valid(row),
         NEW a \in Accounts, a = Matched(q, row).user, NEW m \in Members, m = q.byUser[a]
  PROVE  Traced(Ends(Noted(Updated(q, m, row), row), "update"), user)
<1> DEFINE y == Updated(q, m, row)
           x == Ends(Noted(y, row), "update")
           n == Len(q.results) + 1
           cells == Offered(q, m, row.cells)
<1>0. TypeInv
  BY DEF IInv
<1>1. /\ y \in Run /\ SameFinds(y, q) /\ y.users = q.users /\ y.detached = q.detached
      /\ y.results = q.results /\ y.phones = q.phones /\ y.emails = q.emails /\ y.next = q.next
      /\ \A k \in Members \ {m} : y.members[k] = q.members[k] /\ y.bags[k] = q.bags[k]
      /\ y.bags[m] = Merge(q.bags[m], cells)
      /\ y.members[m] \in Member
      /\ y.members[m].user = Current(q, m).user
      /\ y.members[m].columns = Merge(Current(q, m).columns, cells)
      /\ m \notin q.detached => y.members[m].bag = Merge(q.bags[m], cells)
  <2>1. UpdatesTo(Updated(q, m, row), q, m, Offered(q, m, row.cells))
    BY <1>0, UpdatedTo
  <2> QED
    BY <2>1 DEF UpdatesTo
<1> HIDE DEF y, cells
<1>2. /\ Noted(y, row) \in Run /\ Noted(y, row).next = y.next /\ Noted(y, row).at = y.at
      /\ SameFinds(Noted(y, row), y) /\ SameWrites(Noted(y, row), y)
      /\ Noted(y, row).detached = y.detached /\ Noted(y, row).results = y.results
      /\ Noted(y, row).phones = y.phones \cup {row.phone}
      /\ Noted(y, row).emails = y.emails \cup ({Cased(row.email)} \ {None})
  BY ZenonT(60), <1>1, NotedType, NotedFields
<1>3. /\ x \in Run /\ x.next = q.next + 1 /\ x.at \in {"rows", "commit"}
      /\ SameFinds(x, q) /\ SameWrites(x, y) /\ x.detached = q.detached
      /\ x.phones = q.phones \cup {row.phone}
      /\ x.emails = q.emails \cup ({Cased(row.email)} \ {None})
      /\ x.results = Append(q.results, "update")
  <2> DEFINE z == Noted(y, row)
  <2> HIDE DEF z
  <2>1. /\ Ends(z, "update") \in Run /\ Ends(z, "update").next = z.next + 1
        /\ Ends(z, "update").at \in {"rows", "commit"}
        /\ SameFinds(Ends(z, "update"), z) /\ SameWrites(Ends(z, "update"), z)
        /\ Ends(z, "update").detached = z.detached
        /\ Ends(z, "update").phones = z.phones /\ Ends(z, "update").emails = z.emails
        /\ Ends(z, "update").results = Append(z.results, "update")
    <3>1. z \in Run
      BY <1>2 DEF z
    <3>2. /\ Ends(z, "update") \in Run /\ Ends(z, "update").next = z.next + 1
          /\ Ends(z, "update").at = (IF z.next = Len(z.table) THEN "commit" ELSE "rows")
      BY <3>1, EndsType
    <3> QED
      BY <3>1, <3>2, EndsFields
  <2>2. x = Ends(z, "update")
    BY DEF z
  <2>3. /\ z.next = q.next /\ SameFinds(z, y) /\ SameWrites(z, y) /\ z.detached = q.detached
        /\ z.phones = q.phones \cup {row.phone} /\ z.results = q.results
        /\ z.emails = q.emails \cup ({Cased(row.email)} \ {None})
    BY <1>1, <1>2 DEF z
  <2> HIDE DEF x
  <2>4. SameFinds(x, q) /\ SameWrites(x, y)
    BY <1>1, <2>1, <2>2, <2>3 DEF SameFinds, SameWrites
  <2> QED
    BY <2>1, <2>2, <2>3, <2>4
<1> HIDE DEF x
<1>4. /\ x.byUser = q.byUser /\ x.table = q.table /\ x.users = q.users
      /\ x.byPhone = q.byPhone /\ x.byEmail = q.byEmail
      /\ x.members = y.members /\ x.bags = y.bags
  BY <1>1, <1>3 DEF SameFinds, SameWrites
<1>5. /\ Len(q.results) \in Nat /\ DOMAIN q.results = 1..Len(q.results)
      /\ DOMAIN x.results = 1..n /\ Len(x.results) = n
      /\ \A i \in DOMAIN q.results : x.results[i] = q.results[i]
      /\ x.results[n] = "update" /\ n = q.next
  BY <1>3 DEF Run, Traced, AtNext
<1> HIDE DEF n
<1>6. \A i : Indexed(x, i) = Indexed(q, i)
  BY <1>3, IndexedAlike
<1>7. Indexed(q, n) = m
  <2>1. a # None
    BY Parameters
  <2> QED
    BY <1>5, <2>1 DEF Indexed
<1>m. x.members[m] # None
  BY <1>1, <1>4, Absent
<1>8. Known(x, user)
  <2>1. ASSUME NEW k \in Members, x.members[k] # None, x.members[k].user # None
        PROVE  Exists(x, user, x.members[k].user)
    <3>1. CASE k # m
      <4>1. x.members[k] = q.members[k]
        BY ZenonT(60), <1>1, <1>4, <3>1
      <4>2. Exists(q, user, q.members[k].user)
        BY <2>1, <4>1 DEF Traced, Known
      <4> QED
        BY <1>4, <4>1, <4>2 DEF Exists
    <3>2. CASE k = m
      <4>1. x.members[m].user = Current(q, m).user
        BY <1>1, <1>4
      <4>2. CASE q.members[m] = None
        BY <1>4, <2>1, <3>2, <4>1, <4>2 DEF Current, Owners, Exists
      <4>3. CASE q.members[m] # None
        BY <1>4, <2>1, <3>2, <4>1, <4>3 DEF Current, Traced, Known, Exists
      <4> QED
        BY <4>2, <4>3
    <3> QED
      BY <3>1, <3>2
  <2> QED
    BY <1>4, <2>1 DEF Traced, Known, Exists
<1>9. AtNext(x)
  <2>1. q.next \in DOMAIN q.table /\ DOMAIN q.results \subseteq DOMAIN q.table
    BY DEF Traced, AtNext, Sound, InTable, Run
  <2> QED
    BY <1>3, <1>4, <1>5, <2>1 DEF AtNext
<1>10. UpdatesNoted(x)
  <2> SUFFICES ASSUME NEW i \in DOMAIN x.results, x.results[i] = "update"
               PROVE  /\ Valid(x.table[i]) /\ x.table[i].phone \in x.phones
                      /\ x.table[i].email # None => Cased(x.table[i].email) \in x.emails
                      /\ Indexed(x, i) \in Members /\ x.members[Indexed(x, i)] # None
    BY DEF UpdatesNoted
  <2>1. CASE i = n
    <3>1. x.table[i] = row
      BY <1>4, <1>5, <2>1
    <3>2. row.email # None => Cased(row.email) # None
      BY Parameters DEF Cased, Row, Opt
    <3> QED
      BY <1>3, <1>6, <1>7, <1>m, <2>1, <3>1, <3>2
  <2>2. CASE i # n
    <3>1. i \in DOMAIN q.results /\ q.results[i] = "update"
      BY <1>5, <2>2 DEF n
    <3>2. /\ Valid(q.table[i]) /\ q.table[i].phone \in q.phones
          /\ q.table[i].email # None => Cased(q.table[i].email) \in q.emails
          /\ Indexed(q, i) \in Members /\ q.members[Indexed(q, i)] # None
      BY <3>1 DEF Traced, UpdatesNoted
    <3>3. x.members[Indexed(q, i)] # None
      <4>1. Indexed(q, i) # m => x.members[Indexed(q, i)] = q.members[Indexed(q, i)]
        BY ZenonT(60), <1>1, <1>4, <3>2
      <4> QED
        BY <1>m, <3>2, <4>1
    <3> QED
      BY <1>3, <1>4, <1>6, <3>2, <3>3
  <2> QED
    BY <2>1, <2>2
<1>11. InSession(x)
  <2>1. ASSUME NEW k \in Members \ q.detached, x.members[k] # None
        PROVE  x.bags[k] = x.members[k].bag
    <3>1. CASE k = m
      BY ZenonT(60), <1>1, <1>4, <2>1, <3>1
    <3>2. CASE k # m
      <4>1. x.members[k] = q.members[k] /\ x.bags[k] = q.bags[k]
        BY ZenonT(60), <1>1, <1>4, <3>2
      <4> QED
        BY <2>1, <4>1 DEF Traced, InSession
    <3> QED
      BY <3>1, <3>2
  <2> QED
    BY <1>3, <1>4, <2>1 DEF Traced, InSession
<1>12. \A f \in Fields \ {"photo"} : cells[f] = row.cells[f]
  BY DEF cells, Offered, Row, Cells
<1>13. ASSUME m \notin q.detached, NEW f \in Fields \ {"photo"}, row.cells[f] # None
       PROVE  x.members[m].columns[f] = row.cells[f] /\ x.members[m].bag[f] = row.cells[f]
  <2>1. \A old : Merge(old, cells)[f] = row.cells[f]
    BY <1>12, <1>13 DEF Merge
  <2>2. x.members[m].columns = Merge(Current(q, m).columns, cells)
        /\ x.members[m].bag = Merge(q.bags[m], cells)
    BY <1>1, <1>4, <1>13
  <2> QED
    BY <2>1, <2>2
<1>14. ASSUME m \notin q.detached, NEW f \in Fields \ {"photo"}, row.cells[f] = None,
              q.members[m] # None
       PROVE  /\ x.members[m].columns[f] = q.members[m].columns[f]
              /\ x.members[m].bag[f] = q.members[m].bag[f]
  <2>1. q.bags[m] = q.members[m].bag
    BY <1>14 DEF Traced, InSession
  <2>2. Current(q, m) = q.members[m]
    BY <1>14 DEF Current
  <2>3. \A old : Merge(old, cells)[f] = old[f]
    BY <1>12, <1>14 DEF Merge
  <2>4. x.members[m].columns = Merge(Current(q, m).columns, cells)
        /\ x.members[m].bag = Merge(q.bags[m], cells)
    BY <1>1, <1>4, <1>14
  <2>5. x.members[m].columns[f] = Current(q, m).columns[f] /\ x.members[m].bag[f] = q.bags[m][f]
    BY <2>3, <2>4
  <2>6. Current(q, m).columns[f] = q.members[m].columns[f] /\ q.bags[m][f] = q.members[m].bag[f]
    BY <2>1, <2>2
  <2> QED
    BY <2>5, <2>6
<1>15. Merged(x)
  <2> SUFFICES ASSUME NEW i \in DOMAIN x.results, Indexed(q, i) \notin q.detached,
                      x.results[i] = "update"
               PROVE  Reaches(x, i, Indexed(q, i))
    BY <1>3, <1>6 DEF Merged, Reported
  <2>1. CASE i = n
    <3>1. x.table[i] = row
      BY <1>4, <1>5, <2>1
    <3> QED
      BY <1>7, <1>13, <2>1, <3>1 DEF Reaches
  <2>2. CASE i # n
    <3>1. i \in DOMAIN q.results /\ q.results[i] = "update"
      BY <1>5, <2>2 DEF n
    <3>2. Reported(q, i) /\ Indexed(q, i) \in Members /\ q.members[Indexed(q, i)] # None
      BY <3>1 DEF Traced, Merged, UpdatesNoted
    <3>3. CASE Indexed(q, i) # m
      <4>1. x.members[Indexed(q, i)] = q.members[Indexed(q, i)]
        BY <1>1, <1>4, <3>2, <3>3
      <4>2. \A j \in (i + 1)..Len(q.results) :
              j \in (i + 1)..Len(x.results) /\ x.results[j] = q.results[j]
        BY <1>5, <3>1 DEF n
      <4>3. Reaches(q, i, Indexed(q, i))
        BY <3>1, <3>2 DEF Reported
      <4> QED
        BY <1>4, <1>6, <4>1, <4>2, <4>3 DEF Reaches
    <3>4. CASE Indexed(q, i) = m
      <4>1. \A j \in (i + 1)..Len(q.results) :
              j \in (i + 1)..Len(x.results) /\ x.results[j] = q.results[j]
        BY <1>5, <3>1 DEF n
      <4>2. n \in (i + 1)..Len(x.results)
        BY <1>5, <3>1 DEF n
      <4>3. Reaches(q, i, m)
        BY <3>1, <3>2, <3>4 DEF Reported
      <4> SUFFICES ASSUME NEW f \in Fields, x.table[i].cells[f] # None, f # "photo",
                          ~\E j \in (i + 1)..Len(x.results) :
                             /\ x.results[j] = "update"
                             /\ x.table[j].cells[f] # None /\ Indexed(x, j) = m
                   PROVE  /\ x.members[m].columns[f] = x.table[i].cells[f]
                          /\ x.members[m].bag[f] = x.table[i].cells[f]
        BY <3>4 DEF Reaches
      <4>4. row.cells[f] = None
        BY <1>4, <1>5, <1>6, <1>7, <4>2
      <4>5. /\ q.members[m].columns[f] = q.table[i].cells[f]
            /\ q.members[m].bag[f] = q.table[i].cells[f]
        <5>1. ~\E j \in (i + 1)..Len(q.results) :
                 q.results[j] = "update" /\ q.table[j].cells[f] # None /\ Indexed(q, j) = m
          BY <1>4, <1>6, <4>1
        <5>2. q.table[i].cells[f] # None /\ f # "photo"
          BY <1>4
        <5> QED
          BY <4>3, <5>1, <5>2 DEF Reaches
      <4> QED
        BY <1>4, <1>14, <3>2, <3>4, <4>4, <4>5
    <3> QED
      BY <3>3, <3>4
  <2> QED
    BY <2>1, <2>2
<1>16. Traced(x, user)
  BY <1>8, <1>9, <1>10, <1>11, <1>15 DEF Traced
<1> QED
  BY <1>16 DEF x, y

InsertedLike(y, q, a, m, row, new) ==
  /\ y.detached = q.detached /\ y.results = q.results
  /\ y.phones = q.phones /\ y.emails = q.emails
  /\ y.users[a] = IF new THEN [state |-> "live", phone |-> row.phone,
                               email |-> row.email, by |-> "sync"] ELSE q.users[a]
  /\ y.members[m].bag = row.cells /\ y.bags[m] = row.cells
  /\ \A p \in Phones : y.byPhone[p] = IF new /\ p = row.phone THEN a ELSE q.byPhone[p]
  /\ \A e \in Emails : y.byEmail[e] = IF new /\ row.email # None /\ e = Lower[row.email]
                                      THEN a ELSE q.byEmail[e]

LEMMA InsertedFields ==
  ASSUME NEW q \in Run, NEW a \in Accounts, NEW m \in Members, NEW row \in Row, Valid(row),
         NEW new \in BOOLEAN
  PROVE  InsertedLike(Inserted(q, a, m, row, new), q, a, m, row, new)
<1> DEFINE account == [state |-> "live", phone |-> row.phone, email |-> row.email, by |-> "sync"]
           record == [state |-> "live", user |-> a, phone |-> row.phone,
                      columns |-> row.cells, bag |-> row.cells]
           users == [q.users EXCEPT ![a] = IF new THEN account ELSE @]
           members == [q.members EXCEPT ![m] = record]
           bags == [q.bags EXCEPT ![m] = row.cells]
           byUser == [q.byUser EXCEPT ![a] = m]
           byPhone == [q.byPhone EXCEPT ![row.phone] = IF new THEN a ELSE @]
           byEmail == IF new /\ row.email # None THEN [q.byEmail EXCEPT ![Lower[row.email]] = a]
                      ELSE q.byEmail
           y == Inserted(q, a, m, row, new)
<1>1. y = [q EXCEPT !.users = users, !.members = members, !.bags = bags, !.byUser = byUser,
                    !.byPhone = byPhone, !.byEmail = byEmail]
  BY DEF Inserted
<1>2. users[a] = IF new THEN account ELSE q.users[a]
  BY DEF Run
<1>3. members[m] = record /\ bags[m] = row.cells
  BY DEF Run
<1>4. \A p \in Phones : byPhone[p] = IF new /\ p = row.phone THEN a ELSE q.byPhone[p]
  BY DEF Run
<1>5. \A e \in Emails : byEmail[e] = IF new /\ row.email # None /\ e = Lower[row.email]
                                     THEN a ELSE q.byEmail[e]
  BY DEF Run
<1> HIDE DEF account, users, members, bags, byUser, byPhone, byEmail, y
<1>6. /\ y.detached = q.detached /\ y.results = q.results
      /\ y.phones = q.phones /\ y.emails = q.emails
      /\ y.users = users /\ y.members = members /\ y.bags = bags
      /\ y.byPhone = byPhone /\ y.byEmail = byEmail
  BY <1>1 DEF Run
<1>7. record.bag = row.cells
  OBVIOUS
<1> HIDE DEF record
<1>8. y.members[m].bag = row.cells /\ y.bags[m] = row.cells
  BY <1>3, <1>6, <1>7
<1> QED
  BY <1>2, <1>4, <1>5, <1>6, <1>8 DEF y, account, InsertedLike

\* A row of a new record.  Rows before it had other numbers and addresses.
LEMMA TracedInserted ==
  ASSUME NEW q \in Run, NEW us, Traced(q, us), NEW row \in Row, Valid(row), ~Seen(q, row),
         NEW a \in Accounts, NEW m \in Members, NEW new \in BOOLEAN,
         q.members[m] = None, q.byUser[a] = None, new \/ Exists(q, us, a)
  PROVE  Traced(Inserted(q, a, m, row, new), us)
<1> DEFINE y == Inserted(q, a, m, row, new)
<1>0. InsertedLike(y, q, a, m, row, new)
  BY InsertedFields
<1>1. /\ y.detached = q.detached /\ y.results = q.results
      /\ y.phones = q.phones /\ y.emails = q.emails
      /\ y.members[m].bag = row.cells /\ y.bags[m] = row.cells
  <2> HIDE DEF y
  <2> QED
    BY <1>0 DEF InsertedLike
<1>2. /\ \A p \in Phones : y.byPhone[p] = IF new /\ p = row.phone THEN a ELSE q.byPhone[p]
      /\ \A e \in Emails : y.byEmail[e] = IF new /\ row.email # None /\ e = Lower[row.email]
                                          THEN a ELSE q.byEmail[e]
  <2> HIDE DEF y
  <2> QED
    BY <1>0 DEF InsertedLike
<1>3. /\ y.users[a] = IF new THEN [state |-> "live", phone |-> row.phone,
                                   email |-> row.email, by |-> "sync"] ELSE q.users[a]
      /\ \A b \in Accounts \ {a} : y.users[b] = q.users[b] /\ y.byUser[b] = q.byUser[b]
      /\ y.byUser[a] = m
  <2>1. /\ \A b \in Accounts \ {a} : y.users[b] = q.users[b] /\ y.byUser[b] = q.byUser[b]
        /\ y.byUser[a] = m
    BY InsertedType
  <2> HIDE DEF y
  <2> QED
    BY <1>0, <2>1 DEF InsertedLike
<1>4. /\ y \in Run /\ y.at = q.at /\ y.next = q.next /\ y.table = q.table
      /\ \A n \in Members \ {m} : y.members[n] = q.members[n] /\ y.bags[n] = q.bags[n]
      /\ y.members[m] \in Member /\ y.members[m].user = a
  BY InsertedType
<1> HIDE DEF y
<1>5. /\ y.users[a] = q.users[a] \/ (y.users[a] # None /\ y.users[a].state = "live")
      /\ new => y.users[a] # None
  <2>1. [state |-> "live", phone |-> row.phone, email |-> row.email, by |-> "sync"] \in User
    BY DEF User, Row, Opt
  <2> QED
    BY <1>3, <2>1, Absent
<1>6. \A b \in Accounts : Exists(q, us, b) => Exists(y, us, b)
  BY <1>3, <1>5, Absent DEF Exists
<1>7. Exists(y, us, a)
  BY <1>5, <1>6 DEF Exists
<1>8. Known(y, us)
  <2>1. \A p \in Phones : y.byPhone[p] # None => Exists(y, us, y.byPhone[p])
    <3>1. \A p \in Phones : q.byPhone[p] # None => q.byPhone[p] \in Accounts /\ Exists(q, us, q.byPhone[p])
      BY DEF Run, Opt, Traced, Known
    <3> QED
      BY <1>2, <1>6, <1>7, <3>1
  <2>2. \A e \in Emails : y.byEmail[e] # None => Exists(y, us, y.byEmail[e])
    <3>1. \A e \in Emails : q.byEmail[e] # None => q.byEmail[e] \in Accounts /\ Exists(q, us, q.byEmail[e])
      BY DEF Run, Opt, Traced, Known
    <3> QED
      BY <1>2, <1>6, <1>7, <3>1
  <2>3. \A b \in Accounts : /\ y.byUser[b] # None => Exists(y, us, b)
                            /\ y.users[b] # None => y.users[b].state # "none"
    BY <1>3, <1>5, <1>6, <1>7 DEF Traced, Known
  <2>4. \A n \in Members :
          y.members[n] # None /\ y.members[n].user # None => Exists(y, us, y.members[n].user)
    <3>1. \A n \in Members : q.members[n] # None /\ q.members[n].user # None =>
            q.members[n].user \in Accounts /\ Exists(q, us, q.members[n].user)
      BY DEF Run, Opt, Member, Traced, Known
    <3> QED
      BY <1>4, <1>6, <1>7, <3>1
  <2> QED
    BY <2>1, <2>2, <2>3, <2>4 DEF Known
<1>9. AtNext(y)
  BY <1>1, <1>4 DEF Traced, AtNext
<1>10. ASSUME NEW i \in DOMAIN q.results, q.results[i] = "update"
       PROVE  /\ Indexed(y, i) = Indexed(q, i)
              /\ Indexed(q, i) \in Members \ {m} /\ q.members[Indexed(q, i)] # None
  <2> DEFINE old == q.table[i]
  <2>1. /\ Valid(old) /\ old.phone \in q.phones
        /\ old.email # None => Cased(old.email) \in q.emails
        /\ Indexed(q, i) \in Members /\ q.members[Indexed(q, i)] # None
    BY <1>10 DEF Traced, UpdatesNoted
  <2>2. old \in Row
    BY DEF Traced, AtNext, Run
  <2> HIDE DEF old
  <2>3. old.phone # row.phone /\ old.phone \in Phones
    BY <2>1, <2>2 DEF Seen, Row, Opt, Valid
  <2>4. y.byPhone[old.phone] = q.byPhone[old.phone]
    BY <1>2, <2>3
  <2>5. old.email # None => y.byEmail[Lower[old.email]] = q.byEmail[Lower[old.email]]
    <3> SUFFICES ASSUME old.email # None
                 PROVE  y.byEmail[Lower[old.email]] = q.byEmail[Lower[old.email]]
      OBVIOUS
    <3>1. Lower[old.email] \in q.emails /\ Lower[old.email] \in Emails
      BY <2>1, <2>2, Parameters DEF Cased, Row, Opt
    <3>2. row.email # None => Lower[row.email] \notin q.emails
      BY DEF Seen, Cased
    <3> QED
      BY <1>2, <3>1, <3>2
  <2>6. Matched(y, old) = Matched(q, old)
    BY <2>4, <2>5 DEF Matched
  <2>7. Indexed(q, i) = q.byUser[Matched(q, old).user] /\ Matched(q, old).user \in Accounts \ {a}
    <3>1. Matched(q, old).user \in Opt(Accounts)
      BY <2>1, <2>2, MatchedType
    <3>2. Indexed(q, i) # None
      BY <2>1, Parameters
    <3>3. Indexed(q, i) = q.byUser[Matched(q, old).user] /\ Matched(q, old).user # None
      BY <3>2 DEF Indexed, old
    <3> QED
      BY <3>1, <3>2, <3>3 DEF Opt
  <2>8. Indexed(y, i) = Indexed(q, i)
    <3>1. Indexed(y, i) = y.byUser[Matched(q, old).user]
      BY <1>4, <2>1, <2>6, <2>7, Parameters DEF Indexed, old
    <3> QED
      BY <1>3, <2>7, <3>1
  <2> QED
    BY <2>1, <2>8
<1>11. UpdatesNoted(y)
  BY <1>1, <1>4, <1>10 DEF Traced, UpdatesNoted
<1>12. InSession(y)
  <2>1. q.detached \subseteq {y.byUser[b] : b \in Accounts}
    <3> SUFFICES ASSUME NEW n \in q.detached
                 PROVE  \E b \in Accounts : y.byUser[b] = n
      OBVIOUS
    <3>1. PICK b \in Accounts : q.byUser[b] = n
      BY DEF Traced, InSession
    <3>2. n # None
      BY Parameters DEF Run
    <3> QED
      BY <1>3, <3>1, <3>2
  <2>2. \A n \in Members \ q.detached : y.members[n] # None => y.bags[n] = y.members[n].bag
    BY <1>1, <1>4 DEF Traced, InSession
  <2> QED
    BY <1>1, <2>1, <2>2 DEF InSession
<1>13. Merged(y)
  <2> SUFFICES ASSUME NEW i \in DOMAIN y.results, Indexed(y, i) \notin y.detached,
                      y.results[i] = "update"
               PROVE  Reaches(y, i, Indexed(y, i))
    BY DEF Merged, Reported
  <2>1. i \in DOMAIN q.results /\ q.results[i] = "update" /\ q.results = y.results
    BY <1>1
  <2>2. Indexed(y, i) = Indexed(q, i) /\ y.members[Indexed(q, i)] = q.members[Indexed(q, i)]
    BY <1>4, <1>10, <2>1
  <2>3. Reaches(q, i, Indexed(q, i))
    BY <1>1, <2>1, <2>2 DEF Traced, Merged, Reported
  <2>4. \A j \in (i + 1)..Len(q.results) :
          q.results[j] = "update" => Indexed(y, j) = Indexed(q, j)
    <3>1. \A j \in (i + 1)..Len(q.results) : j \in DOMAIN q.results
      BY <2>1 DEF Run
    <3> QED
      BY <1>10, <3>1
  <2> QED
    BY <1>4, <2>1, <2>2, <2>3, <2>4 DEF Reaches
<1>14. Traced(y, us)
  BY <1>8, <1>9, <1>11, <1>12, <1>13 DEF Traced
<1> QED
  BY <1>14 DEF y

\* A row that fails: all records it had found leave the session.
LEMMA TracedFailed ==
  ASSUME NEW q \in Run, NEW us, Traced(q, us), q.at = "rows", InTable(q),
         NEW row \in Row, Valid(row), NEW calm \in BOOLEAN
  PROVE  /\ Traced(Failed(q, row), us)
         /\ Traced([Failed(q, row) EXCEPT !.calm = calm], us)
<1> DEFINE e == Ends(Noted(q, row), "failed")
           gone == {q.byUser[a] : a \in Accounts} \cap Members
<1>1. Traced(e, us)
  BY TracedEnds
<1>2. e \in Run /\ e.at \in {"rows", "commit"} /\ e.byUser = q.byUser /\ e.detached = q.detached
  <2> DEFINE z == Noted(q, row)
  <2>1. z \in Run /\ z.byUser = q.byUser /\ z.detached = q.detached
    BY NotedType, NotedFields
  <2> HIDE DEF z
  <2>2. Ends(z, "failed").at = (IF z.next = Len(z.table) THEN "commit" ELSE "rows")
        /\ Ends(z, "failed") \in Run /\ Ends(z, "failed").byUser = z.byUser
    BY <2>1, EndsType
  <2>3. Ends(z, "failed").detached = z.detached
    BY <2>1, EndsFields
  <2> QED
    BY <2>1, <2>2, <2>3 DEF z
<1>3. Failed(q, row) = [e EXCEPT !.detached = gone]
  BY DEF Failed
<1>4. q.detached \subseteq gone
  <2>1. e.detached \subseteq {e.byUser[a] : a \in Accounts}
    BY <1>1 DEF Traced, InSession
  <2> QED
    BY <1>2, <2>1 DEF Run
<1>5. gone \subseteq Members /\ gone \subseteq {e.byUser[a] : a \in Accounts}
  BY <1>2
<1> HIDE DEF e, gone
<1>6. LET f == [e EXCEPT !.detached = gone]
      IN  /\ f \in Run /\ f.at = e.at /\ f.next = e.next /\ f.results = e.results
          /\ f.phones = e.phones /\ f.emails = e.emails /\ f.detached = gone
  BY <1>2, <1>5 DEF Run
<1>7. LET f == [e EXCEPT !.detached = gone] IN SameFinds(f, e) /\ SameWrites(f, e)
  BY <1>2 DEF Run, SameFinds, SameWrites
<1> DEFINE f == [e EXCEPT !.detached = gone]
<1>8. /\ f \in Run /\ f.at = e.at /\ f.next = e.next /\ f.results = e.results
      /\ f.phones = e.phones /\ f.emails = e.emails /\ f.detached = gone
      /\ SameFinds(f, e) /\ SameWrites(f, e)
  BY <1>6, <1>7
<1> HIDE DEF f
<1>9. Traced(f, us)
  <2>1. CarriesOn(f, e)
    BY <1>2, <1>4, <1>5, <1>8 DEF CarriesOn
  <2> QED
    BY <1>1, <1>2, <1>8, <2>1, TracedOn
<1> DEFINE g == [f EXCEPT !.calm = calm]
<1>10. /\ g \in Run /\ g.at = f.at /\ g.next = f.next /\ g.results = f.results
       /\ g.phones = f.phones /\ g.emails = f.emails /\ g.detached = f.detached
  BY <1>8 DEF Run
<1>11. SameFinds(g, f) /\ SameWrites(g, f)
  BY <1>8 DEF Run, SameFinds, SameWrites
<1>12. f.detached \subseteq {f.byUser[a] : a \in Accounts}
  BY <1>9 DEF Traced, InSession
<1> HIDE DEF g
<1>13. Traced(g, us)
  <2>1. g.at \in {"rows", "commit"} /\ f \in Run
    BY <1>2, <1>8, <1>10
  <2>2. f.detached \subseteq g.detached /\ g.detached \subseteq {f.byUser[a] : a \in Accounts}
    BY <1>10, <1>12
  <2> QED
    BY <1>9, <1>10, <1>11, <2>1, <2>2, TracedAlike
<1> QED
  BY <1>3, <1>9, <1>13 DEF f, g

\* A run that has found and written nothing.
LEMMA TracedFresh ==
  ASSUME NEW q \in Run, NEW us, q.next = 1, q.results = <<>>, q.detached = {},
         \A p \in Phones : q.byPhone[p] = None, \A e \in Emails : q.byEmail[e] = None,
         \A a \in Accounts : q.byUser[a] = None /\ q.users[a] = None,
         \A m \in Members : q.members[m] = None
  PROVE  Traced(q, us)
<1>1. Known(q, us)
  BY DEF Known
<1>2. AtNext(q)
  BY DEF AtNext
<1>3. UpdatesNoted(q) /\ Merged(q)
  BY DEF UpdatesNoted, Merged
<1>4. InSession(q)
  BY DEF InSession
<1> QED
  BY <1>1, <1>2, <1>3, <1>4 DEF Traced

LEMMA TracedIdle ==
  ASSUME NEW us
  PROVE  Traced(IdleRun, us)
BY IdleType, TracedFresh DEF IdleRun

-----------------------------------------------------------------------------
(* The steps keep it.                                                      *)

\* Accounts stay, deleted ones too.
KeepsAccounts == \A a \in Accounts : user[a].state # "none" => user'[a].state # "none"

\* The owner of a record is the old one, or exists.
LEMMA OwnersKeep ==
  ASSUME TypeInv, Owners, KeepsAccounts,
         \A m \in Members : \/ member'[m].user \in {member[m].user, None}
                            \/ user'[member'[m].user].state # "none"
  PROVE  Owners'
<1> SUFFICES ASSUME NEW m \in Members, member'[m].user # None
             PROVE  user'[member'[m].user].state # "none"
  BY DEF Owners
<1>1. member[m].user # None => member[m].user \in Accounts /\ user[member[m].user].state # "none"
  BY DEF Owners, TypeInv, Member, Opt
<1> QED
  BY <1>1 DEF KeepsAccounts

\* The step of a run that commits nothing.
LEMMA TracedStep ==
  ASSUME IInv, TracedInv, NEW r \in Runners, NEW x, Traced(x, user),
         run' = [run EXCEPT ![r] = x], UNCHANGED <<user, member>>
  PROVE  TracedInv'
<1>1. Owners'
  BY DEF TracedInv, Owners
<1>2. \A s \in Runners : Traced(run'[s], user)
  BY DEF IInv, TypeInv, TracedInv
<1> QED
  BY <1>1, <1>2 DEF TracedInv

LEMMA StartTraces ==
  ASSUME IInv, TracedInv, NEW r \in Runners, StartRun(r) \/ Lock(r) \/ AbortRun(r)
  PROVE  TracedInv'
<1>1. CASE run' = [run EXCEPT ![r] = IdleRun] /\ UNCHANGED <<user, member>>
  BY <1>1, TracedIdle, TracedStep
<1>2. CASE StartRun(r)
  <2> DEFINE x == [IdleRun EXCEPT !.at = "lock", !.table = sheet]
  <2>1. x \in Run
    BY IdleType DEF Run, IInv, TypeInv
  <2>2. /\ x.next = 1 /\ x.results = <<>> /\ x.detached = {}
        /\ \A p \in Phones : x.byPhone[p] = None
        /\ \A e \in Emails : x.byEmail[e] = None
        /\ \A a \in Accounts : x.byUser[a] = None /\ x.users[a] = None
        /\ \A m \in Members : x.members[m] = None
    BY DEF IdleRun
  <2>3. run' = [run EXCEPT ![r] = x] /\ UNCHANGED <<user, member>>
    BY <1>2 DEF StartRun
  <2> HIDE DEF x
  <2> QED
    BY <2>1, <2>2, <2>3, TracedFresh, TracedStep
<1>3. CASE run[r].at = "lock" /\ run' = [run EXCEPT ![r] = [run[r] EXCEPT !.at = "index"]]
           /\ UNCHANGED <<user, member>>
  <2> DEFINE q == run[r]
             x == [q EXCEPT !.at = "index"]
  <2>1. q \in Run /\ Traced(q, user)
    BY DEF IInv, TypeInv, TracedInv
  <2>2. q.at = "lock"
    BY <1>3
  <2> HIDE DEF q
  <2>3. /\ x \in Run /\ x.next = q.next /\ x.results = q.results /\ x.detached = q.detached
        /\ x.phones = q.phones /\ x.emails = q.emails
    BY <2>1 DEF Run
  <2>4. SameFinds(x, q) /\ SameWrites(x, q)
    BY <2>1 DEF Run, SameFinds, SameWrites
  <2>5. q.detached \subseteq {q.byUser[a] : a \in Accounts}
    BY <2>1 DEF Traced, InSession
  <2> HIDE DEF x
  <2>6. Traced(x, user)
    BY <2>1, <2>2, <2>3, <2>4, <2>5, TracedAlike
  <2> QED
    BY <1>3, <2>6, TracedStep DEF x, q
<1> QED
  BY <1>1, <1>2, <1>3 DEF Lock, AbortRun

LEMMA IndexTraces ==
  ASSUME IInv, TracedInv, NEW r \in Runners, Index(r)
  PROVE  TracedInv'
<1> DEFINE q == run[r]
<1>1. q \in Run /\ Traced(q, user) /\ Fresh(q) /\ q.at = "index"
  BY DEF IInv, TypeInv, TracedInv, Runs, Sound, Index
<1>2. PICK byEmail \in [Emails -> Opt(Accounts)] :
        /\ \A e \in Emails : OneOf(WithEmail(q.table, e), byEmail[e])
        /\ run' = [run EXCEPT
             ![r].at = IF q.table = <<>> THEN "commit" ELSE "rows",
             ![r].byPhone = [p \in Phones |-> CHOOSE x \in Opt(Accounts) : OneOf(WithPhone(p), x)],
             ![r].byEmail = byEmail,
             ![r].byUser = [a \in Accounts |-> CHOOSE x \in Opt(Members) : OneOf(RecordOf(a), x)],
             ![r].bags = [m \in Members |-> member[m].bag]]
  BY DEF Index
<1> DEFINE at == IF q.table = <<>> THEN "commit" ELSE "rows"
           byPhone == [p \in Phones |-> CHOOSE x \in Opt(Accounts) : OneOf(WithPhone(p), x)]
           byUser == [a \in Accounts |-> CHOOSE x \in Opt(Members) : OneOf(RecordOf(a), x)]
           bags == [m \in Members |-> member[m].bag]
           n == [q EXCEPT !.at = at, !.byPhone = byPhone, !.byEmail = byEmail,
                          !.byUser = byUser, !.bags = bags]
<1>3. run' = [run EXCEPT ![r] = n]
  BY <1>2 DEF IInv, TypeInv
<1>4. \A S \in SUBSET Accounts : \E x \in Opt(Accounts) : OneOf(S, x)
  BY DEF OneOf, Opt
<1>5. \A S \in SUBSET Members : \E x \in Opt(Members) : OneOf(S, x)
  BY DEF OneOf, Opt
<1>6. ASSUME NEW p \in Phones
      PROVE  byPhone[p] \in Opt(Accounts) /\ OneOf(WithPhone(p), byPhone[p])
  <2>1. WithPhone(p) \in SUBSET Accounts
    BY DEF WithPhone
  <2> QED
    BY <1>4, <2>1
<1>7. ASSUME NEW a \in Accounts
      PROVE  byUser[a] \in Opt(Members) /\ OneOf(RecordOf(a), byUser[a])
  <2>1. RecordOf(a) \in SUBSET Members
    BY DEF RecordOf
  <2> QED
    BY <1>5, <2>1
<1>8. /\ \A p \in Phones : byPhone[p] # None => user[byPhone[p]].state # "none"
      /\ \A e \in Emails : byEmail[e] # None => user[byEmail[e]].state # "none"
  BY <1>2, <1>6 DEF OneOf, WithPhone, WithEmail, LiveUser
<1>9. \A a \in Accounts : byUser[a] # None => user[a].state # "none"
  <2> SUFFICES ASSUME NEW a \in Accounts, byUser[a] # None
               PROVE  user[a].state # "none"
    OBVIOUS
  <2>1. byUser[a] \in Members /\ member[byUser[a]].user = a
    BY <1>7 DEF OneOf, RecordOf
  <2>2. a # None
    BY Parameters
  <2> HIDE DEF byUser
  <2> QED
    BY <2>1, <2>2 DEF TracedInv, Owners
<1>10. byPhone \in [Phones -> Opt(Accounts)] /\ byUser \in [Accounts -> Opt(Members)]
  BY <1>6, <1>7
<1>11. bags \in [Members -> Cells] /\ at \in {"rows", "commit"}
  BY DEF IInv, TypeInv, Member
<1> HIDE DEF q, at, byPhone, byUser, bags
<1>12. /\ n \in Run /\ n.at = at /\ n.next = q.next /\ n.table = q.table
       /\ n.results = q.results /\ n.detached = q.detached
  BY <1>1, <1>10, <1>11 DEF Run
<1>13. /\ n.byPhone = byPhone /\ n.byEmail = byEmail /\ n.byUser = byUser
       /\ n.users = q.users /\ n.members = q.members
  BY <1>1 DEF Run
<1> HIDE DEF n
<1>14. /\ q.next = 1 /\ q.results = <<>> /\ q.detached = {}
       /\ \A a \in Accounts : q.users[a] = None
       /\ \A m \in Members : q.members[m] = None
  BY <1>1 DEF Fresh, Traced, AtNext
<1>15. Known(n, user)
  BY <1>8, <1>9, <1>13, <1>14 DEF Known, Exists
<1>16. AtNext(n)
  BY <1>11, <1>12, <1>14 DEF AtNext
<1>17. UpdatesNoted(n) /\ Merged(n)
  BY <1>12, <1>14 DEF UpdatesNoted, Merged
<1>18. InSession(n)
  BY <1>12, <1>13, <1>14 DEF InSession
<1>19. Traced(n, user)
  BY <1>15, <1>16, <1>17, <1>18 DEF Traced
<1>20. UNCHANGED <<user, member>>
  BY DEF Index
<1> QED
  BY <1>3, <1>19, <1>20, TracedStep

LEMMA RowTraces ==
  ASSUME IInv, TracedInv, NEW r \in Runners,
         PassRow(r) \/ UpdateRow(r) \/ InsertRow(r) \/ LinkRow(r) \/ FailRow(r)
  PROVE  TracedInv'
<1> DEFINE q == run[r]
           row == q.table[q.next]
<1>1. q.at = "rows" /\ UNCHANGED <<user, member>>
  BY DEF PassRow, UpdateRow, InsertRow, LinkRow, FailRow, Writes
<1>2. q \in Run /\ Traced(q, user) /\ Owners /\ InTable(q) /\ Sound(q, member, overlap)
  BY DEF IInv, TypeInv, TracedInv, Runs, Sound
<1>3. row \in Row
  BY <1>1, AtRow
<1> HIDE DEF q, row
<1>4. CASE PassRow(r)
  <2>1. \/ run' = [run EXCEPT ![r] = Ends(q, "failed")]
        \/ run' = [run EXCEPT ![r] = Ends(q, "skipped")]
        \/ Valid(row) /\ run' = [run EXCEPT ![r] = Ends(Noted(q, row), "failed")]
    BY <1>4 DEF PassRow, q, row
  <2>2. /\ Traced(Ends(q, "failed"), user) /\ Traced(Ends(q, "skipped"), user)
        /\ Valid(row) => Traced(Ends(Noted(q, row), "failed"), user)
    BY <1>1, <1>2, <1>3, TracedEnds
  <2> QED
    BY <1>1, <2>1, <2>2, TracedStep
<1>5. CASE UpdateRow(r)
  <2> DEFINE a == Matched(q, row).user
             m == q.byUser[a]
  <2>1. /\ Valid(row) /\ a # None /\ m # None
        /\ run' = [run EXCEPT ![r] = Ends(Noted(Updated(q, m, row), row), "update")]
    BY <1>5 DEF UpdateRow, Writes, q, row
  <2>2. a \in Accounts /\ m \in Members
    <3>1. a \in Opt(Accounts)
      BY <1>2, <1>3, <2>1, MatchedType
    <3> HIDE DEF a
    <3>2. a \in Accounts
      BY <2>1, <3>1 DEF Opt
    <3>3. m \in Opt(Members)
      BY <1>2, <3>2 DEF Run
    <3> QED
      BY <2>1, <3>2, <3>3 DEF Opt
  <2>3. row = q.table[q.next]
    BY DEF row
  <2>4. Traced(Ends(Noted(Updated(q, m, row), row), "update"), user)
    BY <1>1, <1>2, <1>3, <2>1, <2>2, <2>3, TracedUpdated
  <2> QED
    BY <1>1, <2>1, <2>4, TracedStep
<1>6. ASSUME NEW a \in Accounts, NEW m \in Members, NEW new \in BOOLEAN,
             NEW result \in {"insert", "link"}, Valid(row), ~Seen(q, row), NewMember(m),
             q.byUser[a] = None, new \/ Exists(q, user, a),
             run' = [run EXCEPT ![r] = Ends(Noted(Inserted(q, a, m, row, new), row), result)]
      PROVE  TracedInv'
  <2> DEFINE y == Inserted(q, a, m, row, new)
  <2>1. q.members[m] = None
    BY <1>6 DEF NewMember, Unlocked, q
  <2>2. Traced(y, user)
    BY <1>2, <1>3, <1>6, <2>1, TracedInserted
  <2>3. y \in Run /\ y.at = "rows" /\ InTable(y)
    BY <1>1, <1>2, <1>3, <1>6, InsertedType DEF InTable
  <2> HIDE DEF y
  <2>4. Traced(Ends(Noted(y, row), result), user)
    BY <1>3, <1>6, <2>2, <2>3, TracedEnds
  <2> QED
    BY <1>1, <1>6, <2>4, TracedStep DEF y
<1>7. CASE InsertRow(r)
  <2>1. PICK a \in Accounts, m \in Members :
          /\ Valid(row) /\ ~Seen(q, row) /\ NewAccount(a) /\ NewMember(m)
          /\ run' = [run EXCEPT ![r] = Ends(Noted(Inserted(q, a, m, row, TRUE), row), "insert")]
    BY <1>7 DEF InsertRow, Writes, q, row
  <2>2. q.byUser[a] = None
    <3>1. ~Exists(q, user, a)
      BY <2>1 DEF NewAccount, Exists, q
    <3> QED
      BY <1>2, <3>1 DEF Traced, Known
  <2> QED
    BY <1>6, <2>1, <2>2
<1>8. CASE LinkRow(r)
  <2> DEFINE a == Matched(q, row).user
  <2>1. PICK m \in Members :
          /\ Valid(row) /\ ~Seen(q, row) /\ a # None /\ q.byUser[a] = None /\ NewMember(m)
          /\ run' = [run EXCEPT ![r] = Ends(Noted(Inserted(q, a, m, row, FALSE), row), "link")]
    BY <1>8 DEF LinkRow, Writes, q, row
  <2>2. a \in Opt(Accounts)
    BY <1>2, <1>3, <2>1, MatchedType
  <2>3. Exists(q, user, a)
    <3>1. a \in {q.byPhone[row.phone], q.byEmail[Lower[row.email]]}
          /\ (a # q.byPhone[row.phone] => row.email # None)
      BY <2>1 DEF Matched
    <3>2. row.phone \in Phones /\ (row.email # None => Lower[row.email] \in Emails)
      BY <1>3, <2>1, Parameters DEF Row, Valid, Opt
    <3> HIDE DEF a
    <3> QED
      BY <1>2, <2>1, <3>1, <3>2 DEF Traced, Known
  <2>4. a \in Accounts
    BY <2>1, <2>2 DEF Opt
  <2> HIDE DEF a
  <2> QED
    BY <1>6, <2>1, <2>3, <2>4
<1>9. CASE FailRow(r)
  <2>1. /\ Valid(row)
        /\ \/ run' = [run EXCEPT ![r] = Failed(q, row)]
           \/ run' = [run EXCEPT ![r] = [Failed(q, row) EXCEPT !.calm = FALSE]]
    BY <1>9 DEF FailRow, Writes, q, row
  <2>2. Traced(Failed(q, row), user) /\ Traced([Failed(q, row) EXCEPT !.calm = FALSE], user)
    BY <1>1, <1>2, <1>3, <2>1, TracedFailed
  <2> QED
    BY <1>1, <2>1, <2>2, TracedStep
<1> QED
  BY <1>4, <1>5, <1>7, <1>8, <1>9

\* A run's state is none the worse for accounts that come, and for requests
\* that disturb it.
LEMMA TracedOthers ==
  ASSUME TypeInv, KeepsAccounts, NEW q \in Run, Traced(q, user), NEW calm \in BOOLEAN
  PROVE  Traced(q, user') /\ Traced([q EXCEPT !.calm = calm], user')
<1> DEFINE x == [q EXCEPT !.calm = calm]
           us2 == user'
<1>1. \A a \in Accounts : user[a].state # "none" => us2[a].state # "none"
  BY DEF KeepsAccounts
<1>2. /\ x \in Run /\ x.at = q.at /\ x.next = q.next /\ x.results = q.results
      /\ x.phones = q.phones /\ x.emails = q.emails /\ x.detached = q.detached
  BY DEF Run
<1>3. SameFinds(x, q) /\ SameWrites(x, q) /\ SameFinds(q, q) /\ SameWrites(q, q)
  BY DEF Run, SameFinds, SameWrites
<1>4. q.detached \subseteq {q.byUser[a] : a \in Accounts}
  BY DEF Traced, InSession
<1>5. q.at \in {"rows", "commit"} \/ q.at \in {"idle", "lock", "index"}
  BY DEF Run
<1> HIDE DEF x, us2
<1>6. Traced(x, us2)
  BY <1>1, <1>2, <1>3, <1>4, <1>5, TracedAlike
<1>7. Traced(q, us2)
  BY <1>1, <1>3, <1>4, <1>5, TracedAlike
<1> QED
  BY <1>6, <1>7 DEF x, us2

LEMMA CommitTraces ==
  ASSUME IInv, TracedInv, NEW r \in Runners, CommitRun(r)
  PROVE  TracedInv'
<1> DEFINE q == run[r]
<1>1. q \in Run /\ Traced(q, user) /\ Owners /\ TypeInv
  BY DEF IInv, TypeInv, TracedInv
<1>2. /\ \A a \in Accounts : user'[a] = IF q.users[a] = None THEN user[a] ELSE q.users[a]
      /\ \A m \in Members : member'[m] = IF q.members[m] = None THEN member[m] ELSE q.members[m]
      /\ run' = [run EXCEPT ![r] = IdleRun]
  BY DEF CommitRun
<1> HIDE DEF q
<1>3. \A a \in Accounts : Exists(q, user, a) => user'[a].state # "none"
  BY <1>1, <1>2 DEF Exists, Traced, Known
<1>4. KeepsAccounts
  BY <1>3 DEF KeepsAccounts, Exists
<1>5. \A m \in Members : \/ member'[m].user \in {member[m].user, None}
                         \/ user'[member'[m].user].state # "none"
  <2> SUFFICES ASSUME NEW m \in Members, q.members[m] # None, q.members[m].user # None
               PROVE  user'[q.members[m].user].state # "none"
    BY <1>2
  <2>1. q.members[m].user \in Accounts
    BY <1>1 DEF Run, Member, Opt
  <2>2. Exists(q, user, q.members[m].user)
    BY <1>1 DEF Traced, Known
  <2> QED
    BY <1>3, <2>1, <2>2
<1>6. Owners'
  BY <1>1, <1>4, <1>5, OwnersKeep
<1>7. ASSUME NEW s \in Runners
      PROVE  Traced(run'[s], user')
  <2>1. CASE s = r
    BY <1>1, <1>2, <2>1, TracedIdle DEF TypeInv
  <2>2. CASE s # r
    <3>1. run'[s] = run[s] /\ run[s] \in Run /\ Traced(run[s], user)
      BY <1>1, <1>2, <2>2 DEF TypeInv, TracedInv
    <3> QED
      BY <1>1, <1>4, <3>1, TracedOthers
  <2> QED
    BY <2>1, <2>2
<1> QED
  BY <1>6, <1>7 DEF TracedInv

\* The owners a request leaves.
KeepsOwners ==
  /\ KeepsAccounts
  /\ \A m \in Members : \/ member'[m].user \in {member[m].user, None}
                        \/ user'[member'[m].user].state # "none"

\* A request makes an account or changes none; the owner it gives exists, or
\* is the account it makes.
LEMMA UserMade ==
  ASSUME TypeInv, NEW a \in Accounts, NEW p, NEW e,
         user' = user \/ user' = [user EXCEPT ![a] = Account(p, e)]
                      \/ user' = [user EXCEPT ![a].phone = p]
                      \/ user' = [user EXCEPT ![a].phone = Passed(@, p), ![a].email = SetTo(@, e)]
                      \/ user' = [user EXCEPT ![a].state = "deleted"]
  PROVE  /\ KeepsAccounts
         /\ user' = [user EXCEPT ![a] = Account(p, e)] => user'[a].state # "none"
BY DEF TypeInv, KeepsAccounts, Account, User

LEMMA OwnerMade ==
  ASSUME TypeInv, KeepsAccounts, NEW m \in Members, NEW x,
         member' = [member EXCEPT ![m] = x],
         \/ x.user \in {member[m].user, None}
         \/ x.user \in Accounts /\ (user[x.user].state # "none" \/ user'[x.user].state # "none")
  PROVE  KeepsOwners
BY DEF TypeInv, KeepsAccounts, KeepsOwners

LEMMA RecordMade ==
  ASSUME TypeInv, KeepsAccounts, NEW m \in Members, NEW a, NEW p, NEW c,
         member' = [member EXCEPT ![m] = Record(a, p, c)],
         \/ a = None
         \/ a \in Accounts /\ (user[a].state # "none" \/ user'[a].state # "none")
  PROVE  KeepsOwners
<1> DEFINE x == Record(a, p, c)
<1>1. x.user = a
  BY DEF Record
<1> HIDE DEF x
<1>2. member' = [member EXCEPT ![m] = x]
  BY DEF x
<1> QED
  BY <1>1, <1>2, OwnerMade

LEMMA RequestOwners ==
  ASSUME TypeInv, Request
  PROVE  KeepsOwners
<1>0. ASSUME KeepsAccounts, UNCHANGED member
      PROVE  KeepsOwners
  BY <1>0 DEF KeepsOwners
<1>k. UNCHANGED user => KeepsAccounts
  BY DEF KeepsAccounts
<1>1. ASSUME NEW a \in Accounts, NEW m \in Members, NEW p \in Phones, NEW e \in Stored,
             Register(a, m, p, e)
      PROVE  KeepsOwners
  <2>1. KeepsAccounts /\ user'[a].state # "none"
    BY <1>1, UserMade DEF Register
  <2>2. member' = [member EXCEPT ![m] = Record(a, p, Blank)]
    BY <1>1 DEF Register
  <2> QED
    BY <2>1, <2>2, RecordMade
<1>2. ASSUME NEW a \in Accounts, NEW p \in Phones, NEW e \in Stored, CreateUser(a, p, e)
      PROVE  KeepsOwners
  BY <1>0, <1>2, UserMade DEF CreateUser
<1>3. ASSUME NEW a \in Accounts, NEW p \in Phones, UpdateUser(a, p)
      PROVE  KeepsOwners
  BY <1>0, <1>3, UserMade DEF UpdateUser
<1>4. ASSUME NEW a \in Accounts, DeleteUser(a)
      PROVE  KeepsOwners
  BY <1>0, <1>4, UserMade DEF DeleteUser
<1>5. ASSUME NEW m \in Members, DeleteMember(m)
      PROVE  KeepsOwners
  <2>1. member' = [member EXCEPT ![m] = [member[m] EXCEPT !.state = "deleted"]] /\ UNCHANGED user
    BY <1>5 DEF DeleteMember, TypeInv
  <2>2. [member[m] EXCEPT !.state = "deleted"].user = member[m].user
    BY DEF TypeInv, Member
  <2> QED
    BY <1>k, <2>1, <2>2, OwnerMade
<1>6. ASSUME NEW m \in Members, NEW p \in Phones, NEW c \in Forms, CreateMember(m, p, c)
      PROVE  KeepsOwners
  <2>1. ASSUME NEW a \in Accounts, user[a].state # "none", UNCHANGED user,
               member' = [member EXCEPT ![m] = Record(a, p, c)]
        PROVE  KeepsOwners
    BY <1>k, <2>1, RecordMade
  <2>2. ASSUME NEW a \in Accounts, user' = [user EXCEPT ![a] = Account(p, None)],
               member' = [member EXCEPT ![m] = Record(a, p, c)]
        PROVE  KeepsOwners
    <3>1. KeepsAccounts /\ user'[a].state # "none"
      BY <2>2, UserMade
    <3> QED
      BY <2>2, <3>1, RecordMade
  <2>3. CASE UNCHANGED user /\ member' = [member EXCEPT ![m] = Record(None, p, c)]
    BY <1>k, <2>3, RecordMade
  <2> QED
    BY <1>6, <2>1, <2>2, <2>3 DEF CreateMember
<1>7. ASSUME NEW m \in Members, NEW p \in Phones \cup {None, Null}, NEW e \in Stored,
             UpdateMember(m, p, e)
      PROVE  KeepsOwners
  <2> DEFINE number == IF p \in Phones THEN p ELSE member[m].phone
             found == IF member[m].user # None THEN {member[m].user} ELSE Joined(number, e)
  <2>1. PICK a \in Opt(Accounts) :
          /\ \/ a = None /\ UNCHANGED user
             \/ /\ OneOf(found, a) /\ a # None
                /\ user' = [user EXCEPT ![a].phone = Passed(@, p), ![a].email = SetTo(@, e)]
             \/ /\ found = {} /\ a # None
                /\ \E address : user' = [user EXCEPT ![a] = Account(number, address)]
          /\ member' = [member EXCEPT ![m].phone = SetTo(@, p), ![m].user = a]
    BY <1>7 DEF UpdateMember
  <2>2. /\ member' = [member EXCEPT ![m] = [member[m] EXCEPT !.phone = SetTo(@, p), !.user = a]]
        /\ [member[m] EXCEPT !.phone = SetTo(@, p), !.user = a].user = a
    BY <2>1 DEF TypeInv, Member
  <2>3. CASE a = None /\ UNCHANGED user
    BY <1>k, <2>2, <2>3, OwnerMade
  <2>4. CASE /\ OneOf(found, a) /\ a # None
             /\ user' = [user EXCEPT ![a].phone = Passed(@, p), ![a].email = SetTo(@, e)]
    <3>1. KeepsAccounts
      BY <2>4, UserMade DEF Opt
    <3>2. a = member[m].user \/ user[a].state # "none"
      BY <2>4 DEF OneOf, Joined
    <3> QED
      BY <2>2, <2>4, <3>1, <3>2, OwnerMade DEF Opt
  <2>5. CASE a # None /\ \E address : user' = [user EXCEPT ![a] = Account(number, address)]
    <3> HIDE DEF number
    <3>1. KeepsAccounts /\ user'[a].state # "none"
      BY <2>5, UserMade DEF Opt
    <3> QED
      BY <2>2, <2>5, <3>1, OwnerMade DEF Opt
  <2> QED
    BY <2>1, <2>3, <2>4, <2>5
<1>8. ASSUME NEW a \in Accounts, NEW m \in Members, AddGroupMember(a, m)
      PROVE  KeepsOwners
  <2>1. /\ user[a].state # "none" /\ UNCHANGED user
        /\ member' = [member EXCEPT ![m] = Record(a, user[a].phone, Blank)]
    BY <1>8 DEF AddGroupMember
  <2> QED
    BY <1>k, <2>1, RecordMade
<1>9. ASSUME NEW a \in Accounts, NEW m \in Members, NEW p \in Phones \cup {None, Null},
             user[a].state # "none", m \in Profiles(a), Unlocked(m), KeepsAccounts,
             member' = [Claimed(a, m) EXCEPT ![m].phone = SetTo(@, p)]
      PROVE  KeepsOwners
  <2> DEFINE o == Claimed(a, m)[m].user
  <2>1. member' = [member EXCEPT ![m] = [member[m] EXCEPT
                     !.phone = SetTo(member[m].phone, p), !.user = o]]
    BY <1>9, ClaimedKeeps
  <2>2. o \in {member[m].user, a}
    BY DEF Claimed, TypeInv, Member
  <2> HIDE DEF o
  <2> DEFINE x == [member[m] EXCEPT !.phone = SetTo(member[m].phone, p), !.user = o]
  <2>3. x.user = o /\ member' = [member EXCEPT ![m] = x]
    BY <2>1 DEF TypeInv, Member
  <2>4. member[m].user \in Opt(Accounts)
    BY DEF TypeInv, Member
  <2> HIDE DEF x
  <2> QED
    BY <1>9, <2>2, <2>3, <2>4, OwnerMade DEF Opt
<1>10. ASSUME NEW a \in Accounts, NEW m \in Members,
              \/ GetProfile(a, m)
              \/ \E p \in Phones \cup {None, Null}, e \in Stored \cup {Null} :
                   UpdateProfile(a, m, p, e)
       PROVE  KeepsOwners
  <2>1. CASE GetProfile(a, m)
    BY <1>k, <1>9, <2>1, ClaimedOnly DEF GetProfile, LiveUser
  <2>2. ASSUME NEW p \in Phones \cup {None, Null}, NEW e \in Stored \cup {Null},
               UpdateProfile(a, m, p, e)
        PROVE  KeepsOwners
    <3> DEFINE x == Claimed(a, m)[m].user
    <3>1. /\ m \in Profiles(a) /\ Unlocked(m) /\ user[a].state # "none"
          /\ user' = [user EXCEPT ![x].phone = Passed(@, p), ![x].email = SetTo(@, e)]
          /\ member' = [Claimed(a, m) EXCEPT ![m].phone = SetTo(@, p)]
      BY <2>2 DEF UpdateProfile, LiveUser
    <3>2. x \in Accounts
      BY <3>1, ClaimedKeeps
    <3> HIDE DEF x
    <3>3. KeepsAccounts
      BY <3>1, <3>2, UserMade
    <3> QED
      BY <1>9, <3>1, <3>3
  <2> QED
    BY <1>10, <2>1, <2>2
<1>11. ASSUME NEW a \in Accounts, NEW p \in Phones, NEW m \in Members, AppointAdmin(a, p, m)
       PROVE  KeepsOwners
  <2>1. KeepsAccounts /\ (user[a].state # "none" \/ user'[a].state # "none")
    BY <1>11, <1>k, UserMade DEF AppointAdmin
  <2>2. \/ UNCHANGED member
        \/ member' = [member EXCEPT ![m].user = a]
        \/ member' = [member EXCEPT ![m] = Record(a, p, Blank)]
    BY <1>11 DEF AppointAdmin, Appointed
  <2>3. ASSUME member' = [member EXCEPT ![m].user = a]
        PROVE  KeepsOwners
    <3>1. member' = [member EXCEPT ![m] = [member[m] EXCEPT !.user = a]]
      BY <2>3 DEF TypeInv
    <3>2. [member[m] EXCEPT !.user = a].user = a
      BY DEF TypeInv, Member
    <3> QED
      BY <2>1, <3>1, <3>2, OwnerMade
  <2>4. ASSUME member' = [member EXCEPT ![m] = Record(a, p, Blank)]
        PROVE  KeepsOwners
    BY <2>1, <2>4, RecordMade
  <2> QED
    BY <1>0, <2>1, <2>2, <2>3, <2>4
<1> QED
  BY <1>1, <1>2, <1>3, <1>4, <1>5, <1>6, <1>7, <1>8, <1>10, <1>11 DEF Request

LEMMA RequestTraces ==
  ASSUME IInv, TracedInv, Request
  PROVE  TracedInv'
<1>1. TypeInv /\ NoneOwned /\ Owners
  BY DEF IInv, TracedInv
<1>2. KeepsOwners
  BY <1>1, RequestOwners
<1>3. Owners'
  BY <1>1, <1>2, OwnersKeep DEF KeepsOwners
<1>4. run' = Disturbed
  BY <1>1, RequestStep DEF Requested
<1>5. ASSUME NEW s \in Runners
      PROVE  Traced(run'[s], user')
  <2>1. run[s] \in Run /\ Traced(run[s], user)
    BY <1>1 DEF TypeInv, TracedInv
  <2>2. run'[s] = run[s] \/ run'[s] = [run[s] EXCEPT !.calm = FALSE]
    BY <1>4 DEF Disturbed
  <2>3. Traced(run[s], user') /\ Traced([run[s] EXCEPT !.calm = FALSE], user')
    BY <1>1, <1>2, <2>1, TracedOthers DEF KeepsOwners
  <2> QED
    BY <2>2, <2>3
<1> QED
  BY <1>3, <1>5 DEF TracedInv

LEMMA RestTraces ==
  ASSUME IInv, TracedInv, EditSheet \/ CommitEdit \/ UNCHANGED vars
  PROVE  TracedInv'
<1>1. UNCHANGED <<user, run>>
  BY DEF EditSheet, CommitEdit, vars
<1>2. \A m \in Members : member'[m].user = member[m].user
  BY DEF EditSheet, CommitEdit, vars, IInv, TypeInv, Member, Editing
<1> QED
  BY <1>1, <1>2 DEF TracedInv, Owners

LEMMA AllTraced == Spec => []TracedInv
<1>1. Init => TracedInv
  <2> SUFFICES ASSUME Init
               PROVE  TracedInv
    OBVIOUS
  <2>1. Owners
    BY DEF Init, Owners, NoMember
  <2>2. \A r \in Runners : Traced(run[r], user)
    BY TracedIdle DEF Init
  <2> QED
    BY <2>1, <2>2 DEF TracedInv
<1>2. IInv /\ TracedInv /\ [Next]_vars => TracedInv'
  <2> SUFFICES ASSUME IInv, TracedInv, [Next]_vars
               PROVE  TracedInv'
    OBVIOUS
  <2>1. ASSUME NEW r \in Runners,
               \/ StartRun(r) \/ Lock(r) \/ Index(r)
               \/ PassRow(r) \/ UpdateRow(r) \/ InsertRow(r) \/ LinkRow(r) \/ FailRow(r)
               \/ CommitRun(r) \/ AbortRun(r)
        PROVE  TracedInv'
    BY <2>1, StartTraces, IndexTraces, RowTraces, CommitTraces
  <2>2. CASE EditSheet \/ CommitEdit \/ UNCHANGED vars
    BY <2>2, RestTraces
  <2>3. CASE Request
    BY <2>3, RequestTraces
  <2> QED
    BY <2>1, <2>2, <2>3 DEF Next
<1> QED
  BY <1>1, <1>2, Invariant, PTL DEF Spec

\* What the sync reports as updated has reached the member: the row's non-blank
\* cells are in the columns and in the bag, until a later row writes them, for
\* as long as no failure has taken the member's object out of the session.
THEOREM UpdatesReach == Spec => []MergedUntilFailure
<1>1. TracedInv => MergedUntilFailure
  BY DEF TracedInv, Traced, Merged, MergedUntilFailure
<1> QED
  BY <1>1, AllTraced, PTL

-----------------------------------------------------------------------------
(* What an import leaves for the next one of the same sheet.               *)

\* The accounts and the records as they will be when the run commits.
AsUsers(q, us) == [a \in Accounts |-> IF q.users[a] = None THEN us[a] ELSE q.users[a]]
AsMembers(q, ms) == [m \in Members |-> IF q.members[m] = None THEN ms[m] ELSE q.members[m]]

\* What the next Index would find of them.
Numbered(us, p) == {a \in Accounts : us[a].state = "live" /\ us[a].phone = p}
Addressed(us, table, e) ==
  {a \in Accounts :
     /\ us[a].state = "live" /\ us[a].email # None /\ Lower[us[a].email] = e
     /\ \E i \in DOMAIN table : Valid(table[i]) /\ table[i].email = us[a].email}
AddressedBy(us, table, row) ==
  IF row.email = None THEN {} ELSE Addressed(us, table, Lower[row.email])
Finder(S) == CHOOSE x \in Opt(Accounts) : OneOf(S, x)

\* Deleted records count: the index has them.
HasRecord(ms, a) == \E m \in Members : ms[m].state # "none" /\ ms[m].user = a

\* The number or the address is some account's, a deleted one's maybe.
Used(us, row) ==
  \E a \in Accounts :
    /\ us[a].state # "none"
    /\ us[a].phone = row.phone \/ (row.email # None /\ us[a].email = row.email)

\* No two live accounts share an address but for its case.
Alone(us) ==
  \A a, b \in Accounts :
    (/\ us[a].state = "live" /\ us[b].state = "live" /\ us[a].email # None /\ us[b].email # None
     /\ Lower[us[a].email] = Lower[us[b].email]) => a = b

\* A row that creates nothing: it clashes, or is of an account that has a
\* record, or can have no account.
Quiet(table, row, us, ms) ==
  LET p == Finder(Numbered(us, row.phone))
      found == AddressedBy(us, table, row)
  IN  \/ p # None /\ found # {} /\ p \notin found
      \/ p # None /\ HasRecord(ms, p)
      \/ p = None /\ found # {} /\ \A a \in found : HasRecord(ms, a)
      \/ p = None /\ found = {} /\ Used(us, row)

\* Two rows of one number or one address.
Alike(x, y) ==
  x.phone = y.phone \/ (x.email # None /\ y.email # None /\ Cased(x.email) = Cased(y.email))

\* The rows that were not passed over as invalid or as seen before.
Imported(q) == {i \in DOMAIN q.results : Valid(q.table[i]) /\ q.results[i] # "skipped"}

\* They are the first of their numbers and addresses, and the ones it has seen.
FirstOnes(table, ends, rows) ==
  \A i \in ends :
    i \in rows <=> Valid(table[i]) /\ ~\E j \in rows : j < i /\ Alike(table[j], table[i])
Listing(q) ==
  /\ \A row \in Row :
       Valid(row) => (Seen(q, row) <=> \E j \in Imported(q) : Alike(q.table[j], row))
  /\ FirstOnes(q.table, DOMAIN q.results, Imported(q))

\* What the run knows of numbers and addresses it has not seen is so, and the
\* rows it has imported would create nothing again.
Track(q, us, ms) ==
  LET users == AsUsers(q, us)
      members == AsMembers(q, ms)
  IN  /\ Listing(q)
      /\ \A p \in Phones \ q.phones : q.byPhone[p] = Finder(Numbered(users, p))
      /\ \A e \in Emails \ q.emails : OneOf(Addressed(users, q.table, e), q.byEmail[e])
      /\ \A a \in Accounts :
           /\ q.byUser[a] # None => /\ members[q.byUser[a]].state # "none"
                                    /\ members[q.byUser[a]].user = a
           /\ q.users[a] # None => us[a].state = "none" /\ q.users[a].state = "live"
      /\ Alone(users) => \A i \in Imported(q) : Quiet(q.table, q.table[i], users, members)

\* Whoever looks finds one, if there is one.
LEMMA FinderOf ==
  ASSUME NEW S \in SUBSET Accounts
  PROVE  Finder(S) \in Opt(Accounts) /\ OneOf(S, Finder(S))
<1>1. \E x \in Opt(Accounts) : OneOf(S, x)
  BY DEF OneOf, Opt
<1> QED
  BY <1>1 DEF Finder

\* What a row finds that is not seen yet.
LEMMA Finding ==
  ASSUME NEW q \in Run, NEW us, NEW ms, Track(q, us, ms),
         NEW row \in Row, Valid(row), ~Seen(q, row)
  PROVE  LET p == Finder(Numbered(AsUsers(q, us), row.phone))
             found == AddressedBy(AsUsers(q, us), q.table, row)
             e == IF row.email = None THEN None ELSE q.byEmail[Lower[row.email]]
         IN  /\ p \in Opt(Accounts) /\ e \in Opt(Accounts) /\ OneOf(found, e)
             /\ OneOf(Numbered(AsUsers(q, us), row.phone), p)
             /\ found \in SUBSET Accounts
             /\ Matched(q, row).user = (IF p # None THEN p ELSE e)
             /\ Matched(q, row).clash <=> p # None /\ e # None /\ p # e
<1> DEFINE users == AsUsers(q, us)
           p == Finder(Numbered(users, row.phone))
           found == AddressedBy(users, q.table, row)
           e == IF row.email = None THEN None ELSE q.byEmail[Lower[row.email]]
<1>1. row.phone \in Phones /\ (row.email # None => row.email \in Emails /\ Lower[row.email] \in Emails)
  BY Parameters DEF Row, Valid, Opt
<1>2. row.phone \notin q.phones /\ (row.email # None => Lower[row.email] \notin q.emails)
  BY DEF Seen, Cased
<1>3. q.byPhone[row.phone] = p
  BY <1>1, <1>2 DEF Track
<1>4. OneOf(found, e)
  <2>1. CASE row.email = None
    BY <2>1 DEF OneOf, AddressedBy
  <2>2. CASE row.email # None
    BY <1>1, <1>2, <2>2 DEF Track, AddressedBy
  <2> QED
    BY <2>1, <2>2
<1>5. Numbered(users, row.phone) \in SUBSET Accounts /\ found \in SUBSET Accounts
  BY DEF Numbered, AddressedBy, Addressed
<1>6. p \in Opt(Accounts) /\ OneOf(Numbered(users, row.phone), p)
  BY <1>5, FinderOf
<1>7. e \in Opt(Accounts)
  BY <1>1 DEF Run, Opt
<1>8. /\ Matched(q, row).user = IF p # None THEN p ELSE e
      /\ Matched(q, row).clash <=> p # None /\ e # None /\ p # e
  <2> HIDE DEF p
  <2> QED
    BY <1>3 DEF Matched
<1> QED
  BY <1>4, <1>5, <1>6, <1>7, <1>8

\* Rows stay quiet while what they find is the same, and records only come.
LEMMA QuietStays ==
  ASSUME NEW table, NEW row, NEW us, NEW us2, NEW ms, NEW ms2, Quiet(table, row, us, ms),
         Numbered(us2, row.phone) = Numbered(us, row.phone),
         AddressedBy(us2, table, row) = AddressedBy(us, table, row),
         AddressedBy(us, table, row) \subseteq Accounts, Numbered(us, row.phone) \in SUBSET Accounts,
         \A a \in Accounts : HasRecord(ms, a) => HasRecord(ms2, a),
         Used(us, row) => Used(us2, row)
  PROVE  Quiet(table, row, us2, ms2)
<1>1. Finder(Numbered(us, row.phone)) \in Opt(Accounts)
  BY FinderOf
<1> QED
  BY <1>1 DEF Quiet, Opt

\* The list of the imported rows after one more row.
OneOn(q, x, res, k) ==
  /\ k \in Nat /\ DOMAIN q.results = 1..Len(q.results) /\ Len(q.results) \in Nat
  /\ DOMAIN x.results = DOMAIN q.results \cup {k} /\ k \notin DOMAIN q.results
  /\ \A j \in DOMAIN q.results : x.results[j] = q.results[j] /\ j \in Nat /\ j < k
  /\ x.results[k] = res
  /\ Imported(x) = Imported(q) \cup
       (IF Valid(q.table[k]) /\ res # "skipped" THEN {k} ELSE {})

LEMMA ImportedOn ==
  ASSUME NEW q \in Run, NEW x \in Run, NEW res,
         x.table = q.table, x.results = Append(q.results, res)
  PROVE  OneOn(q, x, res, Len(q.results) + 1)
<1> DEFINE k == Len(q.results) + 1
           T == {"insert", "link", "update", "skipped", "failed"}
<1>1. q.results \in Seq(T) /\ x.results \in Seq(T)
  BY DEF Run
<1>2. /\ DOMAIN q.results = 1..Len(q.results) /\ Len(q.results) \in Nat
      /\ Len(x.results) = k /\ DOMAIN x.results = 1..k
      /\ \A j \in 1..Len(q.results) : x.results[j] = q.results[j]
      /\ x.results[k] = res
  BY <1>1
<1>3. /\ DOMAIN x.results = DOMAIN q.results \cup {k} /\ k \notin DOMAIN q.results
      /\ \A j \in DOMAIN q.results : j \in Nat /\ j < k
      /\ k \in Nat
  BY <1>2
<1> HIDE DEF k
<1>4. Imported(x) = Imported(q) \cup (IF Valid(q.table[k]) /\ res # "skipped" THEN {k} ELSE {})
  BY <1>2, <1>3 DEF Imported
<1> QED
  BY <1>2, <1>3, <1>4 DEF OneOn, k

\* A row that is passed over leaves the list alone.
LEMMA ListingPassed ==
  ASSUME NEW q \in Run, NEW x \in Run, NEW res, Listing(q),
         x.table = q.table, x.results = Append(q.results, res),
         x.phones = q.phones, x.emails = q.emails,
         LET row == q.table[Len(q.results) + 1]
         IN  row \in Row /\ (~Valid(row) \/ (Seen(q, row) /\ res = "skipped"))
  PROVE  Listing(x) /\ Imported(x) = Imported(q)
<1> DEFINE k == Len(q.results) + 1
           row == q.table[k]
<1>0. OneOn(q, x, res, k)
  BY ImportedOn
<1>1. /\ DOMAIN x.results = DOMAIN q.results \cup {k} /\ k \notin DOMAIN q.results
      /\ \A j \in DOMAIN q.results : x.results[j] = q.results[j] /\ j < k
      /\ Imported(x) = Imported(q) \cup (IF Valid(q.table[k]) /\ res # "skipped" THEN {k} ELSE {})
  BY <1>0 DEF OneOn
<1>2. Imported(x) = Imported(q) /\ k \notin Imported(q)
  BY <1>1 DEF Imported
<1>3. \A r \in Row : Seen(x, r) <=> Seen(q, r)
  BY DEF Seen
<1> HIDE DEF k
<1>4. k \in Imported(x) <=> Valid(row) /\ ~\E j \in Imported(x) : j < k /\ Alike(x.table[j], row)
  <2>1. CASE ~Valid(row)
    BY <1>2, <2>1
  <2>2. CASE Valid(row)
    <3>1. Seen(q, row) /\ row \in Row
      BY <2>2 DEF k
    <3>2. PICK j \in Imported(q) : Alike(q.table[j], row)
      BY <2>2, <3>1 DEF Listing
    <3>3. j < k
      BY <1>1 DEF Imported
    <3> QED
      BY <1>2, <3>2, <3>3
  <2> QED
    BY <2>1, <2>2
<1>5. FirstOnes(x.table, DOMAIN x.results, Imported(x))
  BY <1>1, <1>2, <1>4 DEF Listing, FirstOnes
<1>6. \A r \in Row :
        Valid(r) => (Seen(x, r) <=> \E j \in Imported(x) : Alike(x.table[j], r))
  BY <1>2, <1>3 DEF Listing
<1> QED
  BY <1>2, <1>5, <1>6 DEF Listing

\* A row that is not seen yet is noted.
Notes(q, x, row, res) ==
  /\ x.table = q.table /\ x.results = Append(q.results, res) /\ res # "skipped"
  /\ row \in Row /\ row = q.table[Len(q.results) + 1] /\ Valid(row) /\ ~Seen(q, row)
  /\ x.phones = q.phones \cup {row.phone}
  /\ x.emails = q.emails \cup ({Cased(row.email)} \ {None})

\* It is the first of its number and address.
LEMMA ListingNoted ==
  ASSUME NEW q \in Run, NEW x \in Run, NEW res, NEW row, Listing(q), Notes(q, x, row, res)
  PROVE  /\ Listing(x) /\ Imported(x) = Imported(q) \cup {Len(q.results) + 1}
         /\ Len(q.results) + 1 \notin DOMAIN q.results
<1> DEFINE k == Len(q.results) + 1
<1>n. /\ x.table = q.table /\ x.results = Append(q.results, res) /\ res # "skipped"
      /\ row \in Row /\ row = q.table[k] /\ Valid(row) /\ ~Seen(q, row)
      /\ x.phones = q.phones \cup {row.phone}
      /\ x.emails = q.emails \cup ({Cased(row.email)} \ {None})
  BY DEF Notes
<1>0. OneOn(q, x, res, k)
  BY <1>n, ImportedOn
<1> HIDE DEF k
<1>1. /\ DOMAIN x.results = DOMAIN q.results \cup {k} /\ k \notin DOMAIN q.results
      /\ \A j \in DOMAIN q.results : x.results[j] = q.results[j] /\ j \in Nat /\ j < k
      /\ k \in Nat
  BY <1>0 DEF OneOn
<1>2. Imported(x) = Imported(q) \cup {k}
  BY <1>0, <1>n DEF OneOn
<1>3. q.table[k] = row
  BY <1>n
<1>4. ASSUME NEW r \in Row, Valid(r)
      PROVE  Seen(x, r) <=> \E j \in Imported(x) : Alike(x.table[j], r)
  <2>1. \A e \in Emails : Lower[e] \in Emails /\ Lower[e] # None /\ e # None
    BY Parameters
  <2>2. (r.email # None => r.email \in Emails) /\ (row.email # None => row.email \in Emails)
    BY <1>n DEF Row, Opt
  <2>3. Seen(x, r) <=> Seen(q, r) \/ Alike(row, r)
    BY <1>n, <2>1, <2>2 DEF Seen, Alike, Cased
  <2>4. Seen(q, r) <=> \E j \in Imported(q) : Alike(q.table[j], r)
    BY <1>4 DEF Listing
  <2> QED
    BY <1>n, <1>2, <1>3, <2>3, <2>4
<1>5. ASSUME NEW i \in DOMAIN x.results
      PROVE  i \in Imported(x) <=>
               Valid(x.table[i]) /\ ~\E j \in Imported(x) : j < i /\ Alike(x.table[j], x.table[i])
  <2>1. CASE i = k
    <3>1. ~\E j \in Imported(q) : Alike(q.table[j], row)
      BY <1>n DEF Listing
    <3>2. ~(k < k)
      BY <1>1
    <3> QED
      BY <1>n, <1>2, <1>3, <2>1, <3>1, <3>2
  <2>2. CASE i \in DOMAIN q.results
    <3>1. i < k /\ i \in Nat
      BY <1>1, <2>2
    <3>2. ~(k < i) /\ i # k
      BY <1>1, <3>1
    <3>3. i \in Imported(q) <=>
            Valid(q.table[i]) /\ ~\E j \in Imported(q) : j < i /\ Alike(q.table[j], q.table[i])
      BY <2>2 DEF Listing, FirstOnes
    <3> QED
      BY <1>n, <1>2, <3>2, <3>3
  <2> QED
    BY <1>1, <2>1, <2>2
<1> QED
  BY <1>n, <1>1, <1>2, <1>4, <1>5 DEF Listing, FirstOnes, k

\* The step from users and members to the next ones: an account comes with the
\* row's number and address, records keep their owners.
GrowsBy(us, us2, row) ==
  \A a \in Accounts :
    \/ us2[a] = us[a]
    \/ /\ us[a].state = "none" /\ us2[a].state = "live"
       /\ us2[a].phone = row.phone /\ us2[a].email = row.email
KeepsOwnedIn(ms, ms2) ==
  \A m \in Members :
    ms[m].state # "none" =>
      /\ ms2[m].state # "none"
      /\ ms[m].user # None => ms2[m].user = ms[m].user

\* Other numbers and addresses find what they found.
LEMMA GrownElsewhere ==
  ASSUME NEW us, NEW us2, NEW row \in Row, GrowsBy(us, us2, row), NEW table
  PROVE  /\ \A p \in Phones : p # row.phone => Numbered(us2, p) = Numbered(us, p)
         /\ \A e \in Emails : (row.email # None => e # Lower[row.email]) =>
              Addressed(us2, table, e) = Addressed(us, table, e)
         /\ Alone(us2) => Alone(us)
         /\ \A r : Used(us, r) => Used(us2, r)
<1>1. \A p \in Phones : p # row.phone => Numbered(us2, p) = Numbered(us, p)
  BY DEF GrowsBy, Numbered
<1>2. ASSUME NEW e \in Emails, row.email # None => e # Lower[row.email], NEW a \in Accounts
      PROVE  a \in Addressed(us2, table, e) <=> a \in Addressed(us, table, e)
  <2>1. CASE us2[a] = us[a]
    BY <2>1 DEF Addressed
  <2>2. CASE us2[a] # us[a]
    <3>1. us[a].state = "none" /\ us2[a].email = row.email
      BY <2>2 DEF GrowsBy
    <3>2. a \notin Addressed(us, table, e)
      BY <3>1 DEF Addressed
    <3>3. a \notin Addressed(us2, table, e)
      BY <1>2, <3>1 DEF Addressed
    <3> QED
      BY <3>2, <3>3
  <2> QED
    BY <2>1, <2>2
<1>3. ASSUME NEW e \in Emails, row.email # None => e # Lower[row.email]
      PROVE  Addressed(us2, table, e) = Addressed(us, table, e)
  <2>1. Addressed(us2, table, e) \subseteq Accounts /\ Addressed(us, table, e) \subseteq Accounts
    BY DEF Addressed
  <2> QED
    BY <1>2, <1>3, <2>1
<1>4. ASSUME Alone(us2) PROVE Alone(us)
  <2>1. \A a \in Accounts : us[a].state = "live" => us2[a] = us[a]
    BY DEF GrowsBy
  <2> QED
    BY <1>4, <2>1 DEF Alone
<1>5. ASSUME NEW r, Used(us, r) PROVE Used(us2, r)
  <2>1. \A a \in Accounts : us[a].state # "none" => us2[a] = us[a]
    BY DEF GrowsBy
  <2> QED
    BY <1>5, <2>1 DEF Used
<1> QED
  BY <1>1, <1>3, <1>4, <1>5

\* An account that has a record keeps one.
LEMMA OwnersRemain ==
  ASSUME NEW ms, NEW ms2, KeepsOwnedIn(ms, ms2), NEW a \in Accounts, HasRecord(ms, a)
  PROVE  HasRecord(ms2, a)
<1>1. a # None
  BY Parameters
<1> QED
  BY <1>1 DEF HasRecord, KeepsOwnedIn

\* What the writes of a row leave: what is not of its number and address is
\* found as before, and what it makes is an account of that number and address
\* and a record that is found by its account.
Adds(q, x, us, ms, row) ==
  /\ GrowsBy(AsUsers(q, us), AsUsers(x, us), row)
  /\ KeepsOwnedIn(AsMembers(q, ms), AsMembers(x, ms))
  /\ \A p \in Phones : p # row.phone => x.byPhone[p] = q.byPhone[p]
  /\ \A e \in Emails : (row.email # None => e # Lower[row.email]) =>
       x.byEmail[e] = q.byEmail[e]
  /\ \A a \in Accounts :
       \/ x.byUser[a] = q.byUser[a]
       \/ /\ AsMembers(x, ms)[x.byUser[a]].state # "none"
          /\ AsMembers(x, ms)[x.byUser[a]].user = a
  /\ \A a \in Accounts : x.users[a] # None => us[a].state = "none" /\ x.users[a].state = "live"

\* A row that is imported: what it does not touch stays tracked.
LEMMA TrackRow ==
  ASSUME NEW q \in Run, NEW x \in Run, NEW us, NEW ms, Track(q, us, ms), NEW row, NEW res,
         DOMAIN q.results \subseteq DOMAIN q.table,
         Notes(q, x, row, res), Adds(q, x, us, ms, row),
         Alone(AsUsers(x, us)) => Quiet(q.table, row, AsUsers(x, us), AsMembers(x, ms))
  PROVE  Track(x, us, ms)
<1> DEFINE users == AsUsers(q, us)
           members == AsMembers(q, ms)
           users2 == AsUsers(x, us)
           members2 == AsMembers(x, ms)
           k == Len(q.results) + 1
<1>n. /\ x.table = q.table /\ row \in Row /\ row = q.table[k] /\ Valid(row) /\ ~Seen(q, row)
      /\ x.phones = q.phones \cup {row.phone}
      /\ x.emails = q.emails \cup ({Cased(row.email)} \ {None})
  BY DEF Notes
<1>1. Listing(q)
  BY DEF Track
<1>2. Listing(x) /\ Imported(x) = Imported(q) \cup {k}
  BY <1>1, ListingNoted
<1>3. /\ \A p \in Phones \ q.phones : q.byPhone[p] = Finder(Numbered(users, p))
      /\ \A e \in Emails \ q.emails : OneOf(Addressed(users, q.table, e), q.byEmail[e])
      /\ \A a \in Accounts :
           q.byUser[a] # None => /\ members[q.byUser[a]].state # "none"
                                 /\ members[q.byUser[a]].user = a
      /\ Alone(users) => \A i \in Imported(q) : Quiet(q.table, q.table[i], users, members)
  BY DEF Track
<1> HIDE DEF users, members, users2, members2, k
<1>4. GrowsBy(users, users2, row) /\ KeepsOwnedIn(members, members2)
  BY DEF Adds, users, members, users2, members2
<1>a. /\ \A p \in Phones : p # row.phone => x.byPhone[p] = q.byPhone[p]
      /\ \A e \in Emails : (row.email # None => e # Lower[row.email]) =>
           x.byEmail[e] = q.byEmail[e]
      /\ \A a \in Accounts :
           \/ x.byUser[a] = q.byUser[a]
           \/ members2[x.byUser[a]].state # "none" /\ members2[x.byUser[a]].user = a
      /\ \A a \in Accounts : x.users[a] # None => us[a].state = "none" /\ x.users[a].state = "live"
  BY DEF Adds, members2
<1>g. /\ \A p \in Phones : p # row.phone => Numbered(users2, p) = Numbered(users, p)
      /\ \A e \in Emails : (row.email # None => e # Lower[row.email]) =>
           Addressed(users2, q.table, e) = Addressed(users, q.table, e)
      /\ Alone(users2) => Alone(users)
      /\ \A r : Used(users, r) => Used(users2, r)
  BY <1>4, <1>n, GrownElsewhere
<1>5. row.email # None => row.email \in Emails /\ Cased(row.email) = Lower[row.email] /\ Cased(row.email) # None
  BY <1>n, Parameters DEF Row, Opt, Cased
<1>6. \A p \in Phones \ x.phones : x.byPhone[p] = Finder(Numbered(users2, p))
  <2>1. ASSUME NEW p \in Phones \ x.phones
        PROVE  x.byPhone[p] = Finder(Numbered(users2, p))
    <3>1. p # row.phone /\ p \in Phones \ q.phones
      BY <1>n
    <3>2. Numbered(users2, p) = Numbered(users, p)
      BY <1>g, <3>1
    <3> QED
      BY <1>3, <1>a, <3>1, <3>2
  <2> QED
    BY <2>1
<1>7. \A e \in Emails \ x.emails : OneOf(Addressed(users2, x.table, e), x.byEmail[e])
  <2>1. ASSUME NEW e \in Emails \ x.emails
        PROVE  OneOf(Addressed(users2, x.table, e), x.byEmail[e])
    <3>1. (row.email # None => e # Lower[row.email]) /\ e \in Emails \ q.emails
      BY <1>5, <1>n
    <3>2. Addressed(users2, q.table, e) = Addressed(users, q.table, e)
      BY <1>g, <3>1
    <3>3. x.byEmail[e] = q.byEmail[e]
      BY <1>a, <3>1
    <3> QED
      BY <1>n, <1>3, <3>1, <3>2, <3>3
  <2> QED
    BY <2>1
<1>8. \A a \in Accounts :
        /\ x.byUser[a] # None => /\ members2[x.byUser[a]].state # "none"
                                 /\ members2[x.byUser[a]].user = a
        /\ x.users[a] # None => us[a].state = "none" /\ x.users[a].state = "live"
  <2>1. ASSUME NEW a \in Accounts, x.byUser[a] # None
        PROVE  members2[x.byUser[a]].state # "none" /\ members2[x.byUser[a]].user = a
    <3>1. CASE x.byUser[a] = q.byUser[a]
      <4>1. members[q.byUser[a]].state # "none" /\ members[q.byUser[a]].user = a
        BY <1>3, <2>1, <3>1
      <4>2. a # None /\ q.byUser[a] \in Members
        BY <2>1, <3>1, Parameters DEF Run, Opt
      <4> QED
        BY <1>4, <3>1, <4>1, <4>2 DEF KeepsOwnedIn
    <3>2. CASE x.byUser[a] # q.byUser[a]
      BY <1>a, <3>2
    <3> QED
      BY <3>1, <3>2
  <2> QED
    BY <1>a, <2>1
<1>9. ASSUME Alone(users2), NEW i \in Imported(x)
      PROVE  Quiet(x.table, x.table[i], users2, members2)
  <2>1. CASE i = k
    BY <1>9, <1>n, <2>1 DEF users2, members2
  <2>2. CASE i \in Imported(q)
    <3> DEFINE r == q.table[i]
    <3>1. i \in DOMAIN q.table /\ Valid(r)
      BY <2>2 DEF Imported
    <3>2. r \in Row
      BY <3>1 DEF Run
    <3>3. ~Alike(r, row)
      BY <1>1, <1>n, <2>2 DEF Listing
    <3> HIDE DEF r
    <3>4. r.phone \in Phones /\ r.phone # row.phone
      BY <1>n, <3>1, <3>2, <3>3 DEF Row, Opt, Valid, Alike
    <3>5. Numbered(users2, r.phone) = Numbered(users, r.phone)
      BY <1>g, <3>4
    <3>6. r.email # None => Lower[r.email] \in Emails /\ (row.email # None => Lower[r.email] # Lower[row.email])
      BY <1>n, <3>2, <3>3, Parameters DEF Row, Opt, Alike, Cased
    <3>7. AddressedBy(users2, q.table, r) = AddressedBy(users, q.table, r)
      BY <1>g, <3>6 DEF AddressedBy
    <3>8. Alone(users) /\ (Used(users, r) => Used(users2, r))
      BY <1>g, <1>9
    <3>9. Quiet(q.table, r, users, members)
      BY <1>3, <2>2, <3>8 DEF r
    <3>10. AddressedBy(users, q.table, r) \subseteq Accounts /\ Numbered(users, r.phone) \in SUBSET Accounts
      BY DEF AddressedBy, Addressed, Numbered
    <3>11. \A a \in Accounts : HasRecord(members, a) => HasRecord(members2, a)
      BY <1>4, OwnersRemain
    <3>12. Quiet(q.table, r, users2, members2)
      BY <3>5, <3>7, <3>8, <3>9, <3>10, <3>11, QuietStays
    <3> QED
      BY <1>n, <3>12 DEF r
  <2> QED
    BY <1>2, <1>9, <2>1, <2>2
<1> QED
  BY <1>2, <1>6, <1>7, <1>8, <1>9 DEF Track, users2, members2

\* x is y after its row is noted and ends; q is the run before the row.
NotedAs(q, y, x, row, res) ==
  /\ x \in Run /\ Notes(q, x, row, res)
  /\ x.byPhone = y.byPhone /\ x.byEmail = y.byEmail /\ x.byUser = y.byUser
  /\ x.users = y.users /\ x.members = y.members /\ x.calm = y.calm
  /\ x.at \in {"rows", "commit"} /\ (x.at = "commit" => Len(x.results) = Len(x.table))

\* The row is not noted yet.
SameNotes(y, q) ==
  /\ y.table = q.table /\ y.results = q.results /\ y.next = q.next
  /\ y.phones = q.phones /\ y.emails = q.emails

\* The row a run is at, which is to be written.
Due(q, row) ==
  /\ q \in Run /\ AtNext(q) /\ row = q.table[q.next] /\ row \in Row
  /\ Valid(row) /\ ~Seen(q, row)

\* Rows end and are noted without disturbing their run.
LEMMA EndsCalm ==
  ASSUME NEW q \in Run, NEW res
  PROVE  Ends(q, res).calm = q.calm
BY DEF Ends, Run

LEMMA NotedCalm ==
  ASSUME NEW q \in Run, NEW row
  PROVE  Noted(q, row).calm = q.calm
BY DEF Noted, Run

\* A row that is noted and ends, whatever it wrote before.
LEMMA NotesRow ==
  ASSUME NEW q, NEW row, Due(q, row), NEW y \in Run, SameNotes(y, q),
         NEW res \in {"insert", "link", "update", "failed"}
  PROVE  NotedAs(q, y, Ends(Noted(y, row), res), row, res)
<1> DEFINE z == Noted(y, row)
           x == Ends(z, res)
<1>1. /\ q \in Run /\ row \in Row /\ Valid(row) /\ ~Seen(q, row) /\ row = q.table[Len(q.results) + 1]
      /\ q.next = Len(q.results) + 1
  BY DEF Due, AtNext
<1>2. /\ y.table = q.table /\ y.results = q.results /\ y.next = q.next
      /\ y.phones = q.phones /\ y.emails = q.emails
  BY DEF SameNotes
<1>3. /\ z \in Run /\ z.next = y.next /\ SameFinds(z, y) /\ SameWrites(z, y)
      /\ z.results = y.results /\ z.calm = y.calm
      /\ z.phones = y.phones \cup {row.phone}
      /\ z.emails = y.emails \cup ({Cased(row.email)} \ {None})
  <2>1. z \in Run /\ z.next = y.next
    BY <1>1, NotedType
  <2>2. /\ SameFinds(z, y) /\ SameWrites(z, y)
        /\ z.results = y.results
        /\ z.phones = y.phones \cup {row.phone}
        /\ z.emails = y.emails \cup ({Cased(row.email)} \ {None})
    BY <1>1, NotedFields
  <2>3. z.calm = y.calm
    BY NotedCalm
  <2> QED
    BY <2>1, <2>2, <2>3
<1> HIDE DEF z
<1>r. res \in {"insert", "link", "update", "skipped", "failed"}
  OBVIOUS
<1>4. /\ x \in Run /\ SameFinds(x, z) /\ SameWrites(x, z) /\ x.calm = z.calm
      /\ x.phones = z.phones /\ x.emails = z.emails
      /\ x.results = Append(z.results, res)
      /\ x.at = (IF z.next = Len(z.table) THEN "commit" ELSE "rows")
  <2>1. /\ x \in Run /\ x.at = (IF z.next = Len(z.table) THEN "commit" ELSE "rows")
    BY <1>3, <1>r, EndsType
  <2>2. /\ SameFinds(x, z) /\ SameWrites(x, z)
        /\ x.phones = z.phones /\ x.emails = z.emails
        /\ x.results = Append(z.results, res)
    BY <1>3, <1>r, EndsFields
  <2>3. x.calm = z.calm
    BY <1>3, EndsCalm
  <2> QED
    BY <2>1, <2>2, <2>3
<1> HIDE DEF x
<1>5. Notes(q, x, row, res)
  BY <1>1, <1>2, <1>3, <1>4 DEF Notes, SameFinds
<1>6. Len(x.results) = q.next
  <2>1. q.results \in Seq({"insert", "link", "update", "skipped", "failed"})
        /\ res \in {"insert", "link", "update", "skipped", "failed"}
    BY <1>1 DEF Run
  <2>2. Len(Append(q.results, res)) = Len(q.results) + 1
    BY <2>1
  <2> QED
    BY <1>1, <1>2, <1>3, <1>4, <2>2
<1>7. x.at = "commit" => Len(x.results) = Len(x.table)
  BY <1>2, <1>3, <1>4, <1>6 DEF SameFinds
<1>8. /\ x.byPhone = y.byPhone /\ x.byEmail = y.byEmail /\ x.byUser = y.byUser
      /\ x.users = y.users /\ x.members = y.members /\ x.calm = y.calm
  BY <1>3, <1>4 DEF SameFinds, SameWrites
<1>9. NotedAs(q, y, x, row, res)
  BY <1>4, <1>5, <1>7, <1>8 DEF NotedAs
<1> QED
  BY <1>9 DEF x, z

\* A failed row writes nothing.
LEMMA NotesFailed ==
  ASSUME NEW q, NEW row, Due(q, row)
  PROVE  NotedAs(q, q, Failed(q, row), row, "failed")
<1> DEFINE e == Ends(Noted(q, row), "failed")
           gone == {q.byUser[a] : a \in Accounts} \cap Members
           x == Failed(q, row)
<1>1. q \in Run /\ SameNotes(q, q)
  BY DEF Due, SameNotes
<1>2. NotedAs(q, q, e, row, "failed")
  BY <1>1, NotesRow
<1>3. x = [e EXCEPT !.detached = gone]
  BY DEF Failed
<1>4. gone \in SUBSET Members
  OBVIOUS
<1> HIDE DEF e, gone, x
<1>5. e \in Run
  BY <1>2 DEF NotedAs
<1>6. /\ x \in Run /\ x.table = e.table /\ x.results = e.results /\ x.phones = e.phones
      /\ x.emails = e.emails /\ x.byPhone = e.byPhone /\ x.byEmail = e.byEmail
      /\ x.byUser = e.byUser /\ x.users = e.users /\ x.members = e.members /\ x.calm = e.calm
      /\ x.at = e.at
  BY <1>3, <1>4, <1>5 DEF Run
<1>7. Notes(q, x, row, "failed")
  BY <1>2, <1>6 DEF NotedAs, Notes
<1>8. NotedAs(q, q, x, row, "failed")
  BY <1>2, <1>6, <1>7 DEF NotedAs
<1> QED
  BY <1>8 DEF x

\* What a row adds is what it wrote before it was noted.
LEMMA AddsAlike ==
  ASSUME NEW q, NEW y, NEW x, NEW us, NEW ms, NEW row, Adds(q, y, us, ms, row),
         x.byPhone = y.byPhone, x.byEmail = y.byEmail, x.byUser = y.byUser,
         x.users = y.users, x.members = y.members
  PROVE  Adds(q, x, us, ms, row)
<1>1. AsUsers(x, us) = AsUsers(y, us) /\ AsMembers(x, ms) = AsMembers(y, ms)
  BY DEF AsUsers, AsMembers
<1> QED
  BY <1>1 DEF Adds

\* A row that writes nothing.
LEMMA AddsNothing ==
  ASSUME NEW q \in Run, NEW us, NEW ms, NEW row, Track(q, us, ms)
  PROVE  Adds(q, q, us, ms, row)
<1>1. GrowsBy(AsUsers(q, us), AsUsers(q, us), row)
  BY DEF GrowsBy
<1>2. KeepsOwnedIn(AsMembers(q, ms), AsMembers(q, ms))
  BY DEF KeepsOwnedIn
<1>3. \A a \in Accounts : q.users[a] # None => us[a].state = "none" /\ q.users[a].state = "live"
  BY DEF Track
<1> QED
  BY <1>1, <1>2, <1>3 DEF Adds

\* A row of an account that has a record.
LEMMA QuietOwned ==
  ASSUME NEW q \in Run, NEW us, NEW ms, NEW ms2, Track(q, us, ms),
         NEW row \in Row, Valid(row), ~Seen(q, row), Alone(AsUsers(q, us)),
         Matched(q, row).user # None, HasRecord(ms2, Matched(q, row).user)
  PROVE  Quiet(q.table, row, AsUsers(q, us), ms2)
<1> DEFINE users == AsUsers(q, us)
           p == Finder(Numbered(users, row.phone))
           found == AddressedBy(users, q.table, row)
           e == IF row.email = None THEN None ELSE q.byEmail[Lower[row.email]]
<1>1. /\ p \in Opt(Accounts) /\ e \in Opt(Accounts) /\ OneOf(found, e)
      /\ OneOf(Numbered(users, row.phone), p)
      /\ found \in SUBSET Accounts
      /\ Matched(q, row).user = (IF p # None THEN p ELSE e)
      /\ Matched(q, row).clash <=> p # None /\ e # None /\ p # e
  BY Finding
<1>2. \A a, b \in found : a = b
  <2>1. \A a, b \in Accounts :
          (/\ users[a].state = "live" /\ users[b].state = "live"
           /\ users[a].email # None /\ users[b].email # None
           /\ Lower[users[a].email] = Lower[users[b].email]) => a = b
    BY DEF Alone
  <2> HIDE DEF users
  <2> QED
    BY <2>1 DEF AddressedBy, Addressed
<1>3. Quiet(q.table, row, users, ms2) <=>
        \/ p # None /\ found # {} /\ p \notin found
        \/ p # None /\ HasRecord(ms2, p)
        \/ p = None /\ found # {} /\ \A a \in found : HasRecord(ms2, a)
        \/ p = None /\ found = {} /\ Used(users, row)
  BY DEF Quiet
<1> HIDE DEF users, p, found, e
<1>4. ASSUME p # None PROVE Quiet(q.table, row, users, ms2)
  BY <1>1, <1>3, <1>4
<1>5. ASSUME p = None PROVE Quiet(q.table, row, users, ms2)
  <2>1. Matched(q, row).user = e /\ e # None
    BY <1>1, <1>5
  <2>2. e \in found /\ \A a \in found : a = e
    BY <1>1, <1>2, <2>1 DEF OneOf
  <2>3. \A a \in found : HasRecord(ms2, a)
    BY <2>1, <2>2
  <2> QED
    BY <1>3, <1>5, <2>2, <2>3
<1>6. Quiet(q.table, row, users, ms2)
  BY <1>4, <1>5
<1> QED
  BY <1>6 DEF users

\* The update of a record changes neither accounts nor owners.
LEMMA UpdateAdds ==
  ASSUME TypeInv, NEW q \in Run, Track(q, user, member), SameOwner(q, member),
         NEW m \in Members, NEW row \in Row, Valid(row), Current(q, m).state # "none"
  PROVE  LET y == Updated(q, m, row)
         IN  /\ y \in Run /\ SameNotes(y, q) /\ y.calm = q.calm
             /\ Adds(q, y, user, member, row)
             /\ AsUsers(y, user) = AsUsers(q, user)
             /\ \A a : HasRecord(AsMembers(q, member), a) => HasRecord(AsMembers(y, member), a)
             /\ \A n \in Members : AsMembers(y, member)[n].state = AsMembers(q, member)[n].state
<1> DEFINE y == Updated(q, m, row)
           members == AsMembers(q, member)
           members2 == AsMembers(y, member)
<1>1. /\ y \in Run /\ y.next = q.next /\ y.table = q.table /\ y.byUser = q.byUser
      /\ y.users = q.users
      /\ \A n \in Members \ {m} : y.members[n] = q.members[n]
      /\ y.members[m] \in Member
      /\ y.members[m].state = Current(q, m).state
      /\ y.members[m].user = Current(q, m).user
  BY UpdatedType
<1>2. /\ SameFinds(y, q) /\ y.results = q.results
      /\ y.phones = q.phones /\ y.emails = q.emails
  BY UpdatedFields
<1>3. y.calm = q.calm
  BY DEF Updated, Run
<1> HIDE DEF y
<1>4. y.members[m] # None
  BY <1>1, Absent
<1>5. \A n \in Members : members2[n].state = members[n].state /\ members2[n].user = members[n].user
  BY <1>1, <1>4 DEF AsMembers, Current
<1>6. AsUsers(y, user) = AsUsers(q, user)
  BY <1>1 DEF AsUsers
<1>7. \A a : HasRecord(members, a) => HasRecord(members2, a)
  BY <1>5 DEF HasRecord
<1>8. GrowsBy(AsUsers(q, user), AsUsers(y, user), row)
  BY <1>6 DEF GrowsBy
<1>9. KeepsOwnedIn(members, members2)
  BY <1>5 DEF KeepsOwnedIn
<1>10. \A a \in Accounts : y.users[a] # None => user[a].state = "none" /\ y.users[a].state = "live"
  BY <1>1 DEF Track
<1>11. Adds(q, y, user, member, row)
  BY <1>1, <1>2, <1>8, <1>9, <1>10 DEF Adds, SameFinds
<1>12. SameNotes(y, q)
  BY <1>1, <1>2 DEF SameNotes
<1>13. /\ y \in Run /\ SameNotes(y, q) /\ y.calm = q.calm
       /\ Adds(q, y, user, member, row)
       /\ AsUsers(y, user) = AsUsers(q, user)
       /\ \A a : HasRecord(members, a) => HasRecord(members2, a)
       /\ \A n \in Members : members2[n].state = members[n].state
  BY <1>1, <1>3, <1>5, <1>6, <1>7, <1>11, <1>12
<1> QED
  BY <1>13 DEF y

\* An account and a record that are made, and a record for an account.
LEMMA InsertAdds ==
  ASSUME TypeInv, NEW q \in Run, Track(q, user, member), SameOwner(q, member),
         NEW a \in Accounts, NEW m \in Members, NEW row \in Row, Valid(row), NEW new \in BOOLEAN,
         new => user[a].state = "none" /\ q.users[a] = None,
         member[m].state = "none", q.members[m] = None
  PROVE  LET y == Inserted(q, a, m, row, new)
         IN  /\ y \in Run /\ SameNotes(y, q) /\ y.calm = q.calm
             /\ Adds(q, y, user, member, row)
             /\ ~new => AsUsers(y, user) = AsUsers(q, user)
             /\ HasRecord(AsMembers(y, member), a)
             /\ new => /\ AsUsers(y, user)[a].state = "live" /\ AsUsers(y, user)[a].phone = row.phone
                       /\ \A b \in Accounts \ {a} : AsUsers(y, user)[b] = AsUsers(q, user)[b]
<1> DEFINE y == Inserted(q, a, m, row, new)
           members == AsMembers(q, member)
           members2 == AsMembers(y, member)
           users == AsUsers(q, user)
           users2 == AsUsers(y, user)
           account == [state |-> "live", phone |-> row.phone, email |-> row.email, by |-> "sync"]
<1>1. /\ y \in Run /\ y.next = q.next /\ y.table = q.table
      /\ \A b \in Accounts \ {a} : y.users[b] = q.users[b] /\ y.byUser[b] = q.byUser[b]
      /\ y.byUser[a] = m
      /\ ~new => y.users = q.users
      /\ \A n \in Members \ {m} : y.members[n] = q.members[n]
      /\ y.members[m] \in Member /\ y.members[m].state = "live" /\ y.members[m].user = a
  BY InsertedType
<1>2. InsertedLike(y, q, a, m, row, new)
  BY InsertedFields
<1>3. y.calm = q.calm
  BY DEF Inserted, Run
<1> HIDE DEF y
<1>4. /\ y.results = q.results /\ y.phones = q.phones /\ y.emails = q.emails
      /\ y.users[a] = IF new THEN account ELSE q.users[a]
      /\ \A p \in Phones : p # row.phone => y.byPhone[p] = q.byPhone[p]
      /\ \A e \in Emails : (row.email # None => e # Lower[row.email]) => y.byEmail[e] = q.byEmail[e]
  BY <1>2 DEF InsertedLike
<1>5. y.members[m] # None
  BY <1>1, Absent
<1>6. account \in User /\ account.state = "live" /\ account.phone = row.phone /\ account.email = row.email
  BY DEF User, Row, Opt
<1>7. account # None
  BY <1>6, Absent
<1> HIDE DEF account
<1>8. /\ members2[m].state = "live" /\ members2[m].user = a /\ members[m].state = "none"
      /\ \A n \in Members \ {m} : members2[n] = members[n]
  BY <1>1, <1>5 DEF AsMembers
<1>9. /\ new => users2[a] = account /\ users[a].state = "none"
      /\ ~new => users2 = users
      /\ \A b \in Accounts \ {a} : users2[b] = users[b]
  BY <1>1, <1>4, <1>7 DEF AsUsers
<1>10. \A b \in Accounts : y.users[b] # None => user[b].state = "none" /\ y.users[b].state = "live"
  <2>1. \A b \in Accounts : q.users[b] # None => user[b].state = "none" /\ q.users[b].state = "live"
    BY DEF Track
  <2> QED
    BY <1>1, <1>4, <1>6, <2>1
<1> HIDE DEF members, members2, users, users2
<1>11. \A b \in Accounts : \/ y.byUser[b] = q.byUser[b]
                           \/ members2[y.byUser[b]].state # "none" /\ members2[y.byUser[b]].user = b
  <2>1. members2[y.byUser[a]].state # "none" /\ members2[y.byUser[a]].user = a
    BY <1>1, <1>8
  <2>2. ASSUME NEW b \in Accounts, b # a
        PROVE  y.byUser[b] = q.byUser[b]
    BY <1>1, <2>2
  <2>3. ASSUME NEW b \in Accounts, b = a
        PROVE  members2[y.byUser[b]].state # "none" /\ members2[y.byUser[b]].user = b
    BY <2>1, <2>3
  <2> QED
    BY <2>2, <2>3
<1>12. GrowsBy(users, users2, row)
  BY <1>6, <1>9 DEF GrowsBy
<1>13. KeepsOwnedIn(members, members2)
  BY <1>8 DEF KeepsOwnedIn
<1>14. Adds(q, y, user, member, row)
  BY <1>4, <1>10, <1>11, <1>12, <1>13 DEF Adds, members, members2, users, users2
<1>15. SameNotes(y, q)
  BY <1>1, <1>4 DEF SameNotes
<1>16. HasRecord(members2, a)
  BY <1>8 DEF HasRecord
<1>17. /\ y \in Run /\ SameNotes(y, q) /\ y.calm = q.calm
       /\ Adds(q, y, user, member, row)
       /\ ~new => users2 = users
       /\ HasRecord(members2, a)
       /\ new => /\ users2[a].state = "live" /\ users2[a].phone = row.phone
                 /\ \A b \in Accounts \ {a} : users2[b] = users[b]
  BY <1>1, <1>3, <1>6, <1>9, <1>14, <1>15, <1>16
<1> QED
  BY <1>17 DEF y, members2, users, users2

\* The row of an account that is made: its number is that account's only.
LEMMA QuietMade ==
  ASSUME NEW us, NEW us2, NEW ms, NEW table, NEW row, NEW a \in Accounts,
         Numbered(us, row.phone) = {}, us2[a].state = "live", us2[a].phone = row.phone,
         \A b \in Accounts \ {a} : us2[b] = us[b], HasRecord(ms, a)
  PROVE  Quiet(table, row, us2, ms)
<1>1. Numbered(us2, row.phone) = {a}
  <2>1. \A b \in Accounts : b \notin Numbered(us, row.phone)
    OBVIOUS
  <2>2. \A b \in Accounts : b \in Numbered(us2, row.phone) <=> b = a
    BY <2>1 DEF Numbered
  <2>3. Numbered(us2, row.phone) \subseteq Accounts
    BY DEF Numbered
  <2> QED
    BY <2>2, <2>3
<1>2. Finder({a}) = a
  <2>1. {a} \in SUBSET Accounts
    OBVIOUS
  <2>2. OneOf({a}, Finder({a}))
    BY <2>1, FinderOf
  <2> QED
    BY <2>2 DEF OneOf
<1>3. a # None
  BY Parameters
<1>4. Finder(Numbered(us2, row.phone)) = a
  BY <1>1, <1>2
<1> QED
  BY <1>3, <1>4 DEF Quiet

\* A row that a unique index refuses: another account has its number or its
\* address, or its account has a record.
LEMMA QuietRefused ==
  ASSUME NEW q \in Run, Track(q, user, member), SameOwner(q, member),
         NEW row \in Row, Valid(row), ~Seen(q, row), Alone(AsUsers(q, user)),
         NEW r \in Runners, q = run[r],
         \A s \in Runners \ {r} : /\ \A a \in Accounts : run[s].users[a] = None
                                  /\ \A m \in Members : run[s].members[m] = None,
         Refused(q, row)
  PROVE  Quiet(q.table, row, AsUsers(q, user), AsMembers(q, member))
<1> DEFINE users == AsUsers(q, user)
           members == AsMembers(q, member)
           u == Matched(q, row).user
<1>1. CASE u = None /\ ~(PhoneFree(row.phone) /\ EmailFree(row.email))
  <2> DEFINE p == Finder(Numbered(users, row.phone))
             found == AddressedBy(users, q.table, row)
             e == IF row.email = None THEN None ELSE q.byEmail[Lower[row.email]]
  <2>1. /\ OneOf(found, e) /\ found \in SUBSET Accounts /\ u = (IF p # None THEN p ELSE e)
    BY Finding
  <2>2. p = None /\ found = {}
    <3> HIDE DEF p, found, e, u
    <3> QED
      BY <1>1, <2>1, Parameters DEF OneOf
  <2>3. \A a \in Accounts : /\ q.users[a] = None => users[a] = user[a]
                            /\ q.users[a] # None => users[a] = q.users[a] /\ user[a].state = "none"
                                                    /\ q.users[a].state = "live"
    BY DEF AsUsers, Track
  <2>4. \A s \in Runners, a \in Accounts : run[s].users[a] # None => s = r
    OBVIOUS
  <2> HIDE DEF users
  <2>5. Used(users, row)
    <3>1. CASE ~PhoneFree(row.phone)
      <4>1. \E a \in Accounts : users[a].state # "none" /\ users[a].phone = row.phone
        BY <2>3, <2>4, <3>1 DEF PhoneFree
      <4> QED
        BY <4>1 DEF Used
    <3>2. CASE ~EmailFree(row.email)
      <4>1. row.email # None /\ \E a \in Accounts : users[a].state # "none" /\ users[a].email = row.email
        BY <2>3, <2>4, <3>2 DEF EmailFree
      <4> QED
        BY <4>1 DEF Used
    <3> QED
      BY <1>1, <3>1, <3>2
  <2>6. Quiet(q.table, row, users, members)
    BY <2>2, <2>5 DEF Quiet
  <2> QED
    BY <2>6 DEF users
<1>2. CASE u # None /\ ~Unlinked(u)
  <2>1. HasRecord(members, u)
    <3>0. u \in Opt(Accounts)
      BY MatchedType
    <3> HIDE DEF u
    <3>1. ASSUME NEW m \in Members, member[m].state # "none", member[m].user = u
          PROVE  members[m].state # "none" /\ members[m].user = u
      BY <1>2, <3>1 DEF AsMembers, SameOwner
    <3>2. ASSUME NEW s \in Runners, NEW m \in Members, run[s].members[m] # None, run[s].members[m].user = u
          PROVE  members[m].state # "none" /\ members[m].user = u
      <4>1. q.members[m] # None /\ q.members[m].user = u
        BY <3>2
      <4> QED
        BY <4>1 DEF AsMembers, SameOwner
    <3>3. \E m \in Members : members[m].state # "none" /\ members[m].user = u
      <4> HIDE DEF members
      <4> QED
        BY <1>2, <3>1, <3>2 DEF Unlinked
    <3> QED
      BY <3>3 DEF HasRecord
  <2> QED
    BY <1>2, <2>1, QuietOwned
<1> QED
  BY <1>1, <1>2 DEF Refused

\* A row whose number and address are of two accounts.
LEMMA QuietClash ==
  ASSUME NEW q \in Run, NEW us, NEW ms, NEW ms2, Track(q, us, ms),
         NEW row \in Row, Valid(row), ~Seen(q, row), Alone(AsUsers(q, us)),
         Matched(q, row).clash
  PROVE  Quiet(q.table, row, AsUsers(q, us), ms2)
<1> DEFINE users == AsUsers(q, us)
           p == Finder(Numbered(users, row.phone))
           found == AddressedBy(users, q.table, row)
           e == IF row.email = None THEN None ELSE q.byEmail[Lower[row.email]]
<1>1. OneOf(found, e) /\ p # None /\ e # None /\ p # e
  BY Finding
<1>2. \A a, b \in found : a = b
  <2>1. \A a, b \in Accounts :
          (/\ users[a].state = "live" /\ users[b].state = "live"
           /\ users[a].email # None /\ users[b].email # None
           /\ Lower[users[a].email] = Lower[users[b].email]) => a = b
    BY DEF Alone
  <2> HIDE DEF users
  <2> QED
    BY <2>1 DEF AddressedBy, Addressed
<1>3. (p # None /\ found # {} /\ p \notin found) => Quiet(q.table, row, users, ms2)
  BY DEF Quiet
<1> HIDE DEF p, found, e
<1>4. e \in found /\ p \notin found
  BY <1>1, <1>2 DEF OneOf
<1> QED
  BY <1>1, <1>3, <1>4

\* A row that would create an account or a record.
Makes(q, row) ==
  LET u == Matched(q, row).user
  IN  /\ Valid(row) /\ ~Seen(q, row) /\ ~Matched(q, row).clash
      /\ \/ u = None /\ PhoneFree(row.phone) /\ EmailFree(row.email)
         \/ u # None /\ Unlinked(u)

\* A quiet one does not, where the run has made no accounts.
LEMMA QuietMakesNone ==
  ASSUME NEW q \in Run, Track(q, user, member), AsUsers(q, user) = user, Alone(user),
         NEW row \in Row, Quiet(q.table, row, user, member)
  PROVE  ~Makes(q, row)
<1> SUFFICES ASSUME Makes(q, row)
             PROVE  FALSE
  OBVIOUS
<1> DEFINE u == Matched(q, row).user
           p == Finder(Numbered(user, row.phone))
           found == AddressedBy(user, q.table, row)
           e == IF row.email = None THEN None ELSE q.byEmail[Lower[row.email]]
<1>1. /\ Valid(row) /\ ~Seen(q, row) /\ ~Matched(q, row).clash
      /\ \/ u = None /\ PhoneFree(row.phone) /\ EmailFree(row.email)
         \/ u # None /\ Unlinked(u)
  BY DEF Makes
<1>2. /\ OneOf(found, e) /\ found \in SUBSET Accounts
      /\ u = (IF p # None THEN p ELSE e)
      /\ Matched(q, row).clash <=> p # None /\ e # None /\ p # e
  BY <1>1, Finding
<1>3. \/ p # None /\ found # {} /\ p \notin found
      \/ p # None /\ HasRecord(member, p)
      \/ p = None /\ found # {} /\ \A a \in found : HasRecord(member, a)
      \/ p = None /\ found = {} /\ Used(user, row)
  BY DEF Quiet
<1>4. \A a : HasRecord(member, a) => ~Unlinked(a)
  BY DEF HasRecord, Unlinked
<1>5. Used(user, row) => ~(PhoneFree(row.phone) /\ EmailFree(row.email))
  BY DEF Used, PhoneFree, EmailFree
<1> HIDE DEF u, p, found, e
<1>6. None \notin found
  BY <1>2, Parameters
<1>7. CASE p # None /\ found # {} /\ p \notin found
  BY <1>1, <1>2, <1>7, <1>6 DEF OneOf
<1>8. CASE p # None /\ HasRecord(member, p)
  BY <1>1, <1>2, <1>4, <1>8
<1>9. CASE p = None /\ found # {} /\ \A a \in found : HasRecord(member, a)
  BY <1>1, <1>2, <1>4, <1>6, <1>9 DEF OneOf
<1>10. CASE p = None /\ found = {} /\ Used(user, row)
  BY <1>1, <1>2, <1>5, <1>10 DEF OneOf
<1> QED
  BY <1>3, <1>7, <1>8, <1>9, <1>10

-----------------------------------------------------------------------------
(* A row of a run: what it leaves of what the run knows.                   *)

\* The row creates nothing.
SameStates(q, x, ms) ==
  /\ x.users = q.users
  /\ \A m \in Members : AsMembers(x, ms)[m].state = AsMembers(q, ms)[m].state

\* x is the run q after its row, reported as res.
RowOn(q, x, row, res) ==
  /\ x \in Run /\ x.table = q.table /\ x.results = Append(q.results, res)
  /\ Valid(row) => (res = "skipped" <=> Seen(q, row))
  /\ x.at \in {"rows", "commit"} /\ (x.at = "commit" => Len(x.results) = Len(x.table))
  /\ x.calm => q.calm
  /\ Track(q, user, member) =>
       /\ x.calm => Track(x, user, member)
       /\ SameStates(q, x, member) \/ Makes(q, row)

\* What is so of a run that is at a row.
LEMMA RowFacts ==
  ASSUME IInv, TracedInv, NEW r \in Runners, run[r].at = "rows"
  PROVE  LET q == run[r]
             row == q.table[q.next]
         IN  /\ TypeInv /\ q \in Run /\ AtNext(q) /\ InTable(q) /\ SameOwner(q, member)
             /\ Found(q, member) /\ row \in Row
             /\ Valid(row) /\ ~Seen(q, row) => Due(q, row)
             /\ q.next = Len(q.results) + 1 /\ DOMAIN q.results \subseteq DOMAIN q.table
             /\ \A s \in Runners \ {r} : /\ \A a \in Accounts : run[s].users[a] = None
                                         /\ \A m \in Members : run[s].members[m] = None
<1> DEFINE q == run[r]
           row == q.table[q.next]
<1>1. TypeInv /\ q \in Run /\ Sound(q, member, overlap) /\ Traced(q, user) /\ row \in Row
  BY AtRow DEF TracedInv
<1>2. AtNext(q) /\ InTable(q) /\ SameOwner(q, member) /\ Found(q, member)
  BY <1>1 DEF Sound, Traced
<1>3. q.next = Len(q.results) + 1 /\ DOMAIN q.results \subseteq DOMAIN q.table
  BY <1>2 DEF AtNext
<1>4. ASSUME NEW s \in Runners \ {r}
      PROVE  /\ \A a \in Accounts : run[s].users[a] = None
             /\ \A m \in Members : run[s].members[m] = None
  <2>1. run[s].at \notin Holding
    BY DEF IInv, OneHolds, Holding
  <2>2. Sound(run[s], member, overlap)
    BY DEF IInv, Runs
  <2>3. run[s].at \in {"idle", "lock"} /\ Fresh(run[s])
    BY <2>1, <2>2, SoundRun DEF Sound
  <2> QED
    BY <2>3 DEF Fresh
<1>5. Valid(row) /\ ~Seen(q, row) => Due(q, row)
  BY <1>1, <1>2 DEF Due
<1> QED
  BY <1>1, <1>2, <1>3, <1>4, <1>5

\* A row that is noted after what it wrote.
LEMMA NotedRow ==
  ASSUME NEW q, NEW row, Due(q, row), DOMAIN q.results \subseteq DOMAIN q.table,
         NEW y, NEW x, NEW res, NotedAs(q, y, x, row, res), y.calm = q.calm,
         Track(q, user, member) =>
           /\ Adds(q, y, user, member, row)
           /\ Alone(AsUsers(y, user)) =>
                Quiet(q.table, row, AsUsers(y, user), AsMembers(y, member))
           /\ SameStates(q, y, member) \/ Makes(q, row)
  PROVE  RowOn(q, x, row, res)
<1>1. q \in Run /\ Valid(row) /\ ~Seen(q, row)
  BY DEF Due
<1>2. /\ x \in Run /\ Notes(q, x, row, res)
      /\ x.byPhone = y.byPhone /\ x.byEmail = y.byEmail /\ x.byUser = y.byUser
      /\ x.users = y.users /\ x.members = y.members /\ x.calm = y.calm
      /\ x.at \in {"rows", "commit"} /\ (x.at = "commit" => Len(x.results) = Len(x.table))
  BY DEF NotedAs
<1>3. x.table = q.table /\ x.results = Append(q.results, res) /\ res # "skipped"
  BY <1>2 DEF Notes
<1>4. AsUsers(x, user) = AsUsers(y, user) /\ AsMembers(x, member) = AsMembers(y, member)
  BY <1>2 DEF AsUsers, AsMembers
<1>5. ASSUME Track(q, user, member)
      PROVE  Track(x, user, member) /\ (SameStates(q, x, member) \/ Makes(q, row))
  <2>1. Adds(q, x, user, member, row)
    BY <1>2, <1>5, AddsAlike
  <2>2. Alone(AsUsers(x, user)) => Quiet(q.table, row, AsUsers(x, user), AsMembers(x, member))
    BY <1>4, <1>5
  <2>3. Track(x, user, member)
    BY <1>1, <1>2, <1>5, <2>1, <2>2, TrackRow
  <2>4. SameStates(q, y, member) => SameStates(q, x, member)
    BY <1>2, <1>4 DEF SameStates
  <2> QED
    BY <1>5, <2>3, <2>4
<1> QED
  BY <1>1, <1>2, <1>3, <1>5 DEF RowOn

\* A row that is passed over.
LEMMA PassedRow ==
  ASSUME NEW q \in Run, AtNext(q), NEW row \in Row, row = q.table[q.next],
         NEW res \in {"skipped", "failed"},
         ~Valid(row) \/ (Seen(q, row) /\ res = "skipped")
  PROVE  RowOn(q, Ends(q, res), row, res)
<1> DEFINE x == Ends(q, res)
<1>r. res \in {"insert", "link", "update", "skipped", "failed"}
  OBVIOUS
<1>1. /\ x \in Run /\ x.at = (IF q.next = Len(q.table) THEN "commit" ELSE "rows")
  BY <1>r, EndsType
<1>2. /\ SameFinds(x, q) /\ SameWrites(x, q)
      /\ x.phones = q.phones /\ x.emails = q.emails
      /\ x.results = Append(q.results, res)
  BY <1>r, EndsFields
<1>3. x.calm = q.calm
  BY EndsCalm
<1> HIDE DEF x
<1>4. /\ x.table = q.table /\ x.byPhone = q.byPhone /\ x.byEmail = q.byEmail
      /\ x.byUser = q.byUser /\ x.users = q.users /\ x.members = q.members
  BY <1>2 DEF SameFinds, SameWrites
<1>5. q.next = Len(q.results) + 1
  BY DEF AtNext
<1>6. Len(x.results) = q.next
  <2>1. q.results \in Seq({"insert", "link", "update", "skipped", "failed"})
    BY DEF Run
  <2>2. Len(Append(q.results, res)) = Len(q.results) + 1
    BY <1>r, <2>1
  <2> QED
    BY <1>2, <1>5, <2>2
<1>7. AsUsers(x, user) = AsUsers(q, user) /\ AsMembers(x, member) = AsMembers(q, member)
  BY <1>4 DEF AsUsers, AsMembers
<1>8. ASSUME Track(q, user, member)
      PROVE  Track(x, user, member)
  <2>1. Listing(q)
    BY <1>8 DEF Track
  <2>2. Listing(x) /\ Imported(x) = Imported(q)
    BY <1>1, <1>2, <1>4, <1>5, <2>1, ListingPassed
  <2> QED
    BY <1>2, <1>4, <1>7, <1>8, <2>2 DEF Track
<1>9. SameStates(q, x, member)
  BY <1>4, <1>7 DEF SameStates
<1>10. RowOn(q, x, row, res)
  BY <1>1, <1>2, <1>3, <1>4, <1>6, <1>8, <1>9 DEF RowOn
<1> QED
  BY <1>10 DEF x

\* The step of a run at a row.
AtRows(r) ==
  LET q == run[r]
      row == q.table[q.next]
  IN  \E x \in Run, res \in {"insert", "link", "update", "skipped", "failed"} :
        run' = [run EXCEPT ![r] = x] /\ RowOn(q, x, row, res)

LEMMA PassOn ==
  ASSUME IInv, TracedInv, NEW r \in Runners, PassRow(r)
  PROVE  AtRows(r)
<1> DEFINE q == run[r]
           row == q.table[q.next]
<1>1. q.at = "rows"
  BY DEF PassRow
<1>2. /\ q \in Run /\ AtNext(q) /\ row \in Row /\ DOMAIN q.results \subseteq DOMAIN q.table
      /\ Valid(row) /\ ~Seen(q, row) => Due(q, row)
  BY <1>1, RowFacts
<1>3. \/ ~Valid(row) /\ run' = [run EXCEPT ![r] = Ends(q, "failed")]
      \/ Valid(row) /\ Seen(q, row) /\ run' = [run EXCEPT ![r] = Ends(q, "skipped")]
      \/ /\ Valid(row) /\ ~Seen(q, row) /\ Matched(q, row).clash
         /\ run' = [run EXCEPT ![r] = Ends(Noted(q, row), "failed")]
  BY DEF PassRow
<1>4. \A x \in Run, res \in {"insert", "link", "update", "skipped", "failed"} :
        run' = [run EXCEPT ![r] = x] /\ RowOn(q, x, row, res) => AtRows(r)
  BY DEF AtRows
<1>r. row = q.table[q.next]
  OBVIOUS
<1> HIDE DEF q, row
<1>5. CASE ~Valid(row) /\ run' = [run EXCEPT ![r] = Ends(q, "failed")]
  <2>1. RowOn(q, Ends(q, "failed"), row, "failed")
    BY <1>2, <1>5, <1>r, PassedRow
  <2> QED
    BY <1>4, <1>5, <2>1 DEF RowOn
<1>6. CASE Valid(row) /\ Seen(q, row) /\ run' = [run EXCEPT ![r] = Ends(q, "skipped")]
  <2>1. RowOn(q, Ends(q, "skipped"), row, "skipped")
    BY <1>2, <1>6, <1>r, PassedRow
  <2> QED
    BY <1>4, <1>6, <2>1 DEF RowOn
<1>7. CASE /\ Valid(row) /\ ~Seen(q, row) /\ Matched(q, row).clash
           /\ run' = [run EXCEPT ![r] = Ends(Noted(q, row), "failed")]
  <2> DEFINE x == Ends(Noted(q, row), "failed")
  <2>1. Due(q, row) /\ SameNotes(q, q)
    BY <1>2, <1>7 DEF SameNotes
  <2>2. NotedAs(q, q, x, row, "failed")
    BY <1>2, <2>1, NotesRow
  <2>3. ASSUME Track(q, user, member)
        PROVE  /\ Adds(q, q, user, member, row)
               /\ Alone(AsUsers(q, user)) =>
                    Quiet(q.table, row, AsUsers(q, user), AsMembers(q, member))
               /\ SameStates(q, q, member)
    <3>1. Adds(q, q, user, member, row)
      BY <1>2, <2>3, AddsNothing
    <3>2. ASSUME Alone(AsUsers(q, user))
          PROVE  Quiet(q.table, row, AsUsers(q, user), AsMembers(q, member))
      <4>1. q \in Run /\ row \in Row /\ Valid(row) /\ ~Seen(q, row) /\ Matched(q, row).clash
        BY <1>2, <1>7
      <4> QED
        BY <2>3, <3>2, <4>1, QuietClash
    <3> QED
      BY <3>1, <3>2 DEF SameStates
  <2>4. RowOn(q, x, row, "failed")
    BY <1>2, <2>1, <2>2, <2>3, NotedRow
  <2> QED
    BY <1>4, <1>7, <2>4 DEF RowOn
<1> QED
  BY <1>3, <1>5, <1>6, <1>7

LEMMA UpdateOn ==
  ASSUME IInv, TracedInv, NEW r \in Runners, UpdateRow(r)
  PROVE  AtRows(r)
<1> DEFINE q == run[r]
           row == q.table[q.next]
           u == Matched(q, row).user
           m == q.byUser[u]
           y == Updated(q, m, row)
           x == Ends(Noted(y, row), "update")
<1>1. /\ q.at = "rows" /\ Valid(row) /\ ~Seen(q, row) /\ u # None /\ m # None
      /\ run' = [run EXCEPT ![r] = x]
  BY DEF UpdateRow, Writes
<1>2. /\ TypeInv /\ q \in Run /\ DOMAIN q.results \subseteq DOMAIN q.table /\ Due(q, row)
      /\ row \in Row /\ SameOwner(q, member) /\ Found(q, member)
  BY <1>1, RowFacts
<1>3. u \in Accounts /\ m \in Members
  <2>1. u \in Opt(Accounts)
    BY <1>1, <1>2, MatchedType
  <2> HIDE DEF u
  <2>2. u \in Accounts
    BY <1>1, <2>1 DEF Opt
  <2>3. m \in Opt(Members)
    BY <1>2, <2>2 DEF Run
  <2> QED
    BY <1>1, <2>2, <2>3 DEF Opt
<1>4. Current(q, m).state # "none"
  <2> HIDE DEF u
  <2> QED
    BY <1>1, <1>2, <1>3 DEF SameOwner, Found, Current
<1>5. \A z \in Run, res \in {"insert", "link", "update", "skipped", "failed"} :
        run' = [run EXCEPT ![r] = z] /\ RowOn(q, z, row, res) => AtRows(r)
  BY DEF AtRows
<1>m. m = q.byUser[u] /\ u = Matched(q, row).user
  OBVIOUS
<1> HIDE DEF q, row, u, m
<1>6. y \in Run /\ SameNotes(y, q) /\ y.calm = q.calm
  <2>1. y \in Run /\ y.next = q.next
    BY <1>1, <1>2, <1>3, UpdatedType
  <2>2. /\ SameFinds(y, q) /\ y.results = q.results
        /\ y.phones = q.phones /\ y.emails = q.emails
    BY <1>1, <1>2, <1>3, UpdatedFields
  <2>3. y.calm = q.calm
    BY <1>2 DEF Updated, Run
  <2> QED
    BY <2>1, <2>2, <2>3 DEF SameNotes, SameFinds
<1>7. ASSUME Track(q, user, member)
      PROVE  /\ Adds(q, y, user, member, row)
             /\ Alone(AsUsers(y, user)) =>
                  Quiet(q.table, row, AsUsers(y, user), AsMembers(y, member))
             /\ SameStates(q, y, member)
  <2>1. /\ Adds(q, y, user, member, row)
        /\ AsUsers(y, user) = AsUsers(q, user)
        /\ \A a : HasRecord(AsMembers(q, member), a) => HasRecord(AsMembers(y, member), a)
        /\ \A n \in Members : AsMembers(y, member)[n].state = AsMembers(q, member)[n].state
    BY <1>1, <1>2, <1>3, <1>4, <1>7, UpdateAdds
  <2>2. HasRecord(AsMembers(q, member), u)
    <3>1. AsMembers(q, member)[m].state # "none" /\ AsMembers(q, member)[m].user = u
      BY <1>1, <1>3, <1>7, <1>m DEF Track
    <3> QED
      BY <1>3, <3>1 DEF HasRecord
  <2>3. HasRecord(AsMembers(y, member), u)
    BY <2>1, <2>2
  <2>4. y.users = q.users
    BY <1>1, <1>2, <1>3, UpdatedType
  <2> HIDE DEF y
  <2>5. Alone(AsUsers(q, user)) => Quiet(q.table, row, AsUsers(q, user), AsMembers(y, member))
    BY <1>1, <1>2, <1>7, <1>m, <2>3, QuietOwned
  <2> QED
    BY <2>1, <2>4, <2>5 DEF SameStates
<1> HIDE DEF y
<1>8. NotedAs(q, y, x, row, "update")
  BY <1>2, <1>6, NotesRow
<1> HIDE DEF x
<1>9. RowOn(q, x, row, "update")
  BY <1>2, <1>6, <1>7, <1>8, NotedRow
<1> QED
  BY <1>1, <1>5, <1>9 DEF RowOn

LEMMA MadeOn ==
  ASSUME IInv, TracedInv, NEW r \in Runners, InsertRow(r) \/ LinkRow(r)
  PROVE  AtRows(r)
<1> DEFINE q == run[r]
           row == q.table[q.next]
           u == Matched(q, row).user
<1>1. q.at = "rows" /\ Valid(row) /\ ~Seen(q, row) /\ ~Matched(q, row).clash
  BY DEF InsertRow, LinkRow, Writes
<1>2. /\ TypeInv /\ q \in Run /\ DOMAIN q.results \subseteq DOMAIN q.table /\ Due(q, row)
      /\ row \in Row /\ SameOwner(q, member)
  BY <1>1, RowFacts
<1>3. u \in Opt(Accounts)
  BY <1>1, <1>2, MatchedType
<1>4. PICK a \in Accounts, m \in Members, new \in BOOLEAN, res \in {"insert", "link"} :
        /\ NewMember(m)
        /\ new => NewAccount(a) /\ u = None /\ PhoneFree(row.phone) /\ EmailFree(row.email)
        /\ ~new => u = a /\ Unlinked(a)
        /\ run' = [run EXCEPT ![r] = Ends(Noted(Inserted(q, a, m, row, new), row), res)]
  <2>1. CASE InsertRow(r)
    BY <2>1 DEF InsertRow
  <2>2. CASE LinkRow(r)
    <3>1. u \in Accounts
      BY <1>3, <2>2 DEF LinkRow, Opt
    <3> QED
      BY <2>2, <3>1 DEF LinkRow
  <2> QED
    BY <2>1, <2>2
<1>5. \A z \in Run, k \in {"insert", "link", "update", "skipped", "failed"} :
        run' = [run EXCEPT ![r] = z] /\ RowOn(q, z, row, k) => AtRows(r)
  BY DEF AtRows
<1>6. /\ member[m].state = "none" /\ q.members[m] = None
      /\ new => user[a].state = "none" /\ q.users[a] = None
  BY <1>4 DEF NewMember, NewAccount, Unlocked
<1>7. Makes(q, row)
  <2>1. a # None
    BY Parameters
  <2> QED
    BY <1>1, <1>4, <2>1 DEF Makes
<1>u. u = Matched(q, row).user
  OBVIOUS
<1> HIDE DEF q, row, u
<1> DEFINE y == Inserted(q, a, m, row, new)
           x == Ends(Noted(y, row), res)
<1>8. y \in Run /\ SameNotes(y, q) /\ y.calm = q.calm
  <2>1. y \in Run /\ y.next = q.next /\ y.table = q.table
    BY <1>1, <1>2, InsertedType
  <2>2. InsertedLike(y, q, a, m, row, new)
    BY <1>1, <1>2, InsertedFields
  <2>3. y.calm = q.calm
    BY <1>2 DEF Inserted, Run
  <2> HIDE DEF y
  <2>4. y.results = q.results /\ y.phones = q.phones /\ y.emails = q.emails
    BY <2>2 DEF InsertedLike
  <2> QED
    BY <2>1, <2>3, <2>4 DEF SameNotes
<1>9. ASSUME Track(q, user, member)
      PROVE  /\ Adds(q, y, user, member, row)
             /\ Alone(AsUsers(y, user)) =>
                  Quiet(q.table, row, AsUsers(y, user), AsMembers(y, member))
  <2>1. /\ Adds(q, y, user, member, row)
        /\ ~new => AsUsers(y, user) = AsUsers(q, user)
        /\ HasRecord(AsMembers(y, member), a)
        /\ new => /\ AsUsers(y, user)[a].state = "live" /\ AsUsers(y, user)[a].phone = row.phone
                  /\ \A b \in Accounts \ {a} : AsUsers(y, user)[b] = AsUsers(q, user)[b]
    BY <1>1, <1>2, <1>6, <1>9, InsertAdds
  <2> HIDE DEF y
  <2>2. CASE ~new
    <3>1. u = a /\ a # None
      BY <1>4, <2>2, Parameters
    <3> QED
      BY <1>1, <1>2, <1>9, <1>u, <2>1, <2>2, <3>1, QuietOwned
  <2>3. CASE new
    <3> DEFINE users == AsUsers(q, user)
               p == Finder(Numbered(users, row.phone))
               found == AddressedBy(users, q.table, row)
               e == IF row.email = None THEN None ELSE q.byEmail[Lower[row.email]]
    <3>1. /\ OneOf(Numbered(users, row.phone), p) /\ u = (IF p # None THEN p ELSE e)
      BY <1>1, <1>2, <1>9, <1>u, Finding
    <3>2. Numbered(users, row.phone) \subseteq Accounts
      BY DEF Numbered
    <3>3. Numbered(users, row.phone) = {}
      <4> HIDE DEF p, users, e
      <4> QED
        BY <1>4, <2>3, <3>1, <3>2, Parameters DEF OneOf
    <3>4. Quiet(q.table, row, AsUsers(y, user), AsMembers(y, member))
      BY <2>1, <2>3, <3>3, QuietMade
    <3> QED
      BY <2>1, <3>4
  <2> QED
    BY <2>2, <2>3
<1> HIDE DEF y
<1>10. NotedAs(q, y, x, row, res)
  BY <1>2, <1>8, NotesRow
<1> HIDE DEF x
<1>11. RowOn(q, x, row, res)
  BY <1>2, <1>7, <1>8, <1>9, <1>10, NotedRow
<1>12. run' = [run EXCEPT ![r] = x]
  BY <1>4 DEF x, y
<1> QED
  BY <1>5, <1>11, <1>12 DEF RowOn

LEMMA FailOn ==
  ASSUME IInv, TracedInv, NEW r \in Runners, FailRow(r)
  PROVE  AtRows(r)
<1> DEFINE q == run[r]
           row == q.table[q.next]
           f == Failed(q, row)
<1>1. /\ q.at = "rows" /\ Valid(row) /\ ~Seen(q, row)
      /\ \/ Refused(q, row) /\ run' = [run EXCEPT ![r] = f]
         \/ run' = [run EXCEPT ![r] = [f EXCEPT !.calm = FALSE]]
  BY DEF FailRow, Writes
<1>2. /\ TypeInv /\ q \in Run /\ DOMAIN q.results \subseteq DOMAIN q.table /\ Due(q, row)
      /\ row \in Row /\ SameOwner(q, member)
      /\ \A s \in Runners \ {r} : /\ \A a \in Accounts : run[s].users[a] = None
                                  /\ \A m \in Members : run[s].members[m] = None
  BY <1>1, RowFacts
<1>3. \A z \in Run, res \in {"insert", "link", "update", "skipped", "failed"} :
        run' = [run EXCEPT ![r] = z] /\ RowOn(q, z, row, res) => AtRows(r)
  BY DEF AtRows
<1>4. NotedAs(q, q, f, row, "failed")
  BY <1>2, NotesFailed
<1>q. q = run[r]
  OBVIOUS
<1> HIDE DEF q, row, f
<1>5. CASE Refused(q, row) /\ run' = [run EXCEPT ![r] = f]
  <2>1. ASSUME Track(q, user, member)
        PROVE  /\ Adds(q, q, user, member, row)
               /\ Alone(AsUsers(q, user)) =>
                    Quiet(q.table, row, AsUsers(q, user), AsMembers(q, member))
               /\ SameStates(q, q, member)
    <3>1. Adds(q, q, user, member, row)
      BY <1>2, <2>1, AddsNothing
    <3>2. Alone(AsUsers(q, user)) => Quiet(q.table, row, AsUsers(q, user), AsMembers(q, member))
      BY <1>1, <1>2, <1>5, <1>q, <2>1, QuietRefused
    <3> QED
      BY <3>1, <3>2 DEF SameStates
  <2>2. RowOn(q, f, row, "failed")
    BY <1>2, <1>4, <2>1, NotedRow
  <2> QED
    BY <1>3, <1>5, <2>2 DEF RowOn
<1>6. CASE run' = [run EXCEPT ![r] = [f EXCEPT !.calm = FALSE]]
  <2> DEFINE g == [f EXCEPT !.calm = FALSE]
  <2>1. /\ f \in Run /\ f.users = q.users /\ f.members = q.members
        /\ f.at \in {"rows", "commit"} /\ (f.at = "commit" => Len(f.results) = Len(f.table))
        /\ f.table = q.table /\ f.results = Append(q.results, "failed")
    BY <1>4 DEF NotedAs, Notes
  <2>2. /\ g \in Run /\ g.table = f.table /\ g.results = f.results /\ g.at = f.at
        /\ g.users = f.users /\ g.members = f.members /\ g.calm = FALSE
    BY <2>1 DEF Run
  <2> HIDE DEF g
  <2>3. AsMembers(g, member) = AsMembers(q, member)
    BY <2>1, <2>2 DEF AsMembers
  <2>4. RowOn(q, g, row, "failed")
    BY <1>1, <2>1, <2>2, <2>3 DEF RowOn, SameStates
  <2> QED
    BY <1>3, <1>6, <2>2, <2>4 DEF g
<1> QED
  BY <1>1, <1>5, <1>6

LEMMA RowsOn ==
  ASSUME IInv, TracedInv, NEW r \in Runners,
         PassRow(r) \/ UpdateRow(r) \/ InsertRow(r) \/ LinkRow(r) \/ FailRow(r)
  PROVE  AtRows(r)
BY PassOn, UpdateOn, MadeOn, FailOn

-----------------------------------------------------------------------------
(* Every run knows what it has to; a second import of a sheet follows the  *)
(* first.                                                                  *)

Watch(q, us, ms) ==
  /\ q.at # "idle" => q.table \in Sheets
  /\ q.at \in {"idle", "lock", "index"} => q.phones = {} /\ q.emails = {}
  /\ q.at = "commit" => Len(q.results) = Len(q.table)
  /\ q.at \in {"rows", "commit"} /\ q.calm => Track(q, us, ms)

\* The rows of the sheet that were imported create nothing again.
Settles(table, rows, us, ms) ==
  /\ rows \subseteq DOMAIN table /\ FirstOnes(table, DOMAIN table, rows)
  /\ \A i \in rows : Quiet(table, table[i], us, ms)

\* A run that imports the same rows, and has created nothing.
Follows(q, rows, ms) ==
  /\ \A a \in Accounts : q.users[a] = None
  /\ \A m \in Members : AsMembers(q, ms)[m].state = ms[m].state
  /\ \A i \in DOMAIN q.results : i \in Imported(q) <=> i \in rows

Again(q, table) == q.at \in {"rows", "commit"} /\ q.calm /\ q.table = table

StillQuiet ==
  settled # None /\ Alone(user) =>
    \E rows : /\ Settles(settled, rows, user, member)
              /\ \A r \in Runners : Again(run[r], settled) => Follows(run[r], rows, member)

RerunInv ==
  /\ sheet \in Sheets
  /\ \A r \in Runners : Watch(run[r], user, member)
  /\ settled # None => edit.at = "idle"
  /\ StillQuiet

\* Rows follow on.
LEMMA FollowsOn ==
  ASSUME IInv, TracedInv, NEW r \in Runners, run[r].at = "rows", run[r].calm,
         Track(run[r], user, member), Alone(user),
         NEW rows, Settles(run[r].table, rows, user, member), Follows(run[r], rows, member),
         NEW x \in Run, NEW res, RowOn(run[r], x, run[r].table[run[r].next], res)
  PROVE  Follows(x, rows, member)
<1> DEFINE q == run[r]
           k == Len(q.results) + 1
           row == q.table[k]
<1>1. /\ TypeInv /\ q \in Run /\ InTable(q) /\ row \in Row
      /\ q.next = k /\ DOMAIN q.results \subseteq DOMAIN q.table
  BY RowFacts
<1>2. /\ x.table = q.table /\ x.results = Append(q.results, res)
      /\ Valid(row) => (res = "skipped" <=> Seen(q, row))
      /\ SameStates(q, x, member) \/ Makes(q, row)
  BY <1>1 DEF RowOn
<1>3. OneOn(q, x, res, k)
  BY <1>1, <1>2, ImportedOn
<1>4. k \in DOMAIN q.table
  BY <1>1 DEF InTable, Run
<1>5. /\ \A a \in Accounts : q.users[a] = None
      /\ \A m \in Members : AsMembers(q, member)[m].state = member[m].state
      /\ \A i \in DOMAIN q.results : i \in Imported(q) <=> i \in rows
  BY DEF Follows
<1>6. /\ rows \subseteq DOMAIN q.table /\ FirstOnes(q.table, DOMAIN q.table, rows)
      /\ \A i \in rows : Quiet(q.table, q.table[i], user, member)
  BY DEF Settles
<1>7. AsUsers(q, user) = user
  BY <1>1, <1>5 DEF AsUsers, TypeInv
<1>l. Listing(q) /\ Track(q, user, member)
  BY DEF Track
<1> HIDE DEF q, k
<1>8. /\ k \in Nat /\ DOMAIN q.results = 1..Len(q.results) /\ Len(q.results) \in Nat
      /\ DOMAIN x.results = DOMAIN q.results \cup {k} /\ k \notin DOMAIN q.results
      /\ \A j \in DOMAIN q.results : j \in Nat /\ j < k
      /\ Imported(x) = Imported(q) \cup
           (IF Valid(row) /\ res # "skipped" THEN {k} ELSE {})
  BY <1>3 DEF OneOn
<1>9. \A j \in DOMAIN q.table : j < k => j \in DOMAIN q.results
  <2>1. \A j \in DOMAIN q.table : j \in Nat /\ j >= 1
    BY <1>1 DEF Run
  <2>2. k = Len(q.results) + 1
    BY DEF k
  <2> QED
    BY <1>8, <2>1, <2>2
<1>10. \A j : j \in Imported(q) <=> j \in rows /\ j < k
  <2>1. Imported(q) \subseteq DOMAIN q.results
    BY DEF Imported
  <2> QED
    BY <1>5, <1>6, <1>8, <1>9, <2>1
<1>11. k \in rows <=> Valid(row) /\ ~Seen(q, row)
  <2>1. k \in rows <=> Valid(row) /\ ~\E j \in rows : j < k /\ Alike(q.table[j], row)
    BY <1>4, <1>6 DEF FirstOnes
  <2>2. Valid(row) => (Seen(q, row) <=> \E j \in Imported(q) : Alike(q.table[j], row))
    BY <1>1, <1>l DEF Listing
  <2> QED
    BY <1>10, <2>1, <2>2
<1>12. ~Makes(q, row)
  <2>1. CASE k \in rows
    <3>1. Quiet(q.table, row, user, member)
      BY <1>6, <2>1
    <3> QED
      BY <1>1, <1>7, <1>l, <3>1, QuietMakesNone
  <2>2. CASE k \notin rows
    BY <1>11, <2>2 DEF Makes
  <2> QED
    BY <2>1, <2>2
<1>13. x.users = q.users /\ \A m \in Members : AsMembers(x, member)[m].state = member[m].state
  BY <1>2, <1>5, <1>12 DEF SameStates
<1>14. \A i \in DOMAIN x.results : i \in Imported(x) <=> i \in rows
  <2>1. k \notin Imported(q)
    BY <1>8 DEF Imported
  <2>2. k \in Imported(x) <=> k \in rows
    BY <1>2, <1>8, <1>11, <2>1
  <2>3. \A i \in DOMAIN q.results : i # k /\ (i \in Imported(x) <=> i \in Imported(q))
    BY <1>8
  <2> QED
    BY <1>5, <1>8, <2>2, <2>3
<1> QED
  BY <1>5, <1>13, <1>14 DEF Follows

\* The step of a run that commits nothing.
LEMMA RerunStep ==
  ASSUME TypeInv, RerunInv, NEW r \in Runners, NEW x, run' = [run EXCEPT ![r] = x],
         UNCHANGED <<sheet, user, member, edit, settled>>, Watch(x, user, member),
         ASSUME NEW rows, settled # None, Alone(user), Settles(settled, rows, user, member),
                Again(run[r], settled) => Follows(run[r], rows, member), Again(x, settled)
         PROVE  Follows(x, rows, member)
  PROVE  RerunInv'
<1>1. run'[r] = x /\ \A s \in Runners \ {r} : run'[s] = run[s]
  BY DEF TypeInv
<1>2. \A s \in Runners : Watch(run'[s], user, member)
  BY <1>1 DEF RerunInv
<1>3. ASSUME settled # None, Alone(user)
      PROVE  \E rows : /\ Settles(settled, rows, user, member)
                       /\ \A s \in Runners : Again(run'[s], settled) => Follows(run'[s], rows, member)
  <2>1. PICK rows : /\ Settles(settled, rows, user, member)
                    /\ \A s \in Runners : Again(run[s], settled) => Follows(run[s], rows, member)
    BY <1>3 DEF RerunInv, StillQuiet
  <2>2. Again(x, settled) => Follows(x, rows, member)
    BY <1>3, <2>1
  <2>3. \A s \in Runners : Again(run'[s], settled) => Follows(run'[s], rows, member)
    BY <1>1, <2>1, <2>2
  <2> QED
    BY <2>1, <2>3
<1>4. StillQuiet'
  BY <1>3 DEF StillQuiet
<1> QED
  BY <1>2, <1>4 DEF RerunInv

LEMMA RowRerun ==
  ASSUME IInv, TracedInv, RerunInv, NEW r \in Runners,
         PassRow(r) \/ UpdateRow(r) \/ InsertRow(r) \/ LinkRow(r) \/ FailRow(r)
  PROVE  RerunInv'
<1> DEFINE q == run[r]
           row == q.table[q.next]
<1>1. q.at = "rows" /\ UNCHANGED <<sheet, user, member, edit, settled>>
  BY DEF PassRow, UpdateRow, InsertRow, LinkRow, FailRow, Writes
<1>2. PICK x \in Run, res \in {"insert", "link", "update", "skipped", "failed"} :
        run' = [run EXCEPT ![r] = x] /\ RowOn(q, x, row, res)
  BY RowsOn DEF AtRows
<1>3. /\ x.table = q.table /\ x.at \in {"rows", "commit"}
      /\ x.at = "commit" => Len(x.results) = Len(x.table)
      /\ x.calm => q.calm
      /\ Track(q, user, member) /\ x.calm => Track(x, user, member)
  BY <1>2 DEF RowOn
<1>4. q.table \in Sheets /\ (q.calm => Track(q, user, member))
  BY <1>1 DEF RerunInv, Watch
<1>5. Watch(x, user, member)
  BY <1>3, <1>4 DEF Watch
<1>6. ASSUME NEW rows, settled # None, Alone(user), Settles(settled, rows, user, member),
             Again(q, settled) => Follows(q, rows, member), Again(x, settled)
      PROVE  Follows(x, rows, member)
  <2>1. q.table = settled /\ q.calm /\ Again(q, settled)
    BY <1>1, <1>3, <1>6 DEF Again
  <2>2. Follows(q, rows, member) /\ Track(q, user, member)
    BY <1>4, <1>6, <2>1
  <2> QED
    BY <1>1, <1>2, <1>6, <2>1, <2>2, FollowsOn
<1>7. TypeInv
  BY DEF IInv
<1> QED
  BY <1>1, <1>2, <1>5, <1>6, <1>7, RerunStep

LEMMA IdleWatched ==
  ASSUME NEW us, NEW ms
  PROVE  Watch(IdleRun, us, ms) /\ \A table : ~Again(IdleRun, table)
BY DEF IdleRun, Watch, Again

LEMMA StartRerun ==
  ASSUME IInv, RerunInv, NEW r \in Runners, StartRun(r) \/ Lock(r) \/ AbortRun(r)
  PROVE  RerunInv'
<1>t. TypeInv
  BY DEF IInv
<1>1. CASE run' = [run EXCEPT ![r] = IdleRun] /\ UNCHANGED <<sheet, user, member, edit, settled>>
  <2>1. Watch(IdleRun, user, member) /\ ~Again(IdleRun, settled)
    BY IdleWatched
  <2> QED
    BY <1>1, <1>t, <2>1, RerunStep
<1>2. CASE StartRun(r)
  <2> DEFINE x == [IdleRun EXCEPT !.at = "lock", !.table = sheet]
  <2>1. x.at = "lock" /\ x.table = sheet /\ x.phones = {} /\ x.emails = {}
    BY DEF IdleRun
  <2>2. run' = [run EXCEPT ![r] = x] /\ UNCHANGED <<sheet, user, member, edit, settled>>
    BY <1>2 DEF StartRun
  <2> HIDE DEF x
  <2>3. Watch(x, user, member) /\ ~Again(x, settled)
    BY <2>1 DEF Watch, Again, RerunInv
  <2> QED
    BY <1>t, <2>2, <2>3, RerunStep
<1>3. CASE run[r].at = "lock" /\ run' = [run EXCEPT ![r] = [run[r] EXCEPT !.at = "index"]]
           /\ UNCHANGED <<sheet, user, member, edit, settled>>
  <2> DEFINE q == run[r]
             x == [q EXCEPT !.at = "index"]
  <2>1. q \in Run /\ q.at = "lock" /\ Watch(q, user, member)
    BY <1>3 DEF IInv, TypeInv, RerunInv
  <2> HIDE DEF q
  <2>2. x.at = "index" /\ x.table = q.table /\ x.phones = q.phones /\ x.emails = q.emails
    BY <2>1 DEF Run
  <2> HIDE DEF x
  <2>3. Watch(x, user, member) /\ ~Again(x, settled)
    BY <2>1, <2>2 DEF Watch, Again
  <2>4. run' = [run EXCEPT ![r] = x]
    BY <1>3 DEF x, q
  <2> QED
    BY <1>3, <1>t, <2>3, <2>4, RerunStep
<1> QED
  BY <1>1, <1>2, <1>3 DEF Lock, AbortRun

LEMMA IndexRerun ==
  ASSUME IInv, TracedInv, RerunInv, NEW r \in Runners, Index(r)
  PROVE  RerunInv'
<1> DEFINE q == run[r]
<1>1. q \in Run /\ Traced(q, user) /\ Fresh(q) /\ q.at = "index" /\ Watch(q, user, member)
      /\ TypeInv
  BY DEF IInv, TypeInv, TracedInv, Runs, Sound, Index, RerunInv
<1>2. PICK byEmail \in [Emails -> Opt(Accounts)] :
        /\ \A e \in Emails : OneOf(WithEmail(q.table, e), byEmail[e])
        /\ run' = [run EXCEPT
             ![r].at = IF q.table = <<>> THEN "commit" ELSE "rows",
             ![r].byPhone = [p \in Phones |-> CHOOSE x \in Opt(Accounts) : OneOf(WithPhone(p), x)],
             ![r].byEmail = byEmail,
             ![r].byUser = [a \in Accounts |-> CHOOSE x \in Opt(Members) : OneOf(RecordOf(a), x)],
             ![r].bags = [m \in Members |-> member[m].bag]]
  BY DEF Index
<1> DEFINE at == IF q.table = <<>> THEN "commit" ELSE "rows"
           byPhone == [p \in Phones |-> CHOOSE x \in Opt(Accounts) : OneOf(WithPhone(p), x)]
           byUser == [a \in Accounts |-> CHOOSE x \in Opt(Members) : OneOf(RecordOf(a), x)]
           bags == [m \in Members |-> member[m].bag]
           n == [q EXCEPT !.at = at, !.byPhone = byPhone, !.byEmail = byEmail,
                          !.byUser = byUser, !.bags = bags]
<1>3. run' = [run EXCEPT ![r] = n]
  BY <1>1, <1>2 DEF TypeInv
<1>4. \A p \in Phones : byPhone[p] = Finder(Numbered(user, p))
  BY DEF Finder, Numbered, WithPhone, LiveUser
<1>5. \A e \in Emails : OneOf(Addressed(user, q.table, e), byEmail[e])
  BY <1>2 DEF Addressed, WithEmail, LiveUser
<1>6. ASSUME NEW a \in Accounts
      PROVE  byUser[a] # None => member[byUser[a]].state # "none" /\ member[byUser[a]].user = a
  <2>1. \E x \in Opt(Members) : OneOf(RecordOf(a), x)
    BY DEF OneOf, Opt, RecordOf
  <2>2. OneOf(RecordOf(a), byUser[a])
    BY <2>1
  <2> HIDE DEF byUser
  <2> QED
    BY <2>2 DEF OneOf, RecordOf, LiveMember
<1>7. at \in {"rows", "commit"} /\ (at = "commit" => q.table = <<>>)
  OBVIOUS
<1> HIDE DEF q, at, byPhone, byUser, bags
<1>8. /\ n.at = at /\ n.table = q.table /\ n.phones = q.phones /\ n.emails = q.emails
      /\ n.results = q.results /\ n.users = q.users /\ n.members = q.members
      /\ n.byPhone = byPhone /\ n.byEmail = byEmail /\ n.byUser = byUser /\ n.calm = q.calm
  BY <1>1 DEF Run
<1> HIDE DEF n
<1>9. /\ q.results = <<>> /\ q.phones = {} /\ q.emails = {} /\ q.table \in Sheets
      /\ \A a \in Accounts : q.users[a] = None
      /\ \A m \in Members : q.members[m] = None
  BY <1>1 DEF Fresh, Traced, AtNext, Watch
<1>10. AsUsers(n, user) = user /\ AsMembers(n, member) = member
  BY <1>1, <1>8, <1>9 DEF AsUsers, AsMembers, TypeInv
<1>11. DOMAIN n.results = {} /\ Imported(n) = {}
  BY <1>8, <1>9 DEF Imported
<1>12. Listing(n)
  BY <1>8, <1>9, <1>11 DEF Listing, FirstOnes, Seen
<1>13. Track(n, user, member)
  <2>1. /\ \A p \in Phones \ n.phones : n.byPhone[p] = Finder(Numbered(user, p))
        /\ \A e \in Emails \ n.emails : OneOf(Addressed(user, n.table, e), n.byEmail[e])
        /\ \A a \in Accounts :
             /\ n.byUser[a] # None => /\ member[n.byUser[a]].state # "none"
                                      /\ member[n.byUser[a]].user = a
             /\ n.users[a] = None
        /\ \A i \in Imported(n) : Quiet(n.table, n.table[i], user, member)
    BY <1>4, <1>5, <1>6, <1>8, <1>9, <1>11
  <2> QED
    BY <1>10, <1>12, <2>1 DEF Track
<1>14. Watch(n, user, member)
  BY <1>7, <1>8, <1>9, <1>13 DEF Watch
<1>15. \A rows : Follows(n, rows, member)
  BY <1>8, <1>9, <1>10, <1>11 DEF Follows
<1>16. UNCHANGED <<sheet, user, member, edit, settled>>
  BY DEF Index
<1> QED
  BY <1>1, <1>3, <1>14, <1>15, <1>16, RerunStep

\* The commit of a run that nothing disturbed settles the rows it imported.
LEMMA CommitRerun ==
  ASSUME IInv, TracedInv, RerunInv, NEW r \in Runners, CommitRun(r)
  PROVE  RerunInv'
<1> DEFINE q == run[r]
<1>1. /\ q \in Run /\ q.at = "commit" /\ AtNext(q) /\ Watch(q, user, member) /\ TypeInv
  BY DEF IInv, TypeInv, TracedInv, Traced, RerunInv, CommitRun
<1>2. /\ user' = AsUsers(q, user) /\ member' = AsMembers(q, member)
      /\ run' = [run EXCEPT ![r] = IdleRun]
      /\ settled' = IF q.calm /\ q.table = sheet /\ edit.at = "idle" THEN q.table ELSE None
      /\ UNCHANGED <<sheet, edit>>
  BY DEF CommitRun, AsUsers, AsMembers
<1>3. \A s \in Runners \ {r} : run'[s] = run[s] /\ run[s].at \in {"idle", "lock"}
  <2>1. ASSUME NEW s \in Runners \ {r}
        PROVE  run[s].at \in {"idle", "lock"}
    <3>1. run[s].at \notin Holding
      BY <1>1 DEF IInv, OneHolds, Holding
    <3>2. Sound(run[s], member, overlap)
      BY DEF IInv, Runs
    <3> QED
      BY <3>1, <3>2, SoundRun
  <2> QED
    BY <1>1, <1>2, <2>1 DEF TypeInv
<1>4. run'[r] = IdleRun
  BY <1>1, <1>2 DEF TypeInv
<1> HIDE DEF q
<1>5. ASSUME NEW s \in Runners
      PROVE  Watch(run'[s], user', member') /\ ~Again(run'[s], settled')
  <2>1. CASE s = r
    BY <1>4, <2>1, IdleWatched
  <2>2. CASE s # r
    <3>1. Watch(run[s], user, member) /\ run'[s] = run[s] /\ run[s].at \in {"idle", "lock"}
      BY <1>3, <2>2 DEF RerunInv
    <3> QED
      BY <3>1 DEF Watch, Again
  <2> QED
    BY <2>1, <2>2
<1>6. ASSUME settled' # None, Alone(user')
      PROVE  \E rows : Settles(settled', rows, user', member')
  <2>1. settled' = q.table /\ q.calm
    BY <1>2, <1>6
  <2>2. Track(q, user, member) /\ Len(q.results) = Len(q.table)
    BY <1>1, <2>1 DEF Watch
  <2>3. DOMAIN q.results = DOMAIN q.table
    BY <1>1, <2>2 DEF Run
  <2>4. FirstOnes(q.table, DOMAIN q.table, Imported(q))
    BY <2>2, <2>3 DEF Track, Listing
  <2>5. Imported(q) \subseteq DOMAIN q.table
    BY <2>3 DEF Imported
  <2>6. \A i \in Imported(q) : Quiet(q.table, q.table[i], AsUsers(q, user), AsMembers(q, member))
    BY <1>2, <1>6, <2>2 DEF Track
  <2>7. Settles(q.table, Imported(q), AsUsers(q, user), AsMembers(q, member))
    BY <2>4, <2>5, <2>6 DEF Settles
  <2> QED
    BY <1>2, <2>1, <2>7
<1>7. StillQuiet'
  BY <1>5, <1>6 DEF StillQuiet
<1>8. settled' # None => edit'.at = "idle"
  BY <1>2
<1>9. sheet' \in Sheets
  BY <1>2 DEF RerunInv
<1> QED
  BY <1>5, <1>7, <1>8, <1>9 DEF RerunInv

\* A request unsettles the sheet, and disturbs the runs under way.
LEMMA RequestUnsettles ==
  ASSUME Request
  PROVE  settled' = None /\ sheet' = sheet
<1>1. Changed \/ Other => settled' = None /\ sheet' = sheet
  BY DEF Changed, Other
<1>2. \A m, rows : BeginEdit(m, rows) => settled' = None /\ sheet' = sheet
  BY DEF BeginEdit
<1>3. \/ Changed \/ Other \/ \E m : BeginEdit(m, member')
  BY DEF Request, Register, CreateUser, UpdateUser, DeleteUser, DeleteMember, CreateMember,
         UpdateMember, AddGroupMember, GetProfile, AppointAdmin, UpdateProfile
<1> QED
  BY <1>1, <1>2, <1>3

LEMMA RequestRerun ==
  ASSUME IInv, TracedInv, RerunInv, Request
  PROVE  RerunInv'
<1>1. TypeInv /\ NoneOwned
  BY DEF IInv
<1>2. run' = Disturbed
  BY <1>1, RequestStep DEF Requested
<1>3. settled' = None /\ sheet' = sheet
  BY RequestUnsettles
<1>4. ASSUME NEW s \in Runners
      PROVE  Watch(run'[s], user', member')
  <2> DEFINE q == run[s]
             x == [q EXCEPT !.calm = FALSE]
  <2>1. q \in Run /\ Watch(q, user, member)
    BY <1>1 DEF TypeInv, RerunInv
  <2>2. run'[s] = IF q.at = "idle" THEN q ELSE x
    BY <1>2 DEF Disturbed
  <2> HIDE DEF q
  <2>3. /\ x.at = q.at /\ x.table = q.table /\ x.phones = q.phones /\ x.emails = q.emails
        /\ x.results = q.results /\ x.calm = FALSE
    BY <2>1 DEF Run
  <2> HIDE DEF x
  <2>4. Watch(x, user', member')
    BY <2>1, <2>3 DEF Watch
  <2>5. q.at = "idle" => Watch(q, user', member')
    BY <2>1 DEF Watch
  <2> QED
    BY <2>2, <2>4, <2>5
<1> QED
  BY <1>3, <1>4 DEF RerunInv, StillQuiet

\* An edit that is committed leaves what records are there and whose they are.
LEMMA TrackEdited ==
  ASSUME NEW q \in Run, NEW us, NEW ms, NEW ms2, Track(q, us, ms),
         \A m \in Members : ms2[m].state = ms[m].state /\ ms2[m].user = ms[m].user
  PROVE  Track(q, us, ms2)
<1> DEFINE members == AsMembers(q, ms)
           members2 == AsMembers(q, ms2)
<1>1. \A m \in Members : members2[m].state = members[m].state /\ members2[m].user = members[m].user
  BY DEF AsMembers
<1> HIDE DEF members, members2
<1>2. \A a : HasRecord(members2, a) <=> HasRecord(members, a)
  BY <1>1 DEF HasRecord
<1>3. \A table, row, users : Quiet(table, row, users, members) => Quiet(table, row, users, members2)
  BY <1>2 DEF Quiet
<1>4. \A a \in Accounts :
        /\ q.byUser[a] # None => /\ members2[q.byUser[a]].state # "none"
                                 /\ members2[q.byUser[a]].user = a
        /\ q.users[a] # None => us[a].state = "none" /\ q.users[a].state = "live"
  <2>1. \A a \in Accounts : q.byUser[a] # None => q.byUser[a] \in Members
    BY DEF Run, Opt
  <2>2. \A a \in Accounts :
          /\ q.byUser[a] # None => /\ members[q.byUser[a]].state # "none"
                                   /\ members[q.byUser[a]].user = a
          /\ q.users[a] # None => us[a].state = "none" /\ q.users[a].state = "live"
    BY DEF Track, members
  <2> QED
    BY <1>1, <2>1, <2>2
<1>5. Alone(AsUsers(q, us)) => \A i \in Imported(q) : Quiet(q.table, q.table[i], AsUsers(q, us), members2)
  BY <1>3 DEF Track, members
<1> QED
  BY <1>4, <1>5 DEF Track, members2

LEMMA RestRerun ==
  ASSUME IInv, TracedInv, RerunInv, EditSheet \/ CommitEdit \/ UNCHANGED vars
  PROVE  RerunInv'
<1>1. TypeInv
  BY DEF IInv
<1>2. CASE EditSheet
  <2>1. UNCHANGED <<user, member, run, edit>> /\ settled' = None /\ sheet' \in Sheets
    BY <1>2 DEF EditSheet
  <2> QED
    BY <2>1 DEF RerunInv, StillQuiet
<1>3. CASE CommitEdit
  <2>1. UNCHANGED <<sheet, user, run, settled>> /\ edit.at = "edit"
    BY <1>3 DEF CommitEdit
  <2>2. settled' = None
    BY <2>1 DEF RerunInv
  <2>3. \A m \in Members : member'[m].state = member[m].state /\ member'[m].user = member[m].user
    BY <1>3 DEF CommitEdit, IInv, TypeInv, Member, Editing
  <2>4. ASSUME NEW s \in Runners
        PROVE  Watch(run[s], user, member')
    <3> DEFINE ms2 == member'
    <3>1. run[s] \in Run /\ Watch(run[s], user, member)
      BY <1>1 DEF TypeInv, RerunInv
    <3>2. \A m \in Members : ms2[m].state = member[m].state /\ ms2[m].user = member[m].user
      BY <2>3
    <3> HIDE DEF ms2
    <3>3. Track(run[s], user, member) => Track(run[s], user, ms2)
      BY <3>1, <3>2, TrackEdited
    <3>4. Watch(run[s], user, ms2)
      BY <3>1, <3>3 DEF Watch
    <3> QED
      BY <3>4 DEF ms2
  <2> QED
    BY <2>1, <2>2, <2>4 DEF RerunInv, StillQuiet
<1>4. CASE UNCHANGED vars
  BY <1>4 DEF vars, RerunInv, StillQuiet
<1> QED
  BY <1>2, <1>3, <1>4

LEMMA AllRerun == Spec => []RerunInv
<1>1. Init => RerunInv
  BY IdleWatched DEF Init, RerunInv, StillQuiet, NoEdit
<1>2. IInv /\ TracedInv /\ RerunInv /\ [Next]_vars => RerunInv'
  <2> SUFFICES ASSUME IInv, TracedInv, RerunInv, [Next]_vars
               PROVE  RerunInv'
    OBVIOUS
  <2>1. ASSUME NEW r \in Runners,
               \/ StartRun(r) \/ Lock(r) \/ Index(r)
               \/ PassRow(r) \/ UpdateRow(r) \/ InsertRow(r) \/ LinkRow(r) \/ FailRow(r)
               \/ CommitRun(r) \/ AbortRun(r)
        PROVE  RerunInv'
    BY <2>1, StartRerun, IndexRerun, RowRerun, CommitRerun
  <2>2. CASE EditSheet \/ CommitEdit \/ UNCHANGED vars
    BY <2>2, RestRerun
  <2>3. CASE Request
    BY <2>3, RequestRerun
  <2> QED
    BY <2>1, <2>2, <2>3 DEF Next
<1> QED
  BY <1>1, <1>2, Invariant, AllTraced, PTL DEF Spec

\* The commit of a run that follows.
LEMMA CommitAgain ==
  ASSUME IInv, RerunInv, NEW r \in Runners, CommitRun(r), run[r].calm,
         settled = run[r].table, Alone(user)
  PROVE  user' = user /\ \A m \in Members : member[m].state = member'[m].state
<1> DEFINE q == run[r]
<1>1. q.at = "commit" /\ q.table \in Sheets /\ TypeInv
  BY DEF CommitRun, RerunInv, Watch, IInv
<1>2. settled # None /\ Again(q, settled)
  BY <1>1, Absent DEF Again
<1>3. PICK rows : Follows(q, rows, member)
  BY <1>2 DEF RerunInv, StillQuiet
<1>4. user' = AsUsers(q, user) /\ member' = AsMembers(q, member)
  BY DEF CommitRun, AsUsers, AsMembers
<1>5. AsUsers(q, user) = user
  BY <1>1, <1>3 DEF AsUsers, Follows, TypeInv
<1> QED
  BY <1>3, <1>4, <1>5 DEF Follows

\* A second import of an unchanged sheet over an unchanged directory creates
\* neither an account nor a member record, unless two live accounts have
\* addresses that differ only in case: a row that was refused once is refused
\* again, a row that was linked or inserted is an update, and a clash stays one.
THEOREM SecondRunCreatesNothing == Spec => Rerun
<1>1. IInv /\ RerunInv /\ [Next]_vars =>
        [\A r \in Runners :
           (run[r].at = "commit" /\ run'[r].at = "idle" /\ run[r].calm
            /\ settled = run[r].table /\ ~CaseTwins) =>
             user' = user /\ \A m \in Members : member[m].state = member'[m].state]_vars
  <2> SUFFICES ASSUME IInv, RerunInv, Next, NEW r \in Runners,
                      run[r].at = "commit", run'[r].at = "idle", run[r].calm,
                      settled = run[r].table, ~CaseTwins
               PROVE  user' = user /\ \A m \in Members : member[m].state = member'[m].state
    OBVIOUS
  <2>1. Alone(user)
    BY DEF CaseTwins, Alone, LiveUser
  <2>2. CASE UNCHANGED <<user, member>>
    BY <2>2
  <2>3. CASE run' = run
    BY <2>3
  <2>4. CASE Request
    <3>1. run' = Disturbed
      BY <2>4, RequestStep DEF IInv, Requested
    <3>2. run'[r].at = run[r].at
      BY <3>1, DisturbedRuns DEF IInv
    <3> QED
      BY <3>2
  <2>5. ASSUME NEW s \in Runners, CommitRun(s)
        PROVE  user' = user /\ \A m \in Members : member[m].state = member'[m].state
    <3>1. CASE s = r
      BY <2>1, <2>5, <3>1, CommitAgain
    <3>2. CASE s # r
      <4>1. run'[r] = run[r]
        BY <2>5, <3>2 DEF CommitRun, IInv, TypeInv
      <4> QED
        BY <4>1
    <3> QED
      BY <3>1, <3>2
  <2> QED
    BY <2>2, <2>3, <2>4, <2>5
    DEF Next, StartRun, Lock, Index, PassRow, UpdateRow, InsertRow, LinkRow, FailRow, AbortRun,
        EditSheet, CommitEdit
<1> QED
  BY <1>1, Invariant, AllRerun, PTL DEF Spec, Rerun
=============================================================================
