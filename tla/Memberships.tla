---------------------------- MODULE Memberships -----------------------------
(***************************************************************************)
(* Which groups a member belongs to, in which order, and under which       *)
(* numbers: services/member_group_service.py and assign_member_id of       *)
(* services/group_id_service.py, with the requests that call them          *)
(* (api/v1/members.py, api/v1/groups.py, services/auth_service.py).        *)
(*                                                                         *)
(* A request is one READ COMMITTED transaction with one ORM session.  It   *)
(* loads the member first and locks the member's row afterwards; the lock  *)
(* does not reload, so the session goes on with what it read at first, and *)
(* an assignment reaches the database only where it changes what the       *)
(* session believes.  Everything else a transaction touches, it touches    *)
(* under the locks of the members and of the counters it keeps until its   *)
(* end, hence one action per call and not per statement.                   *)
(***************************************************************************)
EXTENDS Integers, FiniteSets, Sequences, SequencesExt

CONSTANTS
  Members,
  Users,         \* the members with a login account: they get GroupMember rows
  Groups,
  Coded,         \* the groups that have a Group ID; the others number nobody
  Requests,
  Wishes,        \* the ordered group selections clients send
  Scopes,        \* the groups whose GROUP_ADMIN calls; None is a super admin
  Calls,         \* the kinds of request this instance issues
  Deployments,   \* the members, groups and group_member_counters stored
                 \* initially; clients may name other groups
  MaxProfiles,   \* bound: no more profiles than this are created
  MaxNumber,     \* bound: nothing is added once a counter is this high
  MaxPrio,       \* bound: nor once a priority is
  None

Absent == -1

\* A row of members with all that hangs on it.  Numbers are kept as their
\* sequence, the group that prefixes them being the index; 0 is no row for
\* prio and gm, and no number for row.
Member ==
  [live   : BOOLEAN,                            \* the profile is not deleted
   ptr    : Groups \cup {None},                 \* members.group_id
   num    : (Groups \X (Nat \ {0})) \cup {None},  \* members.membership_number
   prio   : [Groups -> Nat],                    \* MemberGroupMembership.priority
   row    : [Groups -> Nat],                    \* ... and its membership_number
   gm     : [Groups -> Nat],                    \* GroupMember.membership_number
   gmprim : SUBSET Groups]                      \* the GroupMembers is_primary

\* What a session keeps of a member it loads.
Loaded ==
  [ptr  : Groups \cup {None},
   num  : (Groups \X (Nat \ {0})) \cup {None},
   prio : [Groups -> Nat],
   row  : [Groups -> Nat]]

Nobody ==
  [live |-> FALSE, ptr |-> None, num |-> None, prio |-> [g \in Groups |-> 0],
   row |-> [g \in Groups |-> 0], gm |-> [g \in Groups |-> 0], gmprim |-> {}]

ASSUME Parameters ==
  /\ Users \subseteq Members /\ Coded \subseteq Groups
  /\ None \notin Groups \cup Members /\ None \notin Groups \X Nat
  /\ None \notin Member /\ None \notin Loaded
  /\ IsFiniteSet(Groups) /\ IsFiniteSet(Members)
  /\ Wishes \subseteq Seq(Groups)
  /\ Scopes \subseteq Groups \cup {None}
  /\ Calls \subseteq {"create", "register", "add", "remove", "sync", "approve",
                   "delete", "erase"}
  /\ MaxProfiles \in Nat /\ MaxNumber \in Nat /\ MaxPrio \in Nat

ASSUME Stored ==
  \A d \in Deployments :
    /\ d.member \in [Members -> Member]
    /\ d.groups \subseteq Groups
    /\ d.counter \in [Groups -> Nat \cup {Absent}]

VARIABLES
  member,    \* committed members
  groups,    \* the groups that exist
  counter,   \* committed group_member_counters
  minted,    \* the numbers committed transactions drew in each group, in order
  carried,   \* every <<group, number, member>> that was ever committed
  pc,        \* where each request is, or its answer
  todo,      \* the calls it has left
  scope,     \* the group of the admin who calls, None for a super admin
  loaded,    \* the members as its session believes them, None: not loaded
  work,      \* the members it has locked, as it sees them in the database
  drawn      \* the numbers it has drawn from the counters it has locked, in order

vars == <<member, groups, counter, minted, carried, pc, todo, scope, loaded, work, drawn>>

Ended == {"done", "rejected", "failed", "aborted"}

Rows(db) == {g \in Groups : db.prio[g] # 0}
InGroup(db, g) == db.prio[g] # 0 \/ db.ptr = g

NumbersOf(m, db) ==
  {<<g, db.row[g], m>> : g \in {h \in Groups : db.row[h] # 0}}
    \cup {<<g, db.gm[g], m>> : g \in {h \in Groups : db.gm[h] # 0}}
    \cup (IF db.num = None THEN {} ELSE {<<db.num[1], db.num[2], m>>})

-----------------------------------------------------------------------------
(* The calls, on w: w.db is the database as the transaction sees it, w.ss  *)
(* what the session believes of the same member.                           *)

SetPtr(w, g) ==
  IF w.ss.ptr = g THEN w
  ELSE [db |-> [w.db EXCEPT !.ptr = g], ss |-> [w.ss EXCEPT !.ptr = g]]

SetNum(w, n) ==
  IF w.ss.num = n THEN w
  ELSE [db |-> [w.db EXCEPT !.num = n], ss |-> [w.ss EXCEPT !.num = n]]

SetPrio(w, g, p) ==
  IF w.ss.prio[g] = p THEN w
  ELSE [db |-> [w.db EXCEPT !.prio[g] = p], ss |-> [w.ss EXCEPT !.prio[g] = p]]

SetRow(w, g, n) ==
  IF w.ss.row[g] = n THEN w
  ELSE [db |-> [w.db EXCEPT !.row[g] = n], ss |-> [w.ss EXCEPT !.row[g] = n]]

InsertRow(w, g, p) ==
  [db |-> [w.db EXCEPT !.prio[g] = p, !.row[g] = 0],
   ss |-> [w.ss EXCEPT !.prio[g] = p, !.row[g] = 0]]

\* The highest priority in the database, 0 without rows.
Highest(db) == Max({0} \cup {db.prio[g] : g \in Groups})

\* Faulty: the query without its ORDER BY may return the last row.
FirstUnordered(db) ==
  CHOOSE g \in Rows(db) : \A h \in Rows(db) : db.prio[g] >= db.prio[h]

\* The row the query for the next primary group returns.
First(db) ==
  CHOOSE g \in Rows(db) : \A h \in Rows(db) : db.prio[g] <= db.prio[h]

EnsureLegacy(w) ==
  IF Rows(w.db) = {} /\ w.ss.ptr # None THEN InsertRow(w, w.ss.ptr, 1) ELSE w

\* The number assign_member_id finds for the group, 0 if it has to draw one.
\* membership_number_matches is exact here: no Group ID prefixes another.
FoundNumber(m, w, g) ==
  CASE m \in Users /\ w.db.gm[g] # 0 -> w.db.gm[g]
    [] ~(m \in Users /\ w.db.gm[g] # 0) /\ w.ss.row[g] # 0 -> w.ss.row[g]
    [] OTHER -> IF w.ss.num # None /\ w.ss.num[1] = g THEN w.ss.num[2] ELSE 0

\* assign_member_id, with the number found or drawn.
AssignMemberId(m, w, g, n) ==
  LET elsewhere == \/ m \in Users /\ w.db.gmprim \ {g} # {}
                   \/ w.ss.ptr \notin {None, g}
      w1 == IF elsewhere THEN w ELSE SetPtr(SetNum(w, <<g, n>>), g)
      w2 == IF w1.db.prio[g] = 0
            THEN InsertRow(w1, g, IF elsewhere THEN Highest(w1.db) + 1 ELSE 1)
            ELSE IF elsewhere THEN w1 ELSE SetPrio(w1, g, 1)
      w3 == SetRow(w2, g, n)
  IN  IF m \notin Users THEN w3
      ELSE [db |-> [w3.db EXCEPT !.gm[g] = n,
                                 !.gmprim = IF elsewhere THEN @ \ {g} ELSE @ \cup {g}],
            ss |-> w3.ss]

\* What a call makes of the member before assign_member_id, and the group it
\* calls that for, None where it does not.
Outcome(w, g) == [w |-> w, assign |-> g]

\* add_membership: a new row is numbered, and an old one without a number.
Addition(w0, g) ==
  LET w == EnsureLegacy(w0)
      new == InsertRow(w, g, Highest(w.db) + 1)
      numbered == IF g \in Coded THEN g ELSE None
  IN  CASE w.db.prio[g] # 0 ->
             Outcome(IF w.ss.ptr = None THEN SetPtr(w, g) ELSE w,
                     IF w.ss.row[g] = 0 THEN numbered ELSE None)
        [] w.db.prio[g] = 0 /\ new.db.prio[g] # 1 -> Outcome(new, numbered)
        [] OTHER ->
             Outcome(IF g \in Coded THEN SetPtr(new, g) ELSE SetNum(SetPtr(new, g), None),
                     numbered)

\* The row and the account's GroupMember go.
DeleteRow(m, w, g) ==
  LET db == [w.db EXCEPT !.prio[g] = 0, !.row[g] = 0]
  IN  [db |-> IF m \in Users THEN [db EXCEPT !.gm[g] = 0, !.gmprim = @ \ {g}] ELSE db,
       ss |-> [w.ss EXCEPT !.prio[g] = 0, !.row[g] = 0]]

\* Faulty: the old number stays visible when the next group has no Group ID.
RemovalKeepsNumber(m, w0, g) ==
  LET w == EnsureLegacy(w0)
      rest == DeleteRow(m, w, g)
      next == First(rest.db)
  IN  IF w.ss.prio[g] # 1 \/ Rows(rest.db) = {} THEN Outcome(rest, None)
      ELSE Outcome(SetPtr(SetPrio(rest, next, 1), next),
                   IF next \in Coded THEN next ELSE None)

\* remove_membership, of a row that is there: where the session takes it for
\* the primary one, the next group is promoted.
Removal(m, w0, g) ==
  LET w == EnsureLegacy(w0)
      rest == DeleteRow(m, w, g)
      next == First(rest.db)
      promoted == SetPtr(SetPrio(rest, next, 1), next)
  IN  CASE w.ss.prio[g] # 1 -> Outcome(rest, None)
        [] w.ss.prio[g] = 1 /\ Rows(rest.db) = {} ->
             Outcome(SetNum(SetPtr(rest, None), None), None)
        [] OTHER -> IF next \in Coded THEN Outcome(promoted, next)
                                      ELSE Outcome(SetNum(promoted, None), None)

\* approve_member: a member that has a group and no number gets one.
Approved(w) ==
  Outcome(w, IF w.ss.num = None /\ w.ss.ptr \in groups \cap Coded THEN w.ss.ptr ELSE None)

\* The constraints the flush meets: one row per priority, and no row or
\* pointer to a group that is gone.
Violates(db) ==
  \/ \E g, h \in Rows(db) : g # h /\ db.prio[g] = db.prio[h]
  \/ ~(Rows(db) \cup ({db.ptr} \ {None}) \subseteq groups)

-----------------------------------------------------------------------------
(* Requests.                                                               *)

Call(do, m, g) == [do |-> do, m |-> m, g |-> g]

Database == <<member, groups, counter, minted, carried>>

\* The bounds, on the requests that can draw numbers or raise a priority.
Room ==
  /\ \A g \in groups \cap Coded : counter[g] < MaxNumber
  /\ \A m \in Members, g \in Groups : member[m].prio[g] < MaxPrio

Session(db) == [ptr |-> db.ptr, num |-> db.num, prio |-> db.prio, row |-> db.row]

Init ==
  /\ \E d \in Deployments :
       member = d.member /\ groups = d.groups /\ counter = d.counter
  /\ minted = [g \in Groups |-> <<>>]
  /\ carried = UNION {NumbersOf(m, member[m]) : m \in Members}
  /\ pc = [r \in Requests |-> "idle"]
  /\ todo = [r \in Requests |-> <<>>]
  /\ scope = [r \in Requests |-> None]
  /\ loaded = [r \in Requests |-> [m \in Members |-> None]]
  /\ work = [r \in Requests |-> [m \in Members |-> None]]
  /\ drawn = [r \in Requests |-> [g \in Groups |-> <<>>]]

Begin(r, kind, admin, calls) ==
  /\ kind \in Calls
  /\ pc[r] = "idle"
  /\ pc' = [pc EXCEPT ![r] = "run"]
  /\ scope' = [scope EXCEPT ![r] = admin]
  /\ todo' = [todo EXCEPT ![r] = calls]

Loads(r, m) == loaded' = [loaded EXCEPT ![r][m] = Session(member[m])]

\* The transaction is over and all it held is free.
Close(r, answer) ==
  /\ pc' = [pc EXCEPT ![r] = answer]
  /\ scope' = [scope EXCEPT ![r] = None]
  /\ todo' = [todo EXCEPT ![r] = <<>>]
  /\ work' = [work EXCEPT ![r] = [m \in Members |-> None]]
  /\ drawn' = [drawn EXCEPT ![r] = [g \in Groups |-> <<>>]]

Undo(r, answer) ==
  /\ Close(r, answer)
  /\ loaded' = [loaded EXCEPT ![r] = [m \in Members |-> None]]
  /\ UNCHANGED Database

Born == {m \in Members : member[m] # Nobody \/ \E s \in Requests : work[s][m] # None}

Unborn(m) == m \notin Born /\ Cardinality(Born) < MaxProfiles

\* POST /members: a profile no other request can see yet is added to each
\* group of the selection.  A group admin can name only its own group.
CreateMember(r, m, wish, admin) ==
  /\ Unborn(m)
  /\ admin # None => wish = <<admin>>
  /\ ToSet(wish) \subseteq groups
  /\ Room
  /\ Begin(r, "create", admin,
       [i \in 1..Len(wish) |-> Call("add", m, wish[i])])
  /\ loaded' = [loaded EXCEPT ![r][m] = Session(Nobody)]
  /\ work' = [work EXCEPT ![r][m] = [Nobody EXCEPT !.live = TRUE]]
  /\ UNCHANGED <<Database, drawn>>

\* register: a pending profile, whose selected group is a row without number.
Register(r, m, g) ==
  /\ "register" \in Calls
  /\ pc[r] = "idle"
  /\ m \in Users /\ Unborn(m)
  /\ g \in groups
  /\ member' = [member EXCEPT ![m] =
       [Nobody EXCEPT !.live = TRUE, !.ptr = g, !.prio[g] = 1]]
  /\ pc' = [pc EXCEPT ![r] = "done"]
  /\ UNCHANGED <<groups, counter, minted, carried, todo, scope, loaded, work, drawn>>

\* POST /groups/{id}/members and the assignment of a group admin.
AddGroupMember(r, m, g) ==
  /\ member[m].live
  /\ g \in groups
  /\ Room
  /\ Begin(r, "add", None, <<Call("add", m, g)>>)
  /\ Loads(r, m)
  /\ UNCHANGED <<Database, work, drawn>>

\* DELETE /groups/{id}/members/{id}.
RemoveGroupMember(r, m, g) ==
  /\ member[m].live
  /\ g \in groups /\ InGroup(member[m], g)
  /\ Begin(r, "remove", None, <<Call("remove", m, g)>>)
  /\ Loads(r, m)
  /\ UNCHANGED <<Database, work, drawn>>

\* PATCH /members/{id} with a selection of groups; repo.update reloads the
\* member before the sync.  A group admin needs the member in its group.
UpdateMember(r, m, wish, admin) ==
  /\ member[m].live
  /\ wish # <<>>
  /\ Room
  /\ admin # None => InGroup(member[m], admin)
  /\ Begin(r, "sync", admin, <<[do |-> "sync", m |-> m, wish |-> wish]>>)
  /\ Loads(r, m)
  /\ UNCHANGED <<Database, work, drawn>>

\* POST /members/{id}/approve, with APPROVED.
ApproveMember(r, m) ==
  /\ member[m].live
  /\ member[m].ptr # None /\ member[m].num = None => Room
  /\ Begin(r, "approve", None, <<Call("approve", m, None)>>)
  /\ Loads(r, m)
  /\ UNCHANGED <<Database, work, drawn>>

\* DELETE /members/{id} hides the profile; what it carries stays.
DeleteMember(r, m) ==
  /\ "erase" \in Calls
  /\ pc[r] = "idle"
  /\ member[m].live /\ \A s \in Requests : work[s][m] = None
  /\ member' = [member EXCEPT ![m].live = FALSE]
  /\ pc' = [pc EXCEPT ![r] = "done"]
  /\ UNCHANGED <<groups, counter, minted, carried, todo, scope, loaded, work, drawn>>

\* A request about a member that is not there, or no longer.
NotFound(r, m) ==
  /\ pc[r] = "idle"
  /\ ~member[m].live
  /\ pc' = [pc EXCEPT ![r] = "rejected"]
  /\ UNCHANGED <<Database, todo, scope, loaded, work, drawn>>

\* DELETE /groups/{id}: the members found in it are detached one by one, then
\* the group is dropped.  Its dependents' 409 comes before any of this.
DeleteGroup(r, g) ==
  /\ g \in groups
  /\ \E order \in SetToSeqs({m \in Members : member[m].prio[g] # 0}) :
       Begin(r, "delete", None,
         [i \in 1..Len(order) |-> Call("detach", order[i], g)]
           \o <<Call("drop", None, g)>>)
  /\ UNCHANGED <<Database, loaded, work, drawn>>

-----------------------------------------------------------------------------
(* The calls of a request, in order.                                       *)

Doing(r, do) == pc[r] = "run" /\ todo[r] # <<>> /\ Head(todo[r]).do = do
Subject(r) == Head(todo[r]).m
Target(r) == Head(todo[r]).g
View(r) == [db |-> work[r][Subject(r)], ss |-> loaded[r][Subject(r)]]

\* detach_group: session.get(Member).
LoadMember(r) ==
  /\ Doing(r, "detach")
  /\ loaded[r][Subject(r)] = None
  /\ Loads(r, Subject(r))
  /\ UNCHANGED <<Database, pc, todo, scope, work, drawn>>

\* SELECT ... FOR UPDATE on the member, or the UPDATE that waits for its row.
\* The rows are then selected again, but a loaded one keeps its attributes.
LockMember(r) ==
  LET m == Subject(r) IN
  /\ pc[r] = "run" /\ todo[r] # <<>> /\ m # None
  /\ loaded[r][m] # None /\ work[r][m] = None
  /\ \A s \in Requests : work[s][m] = None
  /\ work' = [work EXCEPT ![r][m] = member[m]]
  /\ loaded' = [loaded EXCEPT
       ![r][m].prio = [g \in Groups |->
          IF member[m].prio[g] = 0 \/ @[g] = 0 THEN member[m].prio[g] ELSE @[g]],
       ![r][m].row = [g \in Groups |->
          IF member[m].prio[g] = 0 \/ loaded[r][m].prio[g] = 0
          THEN member[m].row[g] ELSE @[g]]]
  /\ UNCHANGED <<Database, pc, todo, scope, drawn>>

Ready(r, do) == Doing(r, do) /\ work[r][Subject(r)] # None

\* The call is done, with w for the member; or its flush fails.  (w is bound
\* by \E for TLC, which evaluates it once then, under ENABLED too.)
Step(r, done, numbers) == \E w \in {done} :
  IF Violates(w.db) THEN Undo(r, "failed")
  ELSE /\ work' = [work EXCEPT ![r][Subject(r)] = w.db]
       /\ loaded' = [loaded EXCEPT ![r][Subject(r)] = w.ss]
       /\ drawn' = numbers
       /\ todo' = [todo EXCEPT ![r] = Tail(@)]
       /\ UNCHANGED <<Database, pc, scope>>

\* get_group_member_count, as the transaction sees it.
MemberCount(r, w, g) ==
  LET sees(o) == IF o = Subject(r) THEN w.db
                 ELSE IF work[r][o] # None THEN work[r][o] ELSE member[o]
      gms == {o \in Members : sees(o).gm[g] # 0}
  IN  Cardinality(IF gms # {} THEN gms ELSE {o \in Members : sees(o).prio[g] # 0})

\* Faulty: COUNT(*) + 1, and the counter without its increment.
NextNumberCounted(r, w, g) == MemberCount(r, w, g) + 1
NextNumberStuck(r, w, g) ==
  IF drawn[r][g] # <<>> THEN Last(drawn[r][g])
  ELSE IF counter[g] # Absent THEN counter[g] ELSE MemberCount(r, w, g)

\* next_group_member_id, under the lock of the group's counter.
NextNumber(r, w, g) ==
  CASE drawn[r][g] # <<>> -> Last(drawn[r][g]) + 1
    [] drawn[r][g] = <<>> /\ counter[g] # Absent -> counter[g] + 1
    [] OTHER -> MemberCount(r, w, g) + 1

CounterFree(r, g) == \A s \in Requests \ {r} : drawn[s][g] = <<>>

\* The group whose counter the rest of the call draws from, None for no draw.
Draws(r, o) ==
  IF o.assign # None /\ FoundNumber(Subject(r), o.w, o.assign) = 0 THEN o.assign ELSE None

\* The rest of a call: assign_member_id, with the number found or drawn.  Two
\* requests that both insert a counter collide: the later one fails.
Conclude(r, outcome) == \E o \in {outcome} :
  LET m == Subject(r)
      found == FoundNumber(m, o.w, o.assign)
      next == NextNumber(r, o.w, o.assign)
  IN  CASE o.assign = None -> Step(r, o.w, drawn)
        [] o.assign # None /\ Draws(r, o) = None ->
             Step(r, AssignMemberId(m, o.w, o.assign, found), drawn)
        [] OTHER ->
             \/ /\ CounterFree(r, o.assign)
                /\ Step(r, AssignMemberId(m, o.w, o.assign, next),
                        [drawn EXCEPT ![r][o.assign] = Append(@, next)])
             \/ /\ ~CounterFree(r, o.assign) /\ counter[o.assign] = Absent
                /\ Undo(r, "failed")

AddMembership(r) ==
  /\ Ready(r, "add")
  /\ Conclude(r, Addition(View(r), Target(r)))

RemoveMembership(r, do) ==
  /\ Ready(r, do)
  /\ EnsureLegacy(View(r)).db.prio[Target(r)] # 0
  /\ Conclude(r, Removal(Subject(r), View(r), Target(r)))

\* Faulty: detach_group counts on every membership to be there still.
NothingToRemoveDetach(r) ==
  /\ Ready(r, "remove")
  /\ EnsureLegacy(View(r)).db.prio[Target(r)] = 0
  /\ Undo(r, "rejected")

\* The row went since the request looked: a 404, or nothing to detach.
NothingToRemove(r) ==
  \/ /\ Ready(r, "remove")
     /\ EnsureLegacy(View(r)).db.prio[Target(r)] = 0
     /\ Undo(r, "rejected")
  \/ /\ Ready(r, "detach")
     /\ EnsureLegacy(View(r)).db.prio[Target(r)] = 0
     /\ Step(r, EnsureLegacy(View(r)), drawn)

\* What a sync removes: the groups not selected, by a group admin its own only.
GoneAll(db, wish, admin) == Rows(db) \ ToSet(wish)
Gone(db, wish, admin) == {g \in Rows(db) \ ToSet(wish) : admin \in {None, g}}

\* What a sync may add: a group admin its own group only.
MayAddAll(new, admin) == TRUE
MayAdd(new, admin) == admin = None \/ new \subseteq {admin}

\* Some of the rows in the order of their priority.
InOrder(db, rows) ==
  {s \in SetToSeqs(rows) : \A i, j \in DOMAIN s : i < j => db.prio[s[i]] < db.prio[s[j]]}

\* The groups of a selection that are new, each once, as selected.
Appended(wish, new) ==
  {s \in SetToSeqs(new) : \A i, j \in DOMAIN s : i < j =>
     \E a \in DOMAIN wish : /\ wish[a] = s[i]
                            /\ \A b \in DOMAIN wish : wish[b] = s[j] => a < b}

\* sync_memberships: what goes goes first, in the order of priority; then what
\* is new is added in the order of the selection.
SyncMemberships(r) ==
  LET m == Subject(r)
      w == EnsureLegacy(View(r))
      wish == Head(todo[r]).wish
      new == ToSet(wish) \ Rows(w.db)
  IN  /\ Ready(r, "sync")
      /\ IF Violates(w.db) \/ ~MayAdd(new, scope[r])
         THEN Undo(r, "rejected")
         ELSE /\ \E cuts \in InOrder(w.db, Gone(w.db, wish, scope[r])),
                    adds \in Appended(wish, new) :
                   todo' = [todo EXCEPT ![r] =
                     [i \in 1..Len(cuts) |-> Call("cut", m, cuts[i])]
                       \o [i \in 1..Len(adds) |-> Call("append", m, adds[i])]]
              /\ work' = [work EXCEPT ![r][m] = w.db]
              /\ loaded' = [loaded EXCEPT ![r][m] = w.ss]
              /\ UNCHANGED <<Database, pc, scope, drawn>>

\* An addition of the sync, which passes over a group that does not exist.
AppendMembership(r) ==
  /\ Ready(r, "append")
  /\ IF Target(r) \in groups THEN Conclude(r, Addition(View(r), Target(r)))
                             ELSE Step(r, View(r), drawn)

Approve(r) ==
  /\ Ready(r, "approve")
  /\ Conclude(r, Approved(View(r)))

\* Two members with one visible number, or two accounts with one number in a
\* group: the unique constraints across members.
Clash(all) ==
  \E m, o \in Members : m # o /\
    \/ all[m].num # None /\ all[m].num = all[o].num
    \/ \E g \in Groups : all[m].gm[g] # 0 /\ all[m].gm[g] = all[o].gm[g]

\* A row that is deleted, and perhaps inserted again, is no longer the row a
\* session had loaded.
Forget(r, all) ==
  loaded' = [s \in Requests |-> [m \in Members |->
    CASE s = r -> None
      [] s # r /\ (loaded[s][m] = None \/ work[s][m] # None) -> loaded[s][m]
      [] OTHER -> [loaded[s][m] EXCEPT
           !.prio = [g \in Groups |-> IF all[m].prio[g] = 0 THEN 0 ELSE @[g]]]]]

Publish(r, all, rest) ==
  IF Clash(all) THEN Undo(r, "failed")
  ELSE /\ member' = all
       /\ groups' = rest
       /\ counter' = [g \in Groups |->
            IF drawn[r][g] = <<>> THEN counter[g] ELSE Last(drawn[r][g])]
       /\ minted' = [g \in Groups |-> minted[g] \o drawn[r][g]]
       /\ carried' = carried \cup UNION {NumbersOf(m, all[m]) : m \in Members}
       /\ Forget(r, all)
       /\ Close(r, "done")

Written(r) ==
  [m \in Members |-> IF work[r][m] # None THEN work[r][m] ELSE member[m]]

\* get_db commits.
Commit(r) ==
  /\ pc[r] = "run" /\ todo[r] = <<>>
  /\ Publish(r, Written(r), groups)

\* What the foreign keys leave of a member when a group goes: ON DELETE
\* CASCADE for the rows, SET NULL for the pointer.
Cascade(db, g) ==
  [db EXCEPT !.prio[g] = 0, !.row[g] = 0, !.gm[g] = 0, !.gmprim = @ \ {g},
             !.ptr = IF @ = g THEN None ELSE @]

\* The DELETE waits for the transactions that refer to the group.
Refers(s, g) ==
  \E m \in Members : work[s][m] # None
    /\ (InGroup(work[s][m], g) \/ InGroup(member[m], g))

\* The last statement of hard_delete, and the commit; it fails when another
\* request dropped the group meanwhile.
DropGroup(r) ==
  LET g == Target(r) IN
  /\ Doing(r, "drop")
  /\ \A s \in Requests \ {r} : ~Refers(s, g)
  /\ IF g \in groups
       THEN Publish(r, [m \in Members |-> Cascade(Written(r)[m], g)], groups \ {g})
       ELSE Undo(r, "failed")

\* A lost client or connection, a restart, an error elsewhere in the handler.
Abort(r) == pc[r] = "run" /\ Undo(r, "aborted")

Respond(r) ==
  /\ pc[r] \in Ended
  /\ pc' = [pc EXCEPT ![r] = "idle"]
  /\ UNCHANGED <<Database, todo, scope, loaded, work, drawn>>

-----------------------------------------------------------------------------
Request(r) ==
  \/ \E m \in Members, wish \in Wishes, admin \in Scopes :
       CreateMember(r, m, wish, admin) \/ UpdateMember(r, m, wish, admin)
  \/ \E m \in Members, g \in Groups :
       Register(r, m, g) \/ AddGroupMember(r, m, g) \/ RemoveGroupMember(r, m, g)
  \/ \E m \in Members : ApproveMember(r, m) \/ DeleteMember(r, m) \/ NotFound(r, m)
  \/ \E g \in Groups : DeleteGroup(r, g)

Serve(r) ==
  \/ LoadMember(r)
  \/ LockMember(r)
  \/ AddMembership(r)
  \/ \E do \in {"remove", "detach", "cut"} : RemoveMembership(r, do)
  \/ NothingToRemove(r)
  \/ SyncMemberships(r)
  \/ AppendMembership(r)
  \/ Approve(r)
  \/ Commit(r)
  \/ DropGroup(r)

\* What the call at the head of a request comes to, locks permitting.
Pending(r) ==
  LET m == Subject(r)
      w == View(r)
      g == Target(r)
      do == Head(todo[r]).do
  IN  CASE do = "add" \/ (do = "append" /\ g \in groups) -> Addition(w, g)
        [] do \in {"remove", "detach", "cut"} /\ EnsureLegacy(w).db.prio[g] # 0 -> Removal(m, w, g)
        [] do = "approve" -> Approved(w)
        [] OTHER -> Outcome(w, None)

\* It waits for the row of a member, of a counter, or of the group it drops.
Blocked(r) ==
  LET m == Subject(r) IN
  /\ pc[r] = "run" /\ todo[r] # <<>>
  /\ CASE m = None -> \E s \in Requests \ {r} : Refers(s, Target(r))
       [] m # None /\ work[r][m] = None ->
            loaded[r][m] # None /\ \E s \in Requests : work[s][m] # None
       [] OTHER -> LET g == Draws(r, Pending(r)) IN
            g # None /\ ~CounterFree(r, g) /\ counter[g] # Absent

\* Every request waits and none can go on: PostgreSQL ends a deadlock by
\* failing one of the transactions in it.
BreakDeadlock(r) ==
  /\ Blocked(r)
  /\ \A s \in Requests : pc[s] = "run" => Blocked(s)
  /\ Undo(r, "failed")

Next ==
  \E r \in Requests :
    Request(r) \/ Serve(r) \/ BreakDeadlock(r) \/ Abort(r) \/ Respond(r)

Spec == Init /\ [][Next]_vars

\* A request runs on, row locks are granted in the order of their waiters, and
\* deadlocks are broken.  Clients need not call again.
FairSpec ==
  /\ Spec
  /\ \A r \in Requests : SF_vars(Serve(r)) /\ WF_vars(BreakDeadlock(r))

-----------------------------------------------------------------------------
(* Properties.                                                             *)

\* The variables range over what the columns and the sessions can hold.
TypeOK ==
  /\ member \in [Members -> Member]
  /\ groups \subseteq Groups
  /\ counter \in [Groups -> Nat \cup {Absent}]
  /\ minted \in [Groups -> Seq(Nat \ {0})]
  /\ carried \subseteq Groups \X (Nat \ {0}) \X Members
  /\ pc \in [Requests -> {"idle", "run"} \cup Ended]
  /\ scope \in [Requests -> Groups \cup {None}]
  /\ drawn \in [Requests -> [Groups -> Seq(Nat \ {0})]]
  /\ \A r \in Requests, m \in Members :
       work[r][m] \in Member \cup {None} /\ loaded[r][m] \in Loaded \cup {None}

\* The primary group is the one of the lowest priority, 1; the member's own
\* number is the number in that group; and a login account's second record of
\* the memberships (GroupMember) agrees with the first one.
Coherent(db) ==
  /\ Rows(db) = {} <=> db.ptr = None
  /\ Rows(db) # {} => db.ptr = First(db) /\ db.prio[db.ptr] = 1
  /\ db.num # None => db.ptr = db.num[1] /\ db.row[db.ptr] = db.num[2]
  /\ \A g \in Groups : db.gm[g] # 0 => db.gm[g] = db.row[g] /\ db.prio[g] # 0
  /\ db.gmprim \subseteq {db.ptr}

Consistent == \A m \in Members : Coherent(member[m])

\* "an old number is never reissued": no member ever carries a number that
\* another member carries or carried.
NumberOwned ==
  \A a, b \in carried : a[1] = b[1] /\ a[2] = b[2] => a[3] = b[3]

\* The numbers drawn for a group only go up.
Issuer == INSTANCE IdIssuer WITH Key <- Groups, issued <- minted
Issues == Issuer!Spec

\* "can never remove a membership in another group" (sync_memberships),
\* whatever happens to the member between the admin's load and its lock.
OthersKept ==
  \A r \in Requests, m \in Members, g \in Groups :
    work[r][m] # None /\ scope[r] \notin {None, g} /\ member[m].prio[g] # 0 =>
      work[r][m].prio[g] # 0

\* "can only add their own group" (sync_memberships).
OnlyOwnAdded ==
  \A r \in Requests, m \in Members, g \in Groups :
    work[r][m] # None /\ scope[r] \notin {None, g} /\ work[r][m].prio[g] # 0 =>
      InGroup(member[m], g)

\* What other requests see of a member's groups: those of its rows, in the
\* order of priority, or the legacy pointer.
Listed(db) ==
  CHOOSE s \in InOrder(db, IF Rows(db) # {} THEN Rows(db) ELSE {db.ptr} \ {None}) : TRUE

\* "Existing primary order is preserved; new groups are appended", and the next
\* group is promoted (sync_memberships, remove_membership, detach_group).
List == INSTANCE MembershipList WITH list <- [m \in Members |-> Listed(member[m])]
Ordered == List!Spec

\* Every request is answered, deadlocks between members and counters included.
Answered == \A r \in Requests : pc[r] = "run" ~> pc[r] \in Ended
=============================================================================
