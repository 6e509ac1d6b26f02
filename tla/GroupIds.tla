------------------------------ MODULE GroupIds ------------------------------
(***************************************************************************)
(* Allocation of Group IDs: POST, PATCH and DELETE /groups                 *)
(* (api/v1/groups.py) over services/group_id_service.py.                   *)
(*                                                                         *)
(* A create is one READ COMMITTED transaction of several statements, and   *)
(* each of them is an action here, because other requests run between      *)
(* them.  What the transaction wrote is invisible to the others until it   *)
(* commits; they only meet its row locks.  An update or a delete touches   *)
(* one group by its primary key and is a single step.                      *)
(***************************************************************************)
EXTENDS Integers, FiniteSets, Sequences

CONSTANTS
  Requests,      \* the POST /groups calls that may be in flight together
  Names,         \* group names
  EditNames,     \* the names PATCH may give a group
  Districts,     \* state code and RTO code: what has a counter of its own
  Cities,        \* the cities clients send
  DistrictOf,    \* get_state_district_code, on the configured cities
  Deployments,   \* the groups and district_group_counters stored when this
                 \* version starts; the counter is Absent where no row is
  MaxSeq         \* bound: no create begins once a counter is this high

\* A district that has no row in district_group_counters.
Absent == -1

\* The cities of geo_cities; any other one is refused with a 422.
Configured == DOMAIN DistrictOf

\* A social_groups row.  Its Group ID is the pair of the district prefix and
\* the sequence number; district prefixes all have four characters, so the
\* text determines the pair.  name, state and city can be edited, id cannot.
Group == [name : Names, city : Configured, id : Districts \X (Nat \ {0})]

ASSUME Registry ==
  /\ DistrictOf \in [Configured -> Districts]
  /\ Names # {} /\ Configured # {}
  /\ EditNames \subseteq Names
  /\ MaxSeq \in Nat

ASSUME Stored ==
  \A d \in Deployments :
    /\ d.groups \subseteq Group
    /\ \A g, h \in d.groups : g.id = h.id => g = h
    /\ d.counter \in [Districts -> Nat \cup {Absent}]

VARIABLES
  groups,    \* committed social_groups rows
  counter,   \* committed district_group_counters, Absent when there is no row
  minted,    \* the numbers creates committed in each district, in that order
  pc,        \* where each request is
  want,      \* the name and city each request asks for
  seen,      \* the highest stored sequence it read, when it found no counter
  drawn      \* the sequence number its transaction holds

vars == <<groups, counter, minted, pc, want, seen, drawn>>

\* In the transaction, before the counter row is locked or inserted.
Waiting == {"lock", "max", "insert"}
\* The transaction has the row lock of its district's counter.
Holding == {"group", "commit"}
\* The response is known: the transaction is over.
Ended == {"existing", "rejected", "created", "conflict", "failed", "aborted"}

Payload == [name : Names, city : Configured]
Blank == CHOOSE w \in Payload : TRUE

Place(r) == DistrictOf[want[r].city]

\* What get_max_district_group_seq takes the maximum of: a LIKE on the prefix,
\* whatever the city, and 0 when nothing is stored.
StoredSeqs(d) == {0} \cup {g.id[2] : g \in {h \in groups : h.id[1] = d}}

\* Another transaction has the counter row of d locked, or has inserted it
\* and not committed: SELECT FOR UPDATE and INSERT both wait for it.
Locked(d, r) == \E s \in Requests \ {r} : pc[s] \in Holding /\ Place(s) = d

Init ==
  /\ \E d \in Deployments : groups = d.groups /\ counter = d.counter
  /\ minted = [d \in Districts |-> <<>>]
  /\ pc = [r \in Requests |-> "idle"]
  /\ want = [r \in Requests |-> Blank]
  /\ seen = [r \in Requests |-> 0]
  /\ drawn = [r \in Requests |-> 0]

Goto(r, label) == pc' = [pc EXCEPT ![r] = label]

\* The transaction is over and its session closed, with all it had read.
Close(r, answer) ==
  /\ Goto(r, answer)
  /\ want' = [want EXCEPT ![r] = Blank]
  /\ seen' = [seen EXCEPT ![r] = 0]
  /\ drawn' = [drawn EXCEPT ![r] = 0]

-----------------------------------------------------------------------------
(* POST /groups, statement by statement.                                   *)

\* resolve_city raises for a city that is not configured.
RejectCity(r) ==
  /\ pc[r] = "idle"
  /\ Cities \ Configured # {}
  /\ Goto(r, "rejected")
  /\ UNCHANGED <<groups, counter, minted, want, seen, drawn>>

\* resolve_city, then get_by_name: a live group of that name is the answer.
Begin(r, n, c) ==
  /\ pc[r] = "idle"
  /\ counter[DistrictOf[c]] < MaxSeq
  /\ IF \E g \in groups : g.name = n
       THEN Goto(r, "existing") /\ UNCHANGED want
       ELSE Goto(r, "lock") /\ want' = [want EXCEPT ![r] = [name |-> n, city |-> c]]
  /\ UNCHANGED <<groups, counter, minted, seen, drawn>>

\* Faulty: without FOR UPDATE; and with the highest stored number + 1, which a
\* deletion lowers.
LockCounterNoLock(r) ==
  /\ pc[r] = "lock"
  /\ counter[Place(r)] # Absent
  /\ drawn' = [drawn EXCEPT ![r] = counter[Place(r)] + 1]
  /\ Goto(r, "group")
  /\ UNCHANGED <<groups, counter, minted, want, seen>>
LockCounterFromRows(r) ==
  /\ pc[r] = "lock"
  /\ counter[Place(r)] # Absent
  /\ ~Locked(Place(r), r)
  /\ \E top \in StoredSeqs(Place(r)) :
       /\ \A n \in StoredSeqs(Place(r)) : n <= top
       /\ drawn' = [drawn EXCEPT ![r] = top + 1]
  /\ Goto(r, "group")
  /\ UNCHANGED <<groups, counter, minted, want, seen>>

\* SELECT ... FOR UPDATE finds the counter: the next number is its value + 1.
LockCounter(r) ==
  /\ pc[r] = "lock"
  /\ counter[Place(r)] # Absent
  /\ ~Locked(Place(r), r)
  /\ drawn' = [drawn EXCEPT ![r] = counter[Place(r)] + 1]
  /\ Goto(r, "group")
  /\ UNCHANGED <<groups, counter, minted, want, seen>>

\* The same SELECT finds no committed row, and so it locks nothing.
MissCounter(r) ==
  /\ pc[r] = "lock"
  /\ counter[Place(r)] = Absent
  /\ Goto(r, "max")
  /\ UNCHANGED <<groups, counter, minted, want, seen, drawn>>

ReadHighest(r) ==
  /\ pc[r] = "max"
  /\ \E top \in StoredSeqs(Place(r)) :
       /\ \A n \in StoredSeqs(Place(r)) : n <= top
       /\ seen' = [seen EXCEPT ![r] = top]
  /\ Goto(r, "insert")
  /\ UNCHANGED <<groups, counter, minted, want, drawn>>

\* Faulty: the new counter is not advanced.
InsertCounterUnadvanced(r) ==
  /\ pc[r] = "insert"
  /\ counter[Place(r)] = Absent
  /\ ~Locked(Place(r), r)
  /\ drawn' = [drawn EXCEPT ![r] = seen[r]]
  /\ Goto(r, "group")
  /\ UNCHANGED <<groups, counter, minted, want, seen>>

\* The INSERT of the counter goes through when nobody else's has.
InsertCounter(r) ==
  /\ pc[r] = "insert"
  /\ counter[Place(r)] = Absent
  /\ ~Locked(Place(r), r)
  /\ drawn' = [drawn EXCEPT ![r] = seen[r] + 1]
  /\ Goto(r, "group")
  /\ UNCHANGED <<groups, counter, minted, want, seen>>

\* Faulty: the violation is swallowed, and the request hangs.
InsertCounterHangs(r) ==
  /\ pc[r] = "insert" /\ counter[Place(r)] # Absent
  /\ UNCHANGED vars

\* Somebody committed the counter since MissCounter: its primary key is
\* violated, which is neither of the two conflicts create_group knows.
InsertCounterFails(r) ==
  /\ pc[r] = "insert"
  /\ counter[Place(r)] # Absent
  /\ Close(r, "failed")
  /\ UNCHANGED <<groups, counter, minted>>

Carried(id) == \E g \in groups : g.id = id

\* Faulty: social_groups.group_id without its unique index.
InsertGroupUnchecked(r) ==
  /\ pc[r] = "group"
  /\ Goto(r, "commit")
  /\ UNCHANGED <<groups, counter, minted, want, seen, drawn>>

\* repo.create: the flush writes the counter and the group.  The unique index
\* on social_groups.group_id is the backstop, answered as a 409.
InsertGroup(r) ==
  /\ pc[r] = "group"
  /\ IF Carried(<<Place(r), drawn[r]>>)
       THEN Close(r, "conflict")
       ELSE Goto(r, "commit") /\ UNCHANGED <<want, seen, drawn>>
  /\ UNCHANGED <<groups, counter, minted>>

\* get_db commits: the row and the counter appear together.
Commit(r) ==
  /\ pc[r] = "commit"
  /\ groups' = groups \cup
       {[name |-> want[r].name, city |-> want[r].city,
         id |-> <<Place(r), drawn[r]>>]}
  /\ counter' = [counter EXCEPT ![Place(r)] = drawn[r]]
  /\ minted' = [minted EXCEPT ![Place(r)] = Append(@, drawn[r])]
  /\ Close(r, "created")

\* Faulty: the number is burnt, as a PostgreSQL sequence would do.
RollbackBurns(r) ==
  /\ pc[r] \in Waiting \cup Holding
  /\ Close(r, "aborted")
  /\ counter' = IF pc[r] \in Holding THEN [counter EXCEPT ![Place(r)] = drawn[r]] ELSE counter
  /\ UNCHANGED <<groups, minted>>

\* The admin account's conflict, a lost client or connection, a restart: the
\* number goes back, for nothing of the transaction is kept.
Rollback(r) ==
  /\ pc[r] \in Waiting \cup Holding
  /\ Close(r, "aborted")
  /\ UNCHANGED <<groups, counter, minted>>

\* The client has its answer and may call again.
Respond(r) ==
  /\ pc[r] \in Ended
  /\ Goto(r, "idle")
  /\ UNCHANGED <<groups, counter, minted, want, seen, drawn>>

-----------------------------------------------------------------------------
(* PATCH and DELETE /groups/{id}.                                          *)

\* The name and the place change; SocialGroupUpdate has no group_id, and the
\* ID keeps the prefix of the place the group was created in.
UpdateGroup(g, n, c) ==
  /\ g \in groups
  /\ groups' = (groups \ {g}) \cup {[g EXCEPT !.name = n, !.city = c]}
  /\ UNCHANGED <<counter, minted, pc, want, seen, drawn>>

\* hard_delete: the row goes, the counter of its district stays.
DeleteGroup(g) ==
  /\ g \in groups
  /\ groups' = groups \ {g}
  /\ UNCHANGED <<counter, minted, pc, want, seen, drawn>>

-----------------------------------------------------------------------------
Create(r) ==
  \/ LockCounter(r)
  \/ MissCounter(r)
  \/ ReadHighest(r)
  \/ InsertCounter(r)
  \/ InsertCounterFails(r)
  \/ InsertGroup(r)
  \/ Commit(r)

Next ==
  \/ \E r \in Requests : RejectCity(r)
  \/ \E r \in Requests, n \in Names, c \in Configured : Begin(r, n, c)
  \/ \E r \in Requests : Create(r)
  \/ \E r \in Requests : Rollback(r)
  \/ \E r \in Requests : Respond(r)
  \/ \E g \in groups, n \in EditNames, c \in Configured : UpdateGroup(g, n, c)
  \/ \E g \in groups : DeleteGroup(g)

Spec == Init /\ [][Next]_vars

\* A request in its transaction runs on, and PostgreSQL grants a row lock to
\* its waiters in the order they came, so that none waits for ever.
FairSpec == Spec /\ \A r \in Requests : SF_vars(Create(r))

-----------------------------------------------------------------------------
(* Properties.                                                             *)

\* The variables range over what the columns and the session can hold.
TypeOK ==
  /\ groups \subseteq Group
  /\ counter \in [Districts -> Nat \cup {Absent}]
  /\ minted \in [Districts -> Seq(Nat \ {0})]
  /\ pc \in [Requests -> {"idle"} \cup Waiting \cup Holding \cup Ended]
  /\ want \in [Requests -> Payload]
  /\ seen \in [Requests -> Nat]
  /\ drawn \in [Requests -> Nat]
  /\ \A r \in Requests : pc[r] \in Holding => drawn[r] # 0

\* No two groups carry one Group ID, whatever counters and groups the
\* deployment started with and however creates, edits and deletes interleave.
UniqueIds == \A g, h \in groups : g.id = h.id => g = h

\* Two creates never hold numbers of one district at the same time: the
\* counter row serialises them, also when the first of them inserts it.
OneHolder ==
  \A r, s \in Requests :
    pc[r] \in Holding /\ pc[s] \in Holding /\ Place(r) = Place(s) => r = s

\* A create that fails returns its number: what was minted in a district are
\* the numbers up to its counter, in order and without a gap, however many of
\* the groups were deleted since.
Gapless ==
  \A d \in Districts : \A i \in 1..Len(minted[d]) :
    minted[d][i] = counter[d] - (Len(minted[d]) - i)

\* Creates implement the abstract issuer: the numbers of a district only go
\* up, and no number that was minted is minted again.
Issuer == INSTANCE IdIssuer WITH Key <- Districts, issued <- minted
Issues == Issuer!Spec

\* A create whose transaction has begun is answered, although it may wait for
\* the counter of its district behind any number of others.
Answered ==
  \A r \in Requests : pc[r] \in Waiting \cup Holding ~> pc[r] \in Ended
=============================================================================
