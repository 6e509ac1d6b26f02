--------------------------- MODULE GroupIdsProofs ---------------------------
(***************************************************************************)
(* Safety of Group ID allocation for every set of requests, districts,     *)
(* cities and names, and for every state a deployment may start from:      *)
(* counters absent, lagging behind the stored groups, or ahead of them.    *)
(* Then the texts of the identifiers, for all sequences a column can hold: *)
(* where they tell memberships apart.                                      *)
(***************************************************************************)
EXTENDS GroupIds, IdFormat, TLAPS

\* A held number is the one after the counter; only the transaction that
\* inserts the counter may hold another one, and then nothing was minted.
HeldIsNext ==
  \A r \in Requests :
    pc[r] \in Holding /\ counter[Place(r)] # Absent =>
      drawn[r] = counter[Place(r)] + 1

\* The index was consulted while the lock was held, so nobody could take the
\* number between that and the commit.
HeldIsFree ==
  \A r \in Requests : pc[r] = "commit" => ~Carried(<<Place(r), drawn[r]>>)

\* The inductive invariant.
IInv ==
  /\ TypeOK
  /\ OneHolder
  /\ HeldIsNext
  /\ HeldIsFree
  /\ UniqueIds
  /\ Gapless

LEMMA BlankType == Blank \in Payload
<1>1. PICK n \in Names, c \in Configured : TRUE
  BY Registry
<1>2. [name |-> n, city |-> c] \in Payload
  BY DEF Payload
<1> QED
  BY <1>2 DEF Blank

LEMMA PlaceType ==
  ASSUME TypeOK, NEW r \in Requests
  PROVE  Place(r) \in Districts
  BY Registry DEF TypeOK, Place, Payload, Configured

-----------------------------------------------------------------------------
(* Type correctness.                                                       *)

LEMMA InitType == Init => TypeOK
<1> SUFFICES ASSUME Init PROVE TypeOK
  OBVIOUS
<1>1. groups \subseteq Group /\ counter \in [Districts -> Nat \cup {Absent}]
  BY Stored DEF Init
<1> QED
  BY <1>1, BlankType DEF Init, TypeOK, Waiting, Holding, Ended

LEMMA NextType == TypeOK /\ [Next]_vars => TypeOK'
<1> SUFFICES ASSUME TypeOK, [Next]_vars PROVE TypeOK'
  OBVIOUS
<1> USE DEF TypeOK, Waiting, Holding, Ended, Goto
<1>1. ASSUME NEW r \in Requests, RejectCity(r) PROVE TypeOK'
  BY <1>1 DEF RejectCity
<1>2. ASSUME NEW r \in Requests, NEW n \in Names, NEW c \in Configured,
             Begin(r, n, c)
      PROVE  TypeOK'
  <2>1. [name |-> n, city |-> c] \in Payload
    BY DEF Payload
  <2>2. want' \in [Requests -> Payload] /\ pc'[r] \notin Holding
    BY <1>2, <2>1 DEF Begin
  <2>3. pc' \in [Requests -> {"idle"} \cup Waiting \cup Holding \cup Ended]
    BY <1>2 DEF Begin
  <2> QED
    BY <1>2, <2>2, <2>3 DEF Begin
<1>3. ASSUME NEW r \in Requests, LockCounter(r) PROVE TypeOK'
  <2>1. Place(r) \in Districts
    BY PlaceType
  <2>2. counter[Place(r)] + 1 \in Nat \ {0}
    BY <1>3, <2>1 DEF LockCounter, Absent
  <2> QED
    BY <1>3, <2>2 DEF LockCounter
<1>4. ASSUME NEW r \in Requests, MissCounter(r) PROVE TypeOK'
  BY <1>4 DEF MissCounter
<1>5. ASSUME NEW r \in Requests, ReadHighest(r) PROVE TypeOK'
  <2>1. StoredSeqs(Place(r)) \subseteq Nat
    BY DEF StoredSeqs, Group
  <2> QED
    BY <1>5, <2>1 DEF ReadHighest
<1>6. ASSUME NEW r \in Requests, InsertCounter(r) PROVE TypeOK'
  BY <1>6 DEF InsertCounter
<1>7. ASSUME NEW r \in Requests, InsertCounterFails(r) PROVE TypeOK'
  BY <1>7, BlankType DEF InsertCounterFails, Close
<1>8. ASSUME NEW r \in Requests, InsertGroup(r) PROVE TypeOK'
  <2>1. CASE Close(r, "conflict")
    BY <1>8, <2>1, BlankType DEF InsertGroup, Close
  <2>2. CASE Goto(r, "commit") /\ UNCHANGED <<want, seen, drawn>>
    BY <1>8, <2>2 DEF InsertGroup
  <2> QED
    BY <1>8, <2>1, <2>2 DEF InsertGroup
<1>9. ASSUME NEW r \in Requests, Commit(r) PROVE TypeOK'
  BY <1>9, BlankType, PlaceType DEF Commit, Close, Group, Payload
<1>10. ASSUME NEW r \in Requests, Rollback(r) PROVE TypeOK'
  BY <1>10, BlankType DEF Rollback, Close
<1>11. ASSUME NEW r \in Requests, Respond(r) PROVE TypeOK'
  BY <1>11 DEF Respond
<1>12. ASSUME NEW g \in groups, NEW n \in EditNames, NEW c \in Configured,
              UpdateGroup(g, n, c)
       PROVE  TypeOK'
  BY ZenonT(60), <1>12, Registry DEF UpdateGroup, Group
<1>13. ASSUME NEW g \in groups, DeleteGroup(g) PROVE TypeOK'
  BY <1>13 DEF DeleteGroup
<1>14. CASE UNCHANGED vars
  BY <1>14 DEF vars
<1> QED
  BY <1>1, <1>2, <1>3, <1>4, <1>5, <1>6, <1>7, <1>8, <1>9, <1>10, <1>11,
     <1>12, <1>13, <1>14 DEF Next, Create

\* The type of the variables, on every reachable state.
THEOREM TypeCorrect == Spec => []TypeOK
  BY InitType, NextType, PTL DEF Spec

-----------------------------------------------------------------------------
(* The inductive invariant, by what a step does to the locks.              *)

\* The stored state is as it was, and every holder was one before the step.
Quiet ==
  /\ UNCHANGED <<groups, counter, minted>>
  /\ \A s \in Requests :
       pc'[s] \in Holding =>
         pc'[s] = pc[s] /\ drawn'[s] = drawn[s] /\ want'[s] = want[s]

LEMMA QuietKeeps ==
  ASSUME IInv, TypeOK', Quiet
  PROVE  IInv'
<1> USE DEF IInv, Quiet
<1>1. \A s \in Requests : pc'[s] \in Holding => Place(s)' = Place(s)
  BY DEF Place
<1>2. OneHolder'
  BY <1>1 DEF OneHolder
<1>3. UniqueIds' /\ Gapless'
  BY DEF UniqueIds, Gapless
<1>4. HeldIsNext'
  BY <1>1 DEF HeldIsNext
<1>5. HeldIsFree'
  BY <1>1 DEF HeldIsFree, Carried, Holding
<1> QED
  BY <1>2, <1>3, <1>4, <1>5

\* Nobody holds the district of r, and r takes the number after the counter,
\* if there is a counter.
Acquire(r) ==
  /\ pc[r] \notin Holding
  /\ ~Locked(Place(r), r)
  /\ counter[Place(r)] # Absent => drawn'[r] = counter[Place(r)] + 1
  /\ \E n : drawn' = [drawn EXCEPT ![r] = n]
  /\ Goto(r, "group")
  /\ UNCHANGED <<groups, counter, minted, want, seen>>

LEMMA AcquireKeeps ==
  ASSUME IInv, TypeOK', NEW r \in Requests, Acquire(r)
  PROVE  IInv'
<1> USE DEF IInv, Acquire, TypeOK, Goto
<1>1. \A s \in Requests : Place(s)' = Place(s)
  BY DEF Place
<1>2. \A s \in Requests \ {r} : pc'[s] = pc[s] /\ drawn'[s] = drawn[s]
  OBVIOUS
<1>3. OneHolder'
  BY <1>1, <1>2 DEF OneHolder, Locked
<1>4. UniqueIds' /\ Gapless'
  BY DEF UniqueIds, Gapless
<1>5. HeldIsNext'
  BY <1>1, <1>2 DEF HeldIsNext
<1>6. pc'[r] = "group"
  OBVIOUS
<1>7. HeldIsFree'
  BY <1>1, <1>2, <1>6 DEF HeldIsFree, Carried
<1> QED
  BY <1>3, <1>4, <1>5, <1>7

LEMMA InsertGroupKeeps ==
  ASSUME IInv, TypeOK', NEW r \in Requests, InsertGroup(r)
  PROVE  IInv'
<1>1. CASE Carried(<<Place(r), drawn[r]>>)
  <2>1. Quiet
    BY <1>1 DEF InsertGroup, Close, Goto, Quiet, Holding, IInv, TypeOK
  <2> QED
    BY <2>1, QuietKeeps
<1>2. CASE ~Carried(<<Place(r), drawn[r]>>)
  <2> USE DEF IInv, InsertGroup, TypeOK, Goto
  <2>1. UNCHANGED <<groups, counter, minted, want, seen, drawn>>
    BY <1>2
  <2>2. \A s \in Requests : Place(s)' = Place(s)
    BY <2>1 DEF Place
  <2>3. \A s \in Requests : pc'[s] \in Holding => pc[s] \in Holding
    BY <1>2 DEF Holding
  <2>4. OneHolder'
    BY <2>2, <2>3 DEF OneHolder
  <2>5. UniqueIds' /\ Gapless'
    BY <2>1 DEF UniqueIds, Gapless
  <2>6. HeldIsNext'
    BY <2>1, <2>2, <2>3 DEF HeldIsNext
  <2>7. HeldIsFree'
    BY <1>2, <2>1, <2>2 DEF HeldIsFree, Carried
  <2> QED
    BY <2>4, <2>5, <2>6, <2>7
<1> QED
  BY <1>1, <1>2

\* The committing transaction was the only holder of its district, so what it
\* adds is above all that was minted there, and nobody else's check is stale.
LEMMA CommitKeeps ==
  ASSUME IInv, TypeOK', NEW r \in Requests, Commit(r)
  PROVE  IInv'
<1> DEFINE d == Place(r)
           new == [name |-> want[r].name, city |-> want[r].city,
                   id |-> <<d, drawn[r]>>]
<1> USE DEF IInv, TypeOK
<1>1. /\ d \in Districts
      /\ pc[r] = "commit" /\ pc[r] \in Holding
  BY PlaceType DEF Commit, Holding
<1>2. /\ groups' = groups \cup {new}
      /\ counter' = [counter EXCEPT ![d] = drawn[r]]
      /\ minted' = [minted EXCEPT ![d] = Append(@, drawn[r])]
      /\ new.id = <<d, drawn[r]>>
  BY DEF Commit
<1>3. /\ pc'[r] \notin Holding
      /\ \A s \in Requests \ {r} :
           pc'[s] = pc[s] /\ drawn'[s] = drawn[s] /\ want'[s] = want[s]
  BY DEF Commit, Close, Goto, Holding
<1>4. \A s \in Requests \ {r} :
        pc'[s] \in Holding => Place(s)' = Place(s) /\ Place(s) # d
  BY <1>1, <1>3 DEF OneHolder, Place
<1>5. OneHolder'
  <2> SUFFICES ASSUME NEW s \in Requests, NEW t \in Requests,
                      pc'[s] \in Holding, pc'[t] \in Holding, Place(s)' = Place(t)'
               PROVE  s = t
    BY DEF OneHolder
  <2>1. /\ pc[s] \in Holding /\ pc[t] \in Holding
        /\ Place(s)' = Place(s) /\ Place(t)' = Place(t)
    BY <1>3, <1>4
  <2> QED
    BY <2>1 DEF OneHolder
<1>6. minted[d] # <<>> => drawn[r] = counter[d] + 1
  <2> SUFFICES ASSUME minted[d] # <<>> PROVE drawn[r] = counter[d] + 1
    OBVIOUS
  <2>1. Len(minted[d]) \in 1..Len(minted[d]) /\ minted[d][Len(minted[d])] \in Nat \ {0}
    BY <1>1
  <2>2. minted[d][Len(minted[d])] = counter[d] - (Len(minted[d]) - Len(minted[d]))
    BY <1>1, <2>1 DEF Gapless
  <2>3. counter[d] \in Int
    BY <1>1 DEF Absent
  <2>4. counter[d] # Absent
    BY <2>1, <2>2, <2>3 DEF Absent
  <2> QED
    BY <1>1, <2>4 DEF HeldIsNext
<1>8. \A s \in Requests : pc'[s] \in Holding => counter'[Place(s)'] = counter[Place(s)]
  <2> SUFFICES ASSUME NEW s \in Requests, pc'[s] \in Holding
               PROVE  counter'[Place(s)'] = counter[Place(s)]
    OBVIOUS
  <2>1. Place(s)' = Place(s) /\ Place(s) # d
    BY <1>3, <1>4
  <2>2. Place(s) \in Districts
    BY PlaceType
  <2> QED
    BY <1>2, <2>1, <2>2
<1>9. HeldIsNext'
  BY <1>3, <1>4, <1>8 DEF HeldIsNext
<1>10. HeldIsFree'
  BY <1>2, <1>3, <1>4 DEF HeldIsFree, Carried, Holding
<1>11. UniqueIds'
  BY ZenonT(60), <1>1, <1>2 DEF UniqueIds, HeldIsFree, Carried
<1>12. Gapless'
  <2> SUFFICES ASSUME NEW e \in Districts, NEW i \in 1..Len(minted'[e])
               PROVE  minted'[e][i] = counter'[e] - (Len(minted'[e]) - i)
    BY DEF Gapless
  <2>1. CASE e # d
    BY <1>1, <1>2, <2>1 DEF Gapless
  <2>2. CASE e = d /\ i = Len(minted[d]) + 1
    BY <1>1, <1>2, <2>2
  <2>3. CASE e = d /\ i \in 1..Len(minted[d])
    <3>1. minted[d][i] = counter[d] - (Len(minted[d]) - i)
      BY <1>1, <2>3 DEF Gapless
    <3>2. drawn[r] = counter[d] + 1 /\ counter[d] \in Int
      BY <1>1, <1>6, <2>3 DEF Absent
    <3>3. /\ minted'[d][i] = minted[d][i]
          /\ counter'[d] = drawn[r]
          /\ Len(minted'[d]) = Len(minted[d]) + 1
      BY <1>1, <1>2, <2>3
    <3> QED
      BY <1>1, <2>3, <3>1, <3>2, <3>3
  <2>4. i \in 1..Len(minted[d]) \/ i = Len(minted[d]) + 1 \/ e # d
    BY <1>1, <1>2
  <2> QED
    BY <2>1, <2>2, <2>3, <2>4
<1> QED
  BY <1>5, <1>9, <1>10, <1>11, <1>12

\* An edit or a deletion leaves counters, numbers and requests alone, and no
\* group has an ID afterwards that none had before.
LEMMA EditKeeps ==
  ASSUME IInv, TypeOK', UniqueIds',
         UNCHANGED <<counter, minted, pc, want, seen, drawn>>,
         \A h \in groups' : Carried(h.id)
  PROVE  IInv'
<1>1. \A r \in Requests : Place(r)' = Place(r)
  BY DEF Place
<1>2. HeldIsFree'
  BY <1>1 DEF IInv, HeldIsFree, Carried
<1>3. HeldIsNext' /\ OneHolder'
  BY <1>1 DEF IInv, HeldIsNext, OneHolder
<1>4. Gapless'
  BY DEF IInv, Gapless
<1> QED
  BY <1>2, <1>3, <1>4 DEF IInv

LEMMA InitInv == Init => IInv
<1> SUFFICES ASSUME Init PROVE IInv
  OBVIOUS
<1>1. \A r \in Requests : pc[r] \notin Holding
  BY DEF Init, Holding
<1>2. OneHolder /\ HeldIsNext /\ HeldIsFree
  BY <1>1 DEF OneHolder, HeldIsNext, HeldIsFree, Holding
<1>3. UniqueIds /\ Gapless
  BY Stored DEF Init, UniqueIds, Gapless
<1> QED
  BY <1>2, <1>3, InitType DEF IInv

LEMMA NextInv == IInv /\ [Next]_vars => IInv'
<1> SUFFICES ASSUME IInv, [Next]_vars PROVE IInv'
  OBVIOUS
<1>0. TypeOK /\ TypeOK'
  BY NextType DEF IInv
<1>1. ASSUME NEW r \in Requests,
             \/ RejectCity(r)
             \/ MissCounter(r)
             \/ ReadHighest(r)
             \/ InsertCounterFails(r)
             \/ Rollback(r)
             \/ Respond(r)
             \/ \E n \in Names, c \in Configured : Begin(r, n, c)
      PROVE  IInv'
  <2>1. Quiet
    BY <1>0, <1>1
    DEF Quiet, RejectCity, MissCounter, ReadHighest, InsertCounterFails,
        Rollback, Respond, Begin, Goto, Close, TypeOK, Holding
  <2> QED
    BY <1>0, <2>1, QuietKeeps
<1>2. ASSUME NEW r \in Requests, LockCounter(r) \/ InsertCounter(r)
      PROVE  IInv'
  <2>1. \E n : drawn' = [drawn EXCEPT ![r] = n]
    <3>1. CASE LockCounter(r)
      BY <3>1 DEF LockCounter
    <3>2. CASE InsertCounter(r)
      BY <3>2 DEF InsertCounter
    <3> QED
      BY <1>2, <3>1, <3>2
  <2>2. counter[Place(r)] # Absent => drawn'[r] = counter[Place(r)] + 1
    BY <1>0, <1>2 DEF LockCounter, InsertCounter, TypeOK
  <2>3. Acquire(r)
    BY <1>2, <2>1, <2>2 DEF LockCounter, InsertCounter, Acquire, Holding, Goto
  <2> QED
    BY <1>0, <2>3, AcquireKeeps
<1>3. ASSUME NEW r \in Requests, InsertGroup(r) PROVE IInv'
  BY <1>0, <1>3, InsertGroupKeeps
<1>4. ASSUME NEW r \in Requests, Commit(r) PROVE IInv'
  BY <1>0, <1>4, CommitKeeps
<1>5. ASSUME NEW g \in groups, NEW n \in EditNames, NEW c \in Configured,
             UpdateGroup(g, n, c)
      PROVE  IInv'
  <2> DEFINE e == [g EXCEPT !.name = n, !.city = c]
  <2>1. groups' = (groups \ {g}) \cup {e} /\ e.id = g.id
    BY <1>0, <1>5 DEF UpdateGroup, TypeOK, Group
  <2>2. UniqueIds' /\ \A h \in groups' : Carried(h.id)
    BY <2>1 DEF IInv, UniqueIds, Carried
  <2> QED
    BY <1>0, <1>5, <2>2, EditKeeps DEF UpdateGroup
<1>6. ASSUME NEW g \in groups, DeleteGroup(g) PROVE IInv'
  <2>1. UniqueIds' /\ \A h \in groups' : Carried(h.id)
    BY <1>6 DEF DeleteGroup, IInv, UniqueIds, Carried
  <2> QED
    BY <1>0, <1>6, <2>1, EditKeeps DEF DeleteGroup
<1>7. CASE UNCHANGED vars
  <2>1. Quiet
    BY <1>7 DEF Quiet, vars
  <2> QED
    BY <1>0, <2>1, QuietKeeps
<1> QED
  BY <1>1, <1>2, <1>3, <1>4, <1>5, <1>6, <1>7 DEF Next, Create

LEMMA Invariance == Spec => []IInv
  BY InitInv, NextInv, PTL DEF Spec

-----------------------------------------------------------------------------
(* What follows from it.                                                   *)

\* No two stored groups ever carry one Group ID.
THEOREM IdsUnique == Spec => []UniqueIds
  BY Invariance, PTL DEF IInv

\* Two transactions never hold numbers of one district together, the first
\* create of the district included.
THEOREM CountersLocked == Spec => []OneHolder
  BY Invariance, PTL DEF IInv

\* A failed create leaves no hole in the numbers of its district.
THEOREM NoHoles == Spec => []Gapless
  BY Invariance, PTL DEF IInv

\* Every step of the creates is a step of the abstract issuer or none.
LEMMA StepIssues ==
  ASSUME IInv, IInv', [Next]_vars
  PROVE  [Issuer!Next]_minted
<1>1. ASSUME NEW r \in Requests, Commit(r) PROVE [Issuer!Next]_minted
  <2> DEFINE d == Place(r)
  <2> USE DEF IInv, TypeOK
  <2>1. d \in Districts /\ drawn[r] \in Nat \ {0}
    BY <1>1, PlaceType DEF Commit, Holding
  <2>2. minted' = [minted EXCEPT ![d] = Append(@, drawn[r])]
    BY <1>1 DEF Commit
  <2>3. minted' \in [Districts -> Seq(Nat)]
    BY <2>1, <2>2
  <2>4. ASSUME NEW k \in Districts PROVE Issuer!Extends(minted'[k], minted[k])
    BY <2>1, <2>2 DEF Issuer!Extends
  <2>5. ASSUME NEW k \in Districts PROVE Issuer!Rising(minted'[k])
    <3> SUFFICES ASSUME NEW i \in 1..(Len(minted'[k]) - 1)
                 PROVE  minted'[k][i] < minted'[k][i + 1]
      BY DEF Issuer!Rising
    <3>1. counter'[k] \in Int /\ Len(minted'[k]) \in Nat
      BY DEF Absent
    <3>2. i \in 1..Len(minted'[k]) /\ i + 1 \in 1..Len(minted'[k])
      BY <3>1
    <3>3. /\ minted'[k][i] = counter'[k] - (Len(minted'[k]) - i)
          /\ minted'[k][i + 1] = counter'[k] - (Len(minted'[k]) - (i + 1))
      BY <3>2 DEF Gapless
    <3> QED
      BY <3>1, <3>2, <3>3
  <2> QED
    BY <2>3, <2>4, <2>5 DEF Issuer!Next, Issuer!Issue
<1>2. CASE \A r \in Requests : ~Commit(r)
  <2>1. UNCHANGED minted
    BY <1>2
    DEF Next, Create, RejectCity, Begin, LockCounter, MissCounter, ReadHighest,
        InsertCounter, InsertCounterFails, InsertGroup, Rollback, Respond,
        UpdateGroup, DeleteGroup, vars
  <2> QED
    BY <2>1
<1> QED
  BY <1>1, <1>2

\* Creating groups implements the abstract issuer of identifiers.
THEOREM Implements == Spec => Issues
<1>1. Init => Issuer!Init
  BY DEF Init, Issuer!Init
<1> QED
  BY <1>1, Invariance, StepIssues, PTL DEF Spec, Issues, Issuer!Spec

-----------------------------------------------------------------------------
(* The texts.  Their arithmetic first: powers of ten, the digits of a      *)
(* sequence, and how a member ID is spelled.                               *)

LEMMA IntegerLimit == MaxInteger \in Nat /\ MaxInteger < 10000000000
BY SMT DEF MaxInteger

LEMMA IntegerValue ==
  \A n \in 1..MaxInteger : n \in Nat /\ 1 <= n /\ n <= MaxInteger
BY SMT, IntegerLimit

\* Ten to the k, as long as sequences have no more digits.
LEMMA Powers ==
  /\ 10^0 = 1 /\ 10^1 = 10 /\ 10^2 = 100 /\ 10^3 = 1000 /\ 10^4 = 10000
  /\ 10^5 = 100000 /\ 10^6 = 1000000 /\ 10^7 = 10000000 /\ 10^8 = 100000000
  /\ 10^9 = 1000000000 /\ 10^10 = 10000000000
BY SMT

LEMMA PowerBounds ==
  ASSUME NEW k \in 0..MaxDigits
  PROVE  /\ 10^k \in Nat \ {0}
         /\ k <= 2 => 10^k <= 100
         /\ k >= 2 => 10^k >= 100
         /\ k <= 3 => 10^k <= 1000
         /\ k >= 3 => 10^k >= 1000
<1>0. k = 0 => 10^k = 1
  <2> SUFFICES ASSUME k = 0 PROVE 10^k = 1
    BY SMT
  <2>1. 10^k = 10^0
    BY SMT
  <2> QED
    BY SMT, <2>1, Powers
<1>1. k = 1 => 10^k = 10
  <2> SUFFICES ASSUME k = 1 PROVE 10^k = 10
    BY SMT
  <2>1. 10^k = 10^1
    BY SMT
  <2> QED
    BY SMT, <2>1, Powers
<1>2. k = 2 => 10^k = 100
  <2> SUFFICES ASSUME k = 2 PROVE 10^k = 100
    BY SMT
  <2>1. 10^k = 10^2
    BY SMT
  <2> QED
    BY SMT, <2>1, Powers
<1>3. k = 3 => 10^k = 1000
  <2> SUFFICES ASSUME k = 3 PROVE 10^k = 1000
    BY SMT
  <2>1. 10^k = 10^3
    BY SMT
  <2> QED
    BY SMT, <2>1, Powers
<1>4. k = 4 => 10^k = 10000
  <2> SUFFICES ASSUME k = 4 PROVE 10^k = 10000
    BY SMT
  <2>1. 10^k = 10^4
    BY SMT
  <2> QED
    BY SMT, <2>1, Powers
<1>5. k = 5 => 10^k = 100000
  <2> SUFFICES ASSUME k = 5 PROVE 10^k = 100000
    BY SMT
  <2>1. 10^k = 10^5
    BY SMT
  <2> QED
    BY SMT, <2>1, Powers
<1>6. k = 6 => 10^k = 1000000
  <2> SUFFICES ASSUME k = 6 PROVE 10^k = 1000000
    BY SMT
  <2>1. 10^k = 10^6
    BY SMT
  <2> QED
    BY SMT, <2>1, Powers
<1>7. k = 7 => 10^k = 10000000
  <2> SUFFICES ASSUME k = 7 PROVE 10^k = 10000000
    BY SMT
  <2>1. 10^k = 10^7
    BY SMT
  <2> QED
    BY SMT, <2>1, Powers
<1>8. k = 8 => 10^k = 100000000
  <2> SUFFICES ASSUME k = 8 PROVE 10^k = 100000000
    BY SMT
  <2>1. 10^k = 10^8
    BY SMT
  <2> QED
    BY SMT, <2>1, Powers
<1>9. k = 9 => 10^k = 1000000000
  <2> SUFFICES ASSUME k = 9 PROVE 10^k = 1000000000
    BY SMT
  <2>1. 10^k = 10^9
    BY SMT
  <2> QED
    BY SMT, <2>1, Powers
<1>10. k = 10 => 10^k = 10000000000
  <2> SUFFICES ASSUME k = 10 PROVE 10^k = 10000000000
    BY SMT
  <2>1. 10^k = 10^10
    BY SMT
  <2> QED
    BY SMT, <2>1, Powers
<1> DEFINE p == 10^k
<1> HIDE DEF p
<1>11. k \in 0..10
  BY DEF MaxDigits
<1> QED
  BY SMT, <1>0, <1>1, <1>2, <1>3, <1>4, <1>5, <1>6, <1>7, <1>8, <1>9, <1>10, <1>11 DEF p

\* Every number of a column has a number of digits.
LEMMA DigitsOf ==
  ASSUME NEW n \in 1..MaxInteger
  PROVE  /\ Digits(n) \in 1..MaxDigits
         /\ 10^(Digits(n) - 1) <= n /\ n < 10^Digits(n)
<1>1. \E k \in 1..MaxDigits : 10^(k - 1) <= n /\ n < 10^k
  <2>0. 1 - 1 = 0 /\ 2 - 1 = 1 /\ 3 - 1 = 2 /\ 4 - 1 = 3
        /\ 5 - 1 = 4 /\ 6 - 1 = 5 /\ 7 - 1 = 6 /\ 8 - 1 = 7 /\ 9 - 1 = 8 /\ 10 - 1 = 9
    BY SMT
  <2>1. ASSUME NEW k \in 1..10, 10^(k - 1) <= n, n < 10^k
        PROVE  \E j \in 1..MaxDigits : 10^(j - 1) <= n /\ n < 10^j
    <3>1. k \in 1..MaxDigits
      BY DEF MaxDigits
    <3> QED
      BY <2>1, <3>1, Zenon
  <2>7. n \in Nat /\ 1 <= n /\ n < 10000000000
    <3>1. n \in Nat /\ 1 <= n /\ n <= MaxInteger
      BY IntegerValue, Zenon
    <3> QED
      BY SMT, <3>1, IntegerLimit
  <2>2. CASE n < 100
    <3>1. (10^(1 - 1) <= n /\ n < 10^1) \/ (10^(2 - 1) <= n /\ n < 10^2)
      BY SMT, <2>2, <2>0, Powers
    <3> QED
      BY <3>1, <2>1
  <2>3. CASE n >= 100 /\ n < 10000
    <3>1. (10^(3 - 1) <= n /\ n < 10^3) \/ (10^(4 - 1) <= n /\ n < 10^4)
      BY SMT, <2>3, <2>0, Powers
    <3> QED
      BY <3>1, <2>1
  <2>4. CASE n >= 10000 /\ n < 1000000
    <3>1. (10^(5 - 1) <= n /\ n < 10^5) \/ (10^(6 - 1) <= n /\ n < 10^6)
      BY SMT, <2>4, <2>0, Powers
    <3> QED
      BY <3>1, <2>1
  <2>5. CASE n >= 1000000 /\ n < 100000000
    <3>1. (10^(7 - 1) <= n /\ n < 10^7) \/ (10^(8 - 1) <= n /\ n < 10^8)
      BY SMT, <2>5, <2>0, Powers
    <3> QED
      BY <3>1, <2>1
  <2>6. CASE n >= 100000000
    <3>1. (10^(9 - 1) <= n /\ n < 10^9) \/ (10^(10 - 1) <= n /\ n < 10^10)
      BY SMT, <2>6, <2>7, <2>0, Powers
    <3> QED
      BY <3>1, <2>1
  <2> QED
    BY SMT, <2>2, <2>3, <2>4, <2>5, <2>6, <2>7
<1> QED
  BY <1>1 DEF Digits

\* A sequence is padded to its width, and longer only from its power of ten on.
LEMMA PaddedOf ==
  ASSUME NEW n \in 1..MaxInteger, NEW w \in {GROUP_SEQUENCE_WIDTH, MEMBER_SEQUENCE_WIDTH}
  PROVE  /\ Padded(n, w).len \in w..MaxDigits
         /\ Padded(n, w).val = n
         /\ n < 10^(Padded(n, w).len)
         /\ Padded(n, w).len > w => n >= 10^w
<1> DEFINE d == Digits(n)
<1>1. d \in 1..MaxDigits /\ 10^(d - 1) <= n /\ n < 10^d
  BY DigitsOf
<1>2. w \in {2, 3}
  BY DEF GROUP_SEQUENCE_WIDTH, MEMBER_SEQUENCE_WIDTH
<1>6. (w = 2 => 10^w = 100) /\ (w = 3 => 10^w = 1000)
  <2>1. w = 2 => 10^w = 100
    <3>1. w = 2 => 10^w = 10^2
      BY SMT
    <3> QED
      BY SMT, <3>1, Powers
  <2>2. w = 3 => 10^w = 1000
    <3>1. w = 3 => 10^w = 10^3
      BY SMT
    <3> QED
      BY SMT, <3>1, Powers
  <2> QED
    BY <2>1, <2>2
<1>7. n \in Nat
  BY IntegerValue, Zenon
<1> HIDE DEF d
<1>3. Padded(n, w) = [len |-> Larger(w, d), val |-> n]
  BY DEF Padded, d
<1>4. CASE d > w
  <2>1. Larger(w, d) = d
    BY <1>1, <1>2, <1>4 DEF Larger, MaxDigits
  <2>2. d - 1 \in 0..MaxDigits /\ d - 1 >= w
    BY <1>1, <1>2, <1>4 DEF MaxDigits
  <2>3. w = 2 => 10^(d - 1) >= 100
    BY <2>2, PowerBounds
  <2>4. w = 3 => 10^(d - 1) >= 1000
    BY <2>2, PowerBounds
  <2>5. 10^(d - 1) \in Nat
    BY <2>2, PowerBounds
  <2>6. n >= 10^w
    BY <1>1, <1>2, <1>6, <1>7, <2>3, <2>4, <2>5
  <2> QED
    BY <1>1, <1>2, <1>3, <1>4, <2>1, <2>6 DEF MaxDigits
<1>5. CASE d <= w
  <2>1. Larger(w, d) = w
    BY <1>1, <1>2, <1>5 DEF Larger, MaxDigits
  <2>2. d \in 0..MaxDigits /\ 10^d \in Nat
    BY <1>1, PowerBounds DEF MaxDigits
  <2>3. w = 2 => 10^d <= 100
    BY <2>2, <1>5, PowerBounds
  <2>4. w = 3 => 10^d <= 1000
    BY <2>2, <1>5, PowerBounds
  <2>5. n < 10^w
    BY <1>1, <1>2, <1>6, <1>7, <2>2, <2>3, <2>4
  <2> QED
    BY <1>1, <1>2, <1>3, <1>5, <2>1, <2>5 DEF MaxDigits
<1> QED
  BY <1>1, <1>2, <1>4, <1>5 DEF MaxDigits

\* Arithmetic of a number written after another one.
LEMMA Written ==
  ASSUME NEW g \in Nat, NEW n \in Nat, NEW p \in Nat, n < p
  PROVE  /\ g * p + n \in Nat
         /\ (g * p + n) \div p = g
OBVIOUS

LEMMA WrittenAlike ==
  ASSUME NEW g \in Nat, NEW n \in Nat, NEW h \in Nat, NEW k \in Nat, NEW p \in Nat,
         n < p, k < p, g * p + n = h * p + k
  PROVE  g = h /\ n = k
OBVIOUS

\* How a member ID is spelled: the group's sequence, then the member's.
LEMMA Spelling ==
  ASSUME NEW g \in 1..MaxInteger, NEW n \in 1..MaxInteger
  PROVE  /\ FormatGroupId(g).val = g
         /\ FormatGroupId(g).len \in 2..10
         /\ FormatGroupId(g).len > 2 => g >= 100
         /\ \E w \in 3..10 :
              /\ FormatMemberId(g, n).len = FormatGroupId(g).len + w
              /\ FormatMemberId(g, n).val = g * 10^w + n
              /\ n < 10^w
              /\ w > 3 => n >= 1000
<1> DEFINE s == Padded(g, GROUP_SEQUENCE_WIDTH)
<1> DEFINE t == Padded(n, MEMBER_SEQUENCE_WIDTH)
<1>1. /\ s.len \in GROUP_SEQUENCE_WIDTH..MaxDigits /\ s.val = g
      /\ s.len > GROUP_SEQUENCE_WIDTH => g >= 10^GROUP_SEQUENCE_WIDTH
  BY PaddedOf
<1>2. /\ t.len \in MEMBER_SEQUENCE_WIDTH..MaxDigits /\ t.val = n /\ n < 10^(t.len)
      /\ t.len > MEMBER_SEQUENCE_WIDTH => n >= 10^MEMBER_SEQUENCE_WIDTH
  BY PaddedOf
<1>3. FormatGroupId(g) = s
  BY DEF FormatGroupId
<1>4. FormatMemberId(g, n) = Joined(s, t)
  BY <1>3 DEF FormatMemberId
<1> HIDE DEF s, t
<1>5. /\ FormatMemberId(g, n).len = s.len + t.len
      /\ FormatMemberId(g, n).val = s.val * 10^(t.len) + t.val
  BY <1>4 DEF Joined
<1>6. s.len \in 2..10 /\ (s.len > 2 => g >= 100)
  BY SMT, <1>1, Powers DEF GROUP_SEQUENCE_WIDTH, MaxDigits
<1>7. t.len \in 3..10 /\ (t.len > 3 => n >= 1000)
  BY SMT, <1>2, Powers DEF MEMBER_SEQUENCE_WIDTH, MaxDigits
<1>8. \E w \in 3..10 :
        /\ FormatMemberId(g, n).len = FormatGroupId(g).len + w
        /\ FormatMemberId(g, n).val = g * 10^w + n
        /\ n < 10^w
        /\ w > 3 => n >= 1000
  <2>1. FormatMemberId(g, n).val = g * 10^(t.len) + n
    BY <1>1, <1>2, <1>5
  <2>2. /\ FormatMemberId(g, n).len = FormatGroupId(g).len + t.len
        /\ n < 10^(t.len)
        /\ t.len > 3 => n >= 1000
    BY <1>2, <1>3, <1>5, <1>7
  <2> QED
    BY <1>7, <2>1, <2>2
<1> QED
  BY <1>1, <1>3, <1>6, <1>8

LEMMA PowerNat ==
  ASSUME NEW k \in 3..10
  PROVE  10^k \in Nat
<1>1. k \in 0..MaxDigits
  BY DEF MaxDigits
<1> QED
  BY <1>1, PowerBounds

\* A member ID is a text, starts with its group's ID, and is not empty.
LEMMA StartsOwn ==
  ASSUME NEW g \in 1..MaxInteger, NEW n \in 1..MaxInteger
  PROVE  /\ FormatMemberId(g, n) \in Texts
         /\ FormatMemberId(g, n) # NoText
         /\ StartsWith(FormatMemberId(g, n), FormatGroupId(g))
<1> DEFINE f == FormatMemberId(g, n)
<1> DEFINE s == FormatGroupId(g)
<1>1. s.val = g /\ s.len \in 2..10
  BY Spelling
<1>2. PICK w \in 3..10 : f.len = s.len + w /\ f.val = g * 10^w + n /\ n < 10^w
  BY Spelling
<1>3. f = [len |-> f.len, val |-> f.val]
  BY DEF FormatMemberId, Joined
<1>4. g \in Nat /\ n \in Nat
  BY IntegerValue
<1> HIDE DEF f, s
<1>5. 10^w \in Nat
  BY PowerNat
<1>6. f.val \in Nat /\ f.val \div 10^w = g
  BY <1>2, <1>4, <1>5, Written
<1>7. f.len \in Nat /\ f.len - s.len = w /\ f.len >= s.len /\ f.len # 0
  BY <1>1, <1>2
<1>8. f \in Texts
  BY <1>3, <1>6, <1>7 DEF Texts
<1>9. f # NoText
  BY <1>7 DEF NoText
<1>10. StartsWith(f, s)
  BY <1>1, <1>6, <1>7 DEF StartsWith
<1> QED
  BY <1>8, <1>9, <1>10 DEF f, s

\* Of the groups of one width at most one begins a text.
LEMMA SameGroup ==
  ASSUME NEW t, NEW g \in 1..MaxInteger, NEW h \in 1..MaxInteger,
         StartsWith(t, FormatGroupId(g)), StartsWith(t, FormatGroupId(h)),
         Width(g) = Width(h)
  PROVE  g = h
<1>1. FormatGroupId(g).val = g /\ FormatGroupId(h).val = h
  BY Spelling
<1> QED
  BY <1>1 DEF StartsWith, Width

\* Two pairs with one text are the same, or a group's sequence and a member's
\* are past their widths.
LEMMA SameText ==
  ASSUME NEW g \in 1..MaxInteger, NEW n \in 1..MaxInteger,
         NEW h \in 1..MaxInteger, NEW k \in 1..MaxInteger,
         FormatMemberId(g, n) = FormatMemberId(h, k)
  PROVE  \/ g = h /\ n = k
         \/ (g >= 100 \/ h >= 100) /\ (n >= 1000 \/ k >= 1000)
<1> DEFINE a == FormatGroupId(g).len
<1> DEFINE b == FormatGroupId(h).len
<1> DEFINE f == FormatMemberId(g, n)
<1>1. a \in 2..10 /\ (a > 2 => g >= 100) /\ b \in 2..10 /\ (b > 2 => h >= 100)
  BY Spelling
<1>2. PICK v \in 3..10 : f.len = a + v /\ f.val = g * 10^v + n /\ n < 10^v /\ (v > 3 => n >= 1000)
  BY Spelling
<1>3. PICK w \in 3..10 : f.len = b + w /\ f.val = h * 10^w + k /\ k < 10^w /\ (w > 3 => k >= 1000)
  BY Spelling
<1>4. g \in Nat /\ n \in Nat /\ h \in Nat /\ k \in Nat
  BY IntegerValue
<1> HIDE DEF a, b, f
<1>5. CASE v = w
  <2>1. 10^v \in Nat
    BY PowerNat
  <2>2. g * 10^v + n = h * 10^v + k /\ n < 10^v /\ k < 10^v
    BY <1>2, <1>3, <1>5
  <2> QED
    BY <1>4, <2>1, <2>2, WrittenAlike
<1>6. CASE v # w
  <2>1. a + v = b + w
    BY <1>2, <1>3
  <2>2. a > 2 \/ b > 2
    BY <1>1, <1>6, <2>1
  <2>3. v > 3 \/ w > 3
    BY <1>6
  <2> QED
    BY <1>1, <1>2, <1>3, <2>2, <2>3
<1> QED
  BY <1>5, <1>6

-----------------------------------------------------------------------------
(* The memberships that are given such texts.                              *)

\* A number begins with its group's ID and was drawn by some group's counter.
Drawn == \A m \in Members : \A g \in In(m) :
  /\ StartsWith(held[m][g], FormatGroupId(g))
  /\ \E h \in GroupSeqs, k \in MemberSeqs :
       k <= last[h] /\ held[m][g] = FormatMemberId(h, k)

\* How far the members' counters are.
Lasts == {last[g] : g \in GroupSeqs}

\* Two members share a number only past the widths.
SharedPast == \A m, o \in Members : \A g \in In(m), h \in In(o) :
  held[m][g] = held[o][h] => m = o \/ PastWidths(Drawing, Lasts)

\* The inductive invariant of the texts.
TextInv ==
  /\ TextsOK
  /\ Drawn
  /\ SharedPast
  /\ RefusedPastWidths

LEMMA SequenceBounds ==
  /\ \A g \in GroupSeqs : g \in 1..MaxInteger
  /\ \A n \in MemberSeqs : n \in 1..MaxInteger /\ n \in Nat /\ n # 0
<1>1. \A g \in GroupSeqs \cup MemberSeqs : g \in 1..MaxInteger
  BY Widths, Zenon
<1>2. \A n \in 1..MaxInteger : n \in Nat /\ n # 0
  <2>1. ASSUME NEW n \in 1..MaxInteger PROVE n \in Nat /\ n # 0
    <3>1. n \in Nat /\ 1 <= n
      BY IntegerValue
    <3> QED
      BY <3>1
  <2> QED
    BY <2>1, Zenon
<1> QED
  BY <1>1, <1>2, Zenon

LEMMA PastWidthsOf ==
  ASSUME NEW gs, NEW ns
  PROVE  PastWidths(gs, ns) <=> (\E g \in gs : g >= 100) /\ (\E n \in ns : n >= 1000)
BY SMT, Powers DEF PastWidths, GROUP_SEQUENCE_WIDTH, MEMBER_SEQUENCE_WIDTH

\* Counters that only rise keep groups and members past their widths.
LEMMA StayPast ==
  ASSUME TextsOK, NEW p \in [GroupSeqs -> MemberSeqs \cup {0}],
         \A g \in GroupSeqs : p[g] >= last[g],
         NEW gs, NEW ns,
         PastWidths(Drawing \cup gs, Lasts \cup ns)
  PROVE  PastWidths({g \in GroupSeqs : p[g] # 0} \cup gs, {p[g] : g \in GroupSeqs} \cup ns)
<1>1. \A g \in GroupSeqs : last[g] \in Nat /\ p[g] \in Nat
  <2>1. ASSUME NEW g \in GroupSeqs PROVE last[g] \in Nat /\ p[g] \in Nat
    <3>1. last[g] \in MemberSeqs \cup {0} /\ p[g] \in MemberSeqs \cup {0}
      BY DEF TextsOK
    <3> QED
      BY <3>1, SequenceBounds
  <2> QED
    BY <2>1
<1>2. PICK g \in Drawing \cup gs : g >= 100
  BY PastWidthsOf
<1>3. PICK n \in Lasts \cup ns : n >= 1000
  BY PastWidthsOf
<1>4. \E h \in {h \in GroupSeqs : p[h] # 0} \cup gs : h >= 100
  BY <1>1, <1>2 DEF Drawing
<1>5. \E k \in {p[h] : h \in GroupSeqs} \cup ns : k >= 1000
  <2>1. CASE n \in ns
    BY <1>3, <2>1
  <2>2. CASE n \in Lasts
    <3>1. PICK h \in GroupSeqs : n = last[h]
      BY <2>2 DEF Lasts
    <3>2. p[h] >= 1000
      BY <1>1, <1>3, <3>1
    <3> QED
      BY <3>2
  <2> QED
    BY <1>3, <2>1, <2>2
<1> QED
  BY <1>4, <1>5, PastWidthsOf

\* Two numbers that were drawn and are spelled alike: a group and a member are
\* past their widths, among those that drew them.
LEMMA AlikePast ==
  ASSUME NEW g \in GroupSeqs, NEW n \in MemberSeqs, NEW h \in GroupSeqs, NEW k \in MemberSeqs,
         FormatMemberId(g, n) = FormatMemberId(h, k), ~(g = h /\ n = k),
         NEW gs, g \in gs, h \in gs,
         NEW ns, NEW p, NEW q, p \in ns, q \in ns, p \in Nat, q \in Nat, n <= p, k <= q
  PROVE  PastWidths(gs, ns)
<1>1. (g >= 100 \/ h >= 100) /\ (n >= 1000 \/ k >= 1000)
  BY SequenceBounds, SameText
<1>2. n \in Nat /\ k \in Nat
  BY SequenceBounds
<1>3. p >= 1000 \/ q >= 1000
  BY <1>1, <1>2
<1> QED
  BY <1>1, <1>3, PastWidthsOf

\* A membership is given the text t: the part of both ways to join.
LEMMA GiveKeeps ==
  ASSUME TextInv, NEW m \in Members, NEW g \in GroupSeqs, NEW t \in Texts,
         held[m][g] = NoText, Give(m, g, t), t # NoText,
         StartsWith(t, FormatGroupId(g)),
         last' \in [GroupSeqs -> MemberSeqs \cup {0}],
         \A h \in GroupSeqs : last'[h] >= last[h],
         \E h \in GroupSeqs, k \in MemberSeqs : k <= last'[h] /\ t = FormatMemberId(h, k),
         \A o \in Members \ {m} : \A h \in In(o) : held[o][h] = t => PastWidths(Drawing', Lasts')
  PROVE  TextInv'
<1>1. /\ held \in [Members -> [GroupSeqs -> Texts]]
      /\ visible \in [Members -> Texts] /\ last \in [GroupSeqs -> MemberSeqs \cup {0}]
  BY DEF TextInv, TextsOK
<1>2. /\ held' \in [Members -> [GroupSeqs -> Texts]]
      /\ \A o \in Members, h \in GroupSeqs :
           held'[o][h] = IF o = m /\ h = g THEN t ELSE held[o][h]
  BY <1>1 DEF Give
<1>3. /\ In(m)' = In(m) \cup {g}
      /\ \A o \in Members \ {m} : In(o)' = In(o)
  BY <1>2 DEF In
<1>4. /\ visible' \in [Members -> Texts]
      /\ \A o \in Members \ {m} : visible'[o] = visible[o]
      /\ visible'[m] = IF In(m) = {} THEN t ELSE visible[m]
  BY <1>1 DEF Give
<1>5. users' = users /\ refused' = refused
  BY DEF Give
<1>6. TextsOK'
  <2>1. ASSUME NEW o \in Members
        PROVE  IF In(o)' = {} THEN visible'[o] = NoText
                              ELSE \E h \in In(o)' : visible'[o] = held'[o][h]
    <3>1. IF In(o) = {} THEN visible[o] = NoText
                        ELSE \E h \in In(o) : visible[o] = held[o][h]
      BY DEF TextInv, TextsOK
    <3>2. CASE o # m
      BY <1>2, <1>3, <1>4, <3>1, <3>2 DEF In
    <3>3. CASE o = m /\ In(m) = {}
      <4>1. g \in In(o)' /\ visible'[o] = held'[o][g]
        BY <1>2, <1>3, <1>4, <3>3
      <4> QED
        BY <4>1
    <3>4. CASE o = m /\ In(m) # {}
      <4>1. PICK h \in In(m) : visible[m] = held[m][h]
        BY <3>1, <3>4
      <4>2. h # g /\ h \in GroupSeqs
        BY DEF In
      <4>3. h \in In(o)' /\ visible'[o] = held'[o][h]
        BY <1>2, <1>3, <1>4, <3>4, <4>1, <4>2
      <4> QED
        BY <4>3
    <3> QED
      BY <3>2, <3>3, <3>4
  <2>2. users \subseteq Members /\ refused \in {<<>>} \cup GroupSeqs \X (MemberSeqs \cup {0})
    BY DEF TextInv, TextsOK
  <2> QED
    BY <1>2, <1>4, <1>5, <2>1, <2>2 DEF TextsOK
<1>7. Drawn'
  <2>1. ASSUME NEW o \in Members, NEW h \in In(o)'
        PROVE  /\ StartsWith(held'[o][h], FormatGroupId(h))
               /\ \E i \in GroupSeqs, k \in MemberSeqs :
                    k <= last'[i] /\ held'[o][h] = FormatMemberId(i, k)
    <3>0. h \in GroupSeqs
      BY DEF In
    <3>1. CASE o = m /\ h = g
      BY <1>2, <3>1
    <3>2. CASE ~(o = m /\ h = g)
      <4>1. h \in In(o) /\ held'[o][h] = held[o][h]
        BY <1>2, <1>3, <3>0, <3>2
      <4>2. StartsWith(held[o][h], FormatGroupId(h))
        BY <4>1 DEF TextInv, Drawn
      <4>3. PICK i \in GroupSeqs, k \in MemberSeqs :
              k <= last[i] /\ held[o][h] = FormatMemberId(i, k)
        BY <4>1 DEF TextInv, Drawn
      <4>4. last[i] \in Nat /\ last'[i] \in Nat /\ k \in Nat
        <5>1. last[i] \in MemberSeqs \cup {0} /\ last'[i] \in MemberSeqs \cup {0}
          BY <1>1
        <5> QED
          BY <5>1, SequenceBounds
      <4>5. k <= last'[i]
        BY <4>3, <4>4
      <4> QED
        BY <4>1, <4>2, <4>3, <4>5
    <3> QED
      BY <3>1, <3>2
  <2> QED
    BY <2>1 DEF Drawn, In
<1>8. ASSUME PastWidths(Drawing, Lasts) PROVE PastWidths(Drawing', Lasts')
  <2>1. PastWidths(Drawing \cup {}, Lasts \cup {})
    BY <1>8
  <2>2. PastWidths({h \in GroupSeqs : last'[h] # 0} \cup {}, {last'[h] : h \in GroupSeqs} \cup {})
    BY <2>1, StayPast DEF TextInv
  <2> QED
    BY <2>2 DEF Drawing, Lasts
<1>9. SharedPast'
  <2>1. ASSUME NEW o \in Members, NEW q \in Members, NEW h \in In(o)', NEW i \in In(q)',
               held'[o][h] = held'[q][i], o # q
        PROVE  PastWidths(Drawing', Lasts')
    <3>0. h \in GroupSeqs /\ i \in GroupSeqs
      BY DEF In
    <3>1. CASE o = m /\ h = g
      <4>1. i \in In(q) /\ held[q][i] = t
        BY <1>2, <1>3, <2>1, <3>0, <3>1
      <4> QED
        BY <2>1, <3>1, <4>1
    <3>2. CASE q = m /\ i = g
      <4>1. h \in In(o) /\ held[o][h] = t
        BY <1>2, <1>3, <2>1, <3>0, <3>2
      <4> QED
        BY <2>1, <3>2, <4>1
    <3>3. CASE ~(o = m /\ h = g) /\ ~(q = m /\ i = g)
      <4>1. h \in In(o) /\ i \in In(q) /\ held[o][h] = held[q][i]
        BY <1>2, <1>3, <2>1, <3>0, <3>3
      <4>2. PastWidths(Drawing, Lasts)
        BY <2>1, <4>1 DEF TextInv, SharedPast
      <4> QED
        BY <1>8, <4>2
    <3> QED
      BY <3>1, <3>2, <3>3
  <2> QED
    BY <2>1 DEF SharedPast, In
<1>10. RefusedPastWidths'
  <2>1. ASSUME refused # <<>>
        PROVE  PastWidths(Drawing' \cup {refused[1]},
                          {last'[h] : h \in GroupSeqs} \cup {refused[2]})
    <3>1. PastWidths(Drawing \cup {refused[1]}, Lasts \cup {refused[2]})
      BY <2>1 DEF TextInv, RefusedPastWidths, Lasts
    <3>2. PastWidths({h \in GroupSeqs : last'[h] # 0} \cup {refused[1]},
                     {last'[h] : h \in GroupSeqs} \cup {refused[2]})
      BY <3>1, StayPast DEF TextInv
    <3> QED
      BY <3>2 DEF Drawing
  <2> QED
    BY <1>5, <2>1 DEF RefusedPastWidths
<1> QED
  BY <1>6, <1>7, <1>9, <1>10 DEF TextInv

\* What a text a member shows is: nothing, or the number of a membership.
LEMMA ShownHeld ==
  ASSUME TextInv, NEW m \in Members, visible[m] # NoText
  PROVE  \E h \in In(m) : visible[m] = held[m][h]
BY DEF TextInv, TextsOK

LEMMA MatchesText ==
  ASSUME TextInv, NEW m \in Members, NEW g \in GroupSeqs, Matches(visible[m], g)
  PROVE  visible[m] # NoText /\ StartsWith(visible[m], FormatGroupId(g))
<1>1. FormatGroupId(g).len \in 2..10
  BY SequenceBounds, Spelling
<1>2. visible[m].len - FormatGroupId(g).len >= 3
  BY DEF Matches, MEMBER_SEQUENCE_WIDTH
<1> QED
  BY <1>1, <1>2 DEF Matches, NoText

\* A number the counter of g is about to draw, held already.
LEMMA DrawnBefore ==
  ASSUME TextInv, NEW g \in GroupSeqs, NEW n \in MemberSeqs, n > last[g],
         NEW o \in Members, NEW h \in In(o), held[o][h] = FormatMemberId(g, n),
         NEW gs, Drawing \subseteq gs, g \in gs, NEW ns, NEW p \in ns, p \in Nat, n <= p,
         \A i \in GroupSeqs \ {g} : last[i] \in ns,
         last[g] \in ns \/ p = n
  PROVE  PastWidths(gs, ns)
<1>1. PICK i \in GroupSeqs, k \in MemberSeqs : k <= last[i] /\ held[o][h] = FormatMemberId(i, k)
  BY DEF TextInv, Drawn
<1>2. k \in Nat /\ k # 0 /\ n \in Nat
  BY SequenceBounds
<1>3. last[i] \in Nat /\ last[g] \in Nat
  <2>1. last[i] \in MemberSeqs \cup {0} /\ last[g] \in MemberSeqs \cup {0}
    BY DEF TextInv, TextsOK
  <2> QED
    BY <2>1, SequenceBounds
<1>4. ~(g = i /\ n = k)
  BY <1>1, <1>2, <1>3
<1>5. i \in gs
  <2>1. last[i] # 0
    BY <1>1, <1>2, <1>3
  <2> QED
    BY <2>1 DEF Drawing
<1>6. \E q \in ns : q \in Nat /\ k <= q
  <2>1. CASE i = g
    <3>1. k <= p
      BY <1>1, <1>2, <1>3, <2>1
    <3> QED
      BY <3>1
  <2>2. CASE i # g
    BY <1>1, <1>3, <2>2
  <2> QED
    BY <2>1, <2>2
<1>7. PICK q \in ns : q \in Nat /\ k <= q
  BY <1>6
<1> QED
  BY <1>1, <1>4, <1>5, <1>7, AlikePast

LEMMA KeepingKeeps ==
  ASSUME TextInv, NEW m \in Members, NEW g \in GroupSeqs, JoinKeeping(m, g)
  PROVE  TextInv'
<1> DEFINE t == visible[m]
<1>1. t # NoText /\ StartsWith(t, FormatGroupId(g)) /\ t \in Texts
  BY MatchesText DEF JoinKeeping, TextInv, TextsOK
<1>2. held[m][g] = NoText /\ Give(m, g, t) /\ last' = last
  BY DEF JoinKeeping, MayJoin
<1>3. PICK i \in In(m) : t = held[m][i]
  BY <1>1, ShownHeld
<1>4. last \in [GroupSeqs -> MemberSeqs \cup {0}]
  BY DEF TextInv, TextsOK
<1>5. \A h \in GroupSeqs : last'[h] >= last[h]
  <2>1. ASSUME NEW h \in GroupSeqs PROVE last'[h] >= last[h]
    <3>1. last[h] \in Nat
      <4>1. last[h] \in MemberSeqs \cup {0}
        BY <1>4
      <4> QED
        BY <4>1, SequenceBounds
    <3> QED
      BY <1>2, <3>1
  <2> QED
    BY <2>1
<1>6. \E h \in GroupSeqs, k \in MemberSeqs : k <= last'[h] /\ t = FormatMemberId(h, k)
  BY <1>2, <1>3 DEF TextInv, Drawn
<1>7. \A o \in Members \ {m} : \A h \in In(o) : held[o][h] = t => PastWidths(Drawing', Lasts')
  <2>1. ASSUME NEW o \in Members \ {m}, NEW h \in In(o), held[o][h] = t
        PROVE  PastWidths(Drawing, Lasts)
    BY <1>3, <2>1 DEF TextInv, SharedPast
  <2>2. Drawing' = Drawing /\ Lasts' = Lasts
    BY <1>2 DEF Drawing, Lasts
  <2> QED
    BY <2>1, <2>2
<1> HIDE DEF t
<1> QED
  BY <1>1, <1>2, <1>4, <1>5, <1>6, <1>7, GiveKeeps

LEMMA DrawingKeeps ==
  ASSUME TextInv, NEW m \in Members, NEW g \in GroupSeqs, NEW n \in MemberSeqs,
         JoinDrawing(m, g, n)
  PROVE  TextInv'
<1> DEFINE t == FormatMemberId(g, n)
<1>1. t # NoText /\ StartsWith(t, FormatGroupId(g)) /\ t \in Texts
  BY SequenceBounds, StartsOwn
<1>2. /\ held[m][g] = NoText /\ Give(m, g, t) /\ n > last[g]
      /\ last' = [last EXCEPT ![g] = n]
  BY DEF JoinDrawing, MayJoin
<1>3. last \in [GroupSeqs -> MemberSeqs \cup {0}]
  BY DEF TextInv, TextsOK
<1>4. /\ last' \in [GroupSeqs -> MemberSeqs \cup {0}]
      /\ last'[g] = n
      /\ \A h \in GroupSeqs \ {g} : last'[h] = last[h]
  BY <1>2, <1>3
<1>5. n \in Nat /\ n # 0 /\ \A h \in GroupSeqs : last[h] \in Nat
  <2>1. ASSUME NEW h \in GroupSeqs PROVE last[h] \in Nat
    <3>1. last[h] \in MemberSeqs \cup {0}
      BY <1>3
    <3> QED
      BY <3>1, SequenceBounds
  <2> QED
    BY <2>1, SequenceBounds
<1>6. \A h \in GroupSeqs : last'[h] >= last[h]
  BY <1>2, <1>4, <1>5
<1>7. \E h \in GroupSeqs, k \in MemberSeqs : k <= last'[h] /\ t = FormatMemberId(h, k)
  <2>1. n <= last'[g]
    BY <1>4, <1>5
  <2> QED
    BY <2>1
<1>8. \A o \in Members \ {m} : \A h \in In(o) : held[o][h] = t => PastWidths(Drawing', Lasts')
  <2>1. Drawing \subseteq Drawing' /\ g \in Drawing'
    BY <1>2, <1>4, <1>5 DEF Drawing
  <2>2. n \in Lasts' /\ \A i \in GroupSeqs \ {g} : last[i] \in Lasts'
    BY <1>4 DEF Lasts
  <2>3. ASSUME NEW o \in Members \ {m}, NEW h \in In(o), held[o][h] = t
        PROVE  PastWidths(Drawing', Lasts')
    <3>1. n <= n
      BY <1>5
    <3> QED
      BY <1>2, <1>5, <2>1, <2>2, <2>3, <3>1, DrawnBefore
  <2> QED
    BY <2>3
<1> HIDE DEF t
<1> QED
  BY <1>1, <1>2, <1>4, <1>6, <1>7, <1>8, GiveKeeps

LEMMA RefusedKeeps ==
  ASSUME TextInv, NEW m \in Members, NEW g \in GroupSeqs, NEW n \in MemberSeqs \cup {0},
         JoinRefused(m, g, n)
  PROVE  TextInv'
<1> DEFINE gs == Drawing \cup {g}
<1> DEFINE ns == Lasts \cup {n}
<1>1. UNCHANGED <<last, held, visible, users>> /\ refused' = <<g, n>> /\ held[m][g] = NoText
  BY DEF JoinRefused, MayJoin
<1>2. ASSUME Matches(visible[m], g), Taken(m, g, visible[m])
      PROVE  PastWidths(gs, ns)
  <2>1. visible[m] # NoText
    BY <1>2, MatchesText
  <2>2. PICK i \in In(m) : visible[m] = held[m][i]
    BY <2>1, ShownHeld
  <2>3. PICK o \in Members : held[o][g] = visible[m]
    BY <1>2, <2>2 DEF Taken, Shown, Listed, TextInv, TextsOK
  <2>4. o # m /\ g \in In(o)
    BY <1>1, <2>1, <2>3 DEF In
  <2>5. PastWidths(Drawing, Lasts)
    BY <2>2, <2>3, <2>4 DEF TextInv, SharedPast
  <2> QED
    BY <2>5, PastWidthsOf
<1>3. ASSUME n > last[g], Taken(m, g, FormatMemberId(g, n))
      PROVE  PastWidths(gs, ns)
  <2>1. last[g] \in MemberSeqs \cup {0}
    BY DEF TextInv, TextsOK
  <2>2. n \in MemberSeqs
    BY <1>3, <2>1, SequenceBounds
  <2>3. FormatMemberId(g, n) # NoText
    BY <2>2, SequenceBounds, StartsOwn
  <2>4. \E o \in Members : \E h \in In(o) : held[o][h] = FormatMemberId(g, n)
    <3>1. CASE Shown(m, FormatMemberId(g, n))
      <4>1. PICK o \in Members : visible[o] = FormatMemberId(g, n)
        BY <3>1 DEF Shown
      <4> QED
        BY <2>3, <4>1, ShownHeld
    <3>2. CASE Listed(m, g, FormatMemberId(g, n))
      <4>1. PICK o \in Members : held[o][g] = FormatMemberId(g, n)
        BY <3>2 DEF Listed, TextInv, TextsOK
      <4>2. g \in In(o)
        BY <2>3, <4>1 DEF In
      <4> QED
        BY <4>1, <4>2
    <3> QED
      BY <1>3, <3>1, <3>2 DEF Taken
  <2>5. PICK o \in Members : \E h \in In(o) : held[o][h] = FormatMemberId(g, n)
    BY <2>4
  <2>6. PICK h \in In(o) : held[o][h] = FormatMemberId(g, n)
    BY <2>5
  <2>7. n \in Nat /\ n <= n
    BY <2>2, SequenceBounds
  <2>8. Drawing \subseteq gs /\ g \in gs /\ n \in ns /\ \A i \in GroupSeqs : last[i] \in ns
    BY DEF Lasts
  <2> HIDE DEF gs, ns
  <2> QED
    BY <1>3, <2>2, <2>6, <2>7, <2>8, DrawnBefore
<1>4. PastWidths(gs, ns)
  BY <1>2, <1>3 DEF JoinRefused
<1>5. RefusedPastWidths'
  <2>1. refused'[1] = g /\ refused'[2] = n
    BY <1>1
  <2>2. Drawing' = Drawing /\ {last'[h] : h \in GroupSeqs} = Lasts
    BY <1>1 DEF Drawing, Lasts
  <2> QED
    BY <1>4, <2>1, <2>2 DEF RefusedPastWidths
<1>6. TextsOK'
  <2>1. \A o \in Members : In(o)' = In(o)
    BY <1>1 DEF In
  <2> QED
    BY <1>1, <2>1 DEF TextInv, TextsOK
<1>7. Drawn' /\ SharedPast'
  BY <1>1 DEF TextInv, Drawn, SharedPast, In, Drawing, Lasts
<1> QED
  BY <1>5, <1>6, <1>7 DEF TextInv

LEMMA TextInit == JoinInit => TextInv
<1> SUFFICES ASSUME JoinInit PROVE TextInv
  OBVIOUS
<1>1. NoText \in Texts
  BY DEF NoText, Texts
<1>2. \A m \in Members : In(m) = {}
  BY DEF JoinInit, In
<1>3. refused = <<>>
  BY DEF JoinInit
<1>4. TextsOK
  <2>1. /\ last \in [GroupSeqs -> MemberSeqs \cup {0}]
        /\ held \in [Members -> [GroupSeqs -> Texts]]
        /\ visible \in [Members -> Texts] /\ users \subseteq Members
        /\ \A m \in Members : visible[m] = NoText
    BY <1>1 DEF JoinInit
  <2> QED
    BY <1>2, <1>3, <2>1 DEF TextsOK
<1> QED
  BY <1>2, <1>3, <1>4 DEF TextInv, Drawn, SharedPast, RefusedPastWidths

LEMMA TextStep == TextInv /\ [JoinNext]_joinVars => TextInv'
<1> SUFFICES ASSUME TextInv, [JoinNext]_joinVars PROVE TextInv'
  OBVIOUS
<1>1. ASSUME UNCHANGED joinVars PROVE TextInv'
  <2>1. UNCHANGED <<last, held, visible, users, refused>>
    BY <1>1 DEF joinVars
  <2>2. TextsOK' /\ RefusedPastWidths'
    BY <2>1 DEF TextInv, TextsOK, RefusedPastWidths, In, Drawing
  <2>3. Drawn' /\ SharedPast'
    BY <2>1 DEF TextInv, Drawn, SharedPast, In, Drawing, Lasts
  <2> QED
    BY <2>2, <2>3 DEF TextInv
<1>2. ASSUME NEW m \in Members, NEW g \in GroupSeqs, JoinAgain(m, g) PROVE TextInv'
  BY <1>1, <1>2 DEF JoinAgain
<1>3. ASSUME NEW m \in Members, NEW g \in GroupSeqs, JoinKeeping(m, g) PROVE TextInv'
  BY <1>3, KeepingKeeps
<1>4. ASSUME NEW m \in Members, NEW g \in GroupSeqs, NEW n \in MemberSeqs,
             JoinDrawing(m, g, n)
      PROVE  TextInv'
  BY <1>4, DrawingKeeps
<1>5. ASSUME NEW m \in Members, NEW g \in GroupSeqs, NEW n \in MemberSeqs \cup {0},
             JoinRefused(m, g, n)
      PROVE  TextInv'
  BY <1>5, RefusedKeeps
<1> QED
  BY <1>1, <1>2, <1>3, <1>4, <1>5 DEF JoinNext

LEMMA TextInvariance == JoinSpec => []TextInv
<1> QED
  BY TextInit, TextStep, PTL DEF JoinSpec

\* One text is never given in two groups whose sequences have one width, and
\* never to two members before a group and a member are past their widths,
\* whatever assign_member_id takes for a number of the group.
THEOREM TextsIdentify == JoinSpec => []OneMembership
<1>1. TextInv => OneMembership
  <2> SUFFICES ASSUME TextInv PROVE OneMembership
    OBVIOUS
  <2>1. ASSUME NEW m \in Members, NEW o \in Members, NEW g \in In(m), NEW h \in In(o),
               held[m][g] = held[o][h], Width(g) = Width(h)
        PROVE  g = h
    <3>1. StartsWith(held[m][g], FormatGroupId(g)) /\ StartsWith(held[m][g], FormatGroupId(h))
      BY <2>1 DEF TextInv, Drawn
    <3>2. g \in 1..MaxInteger /\ h \in 1..MaxInteger
      BY SequenceBounds DEF In
    <3> QED
      BY <2>1, <3>1, <3>2, SameGroup
  <2>2. ASSUME NEW m \in Members, NEW o \in Members, NEW g \in In(m), NEW h \in In(o),
               held[m][g] = held[o][h]
        PROVE  m = o \/ PastWidths(Drawing, {last[k] : k \in GroupSeqs})
    BY <2>2 DEF TextInv, SharedPast, Lasts
  <2> QED
    BY <2>1, <2>2 DEF OneMembership
<1> QED
  BY <1>1, TextInvariance, PTL

\* A join is answered 409 for its number only once a group's sequence and a
\* member's are past their widths.
THEOREM RefusalsPastWidths == JoinSpec => []RefusedPastWidths
<1>1. TextInv => RefusedPastWidths
  BY DEF TextInv
<1> QED
  BY <1>1, TextInvariance, PTL

\* A member shows a number exactly when it has a membership, and then the
\* number of one of them.
THEOREM TextsShown == JoinSpec => []TextsOK
<1>1. TextInv => TextsOK
  BY DEF TextInv
<1> QED
  BY <1>1, TextInvariance, PTL
=============================================================================
