------------------------- MODULE MembershipsProofs --------------------------
(***************************************************************************)
(* Memberships and member numbers for any members, groups and requests.    *)
(***************************************************************************)
EXTENDS Memberships, FiniteSetTheorems, SequenceTheorems, WellFoundedInduction, TLAPS

CallRecord ==
  [do : {"add", "remove", "detach", "cut", "append"}, m : Members, g : Groups]
    \cup [do : {"approve"}, m : Members, g : {None}]
    \cup [do : {"drop"}, m : {None}, g : Groups]
    \cup [do : {"sync"}, m : Members, wish : Wishes]

TypeInv ==
  /\ member \in [Members -> Member]
  /\ groups \subseteq Groups
  /\ counter \in [Groups -> Nat \cup {Absent}]
  /\ minted \in [Groups -> Seq(Nat \ {0})]
  /\ carried \subseteq Groups \X (Nat \ {0}) \X Members
  /\ pc \in [Requests -> {"idle", "run"} \cup Ended]
  /\ todo \in [Requests -> Seq(CallRecord)]
  /\ scope \in [Requests -> Groups \cup {None}]
  /\ loaded \in [Requests -> [Members -> Loaded \cup {None}]]
  /\ work \in [Requests -> [Members -> Member \cup {None}]]
  /\ drawn \in [Requests -> [Groups -> Seq(Nat \ {0})]]

\* A member is locked by one request, which has loaded it; what is not running
\* holds nothing.
Locks ==
  /\ \A r, s \in Requests, m \in Members : work[r][m] # None /\ work[s][m] # None => r = s
  /\ \A r \in Requests, m \in Members : work[r][m] # None => loaded[r][m] # None
  /\ \A r \in Requests : pc[r] # "run" =>
       /\ scope[r] = None
       /\ \A m \in Members : loaded[r][m] = None /\ work[r][m] = None
       /\ \A g \in Groups : drawn[r][g] = <<>>

\* What a group admin's request still has to do is about its own group.
Mild(c, g) == c.do = "sync" \/ (c.do \in {"add", "cut", "append"} /\ c.g = g)
OwnCalls ==
  \A r \in Requests : scope[r] # None =>
    \A i \in DOMAIN todo[r] : Mild(todo[r][i], scope[r])

\* Numbers are drawn by one request at a time, above all there are.
Upward(s) == \A i, j \in DOMAIN s : i < j => s[i] < s[j]
Drawing ==
  /\ \A r, s \in Requests, g \in Groups : drawn[r][g] # <<>> /\ drawn[s][g] # <<>> => r = s
  /\ \A r \in Requests, g \in Groups :
       Upward(drawn[r][g]) /\ \A i \in DOMAIN drawn[r][g] : drawn[r][g][i] > counter[g]
  /\ \A g \in Groups :
       Upward(minted[g]) /\ \A i \in DOMAIN minted[g] : minted[g][i] <= counter[g]

IInv == TypeInv /\ Locks /\ OwnCalls /\ OthersKept /\ Drawing

\* The numbers a request has read or written of a member.
Believes(ss, g, n) == ss.row[g] = n \/ ss.num = <<g, n>>
Shows(db, g, n) == db.row[g] = n \/ db.gm[g] = n \/ db.num = <<g, n>>
Holds(r, m, g, n) ==
  \/ loaded[r][m] # None /\ Believes(loaded[r][m], g, n)
  \/ work[r][m] # None /\ Shows(work[r][m], g, n)

Drew(s, n) == \E i \in DOMAIN s : s[i] = n

\* Every number is one that was committed, at most the counter, or one that the
\* request drew for one member, above the counter.
Numbers ==
  /\ \A r \in Requests, m \in Members, g \in Groups, n \in Nat \ {0} :
       Holds(r, m, g, n) => <<g, n, m>> \in carried \/ Drew(drawn[r][g], n)
  /\ \A r \in Requests, m, o \in Members, g \in Groups, n \in Nat \ {0} :
       Holds(r, m, g, n) /\ Holds(r, o, g, n) /\ Drew(drawn[r][g], n) => m = o
  /\ \A g \in Groups, n \in Nat \ {0}, m \in Members : <<g, n, m>> \in carried => n <= counter[g]
  /\ \A m \in Members, g \in Groups, n \in Nat \ {0} :
       Shows(member[m], g, n) => <<g, n, m>> \in carried
  /\ NumberOwned

-----------------------------------------------------------------------------
(* Least and greatest numbers.                                             *)

\* A set of natural numbers that is not empty has a least one.
LEMMA Least ==
  ASSUME NEW T \in SUBSET Nat, T # {}
  PROVE  \E x \in T : \A y \in T : x <= y
<1> DEFINE R == OpToRel(<, Nat)
<1>1. IsWellFoundedOn(R, Nat)
  BY NatLessThanWellFounded
<1>2. \A x, y \in Nat : y < x => <<y, x>> \in R
  BY DEF OpToRel
<1> HIDE DEF R
<1>3. PICK x \in T : \A y \in T : ~ (<<y, x>> \in R)
  BY <1>1, WFMin
<1>4. \A y \in T : ~ (y < x)
  BY <1>2, <1>3
<1> QED
  BY <1>4

\* ... and a greatest one, where it is finite: take a least subset without.
LEMMA Greatest ==
  ASSUME NEW T \in SUBSET Nat, T # {}, IsFiniteSet(T)
  PROVE  Max(T) \in T /\ \A y \in T : y <= Max(T)
<1> DEFINE Has(S) == \E x \in S : \A y \in S : y <= x
           Bad == {n \in Nat : \E S \in SUBSET T : S # {} /\ ~Has(S) /\ Cardinality(S) = n}
<1>1. \A S \in SUBSET T : IsFiniteSet(S) /\ Cardinality(S) \in Nat
  BY FS_Subset, FS_CardinalityType
<1>2. Bad = {}
  <2> SUFFICES ASSUME Bad # {}
               PROVE  FALSE
    OBVIOUS
  <2>1. PICK n \in Bad : \A m \in Bad : n <= m
    <3>1. Bad \in SUBSET Nat
      OBVIOUS
    <3> HIDE DEF Bad
    <3> QED
      BY <3>1, Least
  <2>2. PICK S \in SUBSET T : S # {} /\ ~Has(S) /\ Cardinality(S) = n
    OBVIOUS
  <2>3. PICK x \in S : TRUE
    BY <2>2
  <2>4. Cardinality(S \ {x}) = n - 1 /\ S \ {x} \in SUBSET T /\ n \in Nat /\ n - 1 \in Nat
    <3>1. IsFiniteSet(S) /\ Cardinality(S) \in Nat /\ IsFiniteSet(S \ {x}) /\ S \ {x} \in SUBSET T
      BY <1>1
    <3>2. Cardinality(S \ {x}) = Cardinality(S) - 1
      BY <2>3, <3>1, FS_RemoveElement
    <3>3. Cardinality(S \ {x}) \in Nat
      BY <1>1
    <3> HIDE DEF Bad, Has
    <3> QED
      BY <2>2, <3>1, <3>2, <3>3
  <2>5. S \ {x} # {} => Has(S \ {x})
    <3> SUFFICES ASSUME S \ {x} # {}, ~Has(S \ {x})
                 PROVE  FALSE
      OBVIOUS
    <3>1. n - 1 \in Bad
      BY <2>4
    <3> HIDE DEF Bad
    <3> QED
      BY <2>1, <2>4, <3>1
  <2>6. x \in Nat /\ S \subseteq Nat
    BY <2>2, <2>3
  <2>7. CASE S \ {x} = {}
    BY <2>2, <2>3, <2>6, <2>7
  <2>8. CASE S \ {x} # {}
    <3>1. PICK z \in S \ {x} : \A y \in S \ {x} : y <= z
      BY <2>5, <2>8
    <3>2. Has(S)
      BY <2>3, <2>6, <3>1
    <3> QED
      BY <2>2, <3>2
  <2> QED
    BY <2>7, <2>8
<1>3. Has(T)
  <2>1. Has(T) \/ Cardinality(T) \in Bad
    BY <1>1
  <2> QED
    BY <1>2, <2>1
<1>4. \E x \in T : \A y \in T : x >= y
  BY <1>3
<1>5. Max(T) \in T /\ \A y \in T : Max(T) >= y
  BY <1>4 DEF Max
<1> QED
  BY <1>5

-----------------------------------------------------------------------------
(* What the calls do to a member: they keep its type, no row goes but the  *)
(* one that is deleted, and no number appears but the one assigned.        *)

Views == [db : Member, ss : Loaded]
Knows(w, g, n) == Believes(w.ss, g, n) \/ Shows(w.db, g, n)

Quiet(w, v) ==
  /\ v \in Views
  /\ \A g \in Groups : w.db.prio[g] # 0 => v.db.prio[g] # 0
  /\ \A g \in Groups, n \in Nat \ {0} : Knows(v, g, n) => Knows(w, g, n)

LEMMA Quietly ==
  ASSUME NEW w \in Views
  PROVE  /\ Quiet(w, w)
         /\ \A u, v : Quiet(w, u) /\ Quiet(u, v) => Quiet(w, v)
  BY DEF Quiet

LEMMA SetPtrType ==
  ASSUME NEW w \in Views, NEW g \in Groups \cup {None}
  PROVE  /\ Quiet(w, SetPtr(w, g))
         /\ SetPtr(w, g).db.prio = w.db.prio /\ SetPtr(w, g).ss.prio = w.ss.prio
<1>1. CASE w.ss.ptr = g
  BY <1>1 DEF SetPtr, Quiet
<1>2. CASE w.ss.ptr # g
  <2> DEFINE db == [w.db EXCEPT !.ptr = g]
             ss == [w.ss EXCEPT !.ptr = g]
  <2>1. /\ db \in Member /\ db.prio = w.db.prio /\ db.row = w.db.row /\ db.gm = w.db.gm
        /\ db.num = w.db.num
    BY DEF Views, Member
  <2>2. ss \in Loaded /\ ss.prio = w.ss.prio /\ ss.row = w.ss.row /\ ss.num = w.ss.num
    BY DEF Views, Loaded
  <2>3. SetPtr(w, g) = [db |-> db, ss |-> ss]
    BY <1>2 DEF SetPtr
  <2> HIDE DEF db, ss
  <2> QED
    BY <2>1, <2>2, <2>3 DEF Quiet, Views, Knows, Believes, Shows
<1> QED
  BY <1>1, <1>2

LEMMA SetNumType ==
  ASSUME NEW w \in Views, NEW k \in (Groups \X (Nat \ {0})) \cup {None}
  PROVE  /\ SetNum(w, k) \in Views
         /\ SetNum(w, k).db.prio = w.db.prio /\ SetNum(w, k).ss.prio = w.ss.prio
         /\ \A g \in Groups, n \in Nat \ {0} :
              Knows(SetNum(w, k), g, n) => Knows(w, g, n) \/ k = <<g, n>>
<1>1. CASE w.ss.num = k
  BY <1>1 DEF SetNum
<1>2. CASE w.ss.num # k
  <2> DEFINE db == [w.db EXCEPT !.num = k]
             ss == [w.ss EXCEPT !.num = k]
  <2>1. /\ db \in Member /\ db.prio = w.db.prio /\ db.row = w.db.row /\ db.gm = w.db.gm
        /\ db.num = k
    BY DEF Views, Member
  <2>2. ss \in Loaded /\ ss.prio = w.ss.prio /\ ss.row = w.ss.row /\ ss.num = k
    BY DEF Views, Loaded
  <2>3. SetNum(w, k) = [db |-> db, ss |-> ss]
    BY <1>2 DEF SetNum
  <2> HIDE DEF db, ss
  <2> QED
    BY <2>1, <2>2, <2>3 DEF Views, Knows, Believes, Shows
<1> QED
  BY <1>1, <1>2

LEMMA SetPrioType ==
  ASSUME NEW w \in Views, NEW g \in Groups, NEW p \in Nat \ {0}
  PROVE  Quiet(w, SetPrio(w, g, p))
<1>1. CASE w.ss.prio[g] = p
  BY <1>1 DEF SetPrio, Quiet
<1>2. CASE w.ss.prio[g] # p
  <2> DEFINE db == [w.db EXCEPT !.prio[g] = p]
             ss == [w.ss EXCEPT !.prio[g] = p]
  <2>1. /\ db \in Member /\ db.prio = [w.db.prio EXCEPT ![g] = p] /\ db.row = w.db.row
        /\ db.gm = w.db.gm /\ db.num = w.db.num
    BY DEF Views, Member
  <2>2. ss \in Loaded /\ ss.row = w.ss.row /\ ss.num = w.ss.num
    BY DEF Views, Loaded
  <2>3. SetPrio(w, g, p) = [db |-> db, ss |-> ss]
    BY <1>2 DEF SetPrio
  <2>4. w.db.prio \in [Groups -> Nat]
    BY DEF Views, Member
  <2> HIDE DEF db, ss
  <2> QED
    BY <2>1, <2>2, <2>3, <2>4 DEF Quiet, Views, Knows, Believes, Shows
<1> QED
  BY <1>1, <1>2

LEMMA SetRowType ==
  ASSUME NEW w \in Views, NEW g \in Groups, NEW k \in Nat
  PROVE  /\ SetRow(w, g, k) \in Views
         /\ SetRow(w, g, k).db.prio = w.db.prio /\ SetRow(w, g, k).ss.prio = w.ss.prio
         /\ \A h \in Groups, n \in Nat \ {0} :
              Knows(SetRow(w, g, k), h, n) => Knows(w, h, n) \/ (h = g /\ n = k)
<1>1. CASE w.ss.row[g] = k
  BY <1>1 DEF SetRow
<1>2. CASE w.ss.row[g] # k
  <2> DEFINE db == [w.db EXCEPT !.row[g] = k]
             ss == [w.ss EXCEPT !.row[g] = k]
  <2>1. /\ db \in Member /\ db.row = [w.db.row EXCEPT ![g] = k] /\ db.prio = w.db.prio
        /\ db.gm = w.db.gm /\ db.num = w.db.num
    BY DEF Views, Member
  <2>2. /\ ss \in Loaded /\ ss.row = [w.ss.row EXCEPT ![g] = k] /\ ss.num = w.ss.num
        /\ ss.prio = w.ss.prio
    BY DEF Views, Loaded
  <2>3. SetRow(w, g, k) = [db |-> db, ss |-> ss]
    BY <1>2 DEF SetRow
  <2>4. w.db.row \in [Groups -> Nat] /\ w.ss.row \in [Groups -> Nat]
    BY DEF Views, Member, Loaded
  <2> HIDE DEF db, ss
  <2> QED
    BY <2>1, <2>2, <2>3, <2>4 DEF Views, Knows, Believes, Shows
<1> QED
  BY <1>1, <1>2

LEMMA InsertRowType ==
  ASSUME NEW w \in Views, NEW g \in Groups, NEW p \in Nat, w.db.prio[g] = 0
  PROVE  /\ Quiet(w, InsertRow(w, g, p))
         /\ InsertRow(w, g, p).db.prio[g] = p
<1> DEFINE db == [w.db EXCEPT !.prio[g] = p, !.row[g] = 0]
           ss == [w.ss EXCEPT !.prio[g] = p, !.row[g] = 0]
<1>1. /\ db \in Member /\ db.prio = [w.db.prio EXCEPT ![g] = p]
      /\ db.row = [w.db.row EXCEPT ![g] = 0] /\ db.gm = w.db.gm /\ db.num = w.db.num
  BY DEF Views, Member
<1>2. ss \in Loaded /\ ss.row = [w.ss.row EXCEPT ![g] = 0] /\ ss.num = w.ss.num
  BY DEF Views, Loaded
<1>3. InsertRow(w, g, p) = [db |-> db, ss |-> ss]
  BY DEF InsertRow
<1>4. /\ w.db.prio \in [Groups -> Nat] /\ w.db.row \in [Groups -> Nat]
      /\ w.ss.row \in [Groups -> Nat]
  BY DEF Views, Member, Loaded
<1> HIDE DEF db, ss
<1> QED
  BY <1>1, <1>2, <1>3, <1>4 DEF Quiet, Views, Knows, Believes, Shows

LEMMA HighestType ==
  ASSUME NEW db \in Member
  PROVE  /\ Highest(db) \in Nat /\ \A g \in Groups : db.prio[g] <= Highest(db)
         /\ Highest(db) # 0 => \E g \in Groups : db.prio[g] # 0
<1> DEFINE P == {db.prio[g] : g \in Groups}
           T == {0} \cup P
<1>1. db.prio \in [Groups -> Nat] /\ IsFiniteSet(Groups)
  BY Parameters DEF Member
<1>2. db.prio \in Surjection(Groups, P)
  BY <1>1 DEF Surjection
<1>3. IsFiniteSet(P)
  <2> HIDE DEF P
  <2> QED
    BY <1>1, <1>2, FS_Surjection
<1>4. IsFiniteSet(T) /\ T \in SUBSET Nat /\ T # {}
  <2>1. T \in SUBSET Nat
    BY <1>1
  <2>2. T = P \cup {0}
    OBVIOUS
  <2> HIDE DEF P, T
  <2> QED
    BY <1>3, <2>1, <2>2, FS_AddElement
<1>5. Max(T) \in T /\ \A y \in T : y <= Max(T)
  <2> HIDE DEF T
  <2> QED
    BY <1>4, Greatest
<1>6. Highest(db) = Max(T)
  BY DEF Highest
<1>7. /\ \A g \in Groups : db.prio[g] \in T
      /\ \A y \in T : y # 0 => \E g \in Groups : db.prio[g] # 0
  OBVIOUS
<1> HIDE DEF T
<1> QED
  BY <1>4, <1>5, <1>6, <1>7

LEMMA FirstType ==
  ASSUME NEW db \in Member, Rows(db) # {}
  PROVE  First(db) \in Rows(db) /\ \A h \in Rows(db) : db.prio[First(db)] <= db.prio[h]
<1> DEFINE T == {db.prio[g] : g \in Rows(db)}
<1>1. db.prio \in [Groups -> Nat] /\ Rows(db) \subseteq Groups
  BY DEF Member, Rows
<1>2. T \in SUBSET Nat /\ T # {}
  BY <1>1
<1>3. PICK x \in T : \A y \in T : x <= y
  <2> HIDE DEF T
  <2> QED
    BY <1>2, Least
<1>4. PICK g \in Rows(db) : db.prio[g] = x
  OBVIOUS
<1>5. \E g_1 \in Rows(db) : \A h \in Rows(db) : db.prio[g_1] <= db.prio[h]
  BY <1>3, <1>4
<1> QED
  BY <1>5 DEF First

LEMMA EnsureLegacyType ==
  ASSUME NEW w \in Views
  PROVE  Quiet(w, EnsureLegacy(w))
<1>1. CASE Rows(w.db) = {} /\ w.ss.ptr # None
  <2>1. w.ss.ptr \in Groups
    BY <1>1 DEF Views, Loaded
  <2>2. w.db.prio[w.ss.ptr] = 0
    BY <1>1, <2>1 DEF Rows
  <2> QED
    BY <1>1, <2>1, <2>2, InsertRowType DEF EnsureLegacy
<1>2. CASE ~(Rows(w.db) = {} /\ w.ss.ptr # None)
  BY <1>2, Quietly DEF EnsureLegacy
<1> QED
  BY <1>1, <1>2

\* What a view becomes in which one number more is known, and no row goes.
Learns(w, v, h, k) ==
  \A g \in Groups, n \in Nat \ {0} : Knows(v, g, n) => Knows(w, g, n) \/ (g = h /\ n = k)
Tells(w, v, h, k) ==
  /\ v \in Views /\ Learns(w, v, h, k)
  /\ \A g \in Groups : w.db.prio[g] # 0 => v.db.prio[g] # 0

LEMMA Telling ==
  ASSUME NEW w \in Views, NEW h, NEW k
  PROVE  /\ \A v : Quiet(w, v) => Tells(w, v, h, k)
         /\ \A u, v : Tells(w, u, h, k) /\ Tells(u, v, h, k) => Tells(w, v, h, k)
  BY DEF Quiet, Tells, Learns

LEMMA FoundNumberType ==
  ASSUME NEW m \in Members, NEW w \in Views, NEW g \in Groups
  PROVE  /\ FoundNumber(m, w, g) \in Nat
         /\ FoundNumber(m, w, g) # 0 => Knows(w, g, FoundNumber(m, w, g))
<1>1. /\ w.db.gm \in [Groups -> Nat] /\ w.ss.row \in [Groups -> Nat]
      /\ w.ss.num \in (Groups \X (Nat \ {0})) \cup {None}
  BY DEF Views, Member, Loaded
<1>2. CASE m \in Users /\ w.db.gm[g] # 0
  BY <1>1, <1>2 DEF FoundNumber, Knows, Shows
<1>3. CASE ~(m \in Users /\ w.db.gm[g] # 0) /\ w.ss.row[g] # 0
  <2>1. FoundNumber(m, w, g) = w.ss.row[g]
    BY <1>3 DEF FoundNumber
  <2> QED
    BY <1>1, <2>1 DEF Knows, Believes
<1>4. CASE ~(m \in Users /\ w.db.gm[g] # 0) /\ w.ss.row[g] = 0
  <2>1. FoundNumber(m, w, g) = IF w.ss.num # None /\ w.ss.num[1] = g THEN w.ss.num[2] ELSE 0
    BY <1>4 DEF FoundNumber
  <2>2. CASE w.ss.num # None /\ w.ss.num[1] = g
    <3>1. w.ss.num = <<g, w.ss.num[2]>> /\ w.ss.num[2] \in Nat
      BY <1>1, <2>2
    <3> QED
      BY <2>1, <2>2, <3>1 DEF Knows, Believes
  <2> QED
    BY <2>1, <2>2
<1> QED
  BY <1>2, <1>3, <1>4

LEMMA AssignMemberIdType ==
  ASSUME NEW m \in Members, NEW w \in Views, NEW g \in Groups, NEW n \in Nat \ {0}
  PROVE  Tells(w, AssignMemberId(m, w, g, n), g, n)
<1> DEFINE elsewhere == \/ m \in Users /\ w.db.gmprim \ {g} # {}
                        \/ w.ss.ptr \notin {None, g}
           w1 == IF elsewhere THEN w ELSE SetPtr(SetNum(w, <<g, n>>), g)
           w2 == IF w1.db.prio[g] = 0
                 THEN InsertRow(w1, g, IF elsewhere THEN Highest(w1.db) + 1 ELSE 1)
                 ELSE IF elsewhere THEN w1 ELSE SetPrio(w1, g, 1)
           w3 == SetRow(w2, g, n)
           db == [w3.db EXCEPT !.gm[g] = n,
                    !.gmprim = IF elsewhere THEN @ \ {g} ELSE @ \cup {g}]
           v == [db |-> db, ss |-> w3.ss]
<1>1. Tells(w, w1, g, n)
  <2>1. CASE elsewhere
    BY <2>1, Quietly, Telling
  <2>2. CASE ~elsewhere
    <3>1. /\ SetNum(w, <<g, n>>) \in Views
          /\ Tells(w, SetNum(w, <<g, n>>), g, n)
      BY SetNumType DEF Tells, Learns
    <3>2. Quiet(SetNum(w, <<g, n>>), SetPtr(SetNum(w, <<g, n>>), g))
      BY <3>1, SetPtrType
    <3>3. Tells(w, SetPtr(SetNum(w, <<g, n>>), g), g, n)
      BY ZenonT(60), <3>1, <3>2, Telling
    <3> QED
      BY <2>2, <3>3
  <2> QED
    BY <2>1, <2>2
<1>2. w1 \in Views
  BY <1>1 DEF Tells, Learns
<1> HIDE DEF w1, elsewhere
<1>3. Quiet(w1, w2)
  <2>1. CASE w1.db.prio[g] = 0
    <3>1. w1.db \in Member
      BY <1>2 DEF Views
    <3>2. (IF elsewhere THEN Highest(w1.db) + 1 ELSE 1) \in Nat
      BY <3>1, HighestType
    <3> QED
      BY <1>2, <2>1, <3>2, InsertRowType
  <2>2. CASE w1.db.prio[g] # 0
    BY <1>2, <2>2, SetPrioType, Quietly
  <2> QED
    BY <2>1, <2>2
<1>4. w2 \in Views /\ Tells(w, w2, g, n)
  <2>1. w2 \in Views
    BY <1>3 DEF Quiet
  <2>2. Tells(w1, w2, g, n)
    BY <1>2, <1>3, Telling
  <2> HIDE DEF w2
  <2> QED
    BY <1>1, <2>1, <2>2, Telling
<1> HIDE DEF w2
<1>5. w3 \in Views /\ Tells(w, w3, g, n)
  <2>1. w3 \in Views /\ Tells(w2, w3, g, n)
    BY SMTT(30), <1>4, SetRowType DEF Tells, Learns
  <2> HIDE DEF w3
  <2> QED
    BY <1>4, <2>1, Telling
<1> HIDE DEF w3
<1>6. v \in Views /\ Tells(w3, v, g, n)
  <2>1. w3.db \in Member /\ w3.ss \in Loaded
    BY <1>5 DEF Views
  <2>3. (IF elsewhere THEN w3.db.gmprim \ {g} ELSE w3.db.gmprim \cup {g}) \in SUBSET Groups
    BY <2>1 DEF Member
  <2>4. /\ db \in Member /\ db.prio = w3.db.prio /\ db.row = w3.db.row /\ db.num = w3.db.num
        /\ db.gm = [w3.db.gm EXCEPT ![g] = n]
    BY <2>1, <2>3 DEF Member
  <2>5. w3.db.gm \in [Groups -> Nat]
    BY <2>1 DEF Member
  <2> HIDE DEF db
  <2>6. v \in Views /\ v.db = db /\ v.ss = w3.ss
    BY <2>1, <2>4 DEF Views
  <2> HIDE DEF v
  <2> QED
    BY <2>4, <2>5, <2>6 DEF Tells, Learns, Knows, Believes, Shows
<1> HIDE DEF db, v
<1>7. AssignMemberId(m, w, g, n) = IF m \notin Users THEN w3 ELSE v
  BY DEF AssignMemberId, v, db, w3, w2, w1, elsewhere
<1>8. Tells(w, v, g, n)
  BY <1>5, <1>6, Telling
<1> QED
  BY <1>5, <1>7, <1>8

LEMMA AdditionType ==
  ASSUME NEW w \in Views, NEW g \in Groups
  PROVE  Quiet(w, Addition(w, g).w) /\ Addition(w, g).assign \in {None, g}
<1> DEFINE u == EnsureLegacy(w)
           new == InsertRow(u, g, Highest(u.db) + 1)
           numbered == IF g \in Coded THEN g ELSE None
<1>1. u \in Views /\ Quiet(w, u)
  BY EnsureLegacyType DEF Quiet
<1>2. Highest(u.db) + 1 \in Nat
  BY <1>1, HighestType DEF Views
<1>3. \A v : Quiet(u, v) => Quiet(w, v)
  <2> HIDE DEF u
  <2> QED
    BY <1>1, Quietly
<1> HIDE DEF u
<1>4. CASE u.db.prio[g] # 0
  <2> DEFINE v == IF u.ss.ptr = None THEN SetPtr(u, g) ELSE u
  <2>1. Quiet(u, v)
    BY <1>1, SetPtrType, Quietly
  <2> HIDE DEF v
  <2>2. Addition(w, g) = Outcome(v, IF u.ss.row[g] = 0 THEN numbered ELSE None)
    BY <1>4 DEF Addition, u, v
  <2> QED
    BY <1>3, <2>1, <2>2 DEF Outcome
<1>5. CASE u.db.prio[g] = 0
  <2>1. Quiet(u, new) /\ new \in Views
    BY <1>1, <1>2, <1>5, InsertRowType DEF Quiet
  <2> HIDE DEF new
  <2>2. CASE new.db.prio[g] # 1
    <3>1. Addition(w, g) = Outcome(new, numbered)
      BY <1>5, <2>2 DEF Addition, u, new
    <3> QED
      BY <1>3, <2>1, <3>1 DEF Outcome
  <2>3. CASE new.db.prio[g] = 1
    <3> DEFINE v1 == SetPtr(new, g)
               v == IF g \in Coded THEN v1 ELSE SetNum(v1, None)
    <3>1. Quiet(new, v1) /\ v1 \in Views
      BY <2>1, SetPtrType DEF Quiet
    <3> HIDE DEF v1
    <3>2. Quiet(v1, SetNum(v1, None))
      <4>1. \A h \in Groups, n \in Nat \ {0} : None # <<h, n>>
        BY Parameters
      <4> QED
        BY <3>1, <4>1, SetNumType DEF Quiet
    <3>3. Quiet(new, v)
      BY <2>1, <3>1, <3>2, Quietly
    <3>4. Quiet(w, v)
      BY <1>1, <1>3, <2>1, <3>3, Quietly
    <3> HIDE DEF v
    <3>5. Addition(w, g) = Outcome(v, numbered)
      BY <1>5, <2>3 DEF Addition, u, new, v, v1
    <3> QED
      BY <3>4, <3>5 DEF Outcome
  <2> QED
    BY <2>2, <2>3
<1> QED
  BY <1>4, <1>5

\* What a view becomes when one row goes.
Loses(w, v, g) ==
  /\ v \in Views
  /\ \A h \in Groups \ {g} : w.db.prio[h] # 0 => v.db.prio[h] # 0
  /\ \A h \in Groups, n \in Nat \ {0} : Knows(v, h, n) => Knows(w, h, n)

LEMMA DeleteRowType ==
  ASSUME NEW m \in Members, NEW w \in Views, NEW g \in Groups
  PROVE  Loses(w, DeleteRow(m, w, g), g)
<1> DEFINE d0 == [w.db EXCEPT !.prio[g] = 0, !.row[g] = 0]
           d1 == [d0 EXCEPT !.gm[g] = 0, !.gmprim = @ \ {g}]
           db == IF m \in Users THEN d1 ELSE d0
           ss == [w.ss EXCEPT !.prio[g] = 0, !.row[g] = 0]
           v == [db |-> db, ss |-> ss]
<1>1. /\ w.db.prio \in [Groups -> Nat] /\ w.db.row \in [Groups -> Nat]
      /\ w.db.gm \in [Groups -> Nat] /\ w.ss.row \in [Groups -> Nat]
  BY DEF Views, Member, Loaded
<1>2. /\ d0 \in Member /\ d0.prio = [w.db.prio EXCEPT ![g] = 0]
      /\ d0.row = [w.db.row EXCEPT ![g] = 0] /\ d0.gm = w.db.gm /\ d0.num = w.db.num
  BY DEF Views, Member
<1> HIDE DEF d0
<1>3. /\ d1 \in Member /\ d1.prio = d0.prio /\ d1.row = d0.row
      /\ d1.gm = [d0.gm EXCEPT ![g] = 0] /\ d1.num = d0.num
  BY <1>2 DEF Member
<1>4. /\ ss \in Loaded /\ ss.row = [w.ss.row EXCEPT ![g] = 0] /\ ss.num = w.ss.num
  BY DEF Views, Loaded
<1> HIDE DEF d1, ss
<1>5. /\ db \in Member /\ db.prio = d0.prio /\ db.row = d0.row /\ db.num = w.db.num
      /\ \A h \in Groups, n \in Nat \ {0} : db.gm[h] = n => w.db.gm[h] = n
  BY <1>1, <1>2, <1>3
<1> HIDE DEF db
<1>6. Loses(w, v, g)
  BY <1>1, <1>2, <1>4, <1>5 DEF Loses, Views, Knows, Believes, Shows
<1>7. DeleteRow(m, w, g) = v
  BY DEF DeleteRow, ss, db, d1, d0
<1> QED
  BY <1>6, <1>7

LEMMA RemovalType ==
  ASSUME NEW m \in Members, NEW w \in Views, NEW g \in Groups
  PROVE  Loses(w, Removal(m, w, g).w, g) /\ Removal(m, w, g).assign \in Groups \cup {None}
<1> DEFINE u == EnsureLegacy(w)
           rest == DeleteRow(m, u, g)
           next == First(rest.db)
           raised == SetPrio(rest, next, 1)
           promoted == SetPtr(raised, next)
<1>1. u \in Views /\ Quiet(w, u)
  BY EnsureLegacyType DEF Quiet
<1> HIDE DEF u
<1>2. rest \in Views /\ Loses(u, rest, g)
  BY <1>1, DeleteRowType DEF Loses
<1>3. Loses(w, rest, g)
  BY <1>1, <1>2 DEF Loses, Quiet
<1> HIDE DEF rest
<1>4. \A v : Quiet(rest, v) => Loses(w, v, g)
  BY <1>3 DEF Loses, Quiet
<1>5. ASSUME NEW v \in Views, Quiet(rest, v)
      PROVE  Quiet(rest, SetNum(v, None))
  <2>1. \A h \in Groups, n \in Nat \ {0} : None # <<h, n>>
    BY Parameters
  <2>2. Quiet(v, SetNum(v, None))
    BY <2>1, SetNumType DEF Quiet
  <2> QED
    BY <1>2, <1>5, <2>2, Quietly
<1>6. CASE u.ss.prio[g] # 1
  <2>1. Removal(m, w, g) = Outcome(rest, None)
    BY <1>6 DEF Removal, u, rest
  <2> QED
    BY <1>3, <2>1 DEF Outcome
<1>7. CASE u.ss.prio[g] = 1 /\ Rows(rest.db) = {}
  <2> DEFINE v == SetPtr(rest, None)
  <2>1. Removal(m, w, g) = Outcome(SetNum(v, None), None)
    BY <1>7 DEF Removal, u, rest
  <2>2. v \in Views /\ Quiet(rest, v)
    BY <1>2, SetPtrType DEF Quiet
  <2> HIDE DEF v
  <2>3. Loses(w, SetNum(v, None), g)
    BY <1>4, <1>5, <2>2
  <2> QED
    BY <2>1, <2>3 DEF Outcome
<1>8. CASE u.ss.prio[g] = 1 /\ Rows(rest.db) # {}
  <2>1. next \in Groups
    BY <1>2, <1>8, FirstType DEF Views, Rows
  <2> HIDE DEF next
  <2>2. raised \in Views /\ Quiet(rest, raised)
    BY <1>2, <2>1, SetPrioType DEF Quiet
  <2> HIDE DEF raised
  <2>3. promoted \in Views /\ Quiet(raised, promoted)
    BY <2>1, <2>2, SetPtrType DEF Quiet
  <2> HIDE DEF promoted
  <2>4. Quiet(rest, promoted)
    BY <1>2, <2>2, <2>3, Quietly
  <2>5. Removal(m, w, g) = IF next \in Coded THEN Outcome(promoted, next)
                           ELSE Outcome(SetNum(promoted, None), None)
    BY <1>8 DEF Removal, u, rest, next, raised, promoted
  <2>6. Loses(w, promoted, g) /\ Loses(w, SetNum(promoted, None), g)
    BY <1>4, <1>5, <2>3, <2>4
  <2> QED
    BY <2>1, <2>5, <2>6 DEF Outcome
<1> QED
  BY <1>6, <1>7, <1>8

-----------------------------------------------------------------------------
(* The calls and the numbers they draw.                                    *)

Handled == {"add", "remove", "detach", "cut", "append"}

LEMMA CallKinds ==
  ASSUME NEW c \in CallRecord
  PROVE  /\ c.do \in Handled => c.m \in Members /\ c.g \in Groups
         /\ c.do = "approve" => c.m \in Members
         /\ c.do = "drop" => c.m = None /\ c.g \in Groups
         /\ c.do = "sync" => c.m \in Members /\ c.wish \in Seq(Groups)
         /\ c.m \in Members \cup {None} /\ (c.m = None => c.do = "drop")
<1>1. CASE c \in [do : {"add", "remove", "detach", "cut", "append"}, m : Members, g : Groups]
  BY <1>1, Parameters DEF Handled
<1>2. CASE c \in [do : {"approve"}, m : Members, g : {None}]
  BY <1>2, Parameters DEF Handled
<1>3. CASE c \in [do : {"drop"}, m : {None}, g : Groups]
  BY <1>3 DEF Handled
<1>4. CASE c \in [do : {"sync"}, m : Members, wish : Wishes]
  BY <1>4, Parameters DEF Handled
<1> QED
  BY <1>1, <1>2, <1>3, <1>4 DEF CallRecord

\* A call that is made is about a member the request sees, and leaves a typed
\* rest which a group admin may call for too.
LEMMA ReadyType ==
  ASSUME TypeInv, Locks, OwnCalls, NEW r \in Requests, NEW do,
         Ready(r, do), do # "drop"
  PROVE  /\ pc[r] = "run" /\ Head(todo[r]) \in CallRecord /\ Head(todo[r]).do = do
         /\ Subject(r) \in Members /\ View(r) \in Views
         /\ View(r).db = work[r][Subject(r)] /\ View(r).ss = loaded[r][Subject(r)]
         /\ do \in Handled => Target(r) \in Groups
         /\ Tail(todo[r]) \in Seq(CallRecord)
         /\ scope[r] # None =>
              /\ Mild(Head(todo[r]), scope[r])
              /\ \A i \in DOMAIN Tail(todo[r]) : Mild(Tail(todo[r])[i], scope[r])
<1>1. /\ pc[r] = "run" /\ todo[r] # <<>> /\ Head(todo[r]).do = do
      /\ work[r][Subject(r)] # None
  BY DEF Ready, Doing
<1>2. todo[r] \in Seq(CallRecord)
  BY DEF TypeInv
<1>3. /\ Head(todo[r]) \in CallRecord /\ Tail(todo[r]) \in Seq(CallRecord)
      /\ Len(Tail(todo[r])) = Len(todo[r]) - 1
      /\ \A i \in 1..Len(Tail(todo[r])) : Tail(todo[r])[i] = todo[r][i + 1]
  BY <1>1, <1>2, HeadTailProperties
<1>4. Subject(r) \in Members /\ (do \in Handled => Target(r) \in Groups)
  BY <1>1, <1>3, CallKinds DEF Subject, Target
<1>5. work[r][Subject(r)] \in Member /\ loaded[r][Subject(r)] \in Loaded
  <2>1. loaded[r][Subject(r)] # None
    BY <1>1, <1>4 DEF Locks
  <2>2. work[r] \in [Members -> Member \cup {None}] /\ loaded[r] \in [Members -> Loaded \cup {None}]
    BY DEF TypeInv
  <2> QED
    BY <1>1, <1>4, <2>1, <2>2
<1>6. ASSUME scope[r] # None
      PROVE  /\ Mild(Head(todo[r]), scope[r])
             /\ \A i \in DOMAIN Tail(todo[r]) : Mild(Tail(todo[r])[i], scope[r])
  <2>1. \A i \in DOMAIN todo[r] : Mild(todo[r][i], scope[r])
    BY <1>6 DEF OwnCalls
  <2>2. Head(todo[r]) = todo[r][1] /\ 1 \in DOMAIN todo[r]
    BY <1>1, <1>2
  <2>3. DOMAIN Tail(todo[r]) = 1..Len(Tail(todo[r])) /\ DOMAIN todo[r] = 1..Len(todo[r])
    BY <1>2, <1>3
  <2>4. Len(todo[r]) \in Nat
    BY <1>2
  <2>5. \A i \in 1..Len(Tail(todo[r])) : i + 1 \in 1..Len(todo[r])
    BY <1>3, <2>4
  <2> QED
    BY <1>3, <2>1, <2>2, <2>3, <2>5
<1> QED
  BY <1>1, <1>3, <1>4, <1>5, <1>6 DEF View, Views

LEMMA LastType ==
  ASSUME NEW s \in Seq(Nat \ {0}), s # <<>>
  PROVE  /\ Last(s) \in Nat \ {0} /\ Len(s) \in DOMAIN s /\ Last(s) = s[Len(s)]
         /\ Upward(s) => \A i \in DOMAIN s : s[i] <= Last(s)
<1>1. Len(s) \in Nat \ {0} /\ DOMAIN s = 1..Len(s) /\ \A i \in 1..Len(s) : s[i] \in Nat \ {0}
  BY EmptySeq, ElementOfSeq
<1>2. Len(s) \in DOMAIN s
  BY <1>1
<1>3. ASSUME Upward(s), NEW i \in DOMAIN s
      PROVE  s[i] <= s[Len(s)]
  <2>1. CASE i = Len(s)
    BY <1>1, <1>2, <2>1
  <2>2. CASE i < Len(s)
    <3>1. s[i] < s[Len(s)]
      BY <1>2, <1>3, <2>2 DEF Upward
    <3> QED
      BY <1>1, <1>2, <3>1
  <2> QED
    BY <1>1, <2>1, <2>2
<1> QED
  BY <1>1, <1>2, <1>3 DEF Last

LEMMA MemberCountType ==
  ASSUME NEW r, NEW w, NEW g
  PROVE  MemberCount(r, w, g) \in Nat
<1> DEFINE sees(o) == IF o = Subject(r) THEN w.db
                      ELSE IF work[r][o] # None THEN work[r][o] ELSE member[o]
           gms == {o \in Members : sees(o).gm[g] # 0}
           C == IF gms # {} THEN gms ELSE {o \in Members : sees(o).prio[g] # 0}
<1>1. C \in SUBSET Members
  OBVIOUS
<1>2. MemberCount(r, w, g) = Cardinality(C)
  BY DEF MemberCount
<1> HIDE DEF C
<1>3. IsFiniteSet(C)
  BY <1>1, Parameters, FS_Subset
<1> QED
  BY <1>2, <1>3, FS_CardinalityType

\* The number drawn is above the counter and above what the request drew.
Fresh(r, g, n) ==
  /\ n \in Nat \ {0} /\ n > counter[g]
  /\ \A i \in DOMAIN drawn[r][g] : drawn[r][g][i] < n

LEMMA NextNumberType ==
  ASSUME TypeInv, Drawing, NEW r \in Requests, NEW w, NEW g \in Groups
  PROVE  Fresh(r, g, NextNumber(r, w, g))
<1>1. counter[g] \in Nat \cup {Absent} /\ drawn[r][g] \in Seq(Nat \ {0}) /\ Absent = -1
  BY DEF TypeInv, Absent
<1>2. Upward(drawn[r][g]) /\ \A i \in DOMAIN drawn[r][g] : drawn[r][g][i] > counter[g]
  BY DEF Drawing
<1>3. CASE drawn[r][g] # <<>>
  <2>1. /\ Last(drawn[r][g]) \in Nat \ {0} /\ Len(drawn[r][g]) \in DOMAIN drawn[r][g]
        /\ Last(drawn[r][g]) = drawn[r][g][Len(drawn[r][g])]
        /\ \A i \in DOMAIN drawn[r][g] : drawn[r][g][i] <= Last(drawn[r][g])
    BY <1>1, <1>2, <1>3, LastType
  <2>2. NextNumber(r, w, g) = Last(drawn[r][g]) + 1
    BY <1>3 DEF NextNumber
  <2>3. Last(drawn[r][g]) > counter[g]
    BY <1>2, <2>1
  <2>4. \A i \in DOMAIN drawn[r][g] : drawn[r][g][i] \in Nat
    BY <1>1, ElementOfSeq
  <2> HIDE DEF Absent
  <2> QED
    BY <1>1, <2>1, <2>2, <2>3, <2>4 DEF Fresh
<1>4. CASE drawn[r][g] = <<>> /\ counter[g] # Absent
  <2>1. NextNumber(r, w, g) = counter[g] + 1
    BY <1>4 DEF NextNumber
  <2>2. DOMAIN drawn[r][g] = {}
    BY <1>4
  <2> QED
    BY <1>1, <1>4, <2>1, <2>2 DEF Fresh
<1>5. CASE drawn[r][g] = <<>> /\ counter[g] = Absent
  <2>1. NextNumber(r, w, g) = MemberCount(r, w, g) + 1 /\ MemberCount(r, w, g) \in Nat
    BY <1>5, MemberCountType DEF NextNumber
  <2>2. DOMAIN drawn[r][g] = {}
    BY <1>5
  <2> QED
    BY <1>1, <1>5, <2>1, <2>2 DEF Fresh
<1> QED
  BY <1>3, <1>4, <1>5

LEMMA Climb ==
  ASSUME NEW s \in Seq(Nat \ {0}), NEW n \in Nat \ {0}, Upward(s),
         \A i \in DOMAIN s : s[i] < n
  PROVE  /\ Append(s, n) \in Seq(Nat \ {0}) /\ Append(s, n) # <<>>
         /\ Upward(Append(s, n))
         /\ \A k : Drew(Append(s, n), k) <=> Drew(s, k) \/ k = n
<1> DEFINE t == Append(s, n)
<1>1. /\ t \in Seq(Nat \ {0}) /\ Len(t) = Len(s) + 1 /\ Len(s) \in Nat
      /\ DOMAIN s = 1..Len(s) /\ DOMAIN t = 1..(Len(s) + 1)
      /\ \A i \in DOMAIN s : t[i] = s[i]
      /\ t[Len(s) + 1] = n
  OBVIOUS
<1> HIDE DEF t
<1>2. \A i \in DOMAIN t : i \in DOMAIN s \/ i = Len(s) + 1
  BY <1>1
<1>3. DOMAIN s \subseteq DOMAIN t /\ Len(s) + 1 \in DOMAIN t
  BY <1>1
<1>4. Upward(t)
  <2> SUFFICES ASSUME NEW i \in DOMAIN t, NEW j \in DOMAIN t, i < j
               PROVE  t[i] < t[j]
    BY DEF Upward
  <2>1. i \in DOMAIN s
    BY <1>1, <1>2
  <2>2. CASE j \in DOMAIN s
    BY <1>1, <2>1, <2>2 DEF Upward
  <2>3. CASE j = Len(s) + 1
    BY <1>1, <2>1, <2>3
  <2> QED
    BY <1>2, <2>2, <2>3
<1>5. \A k : Drew(t, k) <=> Drew(s, k) \/ k = n
  BY <1>1, <1>2, <1>3 DEF Drew
<1>6. t # <<>>
  BY <1>3
<1> QED
  BY <1>1, <1>4, <1>5, <1>6 DEF t

-----------------------------------------------------------------------------
(* A call that is done: what it does to the state, and what it may do.     *)

Does(r, v, rest, numbers) ==
  /\ work' = [work EXCEPT ![r][Subject(r)] = v.db]
  /\ loaded' = [loaded EXCEPT ![r][Subject(r)] = v.ss]
  /\ drawn' = numbers
  /\ todo' = [todo EXCEPT ![r] = rest]
  /\ UNCHANGED <<member, groups, counter, minted, carried, pc, scope>>

May(r, v, rest) ==
  /\ pc[r] = "run" /\ Subject(r) \in Members /\ View(r) \in Views
  /\ v \in Views /\ rest \in Seq(CallRecord)
  /\ scope[r] # None => \A i \in DOMAIN rest : Mild(rest[i], scope[r])
  /\ \A g \in Groups :
       scope[r] \notin {None, g} /\ View(r).db.prio[g] # 0 => v.db.prio[g] # 0

LEMMA DoesValues ==
  ASSUME TypeInv, NEW r \in Requests, NEW v, NEW rest, NEW numbers,
         May(r, v, rest), Does(r, v, rest, numbers)
  PROVE  /\ v.db \in Member /\ v.ss \in Loaded /\ v.db # None /\ v.ss # None
         /\ work[r][Subject(r)] = View(r).db /\ loaded[r][Subject(r)] = View(r).ss
         /\ work[r][Subject(r)] # None /\ loaded[r][Subject(r)] # None
         /\ \A s \in Requests, m \in Members :
              IF s = r /\ m = Subject(r)
              THEN work'[s][m] = v.db /\ loaded'[s][m] = v.ss
              ELSE work'[s][m] = work[s][m] /\ loaded'[s][m] = loaded[s][m]
<1>1. /\ View(r) \in Views /\ v \in Views /\ Subject(r) \in Members
  BY DEF May
<1>2. /\ v.db \in Member /\ v.ss \in Loaded /\ View(r).db \in Member /\ View(r).ss \in Loaded
  BY <1>1 DEF Views
<1>3. work[r][Subject(r)] = View(r).db /\ loaded[r][Subject(r)] = View(r).ss
  BY DEF View
<1>4. /\ work \in [Requests -> [Members -> Member \cup {None}]]
      /\ loaded \in [Requests -> [Members -> Loaded \cup {None}]]
  BY DEF TypeInv
<1>5. /\ work' = [work EXCEPT ![r][Subject(r)] = v.db]
      /\ loaded' = [loaded EXCEPT ![r][Subject(r)] = v.ss]
  BY DEF Does
<1>6. \A s \in Requests, m \in Members :
        IF s = r /\ m = Subject(r)
        THEN work'[s][m] = v.db /\ loaded'[s][m] = v.ss
        ELSE work'[s][m] = work[s][m] /\ loaded'[s][m] = loaded[s][m]
  BY <1>1, <1>4, <1>5
<1>7. v.db # None /\ v.ss # None /\ View(r).db # None /\ View(r).ss # None
  BY <1>2, Parameters
<1> QED
  BY <1>2, <1>3, <1>6, <1>7

LEMMA DoesKeeps ==
  ASSUME TypeInv, Locks, OwnCalls, OthersKept, NEW r \in Requests, NEW v, NEW rest,
         NEW numbers \in [Requests -> [Groups -> Seq(Nat \ {0})]],
         \A s \in Requests \ {r} : numbers[s] = drawn[s],
         May(r, v, rest), Does(r, v, rest, numbers)
  PROVE  TypeInv' /\ Locks' /\ OwnCalls' /\ OthersKept'
<1>1. /\ v.db \in Member /\ v.ss \in Loaded /\ v.db # None /\ v.ss # None
      /\ work[r][Subject(r)] = View(r).db /\ loaded[r][Subject(r)] = View(r).ss
      /\ work[r][Subject(r)] # None /\ loaded[r][Subject(r)] # None
      /\ \A s \in Requests, m \in Members :
           IF s = r /\ m = Subject(r)
           THEN work'[s][m] = v.db /\ loaded'[s][m] = v.ss
           ELSE work'[s][m] = work[s][m] /\ loaded'[s][m] = loaded[s][m]
  BY DoesValues
<1>2. /\ work' = [work EXCEPT ![r][Subject(r)] = v.db]
      /\ loaded' = [loaded EXCEPT ![r][Subject(r)] = v.ss]
      /\ drawn' = numbers /\ todo' = [todo EXCEPT ![r] = rest]
      /\ UNCHANGED <<member, groups, counter, minted, carried, pc, scope>>
  BY DEF Does
<1>3. /\ pc[r] = "run" /\ Subject(r) \in Members /\ rest \in Seq(CallRecord)
      /\ scope[r] # None => \A i \in DOMAIN rest : Mild(rest[i], scope[r])
      /\ \A g \in Groups :
           scope[r] \notin {None, g} /\ View(r).db.prio[g] # 0 => v.db.prio[g] # 0
  BY DEF May
<1>4. /\ todo \in [Requests -> Seq(CallRecord)]
      /\ work \in [Requests -> [Members -> Member \cup {None}]]
      /\ loaded \in [Requests -> [Members -> Loaded \cup {None}]]
  BY DEF TypeInv
<1>5. TypeInv'
  <2>1. todo' \in [Requests -> Seq(CallRecord)]
    BY <1>2, <1>3, <1>4
  <2>2. work' \in [Requests -> [Members -> Member \cup {None}]]
    BY <1>1, <1>2, <1>3, <1>4
  <2>3. loaded' \in [Requests -> [Members -> Loaded \cup {None}]]
    BY <1>1, <1>2, <1>3, <1>4
  <2> QED
    BY <1>2, <2>1, <2>2, <2>3 DEF TypeInv
<1>6. Locks'
  <2>1. \A s \in Requests, m \in Members :
          /\ work'[s][m] # None <=> work[s][m] # None
          /\ loaded'[s][m] # None <=> loaded[s][m] # None
    BY <1>1
  <2>2. \A s \in Requests : pc'[s] # "run" => s # r /\ drawn'[s] = drawn[s]
    BY <1>2, <1>3
  <2>3. \A s, t \in Requests, m \in Members : work'[s][m] # None /\ work'[t][m] # None => s = t
    BY <2>1 DEF Locks
  <2>4. \A s \in Requests, m \in Members : work'[s][m] # None => loaded'[s][m] # None
    BY <2>1 DEF Locks
  <2>5. ASSUME NEW s \in Requests, pc'[s] # "run"
        PROVE  /\ scope'[s] = None
               /\ \A m \in Members : loaded'[s][m] = None /\ work'[s][m] = None
               /\ \A g \in Groups : drawn'[s][g] = <<>>
    <3>1. /\ scope[s] = None
          /\ \A m \in Members : loaded[s][m] = None /\ work[s][m] = None
          /\ \A g \in Groups : drawn[s][g] = <<>>
      BY <1>2, <2>5 DEF Locks
    <3> QED
      BY <1>2, <2>1, <2>2, <2>5, <3>1
  <2> QED
    BY <2>3, <2>4, <2>5 DEF Locks
<1>7. OwnCalls'
  <2>1. \A s \in Requests : todo'[s] = IF s = r THEN rest ELSE todo[s]
    BY <1>2, <1>4
  <2> QED
    BY <1>2, <1>3, <2>1 DEF OwnCalls, Mild
<1>8. OthersKept'
  <2> SUFFICES ASSUME NEW s \in Requests, NEW m \in Members, NEW g \in Groups,
                      work'[s][m] # None, scope'[s] \notin {None, g}, member'[m].prio[g] # 0
               PROVE  work'[s][m].prio[g] # 0
    BY DEF OthersKept
  <2>1. scope[s] \notin {None, g} /\ member[m].prio[g] # 0
    BY <1>2
  <2>2. CASE s = r /\ m = Subject(r)
    <3>1. work[r][m].prio[g] # 0
      BY <1>1, <2>1, <2>2 DEF OthersKept
    <3> QED
      BY <1>1, <1>3, <2>1, <2>2, <3>1
  <2>3. CASE ~(s = r /\ m = Subject(r))
    <3>1. work'[s][m] = work[s][m]
      BY <1>1, <2>3
    <3> QED
      BY <2>1, <3>1 DEF OthersKept
  <2> QED
    BY <2>2, <2>3
<1> QED
  BY <1>5, <1>6, <1>7, <1>8

\* The only number a call can add to what the request knows is the one it drew.
LEMMA DoesHolds ==
  ASSUME TypeInv, NEW r \in Requests, NEW v, NEW rest, NEW numbers, NEW h, NEW k,
         May(r, v, rest), Does(r, v, rest, numbers), Learns(View(r), v, h, k)
  PROVE  \A s \in Requests, m \in Members, g \in Groups, n \in Nat \ {0} :
           Holds(s, m, g, n)' =>
             Holds(s, m, g, n) \/ (s = r /\ m = Subject(r) /\ g = h /\ n = k)
<1> SUFFICES ASSUME NEW s \in Requests, NEW m \in Members, NEW g \in Groups, NEW n \in Nat \ {0},
                    Holds(s, m, g, n)'
             PROVE  Holds(s, m, g, n) \/ (s = r /\ m = Subject(r) /\ g = h /\ n = k)
  OBVIOUS
<1>1. /\ work[r][Subject(r)] = View(r).db /\ loaded[r][Subject(r)] = View(r).ss
      /\ work[r][Subject(r)] # None /\ loaded[r][Subject(r)] # None
      /\ IF s = r /\ m = Subject(r)
         THEN work'[s][m] = v.db /\ loaded'[s][m] = v.ss
         ELSE work'[s][m] = work[s][m] /\ loaded'[s][m] = loaded[s][m]
  BY DoesValues
<1>2. \/ loaded'[s][m] # None /\ Believes(loaded'[s][m], g, n)
      \/ work'[s][m] # None /\ Shows(work'[s][m], g, n)
  BY DEF Holds, Believes, Shows
<1>3. CASE s = r /\ m = Subject(r)
  <2>1. Knows(v, g, n)
    BY <1>1, <1>2, <1>3 DEF Knows
  <2>2. Knows(View(r), g, n) \/ (g = h /\ n = k)
    BY <2>1 DEF Tells, Learns
  <2> QED
    BY <1>1, <1>3, <2>2 DEF Knows, Holds
<1>4. CASE ~(s = r /\ m = Subject(r))
  BY <1>1, <1>2, <1>4 DEF Holds
<1> QED
  BY <1>3, <1>4

LEMMA DoesQuietly ==
  ASSUME TypeInv, Drawing, NEW r \in Requests, NEW v, NEW rest,
         May(r, v, rest), Does(r, v, rest, drawn), Learns(View(r), v, None, 0)
  PROVE  Drawing' /\ (Numbers => Numbers')
<1>1. UNCHANGED <<member, counter, minted, carried, drawn>>
  BY DEF Does
<1>2. Drawing'
  BY <1>1 DEF Drawing, Upward
<1>3. \A s \in Requests, m \in Members, g \in Groups, n \in Nat \ {0} :
        Holds(s, m, g, n)' => Holds(s, m, g, n)
  BY DoesHolds
<1>4. ASSUME Numbers PROVE Numbers'
  <2>1. /\ \A s \in Requests, m \in Members, g \in Groups, n \in Nat \ {0} :
             Holds(s, m, g, n) => <<g, n, m>> \in carried \/ Drew(drawn[s][g], n)
        /\ \A s \in Requests, m, o \in Members, g \in Groups, n \in Nat \ {0} :
             Holds(s, m, g, n) /\ Holds(s, o, g, n) /\ Drew(drawn[s][g], n) => m = o
    BY <1>4 DEF Numbers
  <2>2. /\ \A g \in Groups, n \in Nat \ {0}, m \in Members : <<g, n, m>> \in carried => n <= counter[g]
        /\ \A m \in Members, g \in Groups, n \in Nat \ {0} :
             Shows(member[m], g, n) => <<g, n, m>> \in carried
        /\ NumberOwned
    BY <1>4 DEF Numbers
  <2>3. \A s \in Requests, m \in Members, g \in Groups, n \in Nat \ {0} :
          Holds(s, m, g, n)' => <<g, n, m>> \in carried' \/ Drew(drawn'[s][g], n)
    BY <1>1, <1>3, <2>1
  <2>4. \A s \in Requests, m, o \in Members, g \in Groups, n \in Nat \ {0} :
          Holds(s, m, g, n)' /\ Holds(s, o, g, n)' /\ Drew(drawn'[s][g], n) => m = o
    BY <1>1, <1>3, <2>1
  <2>5. NumberOwned'
    BY <1>1, <2>2 DEF NumberOwned
  <2> QED
    BY <1>1, <2>2, <2>3, <2>4, <2>5 DEF Numbers, Drew, Shows
<1> QED
  BY <1>2, <1>4

LEMMA DoesDrawing ==
  ASSUME TypeInv, Drawing, NEW r \in Requests, NEW v, NEW rest, NEW h \in Groups, NEW k,
         CounterFree(r, h), Fresh(r, h, k),
         May(r, v, rest), Does(r, v, rest, [drawn EXCEPT ![r][h] = Append(@, k)]),
         Learns(View(r), v, h, k)
  PROVE  Drawing' /\ (Numbers => Numbers')
<1>1. /\ UNCHANGED <<member, counter, minted, carried>>
      /\ drawn' = [drawn EXCEPT ![r][h] = Append(@, k)]
  BY DEF Does
<1>2. /\ drawn \in [Requests -> [Groups -> Seq(Nat \ {0})]] /\ drawn[r][h] \in Seq(Nat \ {0})
      /\ counter[h] \in Nat \cup {Absent} /\ k \in Nat \ {0} /\ k > counter[h]
      /\ \A i \in DOMAIN drawn[r][h] : drawn[r][h][i] < k
  BY DEF TypeInv, Fresh
<1>3. /\ Upward(drawn[r][h])
      /\ \A i \in DOMAIN drawn[r][h] : drawn[r][h][i] > counter[h]
  BY DEF Drawing
<1>4. /\ Append(drawn[r][h], k) # <<>> /\ Upward(Append(drawn[r][h], k))
      /\ \A n : Drew(Append(drawn[r][h], k), n) <=> Drew(drawn[r][h], n) \/ n = k
  BY <1>2, <1>3, Climb
<1>5. \A s \in Requests, g \in Groups :
        drawn'[s][g] = IF s = r /\ g = h THEN Append(drawn[r][h], k) ELSE drawn[s][g]
  BY <1>1, <1>2
<1>6. \A s \in Requests : s # r => drawn[s][h] = <<>>
  BY DEF CounterFree
<1>7. Drawing'
  <2>1. \A s, t \in Requests, g \in Groups : drawn'[s][g] # <<>> /\ drawn'[t][g] # <<>> => s = t
    <3>1. \A s, t \in Requests, g \in Groups : drawn[s][g] # <<>> /\ drawn[t][g] # <<>> => s = t
      BY DEF Drawing
    <3> QED
      BY <1>5, <1>6, <3>1
  <2>2. ASSUME NEW s \in Requests, NEW g \in Groups
        PROVE  Upward(drawn'[s][g]) /\ \A i \in DOMAIN drawn'[s][g] : drawn'[s][g][i] > counter'[g]
    <3>1. CASE s = r /\ g = h
      <4>1. \A i \in DOMAIN Append(drawn[r][h], k) : Append(drawn[r][h], k)[i] > counter[h]
        <5> SUFFICES ASSUME NEW i \in DOMAIN Append(drawn[r][h], k)
                     PROVE  Append(drawn[r][h], k)[i] > counter[h]
          OBVIOUS
        <5>1. Drew(Append(drawn[r][h], k), Append(drawn[r][h], k)[i])
          BY DEF Drew
        <5>2. Drew(drawn[r][h], Append(drawn[r][h], k)[i]) \/ Append(drawn[r][h], k)[i] = k
          BY <1>4, <5>1
        <5> QED
          BY <1>2, <1>3, <5>2 DEF Drew
      <4> QED
        BY <1>1, <1>4, <1>5, <3>1, <4>1
    <3>2. CASE ~(s = r /\ g = h)
      <4>1. drawn'[s][g] = drawn[s][g]
        BY <1>5, <3>2
      <4>2. Upward(drawn[s][g]) /\ \A i \in DOMAIN drawn[s][g] : drawn[s][g][i] > counter[g]
        BY DEF Drawing
      <4> QED
        BY <1>1, <4>1, <4>2
    <3> QED
      BY <3>1, <3>2
  <2>3. \A g \in Groups :
          Upward(minted'[g]) /\ \A i \in DOMAIN minted'[g] : minted'[g][i] <= counter'[g]
    BY <1>1 DEF Drawing
  <2> QED
    BY <2>1, <2>2, <2>3 DEF Drawing, Upward
<1>8. \A s \in Requests, m \in Members, g \in Groups, n \in Nat \ {0} :
        Holds(s, m, g, n)' =>
          Holds(s, m, g, n) \/ (s = r /\ m = Subject(r) /\ g = h /\ n = k)
  BY DoesHolds
<1>9. \A n : \A s \in Requests, g \in Groups :
        Drew(drawn'[s][g], n) <=> Drew(drawn[s][g], n) \/ (s = r /\ g = h /\ n = k)
  BY <1>4, <1>5
<1>10. ~Drew(drawn[r][h], k)
  BY <1>2 DEF Drew
<1>11. ASSUME Numbers PROVE Numbers'
  <2>1. /\ \A s \in Requests, m \in Members, g \in Groups, n \in Nat \ {0} :
             Holds(s, m, g, n) => <<g, n, m>> \in carried \/ Drew(drawn[s][g], n)
        /\ \A s \in Requests, m, o \in Members, g \in Groups, n \in Nat \ {0} :
             Holds(s, m, g, n) /\ Holds(s, o, g, n) /\ Drew(drawn[s][g], n) => m = o
    BY <1>11 DEF Numbers
  <2>2. /\ \A g \in Groups, n \in Nat \ {0}, m \in Members : <<g, n, m>> \in carried => n <= counter[g]
        /\ \A m \in Members, g \in Groups, n \in Nat \ {0} :
             Shows(member[m], g, n) => <<g, n, m>> \in carried
        /\ NumberOwned
    BY <1>11 DEF Numbers
  <2>3. \A s \in Requests, m \in Members, g \in Groups, n \in Nat \ {0} :
          Holds(s, m, g, n)' => <<g, n, m>> \in carried' \/ Drew(drawn'[s][g], n)
    BY <1>1, <1>8, <1>9, <2>1
  <2>4. \A m \in Members : ~Holds(r, m, h, k)
    <3> SUFFICES ASSUME NEW m \in Members, Holds(r, m, h, k)
                 PROVE  FALSE
      OBVIOUS
    <3>1. <<h, k, m>> \in carried
      BY <1>2, <1>10, <2>1
    <3>2. k <= counter[h]
      BY <1>2, <2>2, <3>1
    <3> QED
      BY <1>2, <3>2 DEF Absent
  <2>5. ASSUME NEW s \in Requests, NEW m \in Members, NEW o \in Members, NEW g \in Groups,
               NEW n \in Nat \ {0}, Holds(s, m, g, n)', Holds(s, o, g, n)', Drew(drawn'[s][g], n)
        PROVE  m = o
    <3>1. CASE s = r /\ g = h /\ n = k
      BY <1>8, <2>4, <2>5, <3>1
    <3>2. CASE ~(s = r /\ g = h /\ n = k)
      BY <1>8, <1>9, <2>1, <2>5, <3>2
    <3> QED
      BY <3>1, <3>2
  <2>6. NumberOwned'
    BY <1>1, <2>2 DEF NumberOwned
  <2>7. \A m \in Members, g \in Groups, n \in Nat \ {0} :
          Shows(member[m], g, n)' => <<g, n, m>> \in carried'
    BY <1>1, <2>2 DEF Shows
  <2> QED
    BY <1>1, <2>2, <2>3, <2>5, <2>6, <2>7 DEF Numbers, Drew, Shows
<1> QED
  BY <1>7, <1>11

\* What every step of a request has to be shown.
Grows ==
  minted' = minted \/ \E r \in Requests : minted' = [g \in Groups |-> minted[g] \o drawn[r][g]]
Keeps == IInv' /\ (Numbers => Numbers') /\ Grows

\* A call that the session may make of the subject's view, up to the number.
Makes(r, o) ==
  /\ May(r, o.w, Tail(todo[r])) /\ Learns(View(r), o.w, None, 0)
  /\ o.assign \in Groups \cup {None}

LEMMA StepKeeps ==
  ASSUME IInv, NEW r \in Requests, NEW v, Step(r, v, drawn),
         May(r, v, Tail(todo[r])), Learns(View(r), v, None, 0)
  PROVE  Undo(r, "failed") \/ Keeps
<1>1. CASE Violates(v.db)
  BY <1>1 DEF Step
<1>2. CASE ~Violates(v.db)
  <2>1. Does(r, v, Tail(todo[r]), drawn)
    BY <1>2 DEF Step, Does, Database
  <2>2. drawn \in [Requests -> [Groups -> Seq(Nat \ {0})]]
    BY DEF IInv, TypeInv
  <2>3. TypeInv' /\ Locks' /\ OwnCalls' /\ OthersKept'
    BY <2>1, <2>2, DoesKeeps DEF IInv
  <2>4. Drawing' /\ (Numbers => Numbers')
    BY <2>1, DoesQuietly DEF IInv
  <2>5. Grows
    BY <2>1 DEF Does, Grows
  <2> QED
    BY <2>3, <2>4, <2>5 DEF Keeps, IInv
<1> QED
  BY <1>1, <1>2

LEMMA DrawKeeps ==
  ASSUME IInv, NEW r \in Requests, NEW v, NEW h \in Groups, NEW k,
         Step(r, v, [drawn EXCEPT ![r][h] = Append(@, k)]),
         CounterFree(r, h), Fresh(r, h, k),
         May(r, v, Tail(todo[r])), Learns(View(r), v, h, k)
  PROVE  Undo(r, "failed") \/ Keeps
<1> DEFINE numbers == [drawn EXCEPT ![r][h] = Append(@, k)]
<1>1. CASE Violates(v.db)
  BY <1>1 DEF Step
<1>2. CASE ~Violates(v.db)
  <2>1. Does(r, v, Tail(todo[r]), numbers)
    BY <1>2 DEF Step, Does, Database
  <2>2. drawn \in [Requests -> [Groups -> Seq(Nat \ {0})]] /\ k \in Nat \ {0}
    BY DEF IInv, TypeInv, Fresh
  <2>3. /\ numbers \in [Requests -> [Groups -> Seq(Nat \ {0})]]
        /\ \A s \in Requests \ {r} : numbers[s] = drawn[s]
    <3>1. Append(drawn[r][h], k) \in Seq(Nat \ {0})
      BY <2>2
    <3> QED
      BY <2>2, <3>1
  <2>4. Drawing' /\ (Numbers => Numbers')
    BY <2>1, DoesDrawing DEF IInv
  <2> HIDE DEF numbers
  <2>5. TypeInv' /\ Locks' /\ OwnCalls' /\ OthersKept'
    BY <2>1, <2>3, DoesKeeps DEF IInv
  <2>6. Grows
    BY <2>1 DEF Does, Grows
  <2> QED
    BY <2>4, <2>5, <2>6 DEF Keeps, IInv
<1> QED
  BY <1>1, <1>2

LEMMA ConcludeKeeps ==
  ASSUME IInv, NEW r \in Requests, NEW o, Conclude(r, o), Makes(r, o)
  PROVE  Undo(r, "failed") \/ Keeps
<1> DEFINE m == Subject(r)
           found == FoundNumber(m, o.w, o.assign)
           next == NextNumber(r, o.w, o.assign)
<1>1. /\ May(r, o.w, Tail(todo[r])) /\ Learns(View(r), o.w, None, 0)
      /\ o.assign \in Groups \cup {None} /\ m \in Members /\ View(r) \in Views /\ o.w \in Views
  BY DEF Makes, May
<1>2. ASSUME o.assign \in Groups, NEW n \in Nat \ {0}
      PROVE  /\ May(r, AssignMemberId(m, o.w, o.assign, n), Tail(todo[r]))
             /\ Learns(View(r), AssignMemberId(m, o.w, o.assign, n), o.assign, n)
             /\ Knows(o.w, o.assign, n) =>
                  Learns(View(r), AssignMemberId(m, o.w, o.assign, n), None, 0)
  <2> DEFINE v == AssignMemberId(m, o.w, o.assign, n)
  <2>1. Tells(o.w, v, o.assign, n)
    BY <1>1, <1>2, AssignMemberIdType
  <2> HIDE DEF v
  <2>2. \A g \in Groups : o.w.db.prio[g] # 0 => v.db.prio[g] # 0
    BY <2>1 DEF Tells, Learns
  <2>3. v \in Views
    BY <2>1 DEF Tells, Learns
  <2>4. May(r, v, Tail(todo[r]))
    BY <1>1, <2>2, <2>3 DEF May
  <2>5. Learns(View(r), v, o.assign, n)
    BY <1>1, <2>1 DEF Tells, Learns
  <2>6. Knows(o.w, o.assign, n) => Learns(View(r), v, None, 0)
    BY <1>1, <2>1 DEF Tells, Learns
  <2> QED
    BY <2>4, <2>5, <2>6 DEF v
<1>3. CASE o.assign = None
  <2>1. Step(r, o.w, drawn)
    BY <1>3 DEF Conclude
  <2> QED
    BY <1>1, <2>1, StepKeeps
<1>4. CASE o.assign # None /\ Draws(r, o) = None
  <2>1. Step(r, AssignMemberId(m, o.w, o.assign, found), drawn)
    BY <1>4 DEF Conclude
  <2>2. found # 0
    BY <1>4 DEF Draws
  <2>3. found \in Nat /\ Knows(o.w, o.assign, found)
    BY <1>1, <1>4, <2>2, FoundNumberType
  <2> HIDE DEF found
  <2>4. /\ May(r, AssignMemberId(m, o.w, o.assign, found), Tail(todo[r]))
        /\ Learns(View(r), AssignMemberId(m, o.w, o.assign, found), None, 0)
    BY <1>1, <1>2, <1>4, <2>2, <2>3
  <2> QED
    BY <2>1, <2>4, StepKeeps
<1>5. CASE o.assign # None /\ Draws(r, o) # None
  <2>1. \/ /\ CounterFree(r, o.assign)
           /\ Step(r, AssignMemberId(m, o.w, o.assign, next),
                   [drawn EXCEPT ![r][o.assign] = Append(@, next)])
        \/ Undo(r, "failed")
    BY <1>5 DEF Conclude
  <2>2. o.assign \in Groups
    BY <1>1, <1>5
  <2>3. Fresh(r, o.assign, next)
    BY <2>2, NextNumberType DEF IInv
  <2> HIDE DEF next
  <2>4. next \in Nat \ {0}
    BY <2>3 DEF Fresh
  <2>5. /\ May(r, AssignMemberId(m, o.w, o.assign, next), Tail(todo[r]))
        /\ Learns(View(r), AssignMemberId(m, o.w, o.assign, next), o.assign, next)
    BY <1>2, <2>2, <2>4
  <2>6. CASE Undo(r, "failed")
    BY <2>6
  <2>7. CASE /\ CounterFree(r, o.assign)
             /\ Step(r, AssignMemberId(m, o.w, o.assign, next),
                     [drawn EXCEPT ![r][o.assign] = Append(@, next)])
    BY <2>2, <2>3, <2>5, <2>7, DrawKeeps
  <2> QED
    BY <2>1, <2>6, <2>7
<1> QED
  BY <1>3, <1>4, <1>5

-----------------------------------------------------------------------------
(* The calls of a request, one by one.                                     *)

LEMMA Readied ==
  ASSUME IInv, NEW r \in Requests, NEW do, Ready(r, do), do # "drop", NEW v \in Views,
         \A g \in Groups :
           scope[r] \notin {None, g} /\ View(r).db.prio[g] # 0 => v.db.prio[g] # 0
  PROVE  May(r, v, Tail(todo[r]))
<1>1. TypeInv /\ Locks /\ OwnCalls
  BY DEF IInv
<1> QED
  BY <1>1, ReadyType DEF May

LEMMA AddMembershipKeeps ==
  ASSUME IInv, NEW r \in Requests, NEW do \in {"add", "append"}, Ready(r, do),
         Conclude(r, Addition(View(r), Target(r)))
  PROVE  Undo(r, "failed") \/ Keeps
<1> DEFINE o == Addition(View(r), Target(r))
<1>1. View(r) \in Views /\ Target(r) \in Groups
  BY ReadyType DEF IInv, Handled
<1>2. Quiet(View(r), o.w) /\ o.assign \in {None, Target(r)}
  BY <1>1, AdditionType
<1> HIDE DEF o
<1>3. May(r, o.w, Tail(todo[r]))
  BY <1>2, Readied DEF Quiet
<1>4. Learns(View(r), o.w, None, 0)
  BY <1>2 DEF Quiet, Learns
<1>5. Makes(r, o)
  BY <1>1, <1>2, <1>3, <1>4 DEF Makes
<1>6. Conclude(r, o)
  BY DEF o
<1> QED
  BY <1>5, <1>6, ConcludeKeeps

LEMMA RemoveMembershipKeeps ==
  ASSUME IInv, NEW r \in Requests, NEW do \in {"remove", "detach", "cut"},
         RemoveMembership(r, do)
  PROVE  Undo(r, "failed") \/ Keeps
<1> DEFINE o == Removal(Subject(r), View(r), Target(r))
<1>1. Ready(r, do) /\ Conclude(r, o)
  BY DEF RemoveMembership
<1>2. /\ View(r) \in Views /\ Target(r) \in Groups /\ Subject(r) \in Members
      /\ Head(todo[r]).do = do
      /\ scope[r] # None => Mild(Head(todo[r]), scope[r])
  BY <1>1, ReadyType DEF IInv, Handled
<1>3. Loses(View(r), o.w, Target(r)) /\ o.assign \in Groups \cup {None}
  BY <1>2, RemovalType
<1> HIDE DEF o
<1>4. \A g \in Groups : scope[r] \notin {None, g} => g # Target(r)
  BY <1>2 DEF Mild, Target
<1>5. May(r, o.w, Tail(todo[r]))
  <2>1. o.w \in Views
    BY <1>3 DEF Loses
  <2>2. \A g \in Groups :
          scope[r] \notin {None, g} /\ View(r).db.prio[g] # 0 => o.w.db.prio[g] # 0
    BY <1>3, <1>4 DEF Loses
  <2> QED
    BY <1>1, <2>1, <2>2, Readied
<1>6. Makes(r, o)
  BY <1>3, <1>5 DEF Makes, Loses, Learns
<1> QED
  BY <1>1, <1>6, ConcludeKeeps

LEMMA NothingToRemoveKeeps ==
  ASSUME IInv, NEW r \in Requests, NothingToRemove(r)
  PROVE  Undo(r, "failed") \/ Undo(r, "rejected") \/ Keeps
<1> DEFINE v == EnsureLegacy(View(r))
<1>1. CASE Undo(r, "rejected")
  BY <1>1
<1>2. CASE Ready(r, "detach") /\ Step(r, v, drawn)
  <2>1. View(r) \in Views
    BY <1>2, ReadyType DEF IInv
  <2>2. Quiet(View(r), v)
    BY <2>1, EnsureLegacyType
  <2> HIDE DEF v
  <2>3. May(r, v, Tail(todo[r]))
    BY <1>2, <2>2, Readied DEF Quiet
  <2>4. Learns(View(r), v, None, 0)
    BY <2>2 DEF Quiet, Learns
  <2> QED
    BY <1>2, <2>3, <2>4, StepKeeps
<1> QED
  BY <1>1, <1>2 DEF NothingToRemove

LEMMA ApproveKeeps ==
  ASSUME IInv, NEW r \in Requests, Approve(r)
  PROVE  Undo(r, "failed") \/ Keeps
<1> DEFINE o == Approved(View(r))
<1>1. Ready(r, "approve") /\ Conclude(r, o)
  BY DEF Approve
<1>2. View(r) \in Views
  BY <1>1, ReadyType DEF IInv
<1>3. o.w = View(r) /\ o.assign \in Groups \cup {None}
  BY DEF Approved, Outcome, IInv, TypeInv
<1> HIDE DEF o
<1>4. May(r, o.w, Tail(todo[r]))
  BY <1>1, <1>2, <1>3, Readied
<1>5. Makes(r, o)
  BY <1>3, <1>4 DEF Makes, Learns
<1> QED
  BY <1>1, <1>5, ConcludeKeeps

LEMMA AppendMembershipKeeps ==
  ASSUME IInv, NEW r \in Requests, AppendMembership(r)
  PROVE  Undo(r, "failed") \/ Keeps
<1>1. Ready(r, "append")
  BY DEF AppendMembership
<1>2. CASE Target(r) \in groups
  <2>1. Conclude(r, Addition(View(r), Target(r)))
    BY <1>2 DEF AppendMembership
  <2> QED
    BY <1>1, <2>1, AddMembershipKeeps
<1>3. CASE Target(r) \notin groups
  <2>1. Step(r, View(r), drawn)
    BY <1>3 DEF AppendMembership
  <2>2. View(r) \in Views
    BY <1>1, ReadyType DEF IInv
  <2>3. May(r, View(r), Tail(todo[r]))
    BY <1>1, <2>2, Readied
  <2>4. Learns(View(r), View(r), None, 0)
    BY DEF Learns
  <2> QED
    BY <2>1, <2>3, <2>4, StepKeeps
<1> QED
  BY <1>2, <1>3

\* The groups of a set, one by one: calls for them are calls.
LEMMA CallsFor ==
  ASSUME NEW S \in SUBSET Groups, NEW q \in SetToSeqs(S), NEW do \in {"cut", "append", "detach"},
         NEW m \in Members
  PROVE  /\ [i \in 1..Len(q) |-> Call(do, m, q[i])] \in Seq(CallRecord)
         /\ \A i \in DOMAIN [j \in 1..Len(q) |-> Call(do, m, q[j])] :
              \E g \in S : [j \in 1..Len(q) |-> Call(do, m, q[j])][i] = Call(do, m, g)
<1> DEFINE s == [i \in 1..Len(q) |-> Call(do, m, q[i])]
<1>1. Cardinality(S) \in Nat
  <2>1. IsFiniteSet(S)
    BY Parameters, FS_Subset
  <2> QED
    BY <2>1, FS_CardinalityType
<1>2. q \in [1..Cardinality(S) -> S]
  BY DEF SetToSeqs
<1>3. q \in Seq(S) /\ Len(q) = Cardinality(S)
  BY <1>1, <1>2
<1>4. \A i \in 1..Len(q) : q[i] \in S /\ Call(do, m, q[i]) \in CallRecord
  <2>1. \A g \in Groups : Call(do, m, g) \in CallRecord
    BY DEF Call, CallRecord
  <2> QED
    BY <1>2, <1>3, <2>1
<1>5. s \in [1..Len(q) -> CallRecord]
  BY <1>4
<1>6. s \in Seq(CallRecord)
  BY <1>1, <1>3, <1>5
<1>7. \A i \in DOMAIN s : \E g \in S : s[i] = Call(do, m, g)
  BY <1>4
<1> QED
  BY <1>6, <1>7

LEMMA Joined ==
  ASSUME NEW S, NEW a \in Seq(S), NEW b \in Seq(S)
  PROVE  /\ a \o b \in Seq(S)
         /\ \A i \in DOMAIN (a \o b) :
              (\E j \in DOMAIN a : (a \o b)[i] = a[j]) \/ (\E j \in DOMAIN b : (a \o b)[i] = b[j])
<1>1. /\ a \o b \in Seq(S) /\ Len(a \o b) = Len(a) + Len(b)
      /\ \A i \in 1..(Len(a) + Len(b)) :
           (a \o b)[i] = IF i <= Len(a) THEN a[i] ELSE b[i - Len(a)]
  BY ConcatProperties
<1>2. /\ DOMAIN (a \o b) = 1..(Len(a) + Len(b)) /\ Len(a) \in Nat /\ Len(b) \in Nat
      /\ DOMAIN a = 1..Len(a) /\ DOMAIN b = 1..Len(b)
  BY <1>1
<1> SUFFICES ASSUME NEW i \in 1..(Len(a) + Len(b))
             PROVE  (\E j \in DOMAIN a : (a \o b)[i] = a[j]) \/ (\E j \in DOMAIN b : (a \o b)[i] = b[j])
  BY <1>1, <1>2
<1>3. CASE i <= Len(a)
  BY <1>1, <1>2, <1>3
<1>4. CASE ~(i <= Len(a))
  <2>1. i - Len(a) \in 1..Len(b)
    BY <1>2, <1>4
  <2> QED
    BY <1>1, <1>2, <1>4, <2>1
<1> QED
  BY <1>3, <1>4

LEMMA SyncMembershipsKeeps ==
  ASSUME IInv, NEW r \in Requests, SyncMemberships(r)
  PROVE  Undo(r, "rejected") \/ Keeps
<1> DEFINE m == Subject(r)
           w == EnsureLegacy(View(r))
           wish == Head(todo[r]).wish
           gone == Gone(w.db, wish, scope[r])
           new == ToSet(wish) \ Rows(w.db)
<1>1. /\ m \in Members /\ View(r) \in Views /\ Head(todo[r]) \in CallRecord
      /\ Head(todo[r]).do = "sync" /\ pc[r] = "run"
  BY ReadyType DEF IInv, SyncMemberships
<1>2. Quiet(View(r), w)
  BY <1>1, EnsureLegacyType
<1>3. gone \in SUBSET Groups /\ new \in SUBSET Groups
  <2>1. wish \in Seq(Groups)
    BY <1>1, CallKinds
  <2>2. \A i \in DOMAIN wish : wish[i] \in Groups
    BY <2>1, ElementOfSeq
  <2> QED
    BY <2>2 DEF Gone, Rows, ToSet
<1> HIDE DEF w, wish, m
<1>4. CASE Violates(w.db) \/ ~MayAdd(new, scope[r])
  BY <1>4 DEF SyncMemberships, w, wish
<1>5. CASE ~(Violates(w.db) \/ ~MayAdd(new, scope[r]))
  <2>1. PICK cuts \in InOrder(w.db, gone), adds \in Appended(wish, new) :
          todo' = [todo EXCEPT ![r] =
                     [i \in 1..Len(cuts) |-> Call("cut", m, cuts[i])]
                       \o [i \in 1..Len(adds) |-> Call("append", m, adds[i])]]
    BY <1>5 DEF SyncMemberships, w, wish, m
  <2> DEFINE a == [i \in 1..Len(cuts) |-> Call("cut", m, cuts[i])]
             b == [i \in 1..Len(adds) |-> Call("append", m, adds[i])]
  <2>2. cuts \in SetToSeqs(gone) /\ adds \in SetToSeqs(new)
    BY <2>1 DEF InOrder, Appended
  <2>3. a \in Seq(CallRecord) /\ \A i \in DOMAIN a : \E g \in gone : a[i] = Call("cut", m, g)
    BY <1>1, <1>3, <2>2, CallsFor DEF m
  <2>4. b \in Seq(CallRecord) /\ \A i \in DOMAIN b : \E g \in new : b[i] = Call("append", m, g)
    BY <1>1, <1>3, <2>2, CallsFor DEF m
  <2>5. scope[r] # None => \A g \in gone \cup new : g = scope[r]
    <3>1. \A g \in gone : scope[r] = None \/ scope[r] = g
      BY DEF Gone
    <3>2. scope[r] = None \/ new \subseteq {scope[r]}
      BY <1>5 DEF MayAdd
    <3> HIDE DEF gone, new
    <3>3. ASSUME scope[r] # None, NEW g \in gone \cup new
          PROVE  g = scope[r]
      <4>1. CASE g \in gone
        BY <3>1, <3>3, <4>1
      <4>2. CASE g \in new
        BY <3>2, <3>3, <4>2
      <4> QED
        BY <3>3, <4>1, <4>2
    <3> QED
      BY <3>3
  <2>6. todo' = [todo EXCEPT ![r] = a \o b]
    BY <2>1
  <2> HIDE DEF a, b
  <2>7. /\ a \o b \in Seq(CallRecord)
        /\ \A i \in DOMAIN (a \o b) :
             (\E j \in DOMAIN a : (a \o b)[i] = a[j]) \/ (\E j \in DOMAIN b : (a \o b)[i] = b[j])
    BY <2>3, <2>4, Joined
  <2>8. \A i \in DOMAIN (a \o b) : \E g \in gone \cup new :
          (a \o b)[i] = Call("cut", m, g) \/ (a \o b)[i] = Call("append", m, g)
    BY <2>3, <2>4, <2>7
  <2> HIDE DEF gone, new
  <2>9. ASSUME scope[r] # None, NEW i \in DOMAIN (a \o b)
        PROVE  Mild((a \o b)[i], scope[r])
    <3>1. PICK g \in gone \cup new :
            (a \o b)[i] = Call("cut", m, g) \/ (a \o b)[i] = Call("append", m, g)
      BY <2>8
    <3>2. g = scope[r]
      BY <2>5, <2>9
    <3>3. Mild(Call("cut", m, g), g) /\ Mild(Call("append", m, g), g)
      BY DEF Mild, Call
    <3> QED
      BY <3>1, <3>2, <3>3
  <2>10. May(r, w, a \o b)
    BY <1>1, <1>2, <2>7, <2>9 DEF May, Quiet, m
  <2>11. Does(r, w, a \o b, drawn)
    BY <1>5, <2>6 DEF SyncMemberships, Does, Database, w, wish, m, new
  <2>12. Learns(View(r), w, None, 0)
    BY <1>2 DEF Quiet, Learns
  <2>13. drawn \in [Requests -> [Groups -> Seq(Nat \ {0})]]
    BY DEF IInv, TypeInv
  <2>14. TypeInv' /\ Locks' /\ OwnCalls' /\ OthersKept'
    BY <2>10, <2>11, <2>13, DoesKeeps DEF IInv
  <2>15. Drawing' /\ (Numbers => Numbers')
    BY <2>10, <2>11, <2>12, DoesQuietly DEF IInv
  <2>16. Grows
    BY <2>11 DEF Does, Grows
  <2> QED
    BY <2>14, <2>15, <2>16 DEF Keeps, IInv
<1> QED
  BY <1>4, <1>5

-----------------------------------------------------------------------------
(* The ends of a request.                                                  *)

LEMMA ClosedValues ==
  ASSUME TypeInv, NEW r \in Requests, NEW answer \in Ended, Close(r, answer)
  PROVE  /\ pc' \in [Requests -> {"idle", "run"} \cup Ended]
         /\ todo' \in [Requests -> Seq(CallRecord)]
         /\ scope' \in [Requests -> Groups \cup {None}]
         /\ work' \in [Requests -> [Members -> Member \cup {None}]]
         /\ drawn' \in [Requests -> [Groups -> Seq(Nat \ {0})]]
         /\ scope'[r] = None
         /\ \A m \in Members : work'[r][m] = None
         /\ \A g \in Groups : drawn'[r][g] = <<>>
         /\ \A s \in Requests \ {r} :
              /\ pc'[s] = pc[s] /\ todo'[s] = todo[s] /\ scope'[s] = scope[s]
              /\ work'[s] = work[s] /\ drawn'[s] = drawn[s]
<1>1. /\ pc' = [pc EXCEPT ![r] = answer]
      /\ scope' = [scope EXCEPT ![r] = None]
      /\ todo' = [todo EXCEPT ![r] = <<>>]
      /\ work' = [work EXCEPT ![r] = [m \in Members |-> None]]
      /\ drawn' = [drawn EXCEPT ![r] = [g \in Groups |-> <<>>]]
  BY DEF Close
<1>2. /\ pc \in [Requests -> {"idle", "run"} \cup Ended]
      /\ todo \in [Requests -> Seq(CallRecord)]
      /\ scope \in [Requests -> Groups \cup {None}]
      /\ work \in [Requests -> [Members -> Member \cup {None}]]
      /\ drawn \in [Requests -> [Groups -> Seq(Nat \ {0})]]
  BY DEF TypeInv
<1>3. <<>> \in Seq(CallRecord) /\ <<>> \in Seq(Nat \ {0})
  OBVIOUS
<1>4. /\ [m \in Members |-> None] \in [Members -> Member \cup {None}]
      /\ [g \in Groups |-> <<>>] \in [Groups -> Seq(Nat \ {0})]
  BY <1>3
<1>5. /\ pc' \in [Requests -> {"idle", "run"} \cup Ended]
      /\ todo' \in [Requests -> Seq(CallRecord)]
      /\ scope' \in [Requests -> Groups \cup {None}]
  BY <1>1, <1>2, <1>3
<1>6. /\ work' \in [Requests -> [Members -> Member \cup {None}]]
      /\ \A m \in Members : work'[r][m] = None
  BY <1>1, <1>2, <1>4
<1>7. /\ drawn' \in [Requests -> [Groups -> Seq(Nat \ {0})]]
      /\ \A g \in Groups : drawn'[r][g] = <<>>
  BY <1>1, <1>2, <1>4
<1>8. scope'[r] = None
  BY <1>1, <1>2
<1>9. \A s \in Requests \ {r} :
        /\ pc'[s] = pc[s] /\ todo'[s] = todo[s] /\ scope'[s] = scope[s]
        /\ work'[s] = work[s] /\ drawn'[s] = drawn[s]
  BY <1>1, <1>2
<1> QED
  BY <1>5, <1>6, <1>7, <1>8, <1>9

\* What a step that ends a request, and forgets what it loaded, cannot break.
LEMMA ClosedKeeps ==
  ASSUME TypeInv, Locks, OwnCalls, NEW r \in Requests, NEW answer \in Ended, Close(r, answer),
         \A m \in Members : loaded'[r][m] = None,
         \A s \in Requests \ {r}, m \in Members : loaded[s][m] # None <=> loaded'[s][m] # None
  PROVE  Locks' /\ OwnCalls'
<1>1. /\ scope'[r] = None
      /\ \A m \in Members : work'[r][m] = None
      /\ \A g \in Groups : drawn'[r][g] = <<>>
      /\ \A s \in Requests \ {r} :
           /\ pc'[s] = pc[s] /\ todo'[s] = todo[s] /\ scope'[s] = scope[s]
           /\ work'[s] = work[s] /\ drawn'[s] = drawn[s]
  BY ClosedValues
<1>2. \A s, t \in Requests, m \in Members : work'[s][m] # None /\ work'[t][m] # None => s = t
  <2>1. \A s, t \in Requests, m \in Members : work[s][m] # None /\ work[t][m] # None => s = t
    BY DEF Locks
  <2> QED
    BY <1>1, <2>1
<1>3. \A s \in Requests, m \in Members : work'[s][m] # None => loaded'[s][m] # None
  <2>1. \A s \in Requests, m \in Members : work[s][m] # None => loaded[s][m] # None
    BY DEF Locks
  <2> QED
    BY <1>1, <2>1
<1>4. ASSUME NEW s \in Requests, pc'[s] # "run"
      PROVE  /\ scope'[s] = None
             /\ \A m \in Members : loaded'[s][m] = None /\ work'[s][m] = None
             /\ \A g \in Groups : drawn'[s][g] = <<>>
  <2>1. CASE s = r
    BY <1>1, <2>1
  <2>2. CASE s # r
    <3>1. /\ scope[s] = None
          /\ \A m \in Members : loaded[s][m] = None /\ work[s][m] = None
          /\ \A g \in Groups : drawn[s][g] = <<>>
      BY <1>1, <1>4, <2>2 DEF Locks
    <3> QED
      BY <1>1, <2>2, <3>1
  <2> QED
    BY <2>1, <2>2
<1>5. OwnCalls'
  <2> SUFFICES ASSUME NEW s \in Requests, scope'[s] # None, NEW i \in DOMAIN todo'[s]
               PROVE  Mild(todo'[s][i], scope'[s])
    BY DEF OwnCalls, Mild
  <2>1. s # r /\ todo'[s] = todo[s] /\ scope'[s] = scope[s]
    BY <1>1
  <2> QED
    BY <2>1 DEF OwnCalls
<1> QED
  BY <1>2, <1>3, <1>4, <1>5 DEF Locks

LEMMA UndoKeeps ==
  ASSUME IInv, NEW r \in Requests, NEW answer \in Ended, Undo(r, answer)
  PROVE  Keeps
<1>1. /\ Close(r, answer) /\ UNCHANGED <<member, groups, counter, minted, carried>>
      /\ loaded' = [loaded EXCEPT ![r] = [m \in Members |-> None]]
  BY DEF Undo, Database
<1>2. TypeInv /\ Locks /\ OwnCalls /\ OthersKept /\ Drawing
  BY DEF IInv
<1>3. /\ pc' \in [Requests -> {"idle", "run"} \cup Ended]
      /\ todo' \in [Requests -> Seq(CallRecord)]
      /\ scope' \in [Requests -> Groups \cup {None}]
      /\ work' \in [Requests -> [Members -> Member \cup {None}]]
      /\ drawn' \in [Requests -> [Groups -> Seq(Nat \ {0})]]
      /\ \A m \in Members : work'[r][m] = None
      /\ \A g \in Groups : drawn'[r][g] = <<>>
      /\ \A s \in Requests \ {r} :
           work'[s] = work[s] /\ drawn'[s] = drawn[s] /\ scope'[s] = scope[s]
  BY <1>1, <1>2, ClosedValues
<1>4. /\ loaded' \in [Requests -> [Members -> Loaded \cup {None}]]
      /\ \A m \in Members : loaded'[r][m] = None
      /\ \A s \in Requests \ {r} : loaded'[s] = loaded[s]
  BY <1>1, <1>2 DEF TypeInv
<1>5. TypeInv'
  BY <1>1, <1>2, <1>3, <1>4 DEF TypeInv
<1>6. Locks' /\ OwnCalls'
  BY <1>1, <1>2, <1>4, ClosedKeeps
<1>7. OthersKept'
  <2> SUFFICES ASSUME NEW s \in Requests, NEW m \in Members, NEW g \in Groups,
                      work'[s][m] # None, scope'[s] \notin {None, g}, member'[m].prio[g] # 0
               PROVE  work'[s][m].prio[g] # 0
    BY DEF OthersKept
  <2>1. s # r /\ work'[s] = work[s] /\ scope'[s] = scope[s] /\ member' = member
    BY <1>1, <1>3
  <2> QED
    BY <1>2, <2>1 DEF OthersKept
<1>8. Drawing'
  <2>1. \A s, t \in Requests, g \in Groups : drawn'[s][g] # <<>> /\ drawn'[t][g] # <<>> => s = t
    <3>1. \A s, t \in Requests, g \in Groups : drawn[s][g] # <<>> /\ drawn[t][g] # <<>> => s = t
      BY <1>2 DEF Drawing
    <3>2. \A s \in Requests, g \in Groups : drawn'[s][g] # <<>> => drawn'[s][g] = drawn[s][g]
      BY <1>3
    <3> QED
      BY <3>1, <3>2
  <2>2. ASSUME NEW s \in Requests, NEW g \in Groups
        PROVE  Upward(drawn'[s][g]) /\ \A i \in DOMAIN drawn'[s][g] : drawn'[s][g][i] > counter'[g]
    <3>1. CASE s = r
      <4>1. drawn'[s][g] = <<>> /\ DOMAIN drawn'[s][g] = {}
        BY <1>3, <3>1
      <4> QED
        BY <4>1 DEF Upward
    <3>2. CASE s # r
      BY <1>1, <1>2, <1>3, <3>2 DEF Drawing
    <3> QED
      BY <3>1, <3>2
  <2>3. \A g \in Groups :
          Upward(minted'[g]) /\ \A i \in DOMAIN minted'[g] : minted'[g][i] <= counter'[g]
    BY <1>1, <1>2 DEF Drawing
  <2> QED
    BY <2>1, <2>2, <2>3 DEF Drawing, Upward
<1>9. ASSUME Numbers PROVE Numbers'
  <2>1. \A n : \A s \in Requests, m \in Members, g \in Groups :
          Holds(s, m, g, n)' => s # r /\ Holds(s, m, g, n) /\ drawn'[s] = drawn[s]
    BY <1>3, <1>4 DEF Holds, Believes, Shows
  <2>2. \A s \in Requests, m \in Members, g \in Groups, n \in Nat \ {0} :
          Holds(s, m, g, n)' => <<g, n, m>> \in carried' \/ Drew(drawn'[s][g], n)
    BY <1>1, <1>9, <2>1 DEF Numbers
  <2>3. \A s \in Requests, m, o \in Members, g \in Groups, n \in Nat \ {0} :
          Holds(s, m, g, n)' /\ Holds(s, o, g, n)' /\ Drew(drawn'[s][g], n) => m = o
    <3>1. \A s \in Requests, m, o \in Members, g \in Groups, n \in Nat \ {0} :
            Holds(s, m, g, n) /\ Holds(s, o, g, n) /\ Drew(drawn[s][g], n) => m = o
      BY <1>9 DEF Numbers
    <3> QED
      BY <2>1, <3>1
  <2>4. /\ \A g \in Groups, n \in Nat \ {0}, m \in Members : <<g, n, m>> \in carried => n <= counter[g]
        /\ \A m \in Members, g \in Groups, n \in Nat \ {0} :
             Shows(member[m], g, n) => <<g, n, m>> \in carried
        /\ NumberOwned
    BY <1>9 DEF Numbers
  <2>5. NumberOwned'
    BY <1>1, <2>4 DEF NumberOwned
  <2>6. \A m \in Members, g \in Groups, n \in Nat \ {0} :
          Shows(member[m], g, n)' => <<g, n, m>> \in carried'
    BY <1>1, <2>4 DEF Shows
  <2> QED
    BY <1>1, <2>2, <2>3, <2>4, <2>5, <2>6 DEF Numbers, Drew, Shows
<1>10. Grows
  BY <1>1 DEF Grows
<1> QED
  BY <1>5, <1>6, <1>7, <1>8, <1>9, <1>10 DEF Keeps, IInv

\* What may be published of the members a request has seen.
Publishable(r, all) ==
  /\ all \in [Members -> Member]
  /\ \A s \in Requests \ {r}, m \in Members, g \in Groups :
       work[s][m] # None /\ all[m].prio[g] # 0 => member[m].prio[g] # 0
  /\ \A m \in Members, g \in Groups, n \in Nat \ {0} :
       Shows(all[m], g, n) => Shows(member[m], g, n) \/ Holds(r, m, g, n)

\* A row that goes takes its priority from the sessions that loaded it, and
\* nothing else.
LEMMA ForgetValues ==
  ASSUME TypeInv, NEW r \in Requests, NEW all, Forget(r, all)
  PROVE  /\ loaded' \in [Requests -> [Members -> Loaded \cup {None}]]
         /\ \A m \in Members : loaded'[r][m] = None
         /\ \A s \in Requests \ {r}, m \in Members :
              /\ loaded'[s][m] # None <=> loaded[s][m] # None
              /\ loaded[s][m] # None =>
                   loaded'[s][m].row = loaded[s][m].row /\ loaded'[s][m].num = loaded[s][m].num
<1> DEFINE L(s, m) ==
      CASE s = r -> None
        [] s # r /\ (loaded[s][m] = None \/ work[s][m] # None) -> loaded[s][m]
        [] OTHER -> [loaded[s][m] EXCEPT
             !.prio = [g \in Groups |-> IF all[m].prio[g] = 0 THEN 0 ELSE @[g]]]
<1>1. loaded' = [s \in Requests |-> [m \in Members |-> L(s, m)]]
  BY DEF Forget
<1>2. loaded \in [Requests -> [Members -> Loaded \cup {None}]]
  BY DEF TypeInv
<1>3. ASSUME NEW s \in Requests, NEW m \in Members
      PROVE  /\ L(s, m) \in Loaded \cup {None} /\ (s = r => L(s, m) = None)
             /\ s # r =>
                  /\ L(s, m) # None <=> loaded[s][m] # None
                  /\ loaded[s][m] # None =>
                       L(s, m).row = loaded[s][m].row /\ L(s, m).num = loaded[s][m].num
  <2>1. loaded[s][m] \in Loaded \cup {None}
    BY <1>2
  <2>2. CASE s = r
    BY <2>2
  <2>3. CASE s # r /\ (loaded[s][m] = None \/ work[s][m] # None)
    BY <2>1, <2>3
  <2>4. CASE s # r /\ loaded[s][m] # None /\ work[s][m] = None
    <3> DEFINE l == loaded[s][m]
               p == [g \in Groups |-> IF all[m].prio[g] = 0 THEN 0 ELSE l.prio[g]]
               e == [l EXCEPT !.prio = p]
    <3>1. l \in Loaded
      BY <2>1, <2>4
    <3>2. L(s, m) = e
      BY <2>4
    <3> HIDE DEF l
    <3>3. p \in [Groups -> Nat]
      BY <3>1 DEF Loaded
    <3> HIDE DEF p
    <3>4. e \in Loaded /\ e.row = l.row /\ e.num = l.num
      BY <3>1, <3>3 DEF Loaded
    <3>5. e # None
      BY <3>4, Parameters
    <3> HIDE DEF e, L
    <3> QED
      BY <2>4, <3>2, <3>4, <3>5 DEF l
  <2> QED
    BY <2>2, <2>3, <2>4
<1> HIDE DEF L
<1>4. \A s \in Requests, m \in Members : loaded'[s][m] = L(s, m)
  BY <1>1
<1>5. loaded' \in [Requests -> [Members -> Loaded \cup {None}]]
  BY <1>1, <1>3
<1> QED
  BY <1>3, <1>4, <1>5

\* The counters after the commit: the last number drawn.
LEMMA PublishedCounters ==
  ASSUME TypeInv, Drawing, NEW r \in Requests, NEW g \in Groups,
         counter' = [h \in Groups |-> IF drawn[r][h] = <<>> THEN counter[h] ELSE Last(drawn[r][h])]
  PROVE  /\ counter'[g] \in Nat \cup {Absent} /\ counter[g] <= counter'[g]
         /\ drawn[r][g] = <<>> => counter'[g] = counter[g]
         /\ \A i \in DOMAIN drawn[r][g] : drawn[r][g][i] <= counter'[g]
<1>1. counter[g] \in Nat \cup {Absent} /\ drawn[r][g] \in Seq(Nat \ {0})
  BY DEF TypeInv
<1>2. /\ Upward(drawn[r][g])
      /\ \A i \in DOMAIN drawn[r][g] : drawn[r][g][i] > counter[g]
  BY DEF Drawing
<1>3. CASE drawn[r][g] = <<>>
  <2>1. counter'[g] = counter[g] /\ DOMAIN drawn[r][g] = {}
    BY <1>3
  <2> QED
    BY <1>1, <2>1 DEF Absent
<1>4. CASE drawn[r][g] # <<>>
  <2>1. counter'[g] = Last(drawn[r][g])
    BY <1>4
  <2>2. /\ Last(drawn[r][g]) \in Nat \ {0} /\ Len(drawn[r][g]) \in DOMAIN drawn[r][g]
        /\ Last(drawn[r][g]) = drawn[r][g][Len(drawn[r][g])]
        /\ \A i \in DOMAIN drawn[r][g] : drawn[r][g][i] <= Last(drawn[r][g])
    BY <1>1, <1>2, <1>4, LastType
  <2>3. Last(drawn[r][g]) > counter[g]
    BY <1>2, <2>2
  <2> QED
    BY <1>1, <1>4, <2>1, <2>2, <2>3 DEF Absent
<1> QED
  BY <1>3, <1>4

LEMMA Ascend ==
  ASSUME NEW a \in Seq(Nat \ {0}), NEW b \in Seq(Nat \ {0}), Upward(a), Upward(b),
         NEW k \in Int, NEW l \in Int, k <= l,
         \A i \in DOMAIN a : a[i] <= k, \A i \in DOMAIN b : b[i] > k /\ b[i] <= l
  PROVE  Upward(a \o b) /\ \A i \in DOMAIN (a \o b) : (a \o b)[i] <= l
<1>1. /\ a \o b \in Seq(Nat \ {0}) /\ Len(a \o b) = Len(a) + Len(b)
      /\ \A i \in 1..(Len(a) + Len(b)) :
           (a \o b)[i] = IF i <= Len(a) THEN a[i] ELSE b[i - Len(a)]
  BY ConcatProperties
<1>2. /\ DOMAIN (a \o b) = 1..(Len(a) + Len(b)) /\ Len(a) \in Nat /\ Len(b) \in Nat
      /\ DOMAIN a = 1..Len(a) /\ DOMAIN b = 1..Len(b)
      /\ \A i \in 1..Len(a) : a[i] \in Nat
      /\ \A i \in 1..Len(b) : b[i] \in Nat
  BY <1>1, ElementOfSeq
<1> DEFINE c == a \o b
<1>3. \A i \in 1..(Len(a) + Len(b)) : \/ i \in DOMAIN a /\ c[i] = a[i]
                                      \/ i > Len(a) /\ i - Len(a) \in DOMAIN b /\ c[i] = b[i - Len(a)]
  BY <1>1, <1>2
<1> HIDE DEF c
<1>4. \A i \in DOMAIN c : c[i] <= l
  <2> SUFFICES ASSUME NEW i \in 1..(Len(a) + Len(b))
               PROVE  c[i] <= l
    BY <1>2 DEF c
  <2>1. CASE i \in DOMAIN a /\ c[i] = a[i]
    BY <1>2, <2>1
  <2>2. CASE i - Len(a) \in DOMAIN b /\ c[i] = b[i - Len(a)]
    BY <2>2
  <2> QED
    BY <1>3, <2>1, <2>2
<1>5. Upward(c)
  <2> SUFFICES ASSUME NEW i \in 1..(Len(a) + Len(b)), NEW j \in 1..(Len(a) + Len(b)), i < j
               PROVE  c[i] < c[j]
    BY <1>2 DEF c, Upward
  <2>1. CASE i \in DOMAIN a /\ c[i] = a[i] /\ j \in DOMAIN a /\ c[j] = a[j]
    BY <2>1 DEF Upward
  <2>2. CASE i \in DOMAIN a /\ c[i] = a[i] /\ j - Len(a) \in DOMAIN b /\ c[j] = b[j - Len(a)]
    <3>1. a[i] <= k /\ b[j - Len(a)] > k /\ a[i] \in Nat /\ b[j - Len(a)] \in Nat
      BY <1>2, <2>2
    <3> QED
      BY <2>2, <3>1
  <2>3. CASE /\ i > Len(a) /\ i - Len(a) \in DOMAIN b /\ c[i] = b[i - Len(a)]
             /\ j - Len(a) \in DOMAIN b /\ c[j] = b[j - Len(a)]
    <3>1. i - Len(a) < j - Len(a)
      BY <1>2
    <3> QED
      BY <2>3, <3>1 DEF Upward
  <2>4. i \in DOMAIN a \/ i > Len(a)
    BY <1>2
  <2>5. j \in DOMAIN a => i \in DOMAIN a
    BY <1>2
  <2> QED
    BY <1>2, <1>3, <2>1, <2>2, <2>3, <2>4, <2>5
<1> QED
  BY <1>4, <1>5 DEF c

LEMMA NumbersOfType ==
  ASSUME NEW m \in Members, NEW db \in Member
  PROVE  /\ NumbersOf(m, db) \subseteq Groups \X (Nat \ {0}) \X Members
         /\ \A g \in Groups, n \in Nat \ {0}, o \in Members :
              <<g, n, o>> \in NumbersOf(m, db) <=> o = m /\ Shows(db, g, n)
<1>1. /\ db.row \in [Groups -> Nat] /\ db.gm \in [Groups -> Nat]
      /\ db.num \in (Groups \X (Nat \ {0})) \cup {None}
  BY DEF Member
<1>2. \A g \in Groups, n \in Nat : <<g, n>> # None
  BY Parameters
<1> DEFINE A == {<<g, db.row[g], m>> : g \in {h \in Groups : db.row[h] # 0}}
           B == {<<g, db.gm[g], m>> : g \in {h \in Groups : db.gm[h] # 0}}
           C == IF db.num = None THEN {} ELSE {<<db.num[1], db.num[2], m>>}
<1>3. NumbersOf(m, db) = A \cup B \cup C
  BY DEF NumbersOf
<1>4. A \subseteq Groups \X (Nat \ {0}) \X Members /\ B \subseteq Groups \X (Nat \ {0}) \X Members
  BY <1>1
<1>5. C \subseteq Groups \X (Nat \ {0}) \X Members
  BY <1>1
<1>6. ASSUME NEW g \in Groups, NEW n \in Nat \ {0}, NEW o \in Members
      PROVE  /\ <<g, n, o>> \in A <=> o = m /\ db.row[g] = n
             /\ <<g, n, o>> \in B <=> o = m /\ db.gm[g] = n
  BY <1>1
<1>7. ASSUME NEW g \in Groups, NEW n \in Nat \ {0}, NEW o \in Members
      PROVE  <<g, n, o>> \in C <=> o = m /\ db.num = <<g, n>>
  <2>1. CASE db.num = None
    BY <1>2, <2>1
  <2>2. CASE db.num # None
    <3>1. PICK h \in Groups, k \in Nat \ {0} : db.num = <<h, k>>
      BY <1>1, <2>2
    <3> QED
      BY <2>2, <3>1
  <2> QED
    BY <2>1, <2>2
<1> HIDE DEF A, B, C
<1> QED
  BY <1>3, <1>4, <1>5, <1>6, <1>7 DEF Shows

LEMMA PublishKeeps ==
  ASSUME IInv, NEW r \in Requests, NEW all, NEW rest \in SUBSET Groups,
         Publishable(r, all), Publish(r, all, rest)
  PROVE  Undo(r, "failed") \/ Keeps
<1>1. CASE Clash(all)
  BY <1>1 DEF Publish
<1>2. CASE ~Clash(all)
  <2>1. /\ member' = all /\ groups' = rest
        /\ counter' = [g \in Groups |->
             IF drawn[r][g] = <<>> THEN counter[g] ELSE Last(drawn[r][g])]
        /\ minted' = [g \in Groups |-> minted[g] \o drawn[r][g]]
        /\ carried' = carried \cup UNION {NumbersOf(m, all[m]) : m \in Members}
        /\ Forget(r, all) /\ Close(r, "done")
    BY <1>2 DEF Publish
  <2>2. TypeInv /\ Locks /\ OwnCalls /\ OthersKept /\ Drawing /\ "done" \in Ended
    BY DEF IInv, Ended
  <2>3. /\ all \in [Members -> Member]
        /\ \A s \in Requests \ {r}, m \in Members, g \in Groups :
             work[s][m] # None /\ all[m].prio[g] # 0 => member[m].prio[g] # 0
        /\ \A m \in Members, g \in Groups, n \in Nat \ {0} :
             Shows(all[m], g, n) => Shows(member[m], g, n) \/ Holds(r, m, g, n)
    BY DEF Publishable
  <2>4. /\ pc' \in [Requests -> {"idle", "run"} \cup Ended]
        /\ todo' \in [Requests -> Seq(CallRecord)]
        /\ scope' \in [Requests -> Groups \cup {None}]
        /\ work' \in [Requests -> [Members -> Member \cup {None}]]
        /\ drawn' \in [Requests -> [Groups -> Seq(Nat \ {0})]]
        /\ \A m \in Members : work'[r][m] = None
        /\ \A g \in Groups : drawn'[r][g] = <<>>
        /\ \A s \in Requests \ {r} :
             work'[s] = work[s] /\ drawn'[s] = drawn[s] /\ scope'[s] = scope[s]
    BY <2>1, <2>2, ClosedValues
  <2>5. /\ loaded' \in [Requests -> [Members -> Loaded \cup {None}]]
        /\ \A m \in Members : loaded'[r][m] = None
        /\ \A s \in Requests \ {r}, m \in Members :
             /\ loaded'[s][m] # None <=> loaded[s][m] # None
             /\ loaded[s][m] # None =>
                  loaded'[s][m].row = loaded[s][m].row /\ loaded'[s][m].num = loaded[s][m].num
    BY <2>1, <2>2, ForgetValues
  <2>6. \A g \in Groups :
          /\ counter'[g] \in Nat \cup {Absent} /\ counter[g] <= counter'[g]
          /\ drawn[r][g] = <<>> => counter'[g] = counter[g]
          /\ \A i \in DOMAIN drawn[r][g] : drawn[r][g][i] <= counter'[g]
    BY <2>1, <2>2, PublishedCounters
  <2>7. \A g \in Groups :
          /\ minted[g] \in Seq(Nat \ {0}) /\ drawn[r][g] \in Seq(Nat \ {0})
          /\ counter[g] \in Nat \cup {Absent}
    BY <2>2 DEF TypeInv
  <2>8. \A m \in Members, g \in Groups, n \in Nat \ {0} :
          <<g, n, m>> \in carried' <=> <<g, n, m>> \in carried \/ Shows(all[m], g, n)
    <3>1. \A m \in Members, g \in Groups, n \in Nat \ {0}, o \in Members :
            <<g, n, o>> \in NumbersOf(m, all[m]) <=> o = m /\ Shows(all[m], g, n)
      BY <2>3, NumbersOfType
    <3> QED
      BY <2>1, <3>1
  <2>9. carried' \subseteq Groups \X (Nat \ {0}) \X Members
    <3>1. \A m \in Members : NumbersOf(m, all[m]) \subseteq Groups \X (Nat \ {0}) \X Members
      BY <2>3, NumbersOfType
    <3>2. carried \subseteq Groups \X (Nat \ {0}) \X Members
      BY <2>2 DEF TypeInv
    <3> QED
      BY <2>1, <3>1, <3>2
  <2>10. TypeInv'
    <3>1. counter' \in [Groups -> Nat \cup {Absent}]
      BY <2>1, <2>6
    <3>2. \A g \in Groups : minted[g] \o drawn[r][g] \in Seq(Nat \ {0})
      BY <2>7, ConcatProperties
    <3>3. minted' \in [Groups -> Seq(Nat \ {0})]
      BY <2>1, <3>2
    <3> QED
      BY <2>1, <2>3, <2>4, <2>5, <2>9, <3>1, <3>3 DEF TypeInv
  <2>11. Locks' /\ OwnCalls'
    BY <2>1, <2>2, <2>5, ClosedKeeps
  <2>12. OthersKept'
    <3> SUFFICES ASSUME NEW s \in Requests, NEW m \in Members, NEW g \in Groups,
                        work'[s][m] # None, scope'[s] \notin {None, g}, member'[m].prio[g] # 0
                 PROVE  work'[s][m].prio[g] # 0
      BY DEF OthersKept
    <3>1. s # r /\ work'[s] = work[s] /\ scope'[s] = scope[s]
      BY <2>4
    <3>2. member[m].prio[g] # 0
      BY <2>1, <2>3, <3>1
    <3> QED
      BY <2>2, <3>1, <3>2 DEF OthersKept
  <2>13. Drawing'
    <3>1. \A s, t \in Requests, g \in Groups : drawn[s][g] # <<>> /\ drawn[t][g] # <<>> => s = t
      BY <2>2 DEF Drawing
    <3>2. \A s \in Requests, g \in Groups :
            drawn'[s][g] # <<>> => s # r /\ drawn'[s][g] = drawn[s][g]
      BY <2>4
    <3>3. \A s, t \in Requests, g \in Groups : drawn'[s][g] # <<>> /\ drawn'[t][g] # <<>> => s = t
      BY <3>1, <3>2
    <3>4. ASSUME NEW s \in Requests, NEW g \in Groups
          PROVE  Upward(drawn'[s][g]) /\ \A i \in DOMAIN drawn'[s][g] : drawn'[s][g][i] > counter'[g]
      <4>1. CASE drawn'[s][g] = <<>>
        <5>1. DOMAIN drawn'[s][g] = {}
          BY <4>1
        <5> QED
          BY <5>1 DEF Upward
      <4>2. CASE drawn'[s][g] # <<>>
        <5>1. s # r /\ drawn'[s][g] = drawn[s][g] /\ drawn[r][g] = <<>>
          BY <3>1, <3>2, <4>2
        <5>2. counter'[g] = counter[g]
          BY <2>6, <5>1
        <5> QED
          BY <2>2, <5>1, <5>2 DEF Drawing
      <4> QED
        BY <4>1, <4>2
    <3>5. ASSUME NEW g \in Groups
          PROVE  Upward(minted'[g]) /\ \A i \in DOMAIN minted'[g] : minted'[g][i] <= counter'[g]
      <4>1. /\ Upward(minted[g]) /\ \A i \in DOMAIN minted[g] : minted[g][i] <= counter[g]
            /\ Upward(drawn[r][g]) /\ \A i \in DOMAIN drawn[r][g] : drawn[r][g][i] > counter[g]
        BY <2>2 DEF Drawing
      <4>2. \A i \in DOMAIN drawn[r][g] : drawn[r][g][i] <= counter'[g]
        BY <2>6
      <4>3. counter[g] \in Int /\ counter'[g] \in Int /\ counter[g] <= counter'[g]
        BY <2>6, <2>7 DEF Absent
      <4>4. minted[g] \in Seq(Nat \ {0}) /\ drawn[r][g] \in Seq(Nat \ {0})
        BY <2>7
      <4>5. /\ Upward(minted[g] \o drawn[r][g])
            /\ \A i \in DOMAIN (minted[g] \o drawn[r][g]) : (minted[g] \o drawn[r][g])[i] <= counter'[g]
        BY <4>1, <4>2, <4>3, <4>4, Ascend
      <4>6. minted'[g] = minted[g] \o drawn[r][g]
        BY <2>1
      <4> QED
        BY <4>5, <4>6
    <3> QED
      BY <3>3, <3>4, <3>5 DEF Drawing, Upward
  <2>14. ASSUME Numbers PROVE Numbers'
    <3>1. /\ \A s \in Requests, m \in Members, g \in Groups, n \in Nat \ {0} :
               Holds(s, m, g, n) => <<g, n, m>> \in carried \/ Drew(drawn[s][g], n)
          /\ \A s \in Requests, m, o \in Members, g \in Groups, n \in Nat \ {0} :
               Holds(s, m, g, n) /\ Holds(s, o, g, n) /\ Drew(drawn[s][g], n) => m = o
      BY <2>14 DEF Numbers
    <3>2. /\ \A g \in Groups, n \in Nat \ {0}, m \in Members : <<g, n, m>> \in carried => n <= counter[g]
          /\ \A m \in Members, g \in Groups, n \in Nat \ {0} :
               Shows(member[m], g, n) => <<g, n, m>> \in carried
          /\ NumberOwned
      BY <2>14 DEF Numbers
    <3>3. \A n : \A s \in Requests, m \in Members, g \in Groups :
            Holds(s, m, g, n)' => s # r /\ Holds(s, m, g, n) /\ drawn'[s] = drawn[s]
      BY <2>4, <2>5 DEF Holds, Believes, Shows
    <3>4. \A s \in Requests, m \in Members, g \in Groups, n \in Nat \ {0} :
            Holds(s, m, g, n)' => <<g, n, m>> \in carried' \/ Drew(drawn'[s][g], n)
      BY <2>8, <3>1, <3>3
    <3>5. \A s \in Requests, m, o \in Members, g \in Groups, n \in Nat \ {0} :
            Holds(s, m, g, n)' /\ Holds(s, o, g, n)' /\ Drew(drawn'[s][g], n) => m = o
      BY <3>1, <3>3
    <3>6. \A m \in Members, g \in Groups, n \in Nat \ {0} :
            Shows(member[m], g, n)' => <<g, n, m>> \in carried'
      BY <2>1, <2>8 DEF Shows
    <3>7. \A g \in Groups, n \in Nat \ {0}, m \in Members :
            <<g, n, m>> \in carried' =>
              \/ <<g, n, m>> \in carried
              \/ Drew(drawn[r][g], n) /\ Holds(r, m, g, n)
      BY <2>3, <2>8, <3>1, <3>2
    <3>8. ASSUME NEW g \in Groups, NEW n \in Nat \ {0}, NEW m \in Members, <<g, n, m>> \in carried'
          PROVE  n <= counter'[g]
      <4>1. counter[g] \in Int /\ counter'[g] \in Int /\ counter[g] <= counter'[g]
        BY <2>6, <2>7 DEF Absent
      <4>2. CASE <<g, n, m>> \in carried
        BY <3>2, <4>1, <4>2
      <4>3. CASE Drew(drawn[r][g], n)
        BY <2>6, <4>3 DEF Drew
      <4> QED
        BY <3>7, <3>8, <4>2, <4>3
    <3>9. \A g \in Groups, n \in Nat \ {0}, m \in Members :
            ~(<<g, n, m>> \in carried /\ Drew(drawn[r][g], n))
      <4> SUFFICES ASSUME NEW g \in Groups, NEW n \in Nat \ {0}, NEW m \in Members,
                          <<g, n, m>> \in carried, Drew(drawn[r][g], n)
                   PROVE  FALSE
        OBVIOUS
      <4>1. n <= counter[g]
        BY <3>2
      <4>2. n > counter[g]
        BY <2>2 DEF Drawing, Drew
      <4> QED
        BY <2>7, <4>1, <4>2 DEF Absent
    <3>10. \A g \in Groups, n \in Nat \ {0}, m, o \in Members :
             <<g, n, m>> \in carried' /\ <<g, n, o>> \in carried' => m = o
      <4> SUFFICES ASSUME NEW g \in Groups, NEW n \in Nat \ {0}, NEW m \in Members, NEW o \in Members,
                          <<g, n, m>> \in carried', <<g, n, o>> \in carried'
                   PROVE  m = o
        OBVIOUS
      <4>1. CASE Drew(drawn[r][g], n)
        BY <3>1, <3>7, <3>9, <4>1
      <4>2. CASE ~Drew(drawn[r][g], n)
        <5>1. <<g, n, m>> \in carried /\ <<g, n, o>> \in carried
          BY <3>7, <4>2
        <5> QED
          BY <3>2, <5>1 DEF NumberOwned
      <4> QED
        BY <4>1, <4>2
    <3>11. NumberOwned'
      <4> SUFFICES ASSUME NEW a \in carried', NEW b \in carried', a[1] = b[1], a[2] = b[2]
                   PROVE  a[3] = b[3]
        BY DEF NumberOwned
      <4>1. PICK g \in Groups, n \in Nat \ {0}, m \in Members : a = <<g, n, m>>
        BY <2>9
      <4>2. PICK h \in Groups, k \in Nat \ {0}, o \in Members : b = <<h, k, o>>
        BY <2>9
      <4>3. g = h /\ n = k
        BY <4>1, <4>2
      <4>4. m = o
        BY <3>10, <4>1, <4>2, <4>3
      <4> QED
        BY <4>1, <4>2, <4>4
    <3> QED
      BY <3>4, <3>5, <3>6, <3>8, <3>11 DEF Numbers, Drew, Shows
  <2>15. Grows
    BY <2>1 DEF Grows
  <2> QED
    BY <2>10, <2>11, <2>12, <2>13, <2>14, <2>15 DEF Keeps, IInv
<1> QED
  BY <1>1, <1>2

LEMMA WrittenType ==
  ASSUME TypeInv, Locks, NEW r \in Requests
  PROVE  Publishable(r, Written(r))
<1>1. /\ member \in [Members -> Member]
      /\ work \in [Requests -> [Members -> Member \cup {None}]]
  BY DEF TypeInv
<1>2. \A m \in Members :
        Written(r)[m] = IF work[r][m] # None THEN work[r][m] ELSE member[m]
  BY DEF Written
<1>3. Written(r) \in [Members -> Member]
  BY <1>1 DEF Written
<1>4. ASSUME NEW s \in Requests \ {r}, NEW m \in Members, work[s][m] # None
      PROVE  Written(r)[m] = member[m]
  <2>1. work[r][m] = None
    BY <1>4 DEF Locks
  <2> QED
    BY <1>2, <2>1
<1>5. \A m \in Members, g \in Groups, n \in Nat \ {0} :
        Shows(Written(r)[m], g, n) => Shows(member[m], g, n) \/ Holds(r, m, g, n)
  BY <1>2 DEF Holds
<1> QED
  BY <1>3, <1>4, <1>5 DEF Publishable

LEMMA CommitKeeps ==
  ASSUME IInv, NEW r \in Requests, Commit(r)
  PROVE  Undo(r, "failed") \/ Keeps
<1>1. Publish(r, Written(r), groups)
  BY DEF Commit
<1>2. Publishable(r, Written(r)) /\ groups \in SUBSET Groups
  BY WrittenType DEF IInv, TypeInv
<1> QED
  BY <1>1, <1>2, PublishKeeps

LEMMA CascadeType ==
  ASSUME NEW db \in Member, NEW g
  PROVE  /\ Cascade(db, g) \in Member
         /\ \A h \in Groups : Cascade(db, g).prio[h] # 0 => db.prio[h] # 0
         /\ \A h \in Groups, n \in Nat \ {0} : Shows(Cascade(db, g), h, n) => Shows(db, h, n)
<1> DEFINE p == IF db.ptr = g THEN None ELSE db.ptr
           c == [db EXCEPT !.prio[g] = 0, !.row[g] = 0, !.gm[g] = 0, !.gmprim = @ \ {g},
                           !.ptr = p]
<1>1. /\ db.prio \in [Groups -> Nat] /\ db.row \in [Groups -> Nat] /\ db.gm \in [Groups -> Nat]
      /\ db.gmprim \in SUBSET Groups /\ p \in Groups \cup {None}
  BY DEF Member
<1>2. Cascade(db, g) = c
  BY DEF Cascade, Member
<1> HIDE DEF p
<1>3. /\ [db.prio EXCEPT ![g] = 0] \in [Groups -> Nat]
      /\ [db.row EXCEPT ![g] = 0] \in [Groups -> Nat]
      /\ [db.gm EXCEPT ![g] = 0] \in [Groups -> Nat]
      /\ db.gmprim \ {g} \in SUBSET Groups
  BY <1>1
<1>4. /\ c.prio = [db.prio EXCEPT ![g] = 0] /\ c.row = [db.row EXCEPT ![g] = 0]
      /\ c.gm = [db.gm EXCEPT ![g] = 0] /\ c.num = db.num
  BY DEF Member
<1>5. c \in Member
  BY <1>1, <1>3 DEF Member
<1> HIDE DEF c
<1>6. \A h \in Groups : /\ c.prio[h] # 0 => db.prio[h] # 0
                        /\ c.row[h] # 0 => c.row[h] = db.row[h]
                        /\ c.gm[h] # 0 => c.gm[h] = db.gm[h]
  BY <1>1, <1>4
<1>7. \A h \in Groups, n \in Nat \ {0} : Shows(c, h, n) => Shows(db, h, n)
  BY <1>4, <1>6 DEF Shows
<1> QED
  BY <1>2, <1>5, <1>6, <1>7

LEMMA DropGroupKeeps ==
  ASSUME IInv, NEW r \in Requests, DropGroup(r)
  PROVE  Undo(r, "failed") \/ Keeps
<1> DEFINE g == Target(r)
           all == [m \in Members |-> Cascade(Written(r)[m], g)]
<1>1. CASE g \notin groups
  BY <1>1 DEF DropGroup
<1>2. CASE g \in groups
  <2>1. Publish(r, all, groups \ {g})
    BY <1>2 DEF DropGroup
  <2>2. Publishable(r, Written(r)) /\ groups \ {g} \in SUBSET Groups
    BY WrittenType DEF IInv, TypeInv
  <2>3. Publishable(r, all)
    <3> DEFINE w == Written(r)
    <3>1. /\ w \in [Members -> Member]
          /\ \A s \in Requests \ {r}, m \in Members, h \in Groups :
               work[s][m] # None /\ w[m].prio[h] # 0 => member[m].prio[h] # 0
          /\ \A m \in Members, h \in Groups, n \in Nat \ {0} :
               Shows(w[m], h, n) => Shows(member[m], h, n) \/ Holds(r, m, h, n)
      BY <2>2 DEF Publishable
    <3> HIDE DEF w
    <3>2. \A m \in Members :
            /\ Cascade(w[m], g) \in Member
            /\ \A h \in Groups : Cascade(w[m], g).prio[h] # 0 => w[m].prio[h] # 0
            /\ \A h \in Groups, n \in Nat \ {0} : Shows(Cascade(w[m], g), h, n) => Shows(w[m], h, n)
      BY <3>1, CascadeType
    <3>3. \A m \in Members : all[m] = Cascade(w[m], g)
      BY DEF w
    <3>4. all \in [Members -> Member]
      BY <3>2 DEF w
    <3> HIDE DEF all, g
    <3> QED
      BY <3>1, <3>2, <3>3, <3>4 DEF Publishable
  <2> HIDE DEF all
  <2> QED
    BY <2>1, <2>2, <2>3, PublishKeeps
<1> QED
  BY <1>1, <1>2

-----------------------------------------------------------------------------
(* The beginning of a request, and what it reads and locks.                *)

\* What a request may come to see of a member, and hold of it.
Sees(r, m, l, w) ==
  \/ l = loaded[r][m] /\ w = work[r][m]
  \/ /\ l \in Loaded /\ w \in Member \cup {None}
     /\ w = None => work[r][m] = None
     /\ w # None =>
          /\ \A s \in Requests : work[s][m] = None
          /\ \A g \in Groups : member[m].prio[g] # 0 => w.prio[g] # 0
          /\ \A g \in Groups, n \in Nat \ {0} : Shows(w, g, n) => Shows(member[m], g, n)
     /\ \A g \in Groups, n \in Nat \ {0} : Believes(l, g, n) =>
          \/ Shows(member[m], g, n)
          \/ loaded[r][m] # None /\ Believes(loaded[r][m], g, n)

\* Request r goes on with the calls it has to make, what it believes and what it
\* wrote replaced by calls, L and W.
Follows(r, a, calls, L, W) ==
  /\ a \in Groups \cup {None}
  /\ calls \in Seq(CallRecord)
  /\ a # None => \A i \in DOMAIN calls : Mild(calls[i], a)
  /\ L \in [Members -> Loaded \cup {None}]
  /\ W \in [Members -> Member \cup {None}]
  /\ \A m \in Members : Sees(r, m, L[m], W[m])
  /\ a = scope[r] \/ \A m \in Members, g \in Groups :
       W[m] # None /\ member[m].prio[g] # 0 => W[m].prio[g] # 0
  /\ pc' = [pc EXCEPT ![r] = "run"]
  /\ scope' = [scope EXCEPT ![r] = a]
  /\ todo' = [todo EXCEPT ![r] = calls]
  /\ loaded' = [loaded EXCEPT ![r] = L]
  /\ work' = [work EXCEPT ![r] = W]
  /\ UNCHANGED <<member, groups, counter, minted, carried, drawn>>

LEMMA SeesKeeps ==
  ASSUME IInv, NEW r \in Requests, NEW a, NEW calls, NEW L, NEW W, Follows(r, a, calls, L, W)
  PROVE  Keeps
<1>0. /\ a \in Groups \cup {None} /\ calls \in Seq(CallRecord)
      /\ a # None => \A i \in DOMAIN calls : Mild(calls[i], a)
      /\ L \in [Members -> Loaded \cup {None}] /\ W \in [Members -> Member \cup {None}]
      /\ \A m \in Members : Sees(r, m, L[m], W[m])
      /\ a = scope[r] \/ \A m \in Members, g \in Groups :
           W[m] # None /\ member[m].prio[g] # 0 => W[m].prio[g] # 0
      /\ pc' = [pc EXCEPT ![r] = "run"] /\ scope' = [scope EXCEPT ![r] = a]
      /\ todo' = [todo EXCEPT ![r] = calls] /\ loaded' = [loaded EXCEPT ![r] = L]
      /\ work' = [work EXCEPT ![r] = W]
      /\ UNCHANGED <<member, groups, counter, minted, carried, drawn>>
  BY DEF Follows
<1> USE <1>0
<1>1. TypeInv /\ Locks /\ OwnCalls /\ OthersKept /\ Drawing
  BY DEF IInv
<1>2. /\ pc \in [Requests -> {"idle", "run"} \cup Ended]
      /\ todo \in [Requests -> Seq(CallRecord)]
      /\ scope \in [Requests -> Groups \cup {None}]
      /\ loaded \in [Requests -> [Members -> Loaded \cup {None}]]
      /\ work \in [Requests -> [Members -> Member \cup {None}]]
  BY <1>1 DEF TypeInv
<1>3. \A s \in Requests :
        /\ loaded'[s] = IF s = r THEN L ELSE loaded[s]
        /\ work'[s] = IF s = r THEN W ELSE work[s]
        /\ pc'[s] = IF s = r THEN "run" ELSE pc[s]
        /\ scope'[s] = IF s = r THEN a ELSE scope[s]
        /\ todo'[s] = IF s = r THEN calls ELSE todo[s]
  BY <1>2
<1>4. TypeInv'
  <2>1. loaded' \in [Requests -> [Members -> Loaded \cup {None}]]
    BY <1>2
  <2>2. work' \in [Requests -> [Members -> Member \cup {None}]]
    BY <1>2
  <2>3. /\ pc' \in [Requests -> {"idle", "run"} \cup Ended]
        /\ todo' \in [Requests -> Seq(CallRecord)]
        /\ scope' \in [Requests -> Groups \cup {None}]
    BY <1>2
  <2> QED
    BY <1>1, <2>1, <2>2, <2>3 DEF TypeInv
<1>5. \A m \in Members :
        /\ W[m] # None => L[m] # None
        /\ W[m] # None => \A s \in Requests \ {r} : work[s][m] = None
  <2> SUFFICES ASSUME NEW m \in Members, W[m] # None
               PROVE  L[m] # None /\ \A s \in Requests \ {r} : work[s][m] = None
    OBVIOUS
  <2>1. CASE L[m] = loaded[r][m] /\ W[m] = work[r][m]
    BY <1>1, <2>1 DEF Locks
  <2>2. CASE L[m] \in Loaded /\ \A s \in Requests : work[s][m] = None
    BY <2>2, Parameters
  <2> QED
    BY <2>1, <2>2 DEF Sees
<1>6. Locks'
  <2>1. \A s, t \in Requests, m \in Members : work[s][m] # None /\ work[t][m] # None => s = t
    BY <1>1 DEF Locks
  <2>2. \A s, t \in Requests, m \in Members : work'[s][m] # None /\ work'[t][m] # None => s = t
    BY <1>3, <1>5, <2>1
  <2>3. \A s \in Requests, m \in Members : work[s][m] # None => loaded[s][m] # None
    BY <1>1 DEF Locks
  <2>4. \A s \in Requests, m \in Members : work'[s][m] # None => loaded'[s][m] # None
    BY <1>3, <1>5, <2>3
  <2>5. ASSUME NEW s \in Requests, pc'[s] # "run"
        PROVE  /\ scope'[s] = None
               /\ \A m \in Members : loaded'[s][m] = None /\ work'[s][m] = None
               /\ \A g \in Groups : drawn'[s][g] = <<>>
    <3>1. s # r /\ pc[s] # "run"
      BY <1>3, <2>5
    <3>2. /\ scope[s] = None
          /\ \A m \in Members : loaded[s][m] = None /\ work[s][m] = None
          /\ \A g \in Groups : drawn[s][g] = <<>>
      BY <1>1, <3>1 DEF Locks
    <3> QED
      BY <1>3, <3>1, <3>2
  <2> QED
    BY <2>2, <2>4, <2>5 DEF Locks
<1>7. OwnCalls'
  BY <1>1, <1>3 DEF OwnCalls, Mild
<1>8. OthersKept'
  <2> SUFFICES ASSUME NEW s \in Requests, NEW m \in Members, NEW g \in Groups,
                      work'[s][m] # None, scope'[s] \notin {None, g}, member'[m].prio[g] # 0
               PROVE  work'[s][m].prio[g] # 0
    BY DEF OthersKept
  <2>1. member[m].prio[g] # 0
    OBVIOUS
  <2>2. CASE s # r
    BY <1>1, <1>3, <2>1, <2>2 DEF OthersKept
  <2>3. CASE s = r /\ a # scope[r]
    BY <1>3, <2>1, <2>3
  <2>4. CASE s = r /\ a = scope[r]
    <3>1. CASE W[m] = work[r][m]
      BY <1>1, <1>3, <2>1, <2>4, <3>1 DEF OthersKept
    <3>2. CASE W[m] # work[r][m]
      BY <1>3, <2>1, <2>4, <3>2 DEF Sees
    <3> QED
      BY <3>1, <3>2
  <2> QED
    BY <2>2, <2>3, <2>4
<1>9. Drawing'
  BY <1>1 DEF Drawing, Upward
<1>10. ASSUME Numbers PROVE Numbers'
  <2>1. /\ \A s \in Requests, m \in Members, g \in Groups, n \in Nat \ {0} :
             Holds(s, m, g, n) => <<g, n, m>> \in carried \/ Drew(drawn[s][g], n)
        /\ \A s \in Requests, m, o \in Members, g \in Groups, n \in Nat \ {0} :
             Holds(s, m, g, n) /\ Holds(s, o, g, n) /\ Drew(drawn[s][g], n) => m = o
    BY <1>10 DEF Numbers
  <2>2. /\ \A g \in Groups, n \in Nat \ {0}, m \in Members : <<g, n, m>> \in carried => n <= counter[g]
        /\ \A m \in Members, g \in Groups, n \in Nat \ {0} :
             Shows(member[m], g, n) => <<g, n, m>> \in carried
        /\ NumberOwned
    BY <1>10 DEF Numbers
  <2>3. ASSUME NEW m \in Members, NEW g \in Groups, NEW n \in Nat \ {0},
               (L[m] # None /\ Believes(L[m], g, n)) \/ (W[m] # None /\ Shows(W[m], g, n))
        PROVE  Holds(r, m, g, n) \/ Shows(member[m], g, n)
    <3>1. CASE L[m] = loaded[r][m] /\ W[m] = work[r][m]
      BY <2>3, <3>1 DEF Holds
    <3>2. CASE ~(L[m] = loaded[r][m] /\ W[m] = work[r][m])
      BY <2>3, <3>2 DEF Holds, Sees
    <3> QED
      BY <3>1, <3>2
  <2>4. \A s \in Requests, m \in Members, g \in Groups, n \in Nat \ {0} :
          Holds(s, m, g, n)' => Holds(s, m, g, n) \/ Shows(member[m], g, n)
    <3> SUFFICES ASSUME NEW s \in Requests, NEW m \in Members, NEW g \in Groups,
                        NEW n \in Nat \ {0}, Holds(s, m, g, n)'
                 PROVE  Holds(s, m, g, n) \/ Shows(member[m], g, n)
      OBVIOUS
    <3>1. \/ loaded'[s][m] # None /\ Believes(loaded'[s][m], g, n)
          \/ work'[s][m] # None /\ Shows(work'[s][m], g, n)
      BY DEF Holds, Believes, Shows
    <3>2. CASE s = r
      BY <1>3, <2>3, <3>1, <3>2
    <3>3. CASE s # r
      BY <1>3, <3>1, <3>3 DEF Holds
    <3> QED
      BY <3>2, <3>3
  <2>5. \A s \in Requests, m \in Members, g \in Groups, n \in Nat \ {0} :
          Holds(s, m, g, n)' => <<g, n, m>> \in carried' \/ Drew(drawn'[s][g], n)
    BY <2>1, <2>2, <2>4
  <2>6. \A s \in Requests, g \in Groups, n \in Nat \ {0}, m \in Members :
          ~(<<g, n, m>> \in carried /\ Drew(drawn[s][g], n))
    <3> SUFFICES ASSUME NEW s \in Requests, NEW g \in Groups, NEW n \in Nat \ {0},
                        NEW m \in Members, <<g, n, m>> \in carried, Drew(drawn[s][g], n)
                 PROVE  FALSE
      OBVIOUS
    <3>1. n <= counter[g]
      BY <2>2
    <3>2. n > counter[g]
      BY <1>1 DEF Drawing, Drew
    <3>3. counter[g] \in Nat \cup {Absent}
      BY <1>1 DEF TypeInv
    <3> QED
      BY <3>1, <3>2, <3>3 DEF Absent
  <2>7. \A s \in Requests, m, o \in Members, g \in Groups, n \in Nat \ {0} :
          Holds(s, m, g, n)' /\ Holds(s, o, g, n)' /\ Drew(drawn'[s][g], n) => m = o
    <3>1. \A s \in Requests, m \in Members, g \in Groups, n \in Nat \ {0} :
            Holds(s, m, g, n)' /\ Drew(drawn[s][g], n) => Holds(s, m, g, n)
      BY <2>2, <2>4, <2>6
    <3> QED
      BY <2>1, <3>1
  <2>8. NumberOwned'
    BY <2>2 DEF NumberOwned
  <2>9. \A m \in Members, g \in Groups, n \in Nat \ {0} :
          Shows(member[m], g, n)' => <<g, n, m>> \in carried'
    BY <2>2 DEF Shows
  <2> QED
    BY <2>2, <2>5, <2>7, <2>8, <2>9 DEF Numbers, Drew, Shows
<1>11. Grows
  BY DEF Grows
<1> QED
  BY <1>4, <1>6, <1>7, <1>8, <1>9, <1>10, <1>11 DEF Keeps, IInv

LEMMA SessionType ==
  ASSUME NEW db \in Member
  PROVE  /\ Session(db) \in Loaded
         /\ \A g \in Groups, n \in Nat \ {0} : Believes(Session(db), g, n) => Shows(db, g, n)
<1>1. Session(db) = [ptr |-> db.ptr, num |-> db.num, prio |-> db.prio, row |-> db.row]
  BY DEF Session
<1>2. Session(db) \in Loaded
  BY <1>1 DEF Member, Loaded
<1>3. Session(db).row = db.row /\ Session(db).num = db.num
  BY <1>1
<1> QED
  BY <1>2, <1>3 DEF Believes, Shows

\* A member is loaded that the request has not locked.
LEMMA LoadsSees ==
  ASSUME IInv, NEW r \in Requests, NEW m \in Members, work[r][m] = None
  PROVE  /\ [loaded[r] EXCEPT ![m] = Session(member[m])] \in [Members -> Loaded \cup {None}]
         /\ \A o \in Members :
              Sees(r, o, [loaded[r] EXCEPT ![m] = Session(member[m])][o], work[r][o])
<1>1. loaded[r] \in [Members -> Loaded \cup {None}] /\ member[m] \in Member
  BY DEF IInv, TypeInv
<1>2. /\ Session(member[m]) \in Loaded
      /\ \A g \in Groups, n \in Nat \ {0} :
           Believes(Session(member[m]), g, n) => Shows(member[m], g, n)
  BY <1>1, SessionType
<1> DEFINE L == [loaded[r] EXCEPT ![m] = Session(member[m])]
<1>3. L \in [Members -> Loaded \cup {None}]
  BY <1>1, <1>2
<1>4. \A o \in Members : L[o] = IF o = m THEN Session(member[m]) ELSE loaded[r][o]
  BY <1>1
<1> HIDE DEF L
<1>5. \A o \in Members : Sees(r, o, L[o], work[r][o])
  BY <1>2, <1>4 DEF Sees
<1> QED
  BY <1>3, <1>5 DEF L

LEMMA LoadMemberKeeps ==
  ASSUME IInv, NEW r \in Requests, LoadMember(r)
  PROVE  Keeps
<1> DEFINE m == Subject(r)
           L == [loaded[r] EXCEPT ![m] = Session(member[m])]
<1>1. /\ pc[r] = "run" /\ todo[r] # <<>> /\ Head(todo[r]).do = "detach" /\ loaded[r][m] = None
      /\ loaded' = [loaded EXCEPT ![r][m] = Session(member[m])]
      /\ UNCHANGED <<member, groups, counter, minted, carried, pc, todo, scope, work, drawn>>
  BY DEF LoadMember, Doing, Loads, Database
<1>2. TypeInv /\ Locks /\ OwnCalls
  BY DEF IInv
<1>3. /\ pc \in [Requests -> {"idle", "run"} \cup Ended]
      /\ todo \in [Requests -> Seq(CallRecord)]
      /\ scope \in [Requests -> Groups \cup {None}]
      /\ loaded \in [Requests -> [Members -> Loaded \cup {None}]]
      /\ work \in [Requests -> [Members -> Member \cup {None}]]
  BY <1>2 DEF TypeInv
<1>4. m \in Members
  <2>1. Head(todo[r]) \in CallRecord
    BY <1>1, <1>3, HeadTailProperties
  <2> QED
    BY <1>1, <2>1, CallKinds DEF Subject, Handled
<1>5. work[r][m] = None
  BY <1>1, <1>2, <1>4 DEF Locks
<1>6. L \in [Members -> Loaded \cup {None}] /\ \A o \in Members : Sees(r, o, L[o], work[r][o])
  BY <1>4, <1>5, LoadsSees
<1>7. loaded' = [loaded EXCEPT ![r] = L]
  BY <1>1
<1> HIDE DEF m, L
<1>8. /\ pc' = [pc EXCEPT ![r] = "run"] /\ scope' = [scope EXCEPT ![r] = scope[r]]
      /\ todo' = [todo EXCEPT ![r] = todo[r]] /\ work' = [work EXCEPT ![r] = work[r]]
  BY <1>1, <1>3
<1>9. /\ scope[r] \in Groups \cup {None} /\ todo[r] \in Seq(CallRecord)
      /\ work[r] \in [Members -> Member \cup {None}]
      /\ scope[r] # None => \A i \in DOMAIN todo[r] : Mild(todo[r][i], scope[r])
  BY <1>2, <1>3 DEF OwnCalls
<1>10. Follows(r, scope[r], todo[r], L, work[r])
  BY <1>1, <1>6, <1>7, <1>8, <1>9 DEF Follows
<1> QED
  BY <1>10, SeesKeeps

LEMMA LockMemberKeeps ==
  ASSUME IInv, NEW r \in Requests, LockMember(r)
  PROVE  Keeps
<1> DEFINE m == Subject(r)
           d == member[m]
           o == loaded[r][m]
           p == [g \in Groups |-> IF d.prio[g] = 0 \/ o.prio[g] = 0 THEN d.prio[g] ELSE o.prio[g]]
           w == [g \in Groups |-> IF d.prio[g] = 0 \/ o.prio[g] = 0 THEN d.row[g] ELSE o.row[g]]
           l == [o EXCEPT !.prio = p, !.row = w]
           L == [loaded[r] EXCEPT ![m] = l]
           W == [work[r] EXCEPT ![m] = d]
<1>1. /\ pc[r] = "run" /\ todo[r] # <<>> /\ m # None
      /\ o # None /\ work[r][m] = None /\ \A s \in Requests : work[s][m] = None
      /\ work' = [work EXCEPT ![r][m] = d]
      /\ UNCHANGED <<member, groups, counter, minted, carried, pc, todo, scope, drawn>>
  BY DEF LockMember, Database
<1>2. TypeInv /\ Locks /\ OwnCalls
  BY DEF IInv
<1>3. /\ pc \in [Requests -> {"idle", "run"} \cup Ended]
      /\ todo \in [Requests -> Seq(CallRecord)]
      /\ scope \in [Requests -> Groups \cup {None}]
      /\ loaded \in [Requests -> [Members -> Loaded \cup {None}]]
      /\ work \in [Requests -> [Members -> Member \cup {None}]]
      /\ member \in [Members -> Member]
  BY <1>2 DEF TypeInv
<1>4. m \in Members
  <2>1. Head(todo[r]) \in CallRecord
    BY <1>1, <1>3, HeadTailProperties
  <2> QED
    BY <1>1, <2>1, CallKinds DEF Subject
<1>5. o \in Loaded /\ d \in Member
  BY <1>1, <1>3, <1>4
<1>6. loaded' = [loaded EXCEPT ![r] = L]
  <2>1. loaded' = [loaded EXCEPT
       ![r][m].prio = [g \in Groups |->
          IF member[m].prio[g] = 0 \/ @[g] = 0 THEN member[m].prio[g] ELSE @[g]],
       ![r][m].row = [g \in Groups |->
          IF member[m].prio[g] = 0 \/ loaded[r][m].prio[g] = 0
          THEN member[m].row[g] ELSE @[g]]]
    BY DEF LockMember
  <2> QED
    BY <1>3, <1>4, <1>5, <2>1 DEF Loaded
<1> HIDE DEF m, d, o
<1>7. p \in [Groups -> Nat] /\ w \in [Groups -> Nat]
  BY <1>5 DEF Loaded, Member
<1>8. /\ l \in Loaded /\ l.num = o.num
      /\ \A g \in Groups : l.row[g] = d.row[g] \/ l.row[g] = o.row[g]
  <2> HIDE DEF p
  <2>1. l \in Loaded /\ l.num = o.num /\ l.row = w
    <3> HIDE DEF w
    <3> QED
      BY <1>5, <1>7 DEF Loaded
  <2> HIDE DEF l
  <2> QED
    BY <2>1
<1> HIDE DEF p, w, l
<1>9. /\ L \in [Members -> Loaded \cup {None}] /\ W \in [Members -> Member \cup {None}]
      /\ \A n \in Members : /\ L[n] = IF n = m THEN l ELSE loaded[r][n]
                            /\ W[n] = IF n = m THEN d ELSE work[r][n]
  BY <1>3, <1>4, <1>5, <1>8
<1>10. Sees(r, m, l, d)
  <2>1. \A g \in Groups, n \in Nat \ {0} : Believes(l, g, n) => Shows(d, g, n) \/ Believes(o, g, n)
    BY <1>8 DEF Believes, Shows
  <2>2. d # None
    BY <1>5, Parameters
  <2> QED
    BY <1>1, <1>5, <1>8, <2>1, <2>2 DEF Sees, d, o
<1>11. work' = [work EXCEPT ![r] = W]
  BY <1>1, <1>3
<1> HIDE DEF L, W
<1>12. \A n \in Members : Sees(r, n, L[n], W[n])
  BY <1>9, <1>10 DEF Sees
<1>13. /\ pc' = [pc EXCEPT ![r] = "run"] /\ scope' = [scope EXCEPT ![r] = scope[r]]
       /\ todo' = [todo EXCEPT ![r] = todo[r]]
  BY <1>1, <1>3
<1>14. /\ scope[r] \in Groups \cup {None} /\ todo[r] \in Seq(CallRecord)
       /\ scope[r] # None => \A i \in DOMAIN todo[r] : Mild(todo[r][i], scope[r])
  BY <1>2, <1>3 DEF OwnCalls
<1>15. Follows(r, scope[r], todo[r], L, W)
  BY <1>1, <1>6, <1>9, <1>11, <1>12, <1>13, <1>14 DEF Follows
<1> QED
  BY <1>15, SeesKeeps

\* An idle request holds nothing.
LEMMA IdleValues ==
  ASSUME IInv, NEW r \in Requests, pc[r] = "idle"
  PROVE  \A m \in Members : loaded[r][m] = None /\ work[r][m] = None
<1>1. pc[r] # "run"
  OBVIOUS
<1> QED
  BY <1>1 DEF IInv, Locks

LEMMA BeginKeeps ==
  ASSUME IInv, NEW r \in Requests, NEW kind, NEW admin \in Groups \cup {None}, NEW m \in Members,
         NEW c \in CallRecord, admin # None => Mild(c, admin),
         Begin(r, kind, admin, <<c>>), Loads(r, m), UNCHANGED <<Database, work, drawn>>
  PROVE  Keeps
<1> DEFINE L == [loaded[r] EXCEPT ![m] = Session(member[m])]
<1>1. /\ pc[r] = "idle" /\ pc' = [pc EXCEPT ![r] = "run"]
      /\ scope' = [scope EXCEPT ![r] = admin] /\ todo' = [todo EXCEPT ![r] = <<c>>]
      /\ loaded' = [loaded EXCEPT ![r] = L]
      /\ UNCHANGED <<member, groups, counter, minted, carried, work, drawn>>
  BY DEF Begin, Loads, Database
<1>2. \A n \in Members : work[r][n] = None
  BY <1>1, IdleValues
<1>3. L \in [Members -> Loaded \cup {None}] /\ \A o \in Members : Sees(r, o, L[o], work[r][o])
  BY <1>2, LoadsSees
<1>4. work \in [Requests -> [Members -> Member \cup {None}]]
  BY DEF IInv, TypeInv
<1>5. /\ <<c>> \in Seq(CallRecord)
      /\ admin # None => \A i \in DOMAIN <<c>> : Mild(<<c>>[i], admin)
  OBVIOUS
<1>6. work' = [work EXCEPT ![r] = work[r]] /\ work[r] \in [Members -> Member \cup {None}]
  BY <1>1, <1>4
<1> HIDE DEF L
<1> DEFINE calls == <<c>>
<1>7. /\ calls \in Seq(CallRecord) /\ todo' = [todo EXCEPT ![r] = calls]
      /\ admin # None => \A i \in DOMAIN calls : Mild(calls[i], admin)
  BY <1>1, <1>5
<1> DEFINE W == work[r]
<1>8. /\ work' = [work EXCEPT ![r] = W] /\ W \in [Members -> Member \cup {None}]
      /\ \A o \in Members : Sees(r, o, L[o], W[o])
      /\ \A o \in Members, g \in Groups :
           W[o] # None /\ member[o].prio[g] # 0 => W[o].prio[g] # 0
  BY <1>2, <1>3, <1>6
<1>9. L \in [Members -> Loaded \cup {None}]
  BY <1>3
<1>10. UNCHANGED <<member, groups, counter, minted, carried, drawn>>
  BY <1>1
<1> HIDE DEF calls, W
<1>11. Follows(r, admin, calls, L, W)
  BY <1>1, <1>7, <1>8, <1>9, <1>10 DEF Follows
<1> QED
  BY <1>11, SeesKeeps

LEMMA NobodyType ==
  /\ Nobody \in Member /\ Session(Nobody) \in Loaded
  /\ [Nobody EXCEPT !.live = TRUE] \in Member
  /\ [Nobody EXCEPT !.live = TRUE].prio = Nobody.prio
  /\ \A g \in Groups : Nobody.prio[g] = 0
  /\ \A g \in Groups, n \in Nat \ {0} :
       ~Believes(Session(Nobody), g, n) /\ ~Shows([Nobody EXCEPT !.live = TRUE], g, n)
<1>1. Nobody \in Member /\ [Nobody EXCEPT !.live = TRUE] \in Member
  BY DEF Nobody, Member
<1>2. Session(Nobody) \in Loaded
  BY <1>1, SessionType
<1>3. \A g \in Groups, n \in Nat \ {0} : <<g, n>> # None
  BY Parameters
<1>4. \A g \in Groups, n \in Nat \ {0} : ~Shows([Nobody EXCEPT !.live = TRUE], g, n)
  BY <1>3 DEF Shows, Nobody
<1>5. \A g \in Groups, n \in Nat \ {0} : ~Shows(Nobody, g, n)
  BY <1>3 DEF Shows, Nobody
<1>6. \A g \in Groups, n \in Nat \ {0} : ~Believes(Session(Nobody), g, n)
  BY <1>1, <1>5, SessionType
<1>7. \A g \in Groups : Nobody.prio[g] = 0
  BY DEF Nobody
<1>8. [Nobody EXCEPT !.live = TRUE].prio = Nobody.prio
  BY DEF Nobody
<1> QED
  BY <1>1, <1>2, <1>4, <1>6, <1>7, <1>8

\* Nobody works on a member without a profile.
LEMMA UnbornValues ==
  ASSUME NEW m \in Members, Unborn(m)
  PROVE  member[m] = Nobody /\ \A s \in Requests : work[s][m] = None
  BY DEF Unborn, Born

LEMMA CreateMemberKeeps ==
  ASSUME IInv, NEW r \in Requests, NEW m \in Members, NEW wish \in Wishes, NEW admin \in Scopes,
         CreateMember(r, m, wish, admin)
  PROVE  Keeps
<1> DEFINE calls == [i \in 1..Len(wish) |-> Call("add", m, wish[i])]
           l == Session(Nobody)
           w == [Nobody EXCEPT !.live = TRUE]
           L == [loaded[r] EXCEPT ![m] = l]
           W == [work[r] EXCEPT ![m] = w]
<1>1. /\ Unborn(m) /\ (admin # None => wish = <<admin>>)
      /\ pc[r] = "idle" /\ pc' = [pc EXCEPT ![r] = "run"]
      /\ scope' = [scope EXCEPT ![r] = admin] /\ todo' = [todo EXCEPT ![r] = calls]
      /\ loaded' = [loaded EXCEPT ![r] = L] /\ work' = [work EXCEPT ![r] = W]
      /\ UNCHANGED <<member, groups, counter, minted, carried, drawn>>
  BY DEF CreateMember, Begin, Database
<1>2. member[m] = Nobody /\ \A s \in Requests : work[s][m] = None
  BY <1>1, UnbornValues
<1>3. /\ l \in Loaded /\ w \in Member /\ w # None
      /\ \A g \in Groups : member[m].prio[g] = 0
      /\ \A g \in Groups, n \in Nat \ {0} : ~Believes(l, g, n) /\ ~Shows(w, g, n)
  BY <1>2, NobodyType, Parameters
<1>4. /\ loaded[r] \in [Members -> Loaded \cup {None}]
      /\ work[r] \in [Members -> Member \cup {None}]
  BY DEF IInv, TypeInv
<1>5. \A o \in Members : work[r][o] = None
  BY <1>1, IdleValues
<1>6. wish \in Seq(Groups) /\ admin \in Groups \cup {None}
  BY Parameters
<1>7. calls \in Seq(CallRecord)
  <2>1. \A g \in Groups : Call("add", m, g) \in CallRecord
    BY DEF Call, CallRecord
  <2>2. Len(wish) \in Nat /\ \A i \in 1..Len(wish) : Call("add", m, wish[i]) \in CallRecord
    BY <1>6, <2>1, ElementOfSeq
  <2>3. calls \in [1..Len(wish) -> CallRecord]
    BY <2>2
  <2> HIDE DEF calls
  <2> QED
    BY <2>2, <2>3
<1>8. ASSUME admin # None
      PROVE  \A i \in DOMAIN calls : Mild(calls[i], admin)
  <2>1. \A i \in 1..Len(wish) : wish[i] = admin
    <3>1. wish = <<admin>>
      BY <1>1, <1>8
    <3>2. \A i \in 1..Len(<<admin>>) : <<admin>>[i] = admin
      OBVIOUS
    <3> QED
      BY <3>1, <3>2
  <2>2. Mild(Call("add", m, admin), admin)
    BY DEF Mild, Call
  <2> QED
    BY <2>1, <2>2
<1> HIDE DEF calls, l, w
<1>9. /\ L \in [Members -> Loaded \cup {None}] /\ W \in [Members -> Member \cup {None}]
      /\ \A o \in Members : /\ L[o] = IF o = m THEN l ELSE loaded[r][o]
                            /\ W[o] = IF o = m THEN w ELSE work[r][o]
  BY <1>3, <1>4
<1> HIDE DEF L, W
<1>10. \A o \in Members : Sees(r, o, L[o], W[o])
  BY <1>2, <1>3, <1>9 DEF Sees
<1>11. \A o \in Members, g \in Groups :
         W[o] # None /\ member[o].prio[g] # 0 => W[o].prio[g] # 0
  BY <1>3, <1>5, <1>9
<1>12. Follows(r, admin, calls, L, W)
  BY <1>1, <1>6, <1>7, <1>8, <1>9, <1>10, <1>11 DEF Follows
<1> QED
  BY <1>12, SeesKeeps

LEMMA DeleteGroupKeeps ==
  ASSUME IInv, NEW r \in Requests, NEW g \in Groups, DeleteGroup(r, g)
  PROVE  Keeps
<1> DEFINE in == {m \in Members : member[m].prio[g] # 0}
<1>1. PICK order \in SetToSeqs(in) :
        Begin(r, "delete", None,
          [i \in 1..Len(order) |-> Call("detach", order[i], g)] \o <<Call("drop", None, g)>>)
  BY DEF DeleteGroup
<1>2. UNCHANGED <<member, groups, counter, minted, carried, loaded, work, drawn>>
  BY DEF DeleteGroup, Database
<1> DEFINE a == [i \in 1..Len(order) |-> Call("detach", order[i], g)]
           b == <<Call("drop", None, g)>>
<1>3. Cardinality(in) \in Nat
  <2>1. IsFiniteSet(in)
    BY Parameters, FS_Subset
  <2> HIDE DEF in
  <2> QED
    BY <2>1, FS_CardinalityType
<1>4. order \in [1..Cardinality(in) -> in]
  <2> HIDE DEF in
  <2> QED
    BY DEF SetToSeqs
<1>5. Len(order) = Cardinality(in) /\ \A i \in 1..Len(order) : order[i] \in Members
  <2> DEFINE n == Cardinality(in)
  <2>1. in \subseteq Members
    OBVIOUS
  <2>2. n \in Nat /\ order \in [1..n -> in]
    BY <1>3, <1>4
  <2> HIDE DEF in, n
  <2>3. Len(order) = n /\ \A i \in 1..n : order[i] \in in
    BY <2>2
  <2> QED
    BY <2>1, <2>3 DEF n
<1>6. a \in Seq(CallRecord)
  <2>1. \A m \in Members : Call("detach", m, g) \in CallRecord
    BY DEF Call, CallRecord
  <2>2. a \in [1..Len(order) -> CallRecord]
    BY <1>5, <2>1
  <2> HIDE DEF a, in
  <2> QED
    BY <1>3, <1>5, <2>2
<1>7. b \in Seq(CallRecord)
  <2>1. Call("drop", None, g) \in CallRecord
    BY DEF Call, CallRecord
  <2> QED
    BY <2>1
<1> DEFINE calls == a \o b
<1> HIDE DEF a, b
<1>8. calls \in Seq(CallRecord)
  BY <1>6, <1>7, ConcatProperties
<1>9. /\ pc[r] = "idle" /\ pc' = [pc EXCEPT ![r] = "run"]
      /\ scope' = [scope EXCEPT ![r] = None] /\ todo' = [todo EXCEPT ![r] = calls]
  BY <1>1 DEF Begin, a, b
<1>10. /\ loaded \in [Requests -> [Members -> Loaded \cup {None}]]
       /\ work \in [Requests -> [Members -> Member \cup {None}]]
  BY DEF IInv, TypeInv
<1>11. loaded' = [loaded EXCEPT ![r] = loaded[r]] /\ work' = [work EXCEPT ![r] = work[r]]
  BY <1>2, <1>10
<1>12. \A m \in Members : Sees(r, m, loaded[r][m], work[r][m])
  BY DEF Sees
<1>13. \A m \in Members : work[r][m] = None
  BY <1>9, IdleValues
<1> HIDE DEF calls
<1>14. Follows(r, None, calls, loaded[r], work[r])
  BY <1>2, <1>8, <1>9, <1>10, <1>11, <1>12, <1>13 DEF Follows
<1> QED
  BY <1>14, SeesKeeps

\* A request that is answered at once, and changes members nobody works on.
LEMMA AnswerKeeps ==
  ASSUME IInv, NEW r \in Requests, NEW answer \in {"idle"} \cup Ended,
         pc[r] # "run", pc' = [pc EXCEPT ![r] = answer],
         member' \in [Members -> Member],
         \A m \in Members :
           \/ member'[m] = member[m]
           \/ /\ \A s \in Requests : work[s][m] = None
              /\ \A g \in Groups, n \in Nat \ {0} : Shows(member'[m], g, n) => Shows(member[m], g, n),
         UNCHANGED <<groups, counter, minted, carried, todo, scope, loaded, work, drawn>>
  PROVE  Keeps
<1>1. TypeInv /\ Locks /\ OwnCalls /\ OthersKept /\ Drawing
  BY DEF IInv
<1>2. pc \in [Requests -> {"idle", "run"} \cup Ended]
  BY <1>1 DEF TypeInv
<1>3. TypeInv'
  <2>1. pc' \in [Requests -> {"idle", "run"} \cup Ended]
    BY <1>2
  <2> QED
    BY <1>1, <2>1 DEF TypeInv
<1>4. \A s \in Requests : pc'[s] # "run" => pc[s] # "run"
  BY <1>2
<1>5. Locks'
  <2>1. \A s, t \in Requests, m \in Members : work'[s][m] # None /\ work'[t][m] # None => s = t
    BY <1>1 DEF Locks
  <2>2. \A s \in Requests, m \in Members : work'[s][m] # None => loaded'[s][m] # None
    BY <1>1 DEF Locks
  <2>3. ASSUME NEW s \in Requests, pc'[s] # "run"
        PROVE  /\ scope'[s] = None
               /\ \A m \in Members : loaded'[s][m] = None /\ work'[s][m] = None
               /\ \A g \in Groups : drawn'[s][g] = <<>>
    BY <1>1, <1>4, <2>3 DEF Locks
  <2> QED
    BY <2>1, <2>2, <2>3 DEF Locks
<1>6. OwnCalls'
  BY <1>1 DEF OwnCalls, Mild
<1>7. OthersKept'
  <2> SUFFICES ASSUME NEW s \in Requests, NEW m \in Members, NEW g \in Groups,
                      work'[s][m] # None, scope'[s] \notin {None, g}, member'[m].prio[g] # 0
               PROVE  work'[s][m].prio[g] # 0
    BY DEF OthersKept
  <2>1. work[s][m] # None /\ scope[s] \notin {None, g}
    OBVIOUS
  <2>2. member[m].prio[g] # 0
    BY <2>1
  <2> QED
    BY <1>1, <2>1, <2>2 DEF OthersKept
<1>8. Drawing'
  BY <1>1 DEF Drawing, Upward
<1>9. ASSUME Numbers PROVE Numbers'
  <2>1. /\ \A s \in Requests, m \in Members, g \in Groups, n \in Nat \ {0} :
             Holds(s, m, g, n) => <<g, n, m>> \in carried \/ Drew(drawn[s][g], n)
        /\ \A s \in Requests, m, o \in Members, g \in Groups, n \in Nat \ {0} :
             Holds(s, m, g, n) /\ Holds(s, o, g, n) /\ Drew(drawn[s][g], n) => m = o
    BY <1>9 DEF Numbers
  <2>2. /\ \A g \in Groups, n \in Nat \ {0}, m \in Members : <<g, n, m>> \in carried => n <= counter[g]
        /\ \A m \in Members, g \in Groups, n \in Nat \ {0} :
             Shows(member[m], g, n) => <<g, n, m>> \in carried
        /\ NumberOwned
    BY <1>9 DEF Numbers
  <2>3. \A m \in Members, g \in Groups, n \in Nat \ {0} :
          Shows(member'[m], g, n) => <<g, n, m>> \in carried'
    BY <2>2
  <2>4. \A n : \A s \in Requests, m \in Members, g \in Groups : Holds(s, m, g, n)' <=> Holds(s, m, g, n)
    BY DEF Holds, Believes, Shows
  <2>5. \A s \in Requests, m \in Members, g \in Groups, n \in Nat \ {0} :
          Holds(s, m, g, n)' => <<g, n, m>> \in carried' \/ Drew(drawn'[s][g], n)
    BY <2>1, <2>4
  <2>6. \A s \in Requests, m, o \in Members, g \in Groups, n \in Nat \ {0} :
          Holds(s, m, g, n)' /\ Holds(s, o, g, n)' /\ Drew(drawn'[s][g], n) => m = o
    BY <2>1, <2>4
  <2>7. NumberOwned'
    BY <2>2 DEF NumberOwned
  <2> QED
    BY <2>2, <2>3, <2>5, <2>6, <2>7 DEF Numbers, Drew, Shows
<1>10. Grows
  BY DEF Grows
<1> QED
  BY <1>3, <1>5, <1>6, <1>7, <1>8, <1>9, <1>10 DEF Keeps, IInv

LEMMA RegisterKeeps ==
  ASSUME IInv, NEW r \in Requests, NEW m \in Members, NEW g \in Groups, Register(r, m, g)
  PROVE  Keeps
<1> DEFINE d == [Nobody EXCEPT !.live = TRUE, !.ptr = g, !.prio[g] = 1]
<1>1. /\ pc[r] = "idle" /\ Unborn(m) /\ member' = [member EXCEPT ![m] = d]
      /\ pc' = [pc EXCEPT ![r] = "done"]
      /\ UNCHANGED <<groups, counter, minted, carried, todo, scope, loaded, work, drawn>>
  BY DEF Register
<1>2. \A s \in Requests : work[s][m] = None
  BY <1>1, UnbornValues
<1>3. d \in Member
  BY DEF Nobody, Member
<1>4. \A h \in Groups, n \in Nat \ {0} : ~Shows(d, h, n)
  <2>1. \A h \in Groups, n \in Nat \ {0} : <<h, n>> # None
    BY Parameters
  <2>2. d.row = Nobody.row /\ d.gm = Nobody.gm /\ d.num = Nobody.num
    BY DEF Nobody
  <2> HIDE DEF d
  <2> QED
    BY <2>1, <2>2 DEF Shows, Nobody
<1> HIDE DEF d
<1>5. member \in [Members -> Member]
  BY DEF IInv, TypeInv
<1>6. /\ member' \in [Members -> Member]
      /\ \A o \in Members : member'[o] = IF o = m THEN d ELSE member[o]
  BY <1>1, <1>3, <1>5
<1>7. \A o \in Members :
        \/ member'[o] = member[o]
        \/ /\ \A s \in Requests : work[s][o] = None
           /\ \A h \in Groups, n \in Nat \ {0} : Shows(member'[o], h, n) => Shows(member[o], h, n)
  BY <1>2, <1>4, <1>6
<1>8. "done" \in {"idle"} \cup Ended /\ pc[r] # "run"
  BY <1>1 DEF Ended
<1> QED
  BY <1>1, <1>6, <1>7, <1>8, AnswerKeeps

LEMMA DeleteMemberKeeps ==
  ASSUME IInv, NEW r \in Requests, NEW m \in Members, DeleteMember(r, m)
  PROVE  Keeps
<1> DEFINE d == [member[m] EXCEPT !.live = FALSE]
<1>1. /\ pc[r] = "idle" /\ \A s \in Requests : work[s][m] = None
      /\ member' = [member EXCEPT ![m].live = FALSE]
      /\ pc' = [pc EXCEPT ![r] = "done"]
      /\ UNCHANGED <<groups, counter, minted, carried, todo, scope, loaded, work, drawn>>
  BY DEF DeleteMember
<1>2. member \in [Members -> Member] /\ member[m] \in Member
  BY DEF IInv, TypeInv
<1>3. d \in Member /\ d.row = member[m].row /\ d.gm = member[m].gm /\ d.num = member[m].num
  BY <1>2 DEF Member
<1>4. \A h \in Groups, n \in Nat \ {0} : Shows(d, h, n) => Shows(member[m], h, n)
  <2> HIDE DEF d
  <2> QED
    BY <1>3 DEF Shows
<1>5. member' = [member EXCEPT ![m] = d]
  BY <1>1
<1> HIDE DEF d
<1>6. /\ member' \in [Members -> Member]
      /\ \A o \in Members : member'[o] = IF o = m THEN d ELSE member[o]
  BY <1>2, <1>3, <1>5
<1>7. \A o \in Members :
        \/ member'[o] = member[o]
        \/ /\ \A s \in Requests : work[s][o] = None
           /\ \A h \in Groups, n \in Nat \ {0} : Shows(member'[o], h, n) => Shows(member[o], h, n)
  BY <1>1, <1>4, <1>6
<1>8. "done" \in {"idle"} \cup Ended /\ pc[r] # "run"
  BY <1>1 DEF Ended
<1> QED
  BY <1>1, <1>6, <1>7, <1>8, AnswerKeeps

LEMMA SettledKeeps ==
  ASSUME IInv, NEW r \in Requests, NEW answer \in {"idle"} \cup Ended, pc[r] # "run",
         pc' = [pc EXCEPT ![r] = answer],
         UNCHANGED <<member, groups, counter, minted, carried, todo, scope, loaded, work, drawn>>
  PROVE  Keeps
<1>1. member' \in [Members -> Member]
  BY DEF IInv, TypeInv
<1>2. \A m \in Members : member'[m] = member[m]
  OBVIOUS
<1> QED
  BY <1>1, <1>2, AnswerKeeps

-----------------------------------------------------------------------------
(* Every step.                                                             *)

LEMMA RequestKeeps ==
  ASSUME IInv, NEW r \in Requests, Request(r)
  PROVE  Keeps
<1>1. ASSUME NEW m \in Members, NEW wish \in Wishes, NEW admin \in Scopes,
             UpdateMember(r, m, wish, admin)
      PROVE  Keeps
  <2> DEFINE c == [do |-> "sync", m |-> m, wish |-> wish]
  <2>1. c \in CallRecord /\ admin \in Groups \cup {None} /\ (admin # None => Mild(c, admin))
    BY Parameters DEF CallRecord, Mild
  <2>2. Begin(r, "sync", admin, <<c>>) /\ Loads(r, m) /\ UNCHANGED <<Database, work, drawn>>
    BY <1>1 DEF UpdateMember
  <2> HIDE DEF c
  <2> QED
    BY <2>1, <2>2, BeginKeeps
<1>2. ASSUME NEW m \in Members, NEW do \in {"add", "remove"}, NEW g \in Groups,
             Begin(r, do, None, <<Call(do, m, g)>>), Loads(r, m), UNCHANGED <<Database, work, drawn>>
      PROVE  Keeps
  <2>1. Call(do, m, g) \in CallRecord
    BY DEF Call, CallRecord
  <2> QED
    BY <1>2, <2>1, BeginKeeps
<1>3. ASSUME NEW m \in Members, ApproveMember(r, m)
      PROVE  Keeps
  <2>1. Call("approve", m, None) \in CallRecord
    BY DEF Call, CallRecord
  <2>2. /\ Begin(r, "approve", None, <<Call("approve", m, None)>>)
        /\ Loads(r, m) /\ UNCHANGED <<Database, work, drawn>>
    BY <1>3 DEF ApproveMember
  <2> QED
    BY <2>1, <2>2, BeginKeeps
<1>4. ASSUME NEW m \in Members, NEW g \in Groups, AddGroupMember(r, m, g)
      PROVE  Keeps
  BY <1>2, <1>4 DEF AddGroupMember
<1>5. ASSUME NEW m \in Members, NEW g \in Groups, RemoveGroupMember(r, m, g)
      PROVE  Keeps
  BY <1>2, <1>5 DEF RemoveGroupMember
<1>6. ASSUME NEW m \in Members, NotFound(r, m)
      PROVE  Keeps
  <2>1. /\ pc[r] # "run" /\ pc' = [pc EXCEPT ![r] = "rejected"]
        /\ UNCHANGED <<member, groups, counter, minted, carried, todo, scope, loaded, work, drawn>>
    BY <1>6 DEF NotFound, Database
  <2>2. "rejected" \in {"idle"} \cup Ended
    BY DEF Ended
  <2> QED
    BY <2>1, <2>2, SettledKeeps
<1>7. \/ \E m \in Members, wish \in Wishes, admin \in Scopes :
           CreateMember(r, m, wish, admin) \/ UpdateMember(r, m, wish, admin)
      \/ \E m \in Members, g \in Groups :
           Register(r, m, g) \/ AddGroupMember(r, m, g) \/ RemoveGroupMember(r, m, g)
      \/ \E m \in Members : ApproveMember(r, m) \/ DeleteMember(r, m) \/ NotFound(r, m)
      \/ \E g \in Groups : DeleteGroup(r, g)
  BY DEF Request
<1> QED
  BY <1>1, <1>3, <1>4, <1>5, <1>6, <1>7, CreateMemberKeeps, RegisterKeeps, DeleteMemberKeeps,
     DeleteGroupKeeps

LEMMA ServeKeeps ==
  ASSUME IInv, NEW r \in Requests, Serve(r)
  PROVE  Keeps
<1>1. "failed" \in Ended /\ "rejected" \in Ended
  BY DEF Ended
<1>2. Undo(r, "failed") \/ Undo(r, "rejected") => Keeps
  BY <1>1, UndoKeeps
<1>3. CASE AddMembership(r)
  <2>1. Ready(r, "add") /\ Conclude(r, Addition(View(r), Target(r)))
    BY <1>3 DEF AddMembership
  <2> QED
    BY <1>2, <2>1, AddMembershipKeeps
<1>4. CASE \E do \in {"remove", "detach", "cut"} : RemoveMembership(r, do)
  BY <1>2, <1>4, RemoveMembershipKeeps
<1>5. CASE NothingToRemove(r)
  BY <1>2, <1>5, NothingToRemoveKeeps
<1>6. CASE SyncMemberships(r)
  BY <1>2, <1>6, SyncMembershipsKeeps
<1>7. CASE AppendMembership(r)
  BY <1>2, <1>7, AppendMembershipKeeps
<1>8. CASE Approve(r)
  BY <1>2, <1>8, ApproveKeeps
<1>9. CASE Commit(r)
  BY <1>2, <1>9, CommitKeeps
<1>10. CASE DropGroup(r)
  BY <1>2, <1>10, DropGroupKeeps
<1>11. CASE LoadMember(r)
  BY <1>11, LoadMemberKeeps
<1>12. CASE LockMember(r)
  BY <1>12, LockMemberKeeps
<1> QED
  BY <1>3, <1>4, <1>5, <1>6, <1>7, <1>8, <1>9, <1>10, <1>11, <1>12 DEF Serve

LEMMA StutterKeeps ==
  ASSUME IInv, UNCHANGED vars
  PROVE  Keeps
<1>1. UNCHANGED <<member, groups, counter, minted, carried, pc, todo, scope, loaded, work, drawn>>
  BY DEF vars
<1>2. TypeInv'
  BY <1>1 DEF IInv, TypeInv
<1>3. Locks'
  BY <1>1 DEF IInv, Locks
<1>4. OwnCalls' /\ OthersKept'
  BY <1>1 DEF IInv, OwnCalls, OthersKept, Mild
<1>5. Drawing'
  BY <1>1 DEF IInv, Drawing, Upward
<1>6. Numbers => Numbers'
  BY <1>1 DEF Numbers, Holds, Believes, Shows, Drew, NumberOwned
<1>7. Grows
  BY <1>1 DEF Grows
<1> QED
  BY <1>2, <1>3, <1>4, <1>5, <1>6, <1>7 DEF Keeps, IInv

LEMMA NextKeeps ==
  ASSUME IInv, [Next]_vars
  PROVE  IInv' /\ (Numbers => Numbers') /\ Grows
<1>1. ASSUME NEW r \in Requests,
             Request(r) \/ Serve(r) \/ BreakDeadlock(r) \/ Abort(r) \/ Respond(r)
      PROVE  Keeps
  <2>1. CASE BreakDeadlock(r) \/ Abort(r)
    <3>1. Undo(r, "failed") \/ Undo(r, "aborted")
      BY <2>1 DEF BreakDeadlock, Abort
    <3>2. "failed" \in Ended /\ "aborted" \in Ended
      BY DEF Ended
    <3> QED
      BY <3>1, <3>2, UndoKeeps
  <2>2. CASE Respond(r)
    <3>1. /\ pc[r] # "run" /\ pc' = [pc EXCEPT ![r] = "idle"]
          /\ UNCHANGED <<member, groups, counter, minted, carried, todo, scope, loaded, work, drawn>>
      BY <2>2 DEF Respond, Database, Ended
    <3> QED
      BY <3>1, SettledKeeps
  <2> QED
    BY <1>1, <2>1, <2>2, RequestKeeps, ServeKeeps
<1>2. Keeps
  BY <1>1, StutterKeeps DEF Next
<1> QED
  BY <1>2 DEF Keeps

LEMMA InitKeeps ==
  ASSUME Init
  PROVE  IInv
<1>1. PICK d \in Deployments : member = d.member /\ groups = d.groups /\ counter = d.counter
  BY DEF Init
<1>2. /\ member \in [Members -> Member] /\ groups \subseteq Groups
      /\ counter \in [Groups -> Nat \cup {Absent}]
  BY <1>1, Stored
<1>3. /\ minted = [g \in Groups |-> <<>>]
      /\ carried = UNION {NumbersOf(m, member[m]) : m \in Members}
      /\ pc = [r \in Requests |-> "idle"] /\ todo = [r \in Requests |-> <<>>]
      /\ scope = [r \in Requests |-> None]
      /\ loaded = [r \in Requests |-> [m \in Members |-> None]]
      /\ work = [r \in Requests |-> [m \in Members |-> None]]
      /\ drawn = [r \in Requests |-> [g \in Groups |-> <<>>]]
  BY DEF Init
<1>4. carried \subseteq Groups \X (Nat \ {0}) \X Members
  <2>1. \A m \in Members : NumbersOf(m, member[m]) \subseteq Groups \X (Nat \ {0}) \X Members
    BY <1>2, NumbersOfType
  <2> QED
    BY <1>3, <2>1
<1>5. TypeInv
  <2>1. <<>> \in Seq(CallRecord) /\ <<>> \in Seq(Nat \ {0})
    OBVIOUS
  <2>2. drawn \in [Requests -> [Groups -> Seq(Nat \ {0})]] /\ minted \in [Groups -> Seq(Nat \ {0})]
    BY <1>3, <2>1
  <2>3. /\ loaded \in [Requests -> [Members -> Loaded \cup {None}]]
        /\ work \in [Requests -> [Members -> Member \cup {None}]]
    BY <1>3
  <2>4. /\ pc \in [Requests -> {"idle", "run"} \cup Ended]
        /\ todo \in [Requests -> Seq(CallRecord)]
        /\ scope \in [Requests -> Groups \cup {None}]
    BY <1>3, <2>1
  <2> QED
    BY <1>2, <1>4, <2>2, <2>3, <2>4 DEF TypeInv
<1>6. Locks /\ OwnCalls /\ OthersKept
  <2>1. \A r \in Requests : /\ scope[r] = None
                            /\ \A m \in Members : loaded[r][m] = None /\ work[r][m] = None
                            /\ \A g \in Groups : drawn[r][g] = <<>>
    BY <1>3
  <2> QED
    BY <2>1 DEF Locks, OwnCalls, OthersKept
<1>7. Drawing
  <2>1. \A g \in Groups : minted[g] = <<>> /\ \A r \in Requests : drawn[r][g] = <<>>
    BY <1>3
  <2>2. DOMAIN <<>> = {}
    OBVIOUS
  <2>3. Upward(<<>>)
    BY <2>2 DEF Upward
  <2> QED
    BY <2>1, <2>2, <2>3 DEF Drawing
<1> QED
  BY <1>5, <1>6, <1>7 DEF IInv

LEMMA Invariant == Spec => []IInv
<1>1. IInv /\ [Next]_vars => IInv'
  BY NextKeeps
<1> QED
  BY <1>1, InitKeeps, PTL DEF Spec

\* The columns and the sessions hold what their types allow, whatever requests
\* do to whatever members and groups (TypeOK).
THEOREM Typed == Spec => []TypeOK
<1>1. IInv => TypeOK
  BY DEF IInv, TypeInv, TypeOK
<1> QED
  BY <1>1, Invariant, PTL

\* A group admin's request never loses a membership in another group, whatever
\* other requests did between its load and its lock (sync_memberships).
THEOREM OthersStay == Spec => []OthersKept
<1>1. IInv => OthersKept
  BY DEF IInv
<1> QED
  BY <1>1, Invariant, PTL

-----------------------------------------------------------------------------
(* The numbers.                                                            *)

LEMMA Extending ==
  ASSUME NEW a \in Seq(Nat \ {0}), NEW b \in Seq(Nat \ {0})
  PROVE  Len(a) <= Len(a \o b) /\ \A i \in 1..Len(a) : (a \o b)[i] = a[i]
<1>1. /\ Len(a \o b) = Len(a) + Len(b)
      /\ \A i \in 1..(Len(a) + Len(b)) :
           (a \o b)[i] = IF i <= Len(a) THEN a[i] ELSE b[i - Len(a)]
  BY ConcatProperties
<1>2. Len(a) \in Nat /\ Len(b) \in Nat
  OBVIOUS
<1> QED
  BY <1>1, <1>2

LEMMA StepIssues ==
  ASSUME IInv, [Next]_vars
  PROVE  [Issuer!Next]_minted
<1>1. IInv' /\ Grows
  BY NextKeeps
<1>2. CASE minted' = minted
  BY <1>2
<1>3. ASSUME NEW r \in Requests, minted' = [g \in Groups |-> minted[g] \o drawn[r][g]]
      PROVE  Issuer!Next
  <2>1. minted' \in [Groups -> Seq(Nat \ {0})] /\ \A g \in Groups : Upward(minted'[g])
    <3>1. TypeInv' /\ Drawing'
      BY <1>1 DEF IInv
    <3> QED
      BY <3>1 DEF TypeInv, Drawing, Upward
  <2>2. minted' \in [Groups -> Seq(Nat)]
    <3>1. \A g \in Groups : minted'[g] \in Seq(Nat)
      BY <2>1, SeqMonotonic
    <3> QED
      BY <2>1, <3>1
  <2>3. ASSUME NEW g \in Groups
        PROVE  Issuer!Extends(minted'[g], minted[g])
    <3>1. minted[g] \in Seq(Nat \ {0}) /\ drawn[r][g] \in Seq(Nat \ {0})
      BY DEF IInv, TypeInv
    <3>2. minted'[g] = minted[g] \o drawn[r][g]
      BY <1>3
    <3> QED
      BY <3>1, <3>2, Extending DEF Issuer!Extends
  <2>4. ASSUME NEW g \in Groups
        PROVE  Issuer!Rising(minted'[g])
    <3>1. minted'[g] \in Seq(Nat \ {0}) /\ Upward(minted'[g])
      BY <2>1
    <3>2. Len(minted'[g]) \in Nat /\ DOMAIN minted'[g] = 1..Len(minted'[g])
      BY <3>1
    <3>3. \A i \in 1..(Len(minted'[g]) - 1) : i \in DOMAIN minted'[g] /\ i + 1 \in DOMAIN minted'[g] /\ i < i + 1
      BY <3>2
    <3> QED
      BY <3>1, <3>3 DEF Upward, Issuer!Rising
  <2> QED
    BY <2>2, <2>3, <2>4 DEF Issuer!Next, Issuer!Issue
<1> QED
  BY <1>1, <1>2, <1>3 DEF Grows

\* The numbers committed in a group only go up, hence none is drawn a second
\* time, whatever rows are deleted meanwhile: next_group_member_id implements
\* the issuer of identifiers (Issues).
THEOREM Implements == Spec => Issues
<1>1. Init => Issuer!Init
  BY DEF Init, Issuer!Init
<1>2. IInv /\ [Next]_vars => [Issuer!Next]_minted
  BY StepIssues
<1> QED
  BY <1>1, <1>2, Invariant, PTL DEF Spec, Issues, Issuer!Spec

\* A database whose numbers were given out by its counters, to one member each.
Counted(d) ==
  \A m \in Members, g \in Groups, n \in Nat \ {0} : Shows(d.member[m], g, n) =>
    /\ n <= d.counter[g]
    /\ \A o \in Members : Shows(d.member[o], g, n) => o = m

LEMMA InitNumbers ==
  ASSUME Init, \A d \in Deployments : Counted(d)
  PROVE  Numbers
<1>1. PICK d \in Deployments : member = d.member /\ counter = d.counter
  BY DEF Init
<1>2. /\ carried = UNION {NumbersOf(m, member[m]) : m \in Members}
      /\ \A r \in Requests, m \in Members : loaded[r][m] = None /\ work[r][m] = None
  BY DEF Init
<1>3. member \in [Members -> Member]
  BY <1>1, Stored
<1>4. \A m \in Members, g \in Groups, n \in Nat \ {0} :
        <<g, n, m>> \in carried <=> Shows(member[m], g, n)
  <2>1. \A m, o \in Members, g \in Groups, n \in Nat \ {0} :
          <<g, n, o>> \in NumbersOf(m, member[m]) <=> o = m /\ Shows(member[m], g, n)
    BY <1>3, NumbersOfType
  <2>2. \A x : x \in carried <=> \E m \in Members : x \in NumbersOf(m, member[m])
    BY <1>2
  <2> SUFFICES ASSUME NEW m \in Members, NEW g \in Groups, NEW n \in Nat \ {0}
               PROVE  <<g, n, m>> \in carried <=> Shows(member[m], g, n)
    OBVIOUS
  <2>3. ASSUME Shows(member[m], g, n)
        PROVE  <<g, n, m>> \in carried
    BY <2>1, <2>2, <2>3
  <2>4. ASSUME <<g, n, m>> \in carried
        PROVE  Shows(member[m], g, n)
    <3>1. PICK o \in Members : <<g, n, m>> \in NumbersOf(o, member[o])
      BY <2>2, <2>4
    <3>2. m = o
      BY <2>1, <3>1
    <3> QED
      BY <2>1, <3>1, <3>2
  <2> QED
    BY <2>3, <2>4
<1>5. \A m \in Members, g \in Groups, n \in Nat \ {0} : Shows(member[m], g, n) =>
        n <= counter[g] /\ \A o \in Members : Shows(member[o], g, n) => o = m
  BY <1>1 DEF Counted
<1>6. NumberOwned
  <2> SUFFICES ASSUME NEW a \in carried, NEW b \in carried, a[1] = b[1], a[2] = b[2]
               PROVE  a[3] = b[3]
    BY DEF NumberOwned
  <2>1. carried \subseteq Groups \X (Nat \ {0}) \X Members
    BY InitKeeps DEF IInv, TypeInv
  <2>2. PICK g \in Groups, n \in Nat \ {0}, m \in Members : a = <<g, n, m>>
    BY <2>1
  <2>3. PICK h \in Groups, k \in Nat \ {0}, o \in Members : b = <<h, k, o>>
    BY <2>1
  <2>4. g = h /\ n = k
    BY <2>2, <2>3
  <2>5. m = o
    BY <1>4, <1>5, <2>2, <2>3, <2>4
  <2> QED
    BY <2>2, <2>3, <2>5
<1>7. \A n : \A r \in Requests, m \in Members, g \in Groups : ~Holds(r, m, g, n)
  BY <1>2 DEF Holds
<1> QED
  BY <1>4, <1>5, <1>6, <1>7 DEF Numbers

\* "an old number is never reissued": where the stored numbers were given out
\* by the counters, no member ever carries a number that another member carries
\* or carried (NumberOwned).
THEOREM NumbersStay ==
  ASSUME \A d \in Deployments : Counted(d)
  PROVE  Spec => []NumberOwned
<1>1. Init => IInv /\ Numbers
  BY InitKeeps, InitNumbers
<1>2. IInv /\ Numbers /\ [Next]_vars => IInv' /\ Numbers'
  BY NextKeeps
<1>3. Numbers => NumberOwned
  BY DEF Numbers
<1> QED
  BY <1>1, <1>2, <1>3, PTL DEF Spec
-----------------------------------------------------------------------------
(* One request at a time.  The session then believes what is stored, and   *)
(* the records of a member agree after every call.                         *)

Knowing(w) == w \in Views /\ w.ss = Session(w.db)

\* The records agree, but perhaps for the visible number; no two rows have one
\* priority, and only accounts have GroupMember rows.
Arranged(m, db) ==
  /\ \A g \in Groups : db.prio[g] # 0 => db.ptr # None
  /\ db.ptr # None => db.prio[db.ptr] = 1
  /\ \A g, h \in Groups : db.prio[g] # 0 /\ db.prio[g] = db.prio[h] => g = h
  /\ \A g \in Groups : db.gm[g] # 0 => m \in Users /\ db.gm[g] = db.row[g] /\ db.prio[g] # 0
  /\ db.gmprim # {} => m \in Users
  /\ db.gmprim \subseteq {db.ptr}

Visible(db) == db.num # None => db.ptr = db.num[1] /\ db.row[db.ptr] = db.num[2]
Orderly(m, db) == Arranged(m, db) /\ Visible(db)

LEMMA ColumnTypes ==
  ASSUME NEW db \in Member
  PROVE  /\ db.prio \in [Groups -> Nat] /\ db.row \in [Groups -> Nat] /\ db.gm \in [Groups -> Nat]
         /\ db.gmprim \subseteq Groups /\ db.ptr \in Groups \cup {None}
         /\ db.num \in (Groups \X (Nat \ {0})) \cup {None}
         /\ None \notin Groups
  BY Parameters DEF Member

LEMMA KnowingColumns ==
  ASSUME NEW w, Knowing(w)
  PROVE  /\ w.db \in Member /\ w.ss \in Loaded
         /\ w.ss.ptr = w.db.ptr /\ w.ss.num = w.db.num
         /\ w.ss.prio = w.db.prio /\ w.ss.row = w.db.row
  BY DEF Knowing, Views, Session

LEMMA MakesKnowing ==
  ASSUME NEW db \in Member, NEW ss, ss = Session(db)
  PROVE  Knowing([db |-> db, ss |-> ss])
<1>1. Session(db) \in Loaded
  BY SessionType
<1> QED
  BY <1>1 DEF Knowing, Views

LEMMA SetPtrKnows ==
  ASSUME NEW w, Knowing(w), NEW g \in Groups \cup {None}
  PROVE  /\ Knowing(SetPtr(w, g)) /\ SetPtr(w, g).db.ptr = g
         /\ SetPtr(w, g).db.num = w.db.num /\ SetPtr(w, g).db.prio = w.db.prio
         /\ SetPtr(w, g).db.row = w.db.row /\ SetPtr(w, g).db.gm = w.db.gm
         /\ SetPtr(w, g).db.gmprim = w.db.gmprim
<1>1. /\ w.db \in Member /\ w.ss.ptr = w.db.ptr /\ w.ss = Session(w.db)
  BY KnowingColumns DEF Knowing
<1>2. CASE w.ss.ptr = g
  BY <1>1, <1>2 DEF SetPtr
<1>3. CASE w.ss.ptr # g
  <2> DEFINE db == [w.db EXCEPT !.ptr = g]
             ss == [w.ss EXCEPT !.ptr = g]
  <2>1. /\ db \in Member /\ db.ptr = g /\ db.num = w.db.num /\ db.prio = w.db.prio
        /\ db.row = w.db.row /\ db.gm = w.db.gm /\ db.gmprim = w.db.gmprim
    BY <1>1 DEF Member
  <2>2. ss = Session(db)
    BY <1>1, <2>1 DEF Session
  <2>3. SetPtr(w, g) = [db |-> db, ss |-> ss]
    BY <1>3 DEF SetPtr
  <2> HIDE DEF db, ss
  <2>4. Knowing([db |-> db, ss |-> ss])
    BY <2>1, <2>2, MakesKnowing
  <2> QED
    BY <2>1, <2>3, <2>4
<1> QED
  BY <1>2, <1>3

LEMMA SetNumKnows ==
  ASSUME NEW w, Knowing(w), NEW k \in (Groups \X (Nat \ {0})) \cup {None}
  PROVE  /\ Knowing(SetNum(w, k)) /\ SetNum(w, k).db.num = k
         /\ SetNum(w, k).db.ptr = w.db.ptr /\ SetNum(w, k).db.prio = w.db.prio
         /\ SetNum(w, k).db.row = w.db.row /\ SetNum(w, k).db.gm = w.db.gm
         /\ SetNum(w, k).db.gmprim = w.db.gmprim
<1>1. /\ w.db \in Member /\ w.ss.num = w.db.num /\ w.ss = Session(w.db)
  BY KnowingColumns DEF Knowing
<1>2. CASE w.ss.num = k
  BY <1>1, <1>2 DEF SetNum
<1>3. CASE w.ss.num # k
  <2> DEFINE db == [w.db EXCEPT !.num = k]
             ss == [w.ss EXCEPT !.num = k]
  <2>1. /\ db \in Member /\ db.num = k /\ db.ptr = w.db.ptr /\ db.prio = w.db.prio
        /\ db.row = w.db.row /\ db.gm = w.db.gm /\ db.gmprim = w.db.gmprim
    BY <1>1 DEF Member
  <2>2. ss = Session(db)
    BY <1>1, <2>1 DEF Session
  <2>3. SetNum(w, k) = [db |-> db, ss |-> ss]
    BY <1>3 DEF SetNum
  <2> HIDE DEF db, ss
  <2>4. Knowing([db |-> db, ss |-> ss])
    BY <2>1, <2>2, MakesKnowing
  <2> QED
    BY <2>1, <2>3, <2>4
<1> QED
  BY <1>2, <1>3

LEMMA SetPrioKnows ==
  ASSUME NEW w, Knowing(w), NEW g \in Groups, NEW p \in Nat
  PROVE  /\ Knowing(SetPrio(w, g, p)) /\ SetPrio(w, g, p).db.prio = [w.db.prio EXCEPT ![g] = p]
         /\ SetPrio(w, g, p).db.ptr = w.db.ptr /\ SetPrio(w, g, p).db.num = w.db.num
         /\ SetPrio(w, g, p).db.row = w.db.row /\ SetPrio(w, g, p).db.gm = w.db.gm
         /\ SetPrio(w, g, p).db.gmprim = w.db.gmprim
<1>1. /\ w.db \in Member /\ w.ss.prio = w.db.prio /\ w.ss = Session(w.db)
      /\ w.db.prio \in [Groups -> Nat]
  BY KnowingColumns, ColumnTypes DEF Knowing
<1>2. CASE w.ss.prio[g] = p
  <2>1. w.db.prio = [w.db.prio EXCEPT ![g] = p]
    BY <1>1, <1>2
  <2> QED
    BY <1>2, <2>1 DEF SetPrio
<1>3. CASE w.ss.prio[g] # p
  <2> DEFINE db == [w.db EXCEPT !.prio[g] = p]
             ss == [w.ss EXCEPT !.prio[g] = p]
  <2>1. /\ db \in Member /\ db.prio = [w.db.prio EXCEPT ![g] = p]
        /\ db.num = w.db.num /\ db.ptr = w.db.ptr
        /\ db.row = w.db.row /\ db.gm = w.db.gm /\ db.gmprim = w.db.gmprim
    BY <1>1 DEF Member
  <2>2. ss = Session(db)
    BY <1>1, <2>1 DEF Session
  <2>3. SetPrio(w, g, p) = [db |-> db, ss |-> ss]
    BY <1>3 DEF SetPrio
  <2> HIDE DEF db, ss
  <2>4. Knowing([db |-> db, ss |-> ss])
    BY <2>1, <2>2, MakesKnowing
  <2> QED
    BY <2>1, <2>3, <2>4
<1> QED
  BY <1>2, <1>3

LEMMA SetRowKnows ==
  ASSUME NEW w, Knowing(w), NEW g \in Groups, NEW n \in Nat
  PROVE  /\ Knowing(SetRow(w, g, n)) /\ SetRow(w, g, n).db.row = [w.db.row EXCEPT ![g] = n]
         /\ SetRow(w, g, n).db.ptr = w.db.ptr /\ SetRow(w, g, n).db.num = w.db.num
         /\ SetRow(w, g, n).db.prio = w.db.prio /\ SetRow(w, g, n).db.gm = w.db.gm
         /\ SetRow(w, g, n).db.gmprim = w.db.gmprim
<1>1. /\ w.db \in Member /\ w.ss.row = w.db.row /\ w.ss = Session(w.db)
      /\ w.db.row \in [Groups -> Nat]
  BY KnowingColumns, ColumnTypes DEF Knowing
<1>2. CASE w.ss.row[g] = n
  <2>1. w.db.row = [w.db.row EXCEPT ![g] = n]
    BY <1>1, <1>2
  <2> QED
    BY <1>2, <2>1 DEF SetRow
<1>3. CASE w.ss.row[g] # n
  <2> DEFINE db == [w.db EXCEPT !.row[g] = n]
             ss == [w.ss EXCEPT !.row[g] = n]
  <2>1. /\ db \in Member /\ db.row = [w.db.row EXCEPT ![g] = n]
        /\ db.num = w.db.num /\ db.ptr = w.db.ptr
        /\ db.prio = w.db.prio /\ db.gm = w.db.gm /\ db.gmprim = w.db.gmprim
    BY <1>1 DEF Member
  <2>2. ss = Session(db)
    BY <1>1, <2>1 DEF Session
  <2>3. SetRow(w, g, n) = [db |-> db, ss |-> ss]
    BY <1>3 DEF SetRow
  <2> HIDE DEF db, ss
  <2>4. Knowing([db |-> db, ss |-> ss])
    BY <2>1, <2>2, MakesKnowing
  <2> QED
    BY <2>1, <2>3, <2>4
<1> QED
  BY <1>2, <1>3

LEMMA InsertRowKnows ==
  ASSUME NEW w, Knowing(w), NEW g \in Groups, NEW p \in Nat
  PROVE  LET v == InsertRow(w, g, p)
         IN  /\ Knowing(v)
             /\ v.db.prio = [w.db.prio EXCEPT ![g] = p] /\ v.db.row = [w.db.row EXCEPT ![g] = 0]
             /\ v.db.ptr = w.db.ptr /\ v.db.num = w.db.num
             /\ v.db.gm = w.db.gm /\ v.db.gmprim = w.db.gmprim
<1> DEFINE db == [w.db EXCEPT !.prio[g] = p, !.row[g] = 0]
           ss == [w.ss EXCEPT !.prio[g] = p, !.row[g] = 0]
<1>1. w.db \in Member /\ w.ss = Session(w.db)
  BY KnowingColumns DEF Knowing
<1>2. /\ db \in Member /\ db.prio = [w.db.prio EXCEPT ![g] = p]
      /\ db.row = [w.db.row EXCEPT ![g] = 0]
      /\ db.num = w.db.num /\ db.ptr = w.db.ptr /\ db.gm = w.db.gm /\ db.gmprim = w.db.gmprim
  BY <1>1 DEF Member
<1>3. ss = Session(db)
  <2>1. w.ss \in Loaded /\ w.ss = [ptr |-> w.db.ptr, num |-> w.db.num, prio |-> w.db.prio,
                                   row |-> w.db.row]
    BY <1>1, KnowingColumns DEF Session
  <2>2. /\ ss \in Loaded /\ ss.ptr = w.ss.ptr /\ ss.num = w.ss.num
        /\ ss.prio = [w.ss.prio EXCEPT ![g] = p] /\ ss.row = [w.ss.row EXCEPT ![g] = 0]
    BY <2>1 DEF Loaded
  <2>3. w.ss.ptr = w.db.ptr /\ w.ss.num = w.db.num /\ w.ss.prio = w.db.prio /\ w.ss.row = w.db.row
    BY <2>1
  <2> HIDE DEF db, ss
  <2>4. ss = [ptr |-> ss.ptr, num |-> ss.num, prio |-> ss.prio, row |-> ss.row]
    BY <2>2 DEF Loaded
  <2> QED
    BY <1>2, <2>2, <2>3, <2>4 DEF Session
<1>4. InsertRow(w, g, p) = [db |-> db, ss |-> ss]
  BY DEF InsertRow
<1> HIDE DEF db, ss
<1>5. Knowing([db |-> db, ss |-> ss])
  BY <1>2, <1>3, MakesKnowing
<1> QED
  BY <1>2, <1>4, <1>5

LEMMA DeleteRowKnows ==
  ASSUME NEW m \in Members, NEW w, Knowing(w), NEW g \in Groups
  PROVE  LET v == DeleteRow(m, w, g)
         IN  /\ Knowing(v)
             /\ v.db.prio = [w.db.prio EXCEPT ![g] = 0] /\ v.db.row = [w.db.row EXCEPT ![g] = 0]
             /\ v.db.ptr = w.db.ptr /\ v.db.num = w.db.num
             /\ v.db.gm = IF m \in Users THEN [w.db.gm EXCEPT ![g] = 0] ELSE w.db.gm
             /\ v.db.gmprim = IF m \in Users THEN w.db.gmprim \ {g} ELSE w.db.gmprim
<1> DEFINE d0 == [w.db EXCEPT !.prio[g] = 0, !.row[g] = 0]
           db == IF m \in Users THEN [d0 EXCEPT !.gm[g] = 0, !.gmprim = @ \ {g}] ELSE d0
           ss == [w.ss EXCEPT !.prio[g] = 0, !.row[g] = 0]
<1>1. w.db \in Member /\ w.ss = Session(w.db)
  BY KnowingColumns DEF Knowing
<1>2. /\ d0 \in Member /\ d0.prio = [w.db.prio EXCEPT ![g] = 0]
      /\ d0.row = [w.db.row EXCEPT ![g] = 0]
      /\ d0.num = w.db.num /\ d0.ptr = w.db.ptr /\ d0.gm = w.db.gm /\ d0.gmprim = w.db.gmprim
  BY <1>1 DEF Member
<1> HIDE DEF d0
<1>3. /\ db \in Member /\ db.prio = d0.prio /\ db.row = d0.row
      /\ db.num = d0.num /\ db.ptr = d0.ptr
      /\ db.gm = IF m \in Users THEN [d0.gm EXCEPT ![g] = 0] ELSE d0.gm
      /\ db.gmprim = IF m \in Users THEN d0.gmprim \ {g} ELSE d0.gmprim
  BY <1>2 DEF Member
<1>4. DeleteRow(m, w, g) = [db |-> db, ss |-> ss]
  BY DEF DeleteRow, d0
<1> HIDE DEF db
<1>5. ss = Session(db)
  <2>1. w.ss \in Loaded /\ w.ss = [ptr |-> w.db.ptr, num |-> w.db.num, prio |-> w.db.prio,
                                   row |-> w.db.row]
    BY <1>1, KnowingColumns DEF Session
  <2>2. /\ ss \in Loaded /\ ss.ptr = w.ss.ptr /\ ss.num = w.ss.num
        /\ ss.prio = [w.ss.prio EXCEPT ![g] = 0] /\ ss.row = [w.ss.row EXCEPT ![g] = 0]
    BY <2>1 DEF Loaded
  <2>3. w.ss.ptr = w.db.ptr /\ w.ss.num = w.db.num /\ w.ss.prio = w.db.prio /\ w.ss.row = w.db.row
    BY <2>1
  <2> HIDE DEF ss
  <2>4. ss = [ptr |-> ss.ptr, num |-> ss.num, prio |-> ss.prio, row |-> ss.row]
    BY <2>2 DEF Loaded
  <2> QED
    BY <1>2, <1>3, <2>2, <2>3, <2>4 DEF Session
<1> HIDE DEF ss
<1>6. Knowing([db |-> db, ss |-> ss])
  BY <1>3, <1>5, MakesKnowing
<1> QED
  BY <1>2, <1>3, <1>4, <1>6


LEMMA Unlegacy ==
  ASSUME NEW m, NEW w, Knowing(w), Arranged(m, w.db)
  PROVE  EnsureLegacy(w) = w
<1>1. /\ w.ss.ptr = w.db.ptr /\ w.db.ptr \in Groups \cup {None}
  BY KnowingColumns, ColumnTypes
<1>2. ASSUME w.db.ptr # None
      PROVE  Rows(w.db) # {}
  <2>1. w.db.ptr \in Groups /\ w.db.prio[w.db.ptr] # 0
    BY <1>1, <1>2 DEF Arranged
  <2> QED
    BY <2>1 DEF Rows
<1> QED
  BY <1>1, <1>2 DEF EnsureLegacy

\* assign_member_id leaves the records in agreement, with a number found or drawn.
LEMMA AssignKnows ==
  ASSUME NEW m \in Members, NEW w, Knowing(w), Arranged(m, w.db), NEW g \in Groups,
         NEW n \in Nat \ {0}, w.db.prio[g] # 0, Visible(w.db) \/ w.db.ptr = g
  PROVE  LET v == AssignMemberId(m, w, g, n)
         IN  Knowing(v) /\ Orderly(m, v.db) /\ v.db.prio = w.db.prio
<1> DEFINE elsewhere == \/ m \in Users /\ w.db.gmprim \ {g} # {}
                        \/ w.ss.ptr \notin {None, g}
           w1 == IF elsewhere THEN w ELSE SetPtr(SetNum(w, <<g, n>>), g)
           w2 == IF w1.db.prio[g] = 0
                 THEN InsertRow(w1, g, IF elsewhere THEN Highest(w1.db) + 1 ELSE 1)
                 ELSE IF elsewhere THEN w1 ELSE SetPrio(w1, g, 1)
           w3 == SetRow(w2, g, n)
           db == [w3.db EXCEPT !.gm[g] = n,
                    !.gmprim = IF elsewhere THEN @ \ {g} ELSE @ \cup {g}]
           v == IF m \notin Users THEN w3 ELSE [db |-> db, ss |-> w3.ss]
<1>1. AssignMemberId(m, w, g, n) = v
  BY DEF AssignMemberId
<1>2. /\ w.db \in Member /\ w.ss.ptr = w.db.ptr /\ w.ss.prio = w.db.prio
      /\ w.db.prio \in [Groups -> Nat] /\ w.db.row \in [Groups -> Nat]
      /\ w.db.gm \in [Groups -> Nat] /\ None \notin Groups
      /\ w.db.gmprim \subseteq Groups /\ w.db.ptr \in Groups \cup {None}
  BY KnowingColumns, ColumnTypes
<1>3. w.db.ptr \in Groups /\ w.db.prio[w.db.ptr] = 1 /\ w.db.gmprim \subseteq {w.db.ptr}
  BY <1>2 DEF Arranged
<1>4. elsewhere <=> w.db.ptr # g
  BY <1>2, <1>3
<1> HIDE DEF elsewhere
<1>5. /\ Knowing(w1) /\ w1.db.prio = w.db.prio /\ w1.db.row = w.db.row /\ w1.db.ptr = w.db.ptr
      /\ w1.db.gm = w.db.gm /\ w1.db.gmprim = w.db.gmprim
      /\ w1.db.num = IF w.db.ptr = g THEN <<g, n>> ELSE w.db.num
  <2>1. CASE w.db.ptr # g
    BY <1>4, <2>1
  <2>2. CASE w.db.ptr = g
    <3> DEFINE u == SetNum(w, <<g, n>>)
    <3>1. /\ Knowing(u) /\ u.db.num = <<g, n>> /\ u.db.ptr = w.db.ptr /\ u.db.prio = w.db.prio
          /\ u.db.row = w.db.row /\ u.db.gm = w.db.gm /\ u.db.gmprim = w.db.gmprim
      BY SetNumKnows
    <3> HIDE DEF u
    <3>2. /\ Knowing(SetPtr(u, g)) /\ SetPtr(u, g).db.ptr = g
          /\ SetPtr(u, g).db.num = u.db.num /\ SetPtr(u, g).db.prio = u.db.prio
          /\ SetPtr(u, g).db.row = u.db.row /\ SetPtr(u, g).db.gm = u.db.gm
          /\ SetPtr(u, g).db.gmprim = u.db.gmprim
      BY <3>1, SetPtrKnows
    <3>3. w1 = SetPtr(u, g)
      BY <1>4, <2>2 DEF u
    <3> QED
      BY <2>2, <3>1, <3>2, <3>3
  <2> QED
    BY <2>1, <2>2
<1> HIDE DEF w1
<1>6. /\ Knowing(w2) /\ w2.db.prio = w.db.prio /\ w2.db.row = w.db.row /\ w2.db.ptr = w.db.ptr
      /\ w2.db.gm = w.db.gm /\ w2.db.gmprim = w.db.gmprim /\ w2.db.num = w1.db.num
  <2>1. CASE w.db.ptr # g
    BY <1>4, <1>5, <2>1
  <2>2. CASE w.db.ptr = g
    <3>1. w2 = SetPrio(w1, g, 1)
      BY <1>4, <1>5, <2>2
    <3>2. /\ Knowing(SetPrio(w1, g, 1)) /\ SetPrio(w1, g, 1).db.prio = [w1.db.prio EXCEPT ![g] = 1]
          /\ SetPrio(w1, g, 1).db.ptr = w1.db.ptr /\ SetPrio(w1, g, 1).db.num = w1.db.num
          /\ SetPrio(w1, g, 1).db.row = w1.db.row /\ SetPrio(w1, g, 1).db.gm = w1.db.gm
          /\ SetPrio(w1, g, 1).db.gmprim = w1.db.gmprim
      BY <1>5, SetPrioKnows
    <3>3. [w1.db.prio EXCEPT ![g] = 1] = w.db.prio
      BY <1>2, <1>3, <1>5, <2>2
    <3> QED
      BY <1>5, <3>1, <3>2, <3>3
  <2> QED
    BY <2>1, <2>2
<1> HIDE DEF w2
<1>7. /\ Knowing(w3) /\ w3.db.prio = w.db.prio /\ w3.db.row = [w.db.row EXCEPT ![g] = n]
      /\ w3.db.ptr = w.db.ptr /\ w3.db.gm = w.db.gm /\ w3.db.gmprim = w.db.gmprim
      /\ w3.db.num = IF w.db.ptr = g THEN <<g, n>> ELSE w.db.num
  BY <1>5, <1>6, SetRowKnows
<1> HIDE DEF w3
<1>8. /\ Knowing(v) /\ v.db.prio = w.db.prio /\ v.db.row = [w.db.row EXCEPT ![g] = n]
      /\ v.db.ptr = w.db.ptr /\ v.db.num = IF w.db.ptr = g THEN <<g, n>> ELSE w.db.num
      /\ v.db.gm = IF m \in Users THEN [w.db.gm EXCEPT ![g] = n] ELSE w.db.gm
      /\ v.db.gmprim = IF m \notin Users THEN w.db.gmprim
                       ELSE IF w.db.ptr # g THEN w.db.gmprim \ {g} ELSE w.db.gmprim \cup {g}
  <2>1. CASE m \notin Users
    BY <1>7, <2>1
  <2>2. CASE m \in Users
    <3> DEFINE prim == IF elsewhere THEN w3.db.gmprim \ {g} ELSE w3.db.gmprim \cup {g}
    <3>1. w3.db \in Member /\ w3.ss = Session(w3.db)
      BY <1>7, KnowingColumns DEF Knowing
    <3>2. db = [w3.db EXCEPT !.gm[g] = n, !.gmprim = prim]
      BY <3>1 DEF Member
    <3>3. prim \subseteq Groups
      BY <1>2, <1>7
    <3> HIDE DEF prim
    <3>4. /\ db \in Member /\ db.prio = w3.db.prio /\ db.row = w3.db.row /\ db.ptr = w3.db.ptr
          /\ db.num = w3.db.num /\ db.gm = [w3.db.gm EXCEPT ![g] = n] /\ db.gmprim = prim
      BY <3>1, <3>2, <3>3 DEF Member
    <3> HIDE DEF db
    <3>5. w3.ss = Session(db)
      BY <3>1, <3>4 DEF Session
    <3>6. Knowing([db |-> db, ss |-> w3.ss])
      BY <3>4, <3>5, MakesKnowing
    <3>7. v = [db |-> db, ss |-> w3.ss]
      BY <2>2
    <3>8. prim = IF w.db.ptr # g THEN w.db.gmprim \ {g} ELSE w.db.gmprim \cup {g}
      BY <1>4, <1>7 DEF prim
    <3> QED
      BY <1>7, <2>2, <3>4, <3>6, <3>7, <3>8
  <2> QED
    BY <2>1, <2>2
<1> HIDE DEF v
<1>9. Arranged(m, v.db)
  <2>1. \A h \in Groups : v.db.prio[h] # 0 => v.db.ptr # None
    BY <1>8 DEF Arranged
  <2>2. v.db.ptr # None => v.db.prio[v.db.ptr] = 1
    BY <1>8 DEF Arranged
  <2>3. \A h, k \in Groups : v.db.prio[h] # 0 /\ v.db.prio[h] = v.db.prio[k] => h = k
    BY <1>8 DEF Arranged
  <2>4. ASSUME NEW h \in Groups, v.db.gm[h] # 0
        PROVE  m \in Users /\ v.db.gm[h] = v.db.row[h] /\ v.db.prio[h] # 0
    <3>1. CASE h = g /\ m \in Users
      BY <1>2, <1>8, <3>1
    <3>2. CASE ~(h = g /\ m \in Users)
      <4>1. v.db.gm[h] = w.db.gm[h]
        BY <1>2, <1>8, <3>2
      <4>2. m \in Users /\ w.db.gm[h] = w.db.row[h] /\ w.db.prio[h] # 0
        BY <2>4, <4>1 DEF Arranged
      <4> QED
        BY <1>2, <1>8, <3>2, <4>1, <4>2
    <3> QED
      BY <3>1, <3>2
  <2>5. v.db.gmprim # {} => m \in Users
    BY <1>8 DEF Arranged
  <2>6. v.db.gmprim \subseteq {v.db.ptr}
    BY <1>3, <1>8
  <2> QED
    BY <2>1, <2>2, <2>3, <2>4, <2>5, <2>6 DEF Arranged
<1>10. Visible(v.db)
  <2>1. CASE w.db.ptr = g
    BY <1>2, <1>8, <2>1 DEF Visible
  <2>2. CASE w.db.ptr # g
    BY <1>2, <1>3, <1>8, <2>2 DEF Visible
  <2> QED
    BY <2>1, <2>2
<1> QED
  BY <1>1, <1>8, <1>9, <1>10 DEF Orderly

\* What a call leaves to assign_member_id: a group of which there is a row.
Yields(m, o) ==
  /\ Knowing(o.w) /\ Arranged(m, o.w.db)
  /\ Visible(o.w.db) \/ (o.assign # None /\ o.w.db.ptr = o.assign)
  /\ o.assign # None => o.assign \in Groups /\ o.w.db.prio[o.assign] # 0

\* A row behind the others leaves their order as it is.
LEMMA InsertKnows ==
  ASSUME NEW m \in Members, NEW w, Knowing(w), Orderly(m, w.db), NEW g \in Groups,
         w.db.prio[g] = 0
  PROVE  LET v == InsertRow(w, g, Highest(w.db) + 1)
         IN  /\ Knowing(v) /\ v.db.prio[g] # 0
             /\ v.db.gm = w.db.gm /\ v.db.gmprim = w.db.gmprim
             /\ v.db.ptr = w.db.ptr /\ v.db.num = w.db.num
             /\ \A h \in Groups : h # g => v.db.prio[h] = w.db.prio[h] /\ v.db.row[h] = w.db.row[h]
             /\ v.db.prio[g] # 1 => Orderly(m, v.db)
             /\ v.db.prio[g] = 1 => \A h \in Groups : w.db.prio[h] = 0
<1> DEFINE p == Highest(w.db) + 1
           v == InsertRow(w, g, p)
<1>1. /\ w.db \in Member /\ w.db.prio \in [Groups -> Nat] /\ w.db.row \in [Groups -> Nat]
      /\ w.db.gm \in [Groups -> Nat] /\ None \notin Groups
      /\ w.db.ptr \in Groups \cup {None}
      /\ w.db.num \in (Groups \X (Nat \ {0})) \cup {None}
  BY KnowingColumns, ColumnTypes
<1>2. /\ p \in Nat \ {0} /\ \A h \in Groups : w.db.prio[h] < p
      /\ p # 1 => \E h \in Groups : w.db.prio[h] # 0
  BY <1>1, HighestType
<1> HIDE DEF p
<1>3. /\ Knowing(v) /\ v.db.prio = [w.db.prio EXCEPT ![g] = p]
      /\ v.db.row = [w.db.row EXCEPT ![g] = 0] /\ v.db.ptr = w.db.ptr /\ v.db.num = w.db.num
      /\ v.db.gm = w.db.gm /\ v.db.gmprim = w.db.gmprim
  BY <1>2, InsertRowKnows
<1> HIDE DEF v
<1>4. /\ \A h \in Groups : v.db.prio[h] = IF h = g THEN p ELSE w.db.prio[h]
      /\ \A h \in Groups : v.db.row[h] = IF h = g THEN 0 ELSE w.db.row[h]
  BY <1>1, <1>3
<1>5. ASSUME p # 1
      PROVE  Orderly(m, v.db)
  <2>1. w.db.ptr \in Groups /\ w.db.prio[w.db.ptr] = 1 /\ w.db.ptr # g
    BY <1>1, <1>2, <1>5 DEF Orderly, Arranged
  <2>2. \A h, k \in Groups : v.db.prio[h] # 0 /\ v.db.prio[h] = v.db.prio[k] => h = k
    <3>1. \A h, k \in Groups : w.db.prio[h] # 0 /\ w.db.prio[h] = w.db.prio[k] => h = k
      BY DEF Orderly, Arranged
    <3>2. \A h \in Groups : w.db.prio[h] # p
      BY <1>1, <1>2
    <3> QED
      BY <1>4, <3>1, <3>2
  <2>3. \A h \in Groups : v.db.gm[h] # 0 =>
          m \in Users /\ v.db.gm[h] = v.db.row[h] /\ v.db.prio[h] # 0
    <3>1. \A h \in Groups : w.db.gm[h] # 0 =>
            m \in Users /\ w.db.gm[h] = w.db.row[h] /\ w.db.prio[h] # 0
      BY DEF Orderly, Arranged
    <3> QED
      BY <1>3, <1>4, <3>1
  <2>4. /\ v.db.ptr # None /\ v.db.prio[v.db.ptr] = 1
        /\ v.db.gmprim # {} => m \in Users
        /\ v.db.gmprim \subseteq {v.db.ptr}
    BY <1>1, <1>3, <1>4, <2>1 DEF Orderly, Arranged
  <2>5. Visible(v.db)
    BY <1>3, <1>4, <2>1 DEF Orderly, Visible
  <2> QED
    BY <2>2, <2>3, <2>4, <2>5 DEF Orderly, Arranged
<1>6. ASSUME p = 1
      PROVE  \A h \in Groups : w.db.prio[h] = 0
  BY <1>1, <1>2, <1>6
<1> QED
  BY <1>2, <1>3, <1>4, <1>5, <1>6 DEF v, p

LEMMA AdditionKnows ==
  ASSUME NEW m \in Members, NEW w, Knowing(w), Orderly(m, w.db), NEW g \in Groups
  PROVE  LET o == Addition(w, g)
         IN  /\ Yields(m, o)
             /\ \A h \in Groups : o.w.db.prio[h] # 0 => w.db.prio[h] # 0 \/ h = g
<1> DEFINE new == InsertRow(w, g, Highest(w.db) + 1)
           numbered == IF g \in Coded THEN g ELSE None
           o == Addition(w, g)
<1>1. /\ w.db \in Member /\ w.ss.ptr = w.db.ptr /\ None \notin Groups
      /\ w.db.ptr \in Groups \cup {None}
      /\ w.db.num \in (Groups \X (Nat \ {0})) \cup {None}
  BY KnowingColumns, ColumnTypes
<1>2. EnsureLegacy(w) = w
  BY Unlegacy DEF Orderly
<1>3. numbered \in {None, g}
  OBVIOUS
<1>4. CASE w.db.prio[g] # 0
  <2>1. w.ss.ptr # None
    BY <1>1, <1>4 DEF Orderly, Arranged
  <2>2. o = Outcome(w, IF w.ss.row[g] = 0 THEN numbered ELSE None)
    BY <1>2, <1>4, <2>1 DEF Addition
  <2>3. o.w = w /\ o.assign \in {None, g}
    BY <1>3, <2>2 DEF Outcome
  <2> HIDE DEF o, numbered
  <2> QED
    BY <1>4, <2>3 DEF Yields, Orderly, o
<1>5. CASE w.db.prio[g] = 0
  <2>1. /\ Knowing(new) /\ new.db.prio[g] # 0
        /\ new.db.gm = w.db.gm /\ new.db.gmprim = w.db.gmprim
        /\ new.db.ptr = w.db.ptr /\ new.db.num = w.db.num
        /\ \A h \in Groups : h # g => new.db.prio[h] = w.db.prio[h] /\ new.db.row[h] = w.db.row[h]
        /\ new.db.prio[g] # 1 => Orderly(m, new.db)
        /\ new.db.prio[g] = 1 => \A h \in Groups : w.db.prio[h] = 0
    BY <1>5, InsertKnows
  <2>2. CASE new.db.prio[g] # 1
    <3>1. o = Outcome(new, numbered)
      BY <1>2, <1>5, <2>2 DEF Addition
    <3>2. o.w = new /\ o.assign \in {None, g}
      BY <1>3, <3>1 DEF Outcome
    <3> HIDE DEF o, new, numbered
    <3>3. Yields(m, o)
      BY <2>1, <2>2, <3>2 DEF Yields, Orderly
    <3>4. \A h \in Groups : o.w.db.prio[h] # 0 => w.db.prio[h] # 0 \/ h = g
      BY <2>1, <3>2
    <3> QED
      BY <3>3, <3>4 DEF o
  <2>3. CASE new.db.prio[g] = 1
    <3> DEFINE first == SetPtr(new, g)
               bare == SetNum(first, None)
    <3>1. o = Outcome(IF g \in Coded THEN first ELSE bare, numbered)
      BY <1>2, <1>5, <2>3 DEF Addition
    <3>2. w.db.ptr = None /\ w.db.num = None
      <4>1. w.db.ptr = None
        BY <1>1, <2>1, <2>3 DEF Orderly, Arranged
      <4> QED
        BY <1>1, <4>1 DEF Orderly, Visible
    <3> HIDE DEF new
    <3>3. /\ Knowing(first) /\ first.db.ptr = g /\ first.db.num = new.db.num
          /\ first.db.prio = new.db.prio /\ first.db.row = new.db.row
          /\ first.db.gm = new.db.gm /\ first.db.gmprim = new.db.gmprim
      BY <2>1, SetPtrKnows
    <3> HIDE DEF first
    <3>4. /\ Knowing(bare) /\ bare.db.num = None /\ bare.db.ptr = first.db.ptr
          /\ bare.db.prio = first.db.prio /\ bare.db.row = first.db.row
          /\ bare.db.gm = first.db.gm /\ bare.db.gmprim = first.db.gmprim
      BY <3>3, SetNumKnows
    <3> HIDE DEF bare
    <3> DEFINE v == IF g \in Coded THEN first ELSE bare
    <3>5. /\ Knowing(v) /\ v.db.ptr = g /\ v.db.num = None /\ v.db.prio = new.db.prio
          /\ v.db.gm = w.db.gm /\ v.db.gmprim = w.db.gmprim
      BY <2>1, <3>2, <3>3, <3>4
    <3>6. o.w = v /\ o.assign \in {None, g}
      BY <1>3, <3>1 DEF Outcome
    <3> HIDE DEF v, o, numbered
    <3>7. Arranged(m, v.db)
      <4>1. \A h \in Groups : w.db.gm[h] = 0
        BY <2>1, <2>3 DEF Orderly, Arranged
      <4>2. w.db.gmprim = {}
        <5>1. w.db.gmprim \subseteq {None} /\ w.db.gmprim \subseteq Groups
          BY <1>1, <3>2, ColumnTypes DEF Orderly, Arranged
        <5> QED
          BY <1>1, <5>1
      <4>3. \A h \in Groups : h # g => v.db.prio[h] = 0
        BY <2>1, <2>3, <3>5
      <4> QED
        BY <1>1, <2>3, <3>5, <4>1, <4>2, <4>3 DEF Arranged
    <3>8. Visible(v.db)
      BY <3>5 DEF Visible
    <3>9. Yields(m, o)
      BY <2>1, <3>5, <3>6, <3>7, <3>8 DEF Yields
    <3>10. \A h \in Groups : o.w.db.prio[h] # 0 => w.db.prio[h] # 0 \/ h = g
      BY <2>1, <3>5, <3>6
    <3> QED
      BY <3>9, <3>10 DEF o
  <2> QED
    BY <2>2, <2>3
<1> QED
  BY <1>1, <1>4, <1>5

LEMMA ApprovedKnows ==
  ASSUME groups \subseteq Groups, NEW m \in Members, NEW w, Knowing(w), Orderly(m, w.db)
  PROVE  Yields(m, Approved(w)) /\ Approved(w).w = w
<1> DEFINE a == IF w.ss.num = None /\ w.ss.ptr \in groups \cap Coded THEN w.ss.ptr ELSE None
<1>1. Approved(w) = [w |-> w, assign |-> a]
  BY DEF Approved, Outcome
<1>2. w.ss.ptr = w.db.ptr /\ w.db \in Member
  BY KnowingColumns
<1>3. a # None => a \in Groups /\ w.db.ptr = a
  BY <1>2
<1>4. a # None => w.db.prio[a] # 0
  BY <1>3 DEF Orderly, Arranged
<1> HIDE DEF a
<1> QED
  BY <1>1, <1>3, <1>4 DEF Yields, Orderly

LEMMA RemovalKnows ==
  ASSUME NEW m \in Members, NEW w, Knowing(w), Orderly(m, w.db), NEW g \in Groups,
         w.db.prio[g] # 0
  PROVE  LET o == Removal(m, w, g)
         IN  /\ Yields(m, o)
             /\ \A h \in Groups : o.w.db.prio[h] # 0 => w.db.prio[h] # 0 /\ h # g
<1> DEFINE rest == DeleteRow(m, w, g)
           next == First(rest.db)
           moved == SetPrio(rest, next, 1)
           promoted == SetPtr(moved, next)
           o == Removal(m, w, g)
<1>1. /\ w.db \in Member /\ w.ss.prio = w.db.prio /\ None \notin Groups
      /\ w.db.ptr \in Groups \cup {None} /\ w.db.gmprim \subseteq Groups
      /\ w.db.prio \in [Groups -> Nat] /\ w.db.row \in [Groups -> Nat]
      /\ w.db.gm \in [Groups -> Nat]
      /\ w.db.num \in (Groups \X (Nat \ {0})) \cup {None}
  BY KnowingColumns, ColumnTypes
<1>2. EnsureLegacy(w) = w
  BY Unlegacy DEF Orderly
<1>3. /\ \A h, k \in Groups : w.db.prio[h] # 0 /\ w.db.prio[h] = w.db.prio[k] => h = k
      /\ w.db.ptr \in Groups /\ w.db.prio[w.db.ptr] = 1
      /\ \A h \in Groups : w.db.gm[h] # 0 =>
           m \in Users /\ w.db.gm[h] = w.db.row[h] /\ w.db.prio[h] # 0
      /\ w.db.gmprim # {} => m \in Users
      /\ w.db.gmprim \subseteq {w.db.ptr}
  BY <1>1 DEF Orderly, Arranged
<1>4. w.db.num # None => w.db.ptr = w.db.num[1] /\ w.db.row[w.db.ptr] = w.db.num[2]
  BY DEF Orderly, Visible
<1>5. /\ Knowing(rest) /\ rest.db.prio = [w.db.prio EXCEPT ![g] = 0]
      /\ rest.db.row = [w.db.row EXCEPT ![g] = 0]
      /\ rest.db.ptr = w.db.ptr /\ rest.db.num = w.db.num
      /\ rest.db.gm = IF m \in Users THEN [w.db.gm EXCEPT ![g] = 0] ELSE w.db.gm
      /\ rest.db.gmprim = IF m \in Users THEN w.db.gmprim \ {g} ELSE w.db.gmprim
  BY DeleteRowKnows
<1> HIDE DEF rest
<1>6. /\ \A h \in Groups : rest.db.prio[h] = IF h = g THEN 0 ELSE w.db.prio[h]
      /\ \A h \in Groups : rest.db.row[h] = IF h = g THEN 0 ELSE w.db.row[h]
  BY <1>1, <1>5
<1>7. \A h \in Groups : rest.db.gm[h] # 0 =>
        m \in Users /\ rest.db.gm[h] = rest.db.row[h] /\ rest.db.prio[h] # 0
  <2> SUFFICES ASSUME NEW h \in Groups, rest.db.gm[h] # 0
               PROVE  m \in Users /\ rest.db.gm[h] = rest.db.row[h] /\ rest.db.prio[h] # 0
    OBVIOUS
  <2>1. rest.db.gm[h] = w.db.gm[h]
    BY <1>1, <1>5
  <2>2. m \in Users /\ w.db.gm[h] = w.db.row[h] /\ w.db.prio[h] # 0
    BY <1>3, <2>1
  <2>3. h # g
    BY <1>1, <1>5, <2>2
  <2> QED
    BY <1>6, <2>1, <2>2, <2>3
<1>8. /\ rest.db.gmprim # {} => m \in Users
      /\ rest.db.gmprim \subseteq {w.db.ptr} /\ g \notin rest.db.gmprim
  BY <1>3, <1>5
<1>9. CASE w.db.prio[g] # 1
  <2>1. o = Outcome(rest, None)
    BY <1>1, <1>2, <1>9 DEF Removal, rest
  <2>2. o.w = rest /\ o.assign = None
    BY <2>1 DEF Outcome
  <2> HIDE DEF o
  <2>3. w.db.ptr # g
    BY <1>3, <1>9
  <2>4. Arranged(m, rest.db)
    BY <1>1, <1>3, <1>5, <1>6, <1>7, <1>8, <2>3 DEF Arranged
  <2>5. Visible(rest.db)
    BY <1>3, <1>4, <1>5, <1>6, <2>3 DEF Visible
  <2>6. Yields(m, o)
    BY <1>5, <2>2, <2>4, <2>5 DEF Yields
  <2> QED
    BY <1>6, <2>2, <2>6 DEF o
<1>10. CASE w.db.prio[g] = 1 /\ Rows(rest.db) = {}
  <2> DEFINE single == SetPtr(rest, None)
             bare == SetNum(single, None)
  <2>1. o = Outcome(bare, None)
    BY <1>1, <1>2, <1>10 DEF Removal, rest
  <2>2. o.w = bare /\ o.assign = None
    BY <2>1 DEF Outcome
  <2>3. /\ Knowing(single) /\ single.db.ptr = None /\ single.db.num = rest.db.num
        /\ single.db.prio = rest.db.prio /\ single.db.row = rest.db.row
        /\ single.db.gm = rest.db.gm /\ single.db.gmprim = rest.db.gmprim
    BY <1>5, SetPtrKnows
  <2> HIDE DEF single, o
  <2>4. /\ Knowing(bare) /\ bare.db.num = None /\ bare.db.ptr = None
        /\ bare.db.prio = rest.db.prio /\ bare.db.row = rest.db.row
        /\ bare.db.gm = rest.db.gm /\ bare.db.gmprim = rest.db.gmprim
    BY <2>3, SetNumKnows
  <2> HIDE DEF bare
  <2>5. \A h \in Groups : rest.db.prio[h] = 0
    BY <1>10 DEF Rows
  <2>6. w.db.ptr = g
    BY <1>3, <1>10
  <2>7. Arranged(m, bare.db)
    <3>1. bare.db.gmprim = {}
      BY <1>8, <2>4, <2>6
    <3> QED
      BY <1>7, <2>4, <2>5, <3>1 DEF Arranged
  <2>8. Visible(bare.db)
    BY <2>4 DEF Visible
  <2>9. Yields(m, o)
    BY <2>2, <2>4, <2>7, <2>8 DEF Yields
  <2> QED
    BY <2>2, <2>4, <2>5, <2>9 DEF o
<1>11. CASE w.db.prio[g] = 1 /\ Rows(rest.db) # {}
  <2> DEFINE bare == SetNum(promoted, None)
  <2>1. o = IF next \in Coded THEN Outcome(promoted, next) ELSE Outcome(bare, None)
    BY <1>1, <1>2, <1>11 DEF Removal, rest
  <2>2. next \in Groups /\ rest.db.prio[next] # 0
    <3>1. rest.db \in Member
      BY <1>5, KnowingColumns
    <3>2. next \in Rows(rest.db)
      BY <1>11, <3>1, FirstType
    <3> QED
      BY <3>2 DEF Rows
  <2> HIDE DEF next, o
  <2>3. /\ Knowing(moved) /\ moved.db.prio = [rest.db.prio EXCEPT ![next] = 1]
        /\ moved.db.ptr = rest.db.ptr /\ moved.db.num = rest.db.num /\ moved.db.row = rest.db.row
        /\ moved.db.gm = rest.db.gm /\ moved.db.gmprim = rest.db.gmprim
    BY <1>5, <2>2, SetPrioKnows
  <2> HIDE DEF moved
  <2>4. /\ Knowing(promoted) /\ promoted.db.ptr = next /\ promoted.db.num = rest.db.num
        /\ promoted.db.prio = [rest.db.prio EXCEPT ![next] = 1]
        /\ promoted.db.row = rest.db.row /\ promoted.db.gm = rest.db.gm
        /\ promoted.db.gmprim = rest.db.gmprim
    BY <2>2, <2>3, SetPtrKnows
  <2> HIDE DEF promoted
  <2>5. /\ Knowing(bare) /\ bare.db.num = None /\ bare.db.ptr = promoted.db.ptr
        /\ bare.db.prio = promoted.db.prio /\ bare.db.row = promoted.db.row
        /\ bare.db.gm = promoted.db.gm /\ bare.db.gmprim = promoted.db.gmprim
    BY <2>4, SetNumKnows
  <2> HIDE DEF bare
  <2>6. \A h \in Groups : promoted.db.prio[h] =
          IF h = next THEN 1 ELSE IF h = g THEN 0 ELSE w.db.prio[h]
    BY <1>1, <1>5, <2>2, <2>4
  <2>7. w.db.ptr = g /\ next # g
    BY <1>3, <1>6, <1>11, <2>2
  <2>8. rest.db.gmprim = {}
    BY <1>8, <2>7
  <2>9. \A v : v.db.prio = promoted.db.prio /\ v.db.ptr = next /\ v.db.row = rest.db.row
               /\ v.db.gm = rest.db.gm /\ v.db.gmprim = rest.db.gmprim => Arranged(m, v.db)
    <3> SUFFICES ASSUME NEW v, v.db.prio = promoted.db.prio, v.db.ptr = next,
                        v.db.row = rest.db.row, v.db.gm = rest.db.gm,
                        v.db.gmprim = rest.db.gmprim
                 PROVE  Arranged(m, v.db)
      OBVIOUS
    <3>1. \A h, k \in Groups : v.db.prio[h] # 0 /\ v.db.prio[h] = v.db.prio[k] => h = k
      <4>1. \A h \in Groups : h # g => w.db.prio[h] # 1
        BY <1>3, <1>11
      <4> QED
        BY <1>3, <2>6, <2>7, <4>1
    <3>2. \A h \in Groups : v.db.gm[h] # 0 =>
            m \in Users /\ v.db.gm[h] = v.db.row[h] /\ v.db.prio[h] # 0
      BY <1>6, <1>7, <2>6
    <3>3. v.db.ptr # None /\ v.db.prio[v.db.ptr] = 1 /\ v.db.gmprim = {}
      BY <1>1, <2>2, <2>6, <2>8
    <3> QED
      BY <3>1, <3>2, <3>3 DEF Arranged
  <2>10. CASE next \in Coded
    <3>1. o.w = promoted /\ o.assign = next
      BY <2>1, <2>10 DEF Outcome
    <3>2. Yields(m, o)
      <4>1. Arranged(m, promoted.db)
        BY <2>4, <2>9
      <4>2. promoted.db.prio[next] # 0 /\ next # None
        BY <1>1, <2>2, <2>6
      <4> QED
        BY <2>2, <2>4, <3>1, <4>1, <4>2 DEF Yields
    <3>3. \A h \in Groups : o.w.db.prio[h] # 0 => w.db.prio[h] # 0 /\ h # g
      BY <1>6, <2>2, <2>6, <2>7, <3>1
    <3> QED
      BY <3>2, <3>3 DEF o
  <2>11. CASE next \notin Coded
    <3>1. o.w = bare /\ o.assign = None
      BY <2>1, <2>11 DEF Outcome
    <3>2. Visible(bare.db)
      BY <2>5 DEF Visible
    <3>3. Yields(m, o)
      BY <2>4, <2>5, <2>9, <3>1, <3>2 DEF Yields
    <3>4. \A h \in Groups : o.w.db.prio[h] # 0 => w.db.prio[h] # 0 /\ h # g
      BY <1>6, <2>2, <2>5, <2>6, <2>7, <3>1
    <3> QED
      BY <3>3, <3>4 DEF o
  <2> QED
    BY <2>10, <2>11
<1> QED
  BY <1>9, <1>10, <1>11

-----------------------------------------------------------------------------
(* What a call makes of the order of a member's groups, p and q being the  *)
(* priorities before and after it.                                         *)

Priorities == [Groups -> Nat]
Distinct(p) == \A g, h \in Groups : p[g] # 0 /\ p[g] = p[h] => g = h

\* What precedes an old group is old, and preceded it.
Continues(p, q) ==
  \A g, h \in Groups : q[g] # 0 /\ q[g] < q[h] /\ p[h] # 0 => p[g] # 0 /\ p[g] < p[h]

\* g goes, if it was there; the others stay in their order.
Sheds(p, q, g) ==
  /\ \A h \in Groups \ {g} : q[h] # 0 <=> p[h] # 0
  /\ q[g] # 0 => p[g] # 0
  /\ \A h, k \in Groups : q[h] # 0 /\ q[k] # 0 => (q[h] < q[k] <=> p[h] < p[k])

\* g is added behind all others.
Gains(p, q, g) ==
  /\ p[g] = 0 /\ q[g] # 0
  /\ \A h \in Groups \ {g} : q[h] = p[h] /\ q[h] < q[g]

\* What the call c may do.
Moves(c, p, q) ==
  \/ q = p
  \/ c.do \in {"add", "append"} /\ Gains(p, q, c.g)
  \/ c.do \in {"remove", "cut", "detach"} /\ Sheds(p, q, c.g)

LEMMA ContinuesSame ==
  ASSUME NEW p \in Priorities
  PROVE  Continues(p, p) /\ \A g \in Groups : Sheds(p, p, g)
  BY DEF Continues, Sheds, Priorities

LEMMA ContinuesSheds ==
  ASSUME NEW p \in Priorities, NEW q \in Priorities, NEW v \in Priorities, NEW g \in Groups,
         Continues(p, q), Sheds(q, v, g)
  PROVE  Continues(p, v)
<1> SUFFICES ASSUME NEW h \in Groups, NEW k \in Groups, v[h] # 0, v[h] < v[k], p[k] # 0
             PROVE  p[h] # 0 /\ p[h] < p[k]
  BY DEF Continues
<1>1. v[k] # 0
  BY DEF Priorities
<1>2. q[h] # 0 /\ q[h] < q[k]
  BY <1>1 DEF Sheds
<1> QED
  BY <1>2 DEF Continues

LEMMA ContinuesGains ==
  ASSUME NEW p \in Priorities, NEW q \in Priorities, NEW v \in Priorities, NEW g \in Groups,
         Continues(p, q), Gains(q, v, g), p[g] = 0
  PROVE  Continues(p, v)
<1> SUFFICES ASSUME NEW h \in Groups, NEW k \in Groups, v[h] # 0, v[h] < v[k], p[k] # 0
             PROVE  p[h] # 0 /\ p[h] < p[k]
  BY DEF Continues
<1>1. k # g /\ v[k] = q[k] /\ v[k] < v[g]
  BY DEF Gains
<1>2. h # g
  BY <1>1 DEF Priorities
<1>3. q[h] # 0 /\ q[h] < q[k]
  BY <1>1, <1>2 DEF Gains
<1> QED
  BY <1>3 DEF Continues

LEMMA ShedsTwice ==
  ASSUME NEW p \in Priorities, NEW q \in Priorities, NEW v \in Priorities, NEW g \in Groups,
         Sheds(p, q, g), Sheds(q, v, g)
  PROVE  Sheds(p, v, g)
<1>1. \A h \in Groups : v[h] # 0 => q[h] # 0
  BY DEF Sheds
<1>2. \A h \in Groups \ {g} : v[h] # 0 <=> p[h] # 0
  BY DEF Sheds
<1>3. v[g] # 0 => p[g] # 0
  BY <1>1 DEF Sheds
<1>4. \A h, k \in Groups : v[h] # 0 /\ v[k] # 0 => (v[h] < v[k] <=> p[h] < p[k])
  BY <1>1 DEF Sheds
<1> QED
  BY <1>2, <1>3, <1>4 DEF Sheds

\* A new row comes behind the others, an old one stays where it is.
LEMMA AdditionOrder ==
  ASSUME NEW m \in Members, NEW w, Knowing(w), Orderly(m, w.db), NEW g \in Groups
  PROVE  LET q == Addition(w, g).w.db.prio
         IN  q = w.db.prio \/ Gains(w.db.prio, q, g)
<1> DEFINE p == Highest(w.db) + 1
           new == InsertRow(w, g, p)
           numbered == IF g \in Coded THEN g ELSE None
           o == Addition(w, g)
<1>1. /\ w.db \in Member /\ w.ss.ptr = w.db.ptr /\ None \notin Groups
      /\ w.db.prio \in [Groups -> Nat]
  BY KnowingColumns, ColumnTypes
<1>2. EnsureLegacy(w) = w
  BY Unlegacy DEF Orderly
<1>3. CASE w.db.prio[g] # 0
  <2>1. w.ss.ptr # None
    BY <1>1, <1>3 DEF Orderly, Arranged
  <2>2. o = Outcome(w, IF w.ss.row[g] = 0 THEN numbered ELSE None)
    BY <1>2, <1>3, <2>1 DEF Addition
  <2>3. o.w = w
    BY <2>2 DEF Outcome
  <2> QED
    BY <2>3
<1>4. CASE w.db.prio[g] = 0
  <2>1. p \in Nat \ {0} /\ \A h \in Groups : w.db.prio[h] < p
    BY <1>1, HighestType
  <2> HIDE DEF p
  <2>2. Knowing(new) /\ new.db.prio = [w.db.prio EXCEPT ![g] = p]
    <3>1. p \in Nat
      BY <2>1
    <3>2. /\ Knowing(new)
          /\ new.db.prio = [w.db.prio EXCEPT ![g] = p] /\ new.db.row = [w.db.row EXCEPT ![g] = 0]
          /\ new.db.ptr = w.db.ptr /\ new.db.num = w.db.num
          /\ new.db.gm = w.db.gm /\ new.db.gmprim = w.db.gmprim
      BY <3>1, InsertRowKnows
    <3> QED
      BY <3>2
  <2> DEFINE first == SetPtr(new, g)
             bare == SetNum(first, None)
  <2>3. o = Outcome(new, numbered) \/ o = Outcome(first, numbered) \/ o = Outcome(bare, numbered)
    BY <1>2, <1>4 DEF Addition, p
  <2>4. o.w = new \/ o.w = first \/ o.w = bare
    BY <2>3 DEF Outcome
  <2> HIDE DEF new, o
  <2>5. Knowing(first) /\ first.db.prio = new.db.prio
    BY <2>2, SetPtrKnows
  <2> HIDE DEF first
  <2>6. bare.db.prio = first.db.prio
    BY <2>5, SetNumKnows
  <2> HIDE DEF bare
  <2>7. o.w.db.prio = [w.db.prio EXCEPT ![g] = p]
    BY <2>2, <2>4, <2>5, <2>6
  <2> DEFINE q == [w.db.prio EXCEPT ![g] = p]
  <2>a. \A h \in Groups : q[h] = IF h = g THEN p ELSE w.db.prio[h]
    BY <1>1
  <2> HIDE DEF q
  <2>8. Gains(w.db.prio, q, g)
    BY <1>4, <2>1, <2>a DEF Gains
  <2> QED
    BY <2>7, <2>8 DEF o, q
<1> QED
  BY <1>1, <1>3, <1>4

\* The next group is promoted to where the removed one was: before all others.
LEMMA RemovalOrder ==
  ASSUME NEW m \in Members, NEW w, Knowing(w), Orderly(m, w.db), NEW g \in Groups,
         w.db.prio[g] # 0
  PROVE  Sheds(w.db.prio, Removal(m, w, g).w.db.prio, g)
<1> DEFINE rest == DeleteRow(m, w, g)
           next == First(rest.db)
           moved == SetPrio(rest, next, 1)
           promoted == SetPtr(moved, next)
           single == SetPtr(rest, None)
           o == Removal(m, w, g)
           p == w.db.prio
           p0 == [p EXCEPT ![g] = 0]
<1>1. /\ w.db \in Member /\ w.ss.prio = p /\ p \in [Groups -> Nat]
  BY KnowingColumns, ColumnTypes
<1>2. EnsureLegacy(w) = w
  BY Unlegacy DEF Orderly
<1>3. Knowing(rest) /\ rest.db.prio = p0
  BY DeleteRowKnows
<1> HIDE DEF rest
<1>4. \A h \in Groups : p0[h] = IF h = g THEN 0 ELSE p[h]
  BY <1>1
<1>5. p0 \in [Groups -> Nat]
  BY <1>1
<1>6. Sheds(p, p0, g)
  <2> HIDE DEF p, p0
  <2> QED
    BY <1>1, <1>4, <1>5 DEF Sheds
<1>7. CASE p[g] # 1 \/ Rows(rest.db) = {}
  <2>1. o.w.db.prio = p0
    <3>1. CASE p[g] # 1
      <4>1. o = Outcome(rest, None)
        BY <1>1, <1>2, <3>1 DEF Removal, rest
      <4>2. o.w = rest
        BY <4>1 DEF Outcome
      <4> HIDE DEF o, p0
      <4> QED
        BY <1>3, <4>2
    <3>2. CASE p[g] = 1 /\ Rows(rest.db) = {}
      <4>1. o = Outcome(SetNum(single, None), None)
        BY <1>1, <1>2, <3>2 DEF Removal, rest
      <4>2. o.w = SetNum(single, None)
        BY <4>1 DEF Outcome
      <4> HIDE DEF o
      <4>3. Knowing(single) /\ single.db.prio = rest.db.prio
        BY <1>3, SetPtrKnows
      <4> HIDE DEF single
      <4>4. SetNum(single, None).db.prio = single.db.prio
        BY <4>3, SetNumKnows
      <4> HIDE DEF p0
      <4> QED
        BY <1>3, <4>2, <4>3, <4>4
    <3> QED
      BY <1>7, <3>1, <3>2
  <2> HIDE DEF o, p0
  <2> QED
    BY <1>6, <2>1 DEF o
<1>8. CASE p[g] = 1 /\ Rows(rest.db) # {}
  <2>1. o = IF next \in Coded THEN Outcome(promoted, next) ELSE Outcome(SetNum(promoted, None), None)
    BY <1>1, <1>2, <1>8 DEF Removal, rest
  <2>2. o.w \in {promoted, SetNum(promoted, None)}
    BY <2>1 DEF Outcome
  <2>3. next \in Rows(rest.db) /\ \A h \in Rows(rest.db) : rest.db.prio[next] <= rest.db.prio[h]
    BY <1>3, <1>8, KnowingColumns, FirstType
  <2>4. next \in Groups /\ p0[next] # 0 /\ \A h \in Groups : p0[h] # 0 => p0[next] <= p0[h]
    BY <1>3, <2>3 DEF Rows
  <2> HIDE DEF next, o
  <2>5. Knowing(moved) /\ moved.db.prio = [rest.db.prio EXCEPT ![next] = 1]
    BY <1>3, <2>4, SetPrioKnows
  <2> HIDE DEF moved
  <2>6. Knowing(promoted) /\ promoted.db.prio = moved.db.prio
    BY <2>4, <2>5, SetPtrKnows
  <2> HIDE DEF promoted
  <2>7. SetNum(promoted, None).db.prio = promoted.db.prio
    BY <2>6, SetNumKnows
  <2>8. o.w.db.prio = [p0 EXCEPT ![next] = 1]
    BY <1>3, <2>2, <2>5, <2>6, <2>7
  <2> DEFINE q == [p0 EXCEPT ![next] = 1]
  <2>9. \A h \in Groups : q[h] = IF h = next THEN 1 ELSE p0[h]
    BY <1>5
  <2>10. \A h, k \in Groups : p[h] # 0 /\ p[h] = p[k] => h = k
    BY DEF Orderly, Arranged
  <2> HIDE DEF p0, p, q
  <2>11. next # g /\ \A h \in Groups \ {g} : p[h] # 1
    BY <1>1, <1>4, <1>8, <2>4, <2>10
  <2>12. \A h \in Groups : q[h] = IF h = next THEN 1 ELSE IF h = g THEN 0 ELSE p[h]
    BY <1>4, <2>9
  <2>13. \A h \in Groups \ {g, next} : p[h] # 0 => p[next] < p[h]
    <3>1. \A h \in Groups \ {g, next} : p[h] # 0 => p[next] <= p[h]
      BY <1>4, <2>4, <2>11
    <3>2. \A h \in Groups \ {g, next} : p[h] # 0 => p[h] # p[next]
      BY <2>4, <2>10
    <3> QED
      BY <1>1, <2>4, <3>1, <3>2
  <2>14. Sheds(p, q, g)
    <3>1. p[next] # 0
      BY <1>4, <2>4, <2>11
    <3>2. \A h \in Groups \ {g} : q[h] # 0 <=> p[h] # 0
      BY <2>12, <3>1
    <3>3. q[g] = 0
      BY <2>11, <2>12
    <3>4. ASSUME NEW h \in Groups, NEW k \in Groups, q[h] # 0, q[k] # 0
          PROVE  q[h] < q[k] <=> p[h] < p[k]
      <4>1. h # g /\ k # g /\ p[h] # 0 /\ p[k] # 0 /\ p[h] \in Nat /\ p[k] \in Nat
        BY <1>1, <3>2, <3>3, <3>4
      <4>2. CASE h = next /\ k = next
        BY <4>1, <4>2, <2>12
      <4>3. CASE h = next /\ k # next
        BY <4>1, <4>3, <2>11, <2>12, <2>13
      <4>4. CASE h # next /\ k = next
        <5>1. p[next] < p[h] /\ p[next] \in Nat
          BY <4>1, <4>4, <2>13
        <5>2. q[k] = 1 /\ q[h] = p[h]
          BY <4>1, <4>4, <2>12
        <5> QED
          BY <4>1, <4>4, <5>1, <5>2
      <4>5. CASE h # next /\ k # next
        BY <4>1, <4>5, <2>12
      <4> QED
        BY <4>2, <4>3, <4>4, <4>5
    <3> QED
      BY <3>2, <3>3, <3>4 DEF Sheds
  <2> QED
    BY <2>8, <2>14 DEF o, p, q
<1> QED
  BY <1>1, <1>7, <1>8

-----------------------------------------------------------------------------
(* Requests one after another.                                            *)

\* The group of priority 1 is the one the query for the next group returns.
LEMMA OrderlyCoherent ==
  ASSUME NEW m \in Members, NEW db \in Member, Orderly(m, db)
  PROVE  Coherent(db)
<1>1. /\ db.prio \in [Groups -> Nat] /\ db.gmprim \subseteq Groups
      /\ db.ptr \in Groups \cup {None} /\ None \notin Groups
  BY ColumnTypes
<1>2. /\ \A h \in Groups : db.prio[h] # 0 => db.ptr # None
      /\ db.ptr # None => db.prio[db.ptr] = 1
      /\ \A h, k \in Groups : db.prio[h] # 0 /\ db.prio[h] = db.prio[k] => h = k
      /\ \A h \in Groups : db.gm[h] # 0 => db.gm[h] = db.row[h] /\ db.prio[h] # 0
      /\ db.gmprim \subseteq {db.ptr}
  BY DEF Orderly, Arranged
<1>3. Rows(db) = {} <=> db.ptr = None
  BY <1>1, <1>2 DEF Rows
<1>4. ASSUME Rows(db) # {}
      PROVE  db.ptr = First(db) /\ db.prio[db.ptr] = 1
  <2>1. First(db) \in Rows(db) /\ \A h \in Rows(db) : db.prio[First(db)] <= db.prio[h]
    BY <1>4, FirstType
  <2>2. db.ptr \in Groups /\ db.prio[db.ptr] = 1 /\ db.ptr \in Rows(db)
    BY <1>1, <1>2, <1>3, <1>4 DEF Rows
  <2>3. First(db) \in Groups /\ db.prio[First(db)] # 0 /\ db.prio[First(db)] <= 1
    BY <2>1, <2>2 DEF Rows
  <2>4. db.prio[First(db)] = 1
    BY <1>1, <2>3
  <2> QED
    BY <1>2, <2>2, <2>3, <2>4
<1> QED
  BY <1>2, <1>3, <1>4 DEF Coherent, Orderly, Visible

\* At most one request is under way, its answer included.
Serial == \A r, s \in Requests : pc[r] # "idle" /\ pc[s] # "idle" => r = s

\* What a session believes of a member is what is stored, or what it wrote.
Agrees(m, db, l, w) ==
  IF w = None THEN l \in {None, Session(db)} ELSE Orderly(m, w) /\ l = Session(w)

\* A group is dropped last, after each member that has a row of it is detached.
DropsLast(s, all) ==
  \A i \in DOMAIN s : s[i].do = "drop" =>
    /\ \A j \in DOMAIN s : j = i \/ (j < i /\ s[j].do = "detach" /\ s[j].g = s[i].g)
    /\ \A m \in Members : all[m].prio[s[i].g] # 0 =>
         \E j \in DOMAIN s : s[j].do = "detach" /\ s[j].m = m

\* The rest of a request that changes the groups of m.  A group it has still to
\* add is a new one, unless adding it is all the request does.
Rejoins(c, db) == c.do = "sync" \/ (c.do \in {"add", "append"} /\ db.prio[c.g] # 0)
Edits(m, all, s, W) ==
  /\ \A i \in DOMAIN s : s[i].m = m /\ s[i].do \notin {"detach", "drop"}
  /\ \A o \in Members : W[o] # None => o = m /\ Continues(all[o].prio, W[o].prio)
  /\ \A i \in DOMAIN s : Rejoins(s[i], all[m]) => Len(s) = 1 /\ W[m] \in {None, all[m]}

\* The rest of a request that deletes g.
Dissolves(g, all, s, W) ==
  /\ s # <<>> /\ s[Len(s)].do = "drop"
  /\ \A i \in DOMAIN s : s[i].do \in {"detach", "drop"} /\ s[i].g = g
  /\ \A o \in Members : W[o] # None => Sheds(all[o].prio, W[o].prio, g)

Turn(all, s, W) ==
  \/ \E m \in Members : Edits(m, all, s, W)
  \/ \E g \in Groups : Dissolves(g, all, s, W)

Agreed ==
  /\ \A m \in Members : Orderly(m, member[m])
  /\ \A r \in Requests, m \in Members : Agrees(m, member[m], loaded[r][m], work[r][m])
  /\ \A r \in Requests : pc[r] = "run" => DropsLast(todo[r], Written(r))
  /\ \A r \in Requests : pc[r] = "run" => Turn(member, todo[r], work[r])
  /\ OnlyOwnAdded

\* A call that is done: the turn goes on with the others.
LEMMA TurnDone ==
  ASSUME NEW s \in Seq(CallRecord), s # <<>>, NEW all \in [Members -> Member],
         NEW W \in [Members -> Member \cup {None}], NEW V, NEW m \in Members, m = Head(s).m,
         NEW d \in Member, W[m] # None, \A o \in Members : V[o] = IF o = m THEN d ELSE W[o],
         Turn(all, s, W), Moves(Head(s), W[m].prio, d.prio), Head(s).do \notin {"drop", "sync"}
  PROVE  Turn(all, Tail(s), V)
<1> DEFINE t == Tail(s)
           c == Head(s)
<1>1. /\ t \in Seq(CallRecord) /\ Len(t) = Len(s) - 1 /\ Len(s) \in Nat /\ Len(s) # 0
      /\ \A i \in 1..Len(t) : t[i] = s[i + 1]
      /\ c = s[1] /\ c \in CallRecord
  BY HeadTailProperties, EmptySeq
<1>2. DOMAIN t = 1..Len(t) /\ DOMAIN s = 1..Len(s) /\ 1 \in DOMAIN s
  BY <1>1
<1>3. \A i \in DOMAIN t : i + 1 \in DOMAIN s /\ t[i] = s[i + 1] /\ Len(s) # 1
  BY <1>1, <1>2
<1> HIDE DEF t, c
<1>4. \A o \in Members : all[o].prio \in Priorities /\ (W[o] # None => W[o].prio \in Priorities)
  <2>1. \A o \in Members : all[o] \in Member /\ (W[o] # None => W[o] \in Member)
    OBVIOUS
  <2> QED
    BY <2>1, ColumnTypes DEF Priorities
<1>5. d.prio \in Priorities /\ d # None
  BY ColumnTypes, Parameters DEF Priorities
<1>6. V[m] = d /\ \A o \in Members \ {m} : V[o] = W[o]
  OBVIOUS
<1>7. ASSUME NEW n \in Members, Edits(n, all, s, W)
      PROVE  Edits(n, all, t, V)
  <2>1. n = m /\ c.do \notin {"detach", "drop", "sync"}
    BY <1>1, <1>2, <1>7 DEF Edits, c
  <2>2. \A i \in DOMAIN t : t[i].m = n /\ t[i].do \notin {"detach", "drop"}
    BY <1>3, <1>7 DEF Edits
  <2>3. Continues(all[m].prio, d.prio)
    <3>1. Continues(all[m].prio, W[m].prio)
      BY <1>7 DEF Edits
    <3>2. CASE d.prio = W[m].prio
      BY <3>1, <3>2
    <3>3. CASE c.do \in {"add", "append"} /\ Gains(W[m].prio, d.prio, c.g)
      <4>1. c.g \in Groups
        BY <1>1, <3>3, CallKinds DEF Handled
      <4>2. all[m].prio[c.g] = 0
        <5>1. SUFFICES ASSUME all[m].prio[c.g] # 0
                       PROVE  FALSE
          OBVIOUS
        <5>2. Rejoins(s[1], all[m])
          BY <1>1, <3>3, <5>1 DEF Rejoins
        <5>3. W[m] = all[m]
          BY <1>2, <1>7, <2>1, <5>2 DEF Edits
        <5> QED
          BY <3>3, <5>1, <5>3 DEF Gains
      <4> QED
        BY <1>4, <1>5, <3>1, <3>3, <4>1, <4>2, ContinuesGains
    <3>4. CASE c.do \in {"remove", "cut", "detach"} /\ Sheds(W[m].prio, d.prio, c.g)
      <4>1. c.g \in Groups
        BY <1>1, <3>4, CallKinds DEF Handled
      <4> QED
        BY <1>4, <1>5, <3>1, <3>4, <4>1, ContinuesSheds
    <3> QED
      BY <3>2, <3>3, <3>4 DEF Moves, c
  <2>4. \A o \in Members : V[o] # None => o = n /\ Continues(all[o].prio, V[o].prio)
    BY <1>6, <1>7, <2>1, <2>3 DEF Edits
  <2>5. \A i \in DOMAIN t : ~Rejoins(t[i], all[n])
    BY <1>3, <1>7 DEF Edits
  <2> QED
    BY <2>2, <2>4, <2>5 DEF Edits
<1>8. ASSUME NEW g \in Groups, Dissolves(g, all, s, W)
      PROVE  Dissolves(g, all, t, V)
  <2>1. c.do = "detach" /\ c.g = g /\ s[Len(s)].do = "drop"
    BY <1>1, <1>2, <1>8 DEF Dissolves, c
  <2>2. Len(s) # 1
    BY <1>1, <2>1
  <2>3. Len(t) # 0 /\ Len(t) \in DOMAIN t /\ t[Len(t)] = s[Len(s)]
    BY <1>1, <1>2, <2>2
  <2>4. t # <<>> /\ t[Len(t)].do = "drop"
    BY <2>1, <2>3
  <2>5. \A i \in DOMAIN t : t[i].do \in {"detach", "drop"} /\ t[i].g = g
    BY <1>3, <1>8 DEF Dissolves
  <2>6. Sheds(all[m].prio, d.prio, g)
    <3>1. Sheds(all[m].prio, W[m].prio, g)
      BY <1>8 DEF Dissolves
    <3>2. d.prio = W[m].prio \/ Sheds(W[m].prio, d.prio, g)
      BY <2>1 DEF Moves, c
    <3> QED
      BY <1>4, <1>5, <3>1, <3>2, ShedsTwice
  <2>7. \A o \in Members : V[o] # None => Sheds(all[o].prio, V[o].prio, g)
    BY <1>6, <1>8, <2>6 DEF Dissolves
  <2> QED
    BY <2>4, <2>5, <2>7 DEF Dissolves
<1> QED
  BY <1>7, <1>8 DEF Turn, t

\* The calls a sync turns into: none is about a group the member is in.
LEMMA TurnSynced ==
  ASSUME NEW s, NEW all, NEW W, Turn(all, s, W), 1 \in DOMAIN s, s[1].do = "sync",
         NEW m \in Members, m = s[1].m, W[m] # None,
         NEW t, \A i \in DOMAIN t : /\ t[i].m = m /\ t[i].do \in {"cut", "append"}
                                    /\ t[i].do = "append" => W[m].prio[t[i].g] = 0
  PROVE  Turn(all, t, W)
<1>1. PICK n \in Members : Edits(n, all, s, W)
  BY DEF Turn, Dissolves
<1>2. n = m
  BY <1>1 DEF Edits
<1>3. W[m] = all[m] /\ \A o \in Members : W[o] # None => o = m /\ Continues(all[o].prio, W[o].prio)
  BY <1>1, <1>2 DEF Edits, Rejoins
<1>4. \A i \in DOMAIN t : ~Rejoins(t[i], all[m])
  BY <1>3 DEF Rejoins
<1>5. Edits(m, all, t, W)
  BY <1>3, <1>4 DEF Edits
<1> QED
  BY <1>5 DEF Turn

\* One call about one member.
LEMMA TurnAlone ==
  ASSUME NEW all, NEW W, \A o \in Members : W[o] = None, NEW m \in Members, NEW c, c.m = m,
         c.do \notin {"detach", "drop"}
  PROVE  Turn(all, <<c>>, W)
<1>1. \A i \in DOMAIN <<c>> : <<c>>[i] = c /\ Len(<<c>>) = 1
  OBVIOUS
<1>2. Edits(m, all, <<c>>, W)
  BY <1>1 DEF Edits
<1> QED
  BY <1>2 DEF Turn

\* The member at the head of a request is read again when it is locked.
LEMMA TurnLocked ==
  ASSUME NEW s, 1 \in DOMAIN s, NEW all \in [Members -> Member], NEW W, NEW V,
         NEW m \in Members, m = s[1].m, Turn(all, s, W),
         \A o \in Members : V[o] = IF o = m THEN all[m] ELSE W[o]
  PROVE  Turn(all, s, V)
<1>1. all[m].prio \in Priorities
  BY ColumnTypes DEF Priorities
<1>2. Continues(all[m].prio, all[m].prio) /\ \A g \in Groups : Sheds(all[m].prio, all[m].prio, g)
  BY <1>1, ContinuesSame
<1>3. V[m] = all[m] /\ \A o \in Members \ {m} : V[o] = W[o]
  OBVIOUS
<1>4. ASSUME NEW n \in Members, Edits(n, all, s, W)
      PROVE  Edits(n, all, s, V)
  <2>1. n = m
    BY <1>4 DEF Edits
  <2>2. \A o \in Members : V[o] # None => o = n /\ Continues(all[o].prio, V[o].prio)
    BY <1>2, <1>3, <1>4, <2>1 DEF Edits
  <2> QED
    BY <1>3, <1>4, <2>1, <2>2 DEF Edits
<1>5. ASSUME NEW g \in Groups, Dissolves(g, all, s, W)
      PROVE  Dissolves(g, all, s, V)
  <2>1. \A o \in Members : V[o] # None => Sheds(all[o].prio, V[o].prio, g)
    BY <1>2, <1>3, <1>5 DEF Dissolves
  <2> QED
    BY <1>5, <2>1 DEF Dissolves
<1> QED
  BY <1>4, <1>5 DEF Turn

\* A new profile is in no group yet.
LEMMA TurnCreated ==
  ASSUME NEW all, NEW m \in Members, \A g \in Groups : all[m].prio[g] = 0,
         NEW s, \A i \in DOMAIN s : s[i].m = m /\ s[i].do = "add" /\ s[i].g \in Groups,
         NEW W, \A o \in Members \ {m} : W[o] = None
  PROVE  Turn(all, s, W)
<1>1. \A q : Continues(all[m].prio, q)
  BY DEF Continues
<1>2. \A i \in DOMAIN s : ~Rejoins(s[i], all[m])
  BY DEF Rejoins
<1>3. Edits(m, all, s, W)
  BY <1>1, <1>2 DEF Edits
<1> QED
  BY <1>3 DEF Turn

\* The request goes on alone.
LEMMA GoesOn ==
  ASSUME IInv', Serial', Agreed, NEW r \in Requests, UNCHANGED member, pc'[r] = "run",
         \A m \in Members : Agrees(m, member[m], loaded'[r][m], work'[r][m]),
         DropsLast(todo'[r], Written(r)'), Turn(member, todo'[r], work'[r]),
         \A m \in Members, g \in Groups :
           work'[r][m] # None /\ scope'[r] \notin {None, g} /\ work'[r][m].prio[g] # 0 =>
             InGroup(member[m], g)
  PROVE  Agreed'
<1>1. \A s \in Requests \ {r} : pc'[s] # "run"
  BY DEF Serial
<1>2. \A s \in Requests \ {r}, m \in Members : loaded'[s][m] = None /\ work'[s][m] = None
  BY <1>1 DEF IInv, Locks
<1>3. \A m \in Members : Orderly(m, member'[m])
  BY DEF Agreed
<1>4. \A s \in Requests, m \in Members : Agrees(m, member'[m], loaded'[s][m], work'[s][m])
  BY <1>2 DEF Agrees
<1>5. \A s \in Requests : pc'[s] = "run" => DropsLast(todo'[s], Written(s)')
  BY <1>1
<1>6. OnlyOwnAdded'
  <2> SUFFICES ASSUME NEW s \in Requests, NEW m \in Members, NEW g \in Groups,
                      work'[s][m] # None, scope'[s] \notin {None, g}, work'[s][m].prio[g] # 0
               PROVE  InGroup(member'[m], g)
    BY DEF OnlyOwnAdded, InGroup
  <2>1. s = r
    BY <1>2
  <2> QED
    BY <2>1
<1>7. (\A m \in Members : Orderly(m, member[m]))'
  BY <1>3 DEF Orderly, Arranged, Visible
<1>8. (\A s \in Requests, m \in Members : Agrees(m, member[m], loaded[s][m], work[s][m]))'
  BY <1>4 DEF Agrees, Orderly, Arranged, Visible, Session
<1>9. (\A s \in Requests : pc[s] = "run" => DropsLast(todo[s], Written(s)))'
  BY <1>5 DEF DropsLast
<1>10. \A s \in Requests : pc'[s] = "run" => Turn(member', todo'[s], work'[s])
  BY <1>1
<1>11. (\A s \in Requests : pc[s] = "run" => Turn(member, todo[s], work[s]))'
  BY <1>10 DEF Turn, Edits, Dissolves, Rejoins, Continues, Sheds
<1> QED
  BY <1>6, <1>7, <1>8, <1>9, <1>11 DEF Agreed

\* No request is under way any more.
LEMMA ComesToRest ==
  ASSUME IInv', \A s \in Requests : pc'[s] # "run", \A m \in Members : Orderly(m, member'[m])
  PROVE  Agreed'
<1>1. \A s \in Requests : /\ scope'[s] = None
                          /\ \A m \in Members : loaded'[s][m] = None /\ work'[s][m] = None
  BY DEF IInv, Locks
<1>2. \A s \in Requests, m \in Members : Agrees(m, member'[m], loaded'[s][m], work'[s][m])
  BY <1>1 DEF Agrees
<1>3. OnlyOwnAdded'
  BY <1>1 DEF OnlyOwnAdded, InGroup
<1>4. (\A m \in Members : Orderly(m, member[m]))'
  BY DEF Orderly, Arranged, Visible
<1>5. (\A s \in Requests, m \in Members : Agrees(m, member[m], loaded[s][m], work[s][m]))'
  BY <1>2 DEF Agrees, Orderly, Arranged, Visible, Session
<1> QED
  BY <1>3, <1>4, <1>5 DEF Agreed

LEMMA ClosedRests ==
  ASSUME IInv', Serial', NEW r \in Requests, pc \in [Requests -> {"idle", "run"} \cup Ended],
         NEW answer \in Ended, pc' = [pc EXCEPT ![r] = answer],
         \A m \in Members : Orderly(m, member'[m])
  PROVE  Agreed'
<1>1. pc'[r] = answer /\ answer # "idle" /\ answer # "run"
  BY DEF Ended
<1>2. \A s \in Requests : pc'[s] # "run"
  BY <1>1 DEF Serial
<1> QED
  BY <1>2, ComesToRest

LEMMA UndoRests ==
  ASSUME IInv, IInv', Serial', Agreed, NEW r \in Requests, NEW answer \in Ended,
         Undo(r, answer)
  PROVE  Agreed'
<1>1. pc' = [pc EXCEPT ![r] = answer] /\ UNCHANGED member
  BY DEF Undo, Close, Database
<1>2. pc \in [Requests -> {"idle", "run"} \cup Ended]
  BY DEF IInv, TypeInv
<1>3. \A m \in Members : Orderly(m, member'[m])
  BY <1>1 DEF Agreed
<1> QED
  BY <1>1, <1>2, <1>3, ClosedRests

LEMMA DropsOn ==
  ASSUME NEW s \in Seq(CallRecord), s # <<>>, NEW all, DropsLast(s, all), NEW new,
         Head(s).do = "detach" =>
           \A m \in Members, h \in Groups : new[m].prio[h] # 0 =>
             all[m].prio[h] # 0 /\ ~(m = Head(s).m /\ h = Head(s).g),
         Head(s).do # "drop"
  PROVE  DropsLast(Tail(s), new)
<1> DEFINE t == Tail(s)
<1>1. /\ t \in Seq(CallRecord) /\ Len(t) = Len(s) - 1 /\ Len(s) \in Nat /\ Len(s) # 0
      /\ \A i \in 1..Len(t) : t[i] = s[i + 1]
      /\ Head(s) = s[1]
  BY HeadTailProperties, EmptySeq
<1>2. DOMAIN t = 1..Len(t) /\ DOMAIN s = 1..Len(s)
  BY <1>1
<1> HIDE DEF t
<1> SUFFICES ASSUME NEW i \in DOMAIN t, t[i].do = "drop"
             PROVE  /\ \A j \in DOMAIN t : j = i \/ (j < i /\ t[j].do = "detach" /\ t[j].g = t[i].g)
                    /\ \A m \in Members : new[m].prio[t[i].g] # 0 =>
                         \E j \in DOMAIN t : t[j].do = "detach" /\ t[j].m = m
  BY DEF DropsLast, t
<1> DEFINE k == i + 1
<1>3. k \in DOMAIN s /\ s[k] = t[i] /\ 1 \in DOMAIN s /\ k # 1 /\ i \in Nat
  BY <1>1, <1>2
<1>4. /\ \A j \in DOMAIN s : j = k \/ (j < k /\ s[j].do = "detach" /\ s[j].g = s[k].g)
      /\ \A m \in Members : all[m].prio[s[k].g] # 0 =>
           \E j \in DOMAIN s : s[j].do = "detach" /\ s[j].m = m
  BY <1>3 DEF DropsLast
<1>5. \A j \in DOMAIN t : j = i \/ (j < i /\ t[j].do = "detach" /\ t[j].g = t[i].g)
  <2> SUFFICES ASSUME NEW j \in DOMAIN t, j # i
               PROVE  j < i /\ t[j].do = "detach" /\ t[j].g = t[i].g
    OBVIOUS
  <2>1. j + 1 \in DOMAIN s /\ s[j + 1] = t[j] /\ j \in Nat /\ j + 1 # k
    BY <1>1, <1>2, <1>3
  <2>2. j + 1 < k /\ s[j + 1].do = "detach" /\ s[j + 1].g = s[k].g
    BY <1>4, <2>1
  <2> QED
    BY <1>3, <2>1, <2>2
<1>6. ASSUME NEW m \in Members, new[m].prio[t[i].g] # 0
      PROVE  \E j \in DOMAIN t : t[j].do = "detach" /\ t[j].m = m
  <2>1. Head(s).do = "detach" /\ Head(s).g = t[i].g
    BY <1>1, <1>3, <1>4
  <2>2. t[i].g \in Groups
    BY <1>1, <1>2, CallKinds
  <2>3. all[m].prio[s[k].g] # 0 /\ m # s[1].m
    BY <1>1, <1>3, <1>6, <2>1, <2>2
  <2>4. PICK j \in DOMAIN s : s[j].do = "detach" /\ s[j].m = m
    BY <1>4, <2>3
  <2>5. j - 1 \in DOMAIN t /\ s[j] = t[j - 1]
    BY <1>1, <1>2, <2>3, <2>4
  <2> QED
    BY <2>4, <2>5
<1> QED
  BY <1>5, <1>6

\* A group that no member is in any more takes nothing with it.
LEMMA CascadeOrderly ==
  ASSUME NEW m \in Members, NEW db \in Member, Orderly(m, db), NEW g \in Groups, db.prio[g] = 0
  PROVE  Orderly(m, Cascade(db, g))
<1> DEFINE c == Cascade(db, g)
<1>1. /\ db.prio \in [Groups -> Nat] /\ db.row \in [Groups -> Nat] /\ db.gm \in [Groups -> Nat]
      /\ db.gmprim \subseteq Groups /\ db.ptr \in Groups \cup {None} /\ None \notin Groups
  BY ColumnTypes
<1>2. db.ptr # g
  BY <1>1 DEF Orderly, Arranged
<1>3. /\ c.prio = [db.prio EXCEPT ![g] = 0] /\ c.row = [db.row EXCEPT ![g] = 0]
      /\ c.gm = [db.gm EXCEPT ![g] = 0] /\ c.gmprim = db.gmprim \ {g}
      /\ c.ptr = db.ptr /\ c.num = db.num
  BY <1>2 DEF Cascade, Member
<1> HIDE DEF c
<1>4. \A h \in Groups : /\ c.prio[h] = db.prio[h]
                        /\ h # g => c.row[h] = db.row[h] /\ c.gm[h] = db.gm[h]
                        /\ h = g => c.gm[h] = 0
  BY <1>1, <1>3
<1>5. Arranged(m, c)
  BY <1>1, <1>3, <1>4 DEF Orderly, Arranged
<1>6. Visible(c)
  BY <1>1, <1>2, <1>3, <1>4 DEF Orderly, Arranged, Visible, Member
<1> QED
  BY <1>5, <1>6 DEF Orderly, c

LEMMA WrittenOrderly ==
  ASSUME Agreed, NEW r \in Requests, NEW m \in Members
  PROVE  Orderly(m, Written(r)[m])
<1>1. Written(r)[m] = IF work[r][m] # None THEN work[r][m] ELSE member[m]
  BY DEF Written
<1>2. Orderly(m, member[m]) /\ Agrees(m, member[m], loaded[r][m], work[r][m])
  BY DEF Agreed
<1> QED
  BY <1>1, <1>2 DEF Agrees

\* What a call may add, what a detach must take away, and the order they keep.
Confined(r, db) ==
  /\ \A h \in Groups : db.prio[h] # 0 => View(r).db.prio[h] # 0 \/ scope[r] \in {None, h}
  /\ Head(todo[r]).do = "detach" =>
       \A h \in Groups : db.prio[h] # 0 => View(r).db.prio[h] # 0 /\ h # Target(r)
  /\ Moves(Head(todo[r]), View(r).db.prio, db.prio)

LEMMA ReadyKnows ==
  ASSUME IInv, Agreed, NEW r \in Requests, NEW do, Ready(r, do), do # "drop"
  PROVE  /\ Subject(r) \in Members /\ Knowing(View(r)) /\ Orderly(Subject(r), View(r).db)
         /\ EnsureLegacy(View(r)) = View(r)
         /\ do \in Handled => Target(r) \in Groups
<1>1. /\ Subject(r) \in Members /\ View(r) \in Views
      /\ View(r).db = work[r][Subject(r)] /\ View(r).ss = loaded[r][Subject(r)]
      /\ do \in Handled => Target(r) \in Groups
  BY ReadyType DEF IInv
<1>2. work[r][Subject(r)] # None
  BY DEF Ready
<1>3. Orderly(Subject(r), View(r).db) /\ View(r).ss = Session(View(r).db)
  BY <1>1, <1>2 DEF Agreed, Agrees
<1>4. Knowing(View(r))
  BY <1>1, <1>3 DEF Knowing
<1> QED
  BY <1>1, <1>3, <1>4, Unlegacy DEF Orderly

\* The session has made a call and goes on with the rest.
LEMMA DoesAgrees ==
  ASSUME IInv, IInv', Serial', Agreed, NEW r \in Requests, NEW do, Ready(r, do), do # "drop",
         NEW v, NEW rest, NEW numbers, Does(r, v, rest, numbers),
         Knowing(v), Orderly(Subject(r), v.db), Confined(r, v.db),
         \/ rest = Tail(todo[r]) /\ do # "sync"
         \/ /\ \A i \in DOMAIN rest : rest[i].do # "drop"
            /\ v.db = View(r).db /\ Turn(member, rest, work[r])
  PROVE  Agreed'
<1> DEFINE m == Subject(r)
<1>1. /\ pc[r] = "run" /\ m \in Members /\ View(r).db = work[r][m]
      /\ Head(todo[r]).do = do
  BY ReadyType DEF IInv
<1>2. work[r][m] # None /\ todo[r] # <<>>
  BY DEF Ready, Doing
<1>3. /\ pc \in [Requests -> {"idle", "run"} \cup Ended]
      /\ todo \in [Requests -> Seq(CallRecord)]
      /\ loaded \in [Requests -> [Members -> Loaded \cup {None}]]
      /\ work \in [Requests -> [Members -> Member \cup {None}]]
  BY DEF IInv, TypeInv
<1>4. /\ work' = [work EXCEPT ![r][m] = v.db] /\ loaded' = [loaded EXCEPT ![r][m] = v.ss]
      /\ todo' = [todo EXCEPT ![r] = rest] /\ UNCHANGED <<member, pc, scope>>
  BY DEF Does
<1>5. v.db \in Member /\ v.db # None /\ v.ss = Session(v.db)
  BY KnowingColumns, Parameters DEF Knowing
<1> HIDE DEF m
<1>6. \A o \in Members : /\ work'[r][o] = IF o = m THEN v.db ELSE work[r][o]
                         /\ loaded'[r][o] = IF o = m THEN v.ss ELSE loaded[r][o]
  BY <1>1, <1>3, <1>4
<1>7. todo'[r] = rest /\ pc'[r] = "run" /\ scope'[r] = scope[r]
  BY <1>1, <1>3, <1>4
<1>8. \A o \in Members : Agrees(o, member[o], loaded'[r][o], work'[r][o])
  <2>1. \A o \in Members : Agrees(o, member[o], loaded[r][o], work[r][o])
    BY DEF Agreed
  <2>2. Agrees(m, member[m], v.ss, v.db)
    BY <1>5 DEF Agrees, m
  <2> QED
    BY <1>6, <2>1, <2>2
<1>9. DropsLast(rest, Written(r)')
  <2>1. CASE \A i \in DOMAIN rest : rest[i].do # "drop"
    BY <2>1 DEF DropsLast
  <2>2. CASE rest = Tail(todo[r])
    <3> DEFINE all == Written(r)
               new == Written(r)'
    <3>1. todo[r] \in Seq(CallRecord) /\ DropsLast(todo[r], all)
      BY <1>1, <1>3 DEF Agreed
    <3>2. \A o \in Members : /\ new[o] = IF o = m THEN v.db ELSE all[o]
                             /\ o = m => all[o] = View(r).db
      <4>1. \A o \in Members : new[o] = IF work'[r][o] # None THEN work'[r][o] ELSE member[o]
        BY <1>4 DEF Written
      <4>2. \A o \in Members : all[o] = IF work[r][o] # None THEN work[r][o] ELSE member[o]
        BY DEF Written
      <4> HIDE DEF new, all
      <4> QED
        BY <1>1, <1>2, <1>5, <1>6, <4>1, <4>2 DEF m
    <3> HIDE DEF new, all
    <3>3. Head(todo[r]).do # "drop"
      BY <1>1
    <3>4. ASSUME Head(todo[r]).do = "detach"
          PROVE  \A o \in Members, h \in Groups : new[o].prio[h] # 0 =>
                   all[o].prio[h] # 0 /\ ~(o = Head(todo[r]).m /\ h = Head(todo[r]).g)
      <4>1. Head(todo[r]).m = m /\ Head(todo[r]).g = Target(r)
        BY DEF Subject, Target, m
      <4>2. \A h \in Groups : v.db.prio[h] # 0 => View(r).db.prio[h] # 0 /\ h # Target(r)
        BY <3>4 DEF Confined
      <4> QED
        BY <3>2, <4>1, <4>2
    <3>5. DropsLast(Tail(todo[r]), new)
      BY <1>2, <3>1, <3>3, <3>4, DropsOn
    <3> QED
      BY <2>2, <3>5 DEF new
  <2> QED
    BY <2>1, <2>2
<1>10. ASSUME NEW o \in Members, NEW g \in Groups, work'[r][o] # None,
              scope'[r] \notin {None, g}, work'[r][o].prio[g] # 0
       PROVE  InGroup(member[o], g)
  <2>1. work[r][o] # None /\ work[r][o].prio[g] # 0
    <3>1. CASE o = m
      <4>1. View(r).db.prio[g] # 0
        BY <1>6, <1>7, <1>10, <3>1 DEF Confined
      <4> QED
        BY <1>1, <1>2, <3>1, <4>1 DEF m
    <3>2. CASE o # m
      BY <1>6, <1>10, <3>2
    <3> QED
      BY <3>1, <3>2
  <2> QED
    BY <1>7, <1>10, <2>1 DEF Agreed, OnlyOwnAdded
<1>11. Turn(member, rest, work'[r])
  <2>1. CASE rest = Tail(todo[r]) /\ do # "sync"
    <3>1. /\ todo[r] \in Seq(CallRecord) /\ work[r] \in [Members -> Member \cup {None}]
          /\ Turn(member, todo[r], work[r]) /\ member \in [Members -> Member]
      BY <1>1, <1>3 DEF Agreed, IInv, TypeInv
    <3>2. m \in Members /\ m = Head(todo[r]).m
      BY <1>1 DEF m, Subject
    <3>3. Moves(Head(todo[r]), work[r][m].prio, v.db.prio)
      BY <1>1 DEF Confined
    <3>4. Head(todo[r]).do \notin {"drop", "sync"}
      BY <1>1, <2>1
    <3>5. v.db \in Member /\ \A o \in Members : work'[r][o] = IF o = m THEN v.db ELSE work[r][o]
      BY <1>5, <1>6
    <3> DEFINE V == work'[r]
               d == v.db
    <3>6. d \in Member /\ \A o \in Members : V[o] = IF o = m THEN d ELSE work[r][o]
      BY <3>5
    <3>7. Moves(Head(todo[r]), work[r][m].prio, d.prio)
      BY <3>3
    <3> HIDE DEF V, d
    <3>8. Turn(member, Tail(todo[r]), V)
      BY <1>2, <3>1, <3>2, <3>4, <3>6, <3>7, TurnDone DEF m
    <3> QED
      BY <2>1, <3>8 DEF V
  <2>2. CASE v.db = View(r).db /\ Turn(member, rest, work[r])
    <3>1. work'[r] = work[r]
      <4>1. v.db = work[r][m]
        BY <1>1, <2>2 DEF m
      <4>2. work[r] \in [Members -> Member \cup {None}] /\ work'[r] = [work[r] EXCEPT ![m] = v.db]
        BY <1>3, <1>4
      <4> QED
        BY <4>1, <4>2
    <3> QED
      BY <2>2, <3>1
  <2> QED
    BY <2>1, <2>2
<1> QED
  BY <1>4, <1>7, <1>8, <1>9, <1>10, <1>11, GoesOn

LEMMA StepAgrees ==
  ASSUME IInv, IInv', Serial', Agreed, NEW r \in Requests, NEW do, Ready(r, do),
         do \notin {"drop", "sync"},
         NEW v, NEW numbers, Step(r, v, numbers),
         Knowing(v), Orderly(Subject(r), v.db), Confined(r, v.db)
  PROVE  Agreed'
<1>1. CASE Violates(v.db)
  <2>1. Undo(r, "failed") /\ "failed" \in Ended
    BY <1>1 DEF Step, Ended
  <2> QED
    BY <2>1, UndoRests
<1>2. CASE ~Violates(v.db)
  <2>1. Does(r, v, Tail(todo[r]), numbers)
    BY <1>2 DEF Step, Does, Database
  <2> QED
    BY <2>1, DoesAgrees
<1> QED
  BY <1>1, <1>2

LEMMA ConcludeAgrees ==
  ASSUME IInv, IInv', Serial', Agreed, NEW r \in Requests, NEW do, Ready(r, do),
         do \notin {"drop", "sync"},
         NEW o, Conclude(r, o), Yields(Subject(r), o), Confined(r, o.w.db)
  PROVE  Agreed'
<1> DEFINE m == Subject(r)
           found == FoundNumber(m, o.w, o.assign)
           next == NextNumber(r, o.w, o.assign)
<1>1. /\ m \in Members /\ Knowing(o.w) /\ Arranged(m, o.w.db) /\ o.w \in Views
      /\ Visible(o.w.db) \/ (o.assign # None /\ o.w.db.ptr = o.assign)
      /\ o.assign # None => o.assign \in Groups /\ o.w.db.prio[o.assign] # 0
  BY ReadyKnows DEF Yields, Knowing
<1>2. ASSUME o.assign # None, NEW n \in Nat \ {0}, NEW numbers,
             Step(r, AssignMemberId(m, o.w, o.assign, n), numbers)
      PROVE  Agreed'
  <2> DEFINE v == AssignMemberId(m, o.w, o.assign, n)
  <2>1. Knowing(v) /\ Orderly(m, v.db) /\ v.db.prio = o.w.db.prio
    BY <1>1, <1>2, AssignKnows
  <2>2. Step(r, v, numbers)
    BY <1>2
  <2> HIDE DEF v
  <2>3. Confined(r, v.db)
    BY <2>1 DEF Confined
  <2> QED
    BY <2>1, <2>2, <2>3, StepAgrees
<1>3. CASE o.assign = None
  <2>1. Step(r, o.w, drawn)
    BY <1>3 DEF Conclude
  <2>2. Orderly(m, o.w.db)
    BY <1>1, <1>3 DEF Orderly
  <2> QED
    BY <1>1, <2>1, <2>2, StepAgrees
<1>4. CASE o.assign # None /\ Draws(r, o) = None
  <2>1. Step(r, AssignMemberId(m, o.w, o.assign, found), drawn)
    BY <1>4 DEF Conclude
  <2>2. found # 0
    BY <1>4 DEF Draws
  <2>3. found \in Nat
    BY <1>1, <1>4, FoundNumberType
  <2> HIDE DEF found
  <2> QED
    BY <1>2, <1>4, <2>1, <2>2, <2>3
<1>5. CASE o.assign # None /\ Draws(r, o) # None
  <2>1. \/ Step(r, AssignMemberId(m, o.w, o.assign, next),
                [drawn EXCEPT ![r][o.assign] = Append(@, next)])
        \/ Undo(r, "failed")
    BY <1>5 DEF Conclude
  <2>2. next \in Nat \ {0}
    BY <1>1, <1>5, NextNumberType DEF IInv, Fresh
  <2> HIDE DEF next
  <2>3. "failed" \in Ended
    BY DEF Ended
  <2> QED
    BY <1>2, <1>5, <2>1, <2>2, <2>3, UndoRests
<1> QED
  BY <1>3, <1>4, <1>5

-----------------------------------------------------------------------------
(* The calls, one by one.                                                  *)

LEMMA AddMembershipAgrees ==
  ASSUME IInv, IInv', Serial', Agreed, NEW r \in Requests, NEW do \in {"add", "append"},
         Ready(r, do), Conclude(r, Addition(View(r), Target(r)))
  PROVE  Agreed'
<1> DEFINE o == Addition(View(r), Target(r))
<1>1. /\ Subject(r) \in Members /\ Knowing(View(r)) /\ Orderly(Subject(r), View(r).db)
      /\ Target(r) \in Groups
  BY ReadyKnows DEF Handled
<1>2. /\ Yields(Subject(r), o)
      /\ \A h \in Groups : o.w.db.prio[h] # 0 => View(r).db.prio[h] # 0 \/ h = Target(r)
  BY <1>1, AdditionKnows
<1>3. Conclude(r, o)
  OBVIOUS
<1>a. o.w.db.prio = View(r).db.prio \/ Gains(View(r).db.prio, o.w.db.prio, Target(r))
  BY <1>1, AdditionOrder
<1> HIDE DEF o
<1>4. Head(todo[r]).do = do /\ (scope[r] # None => Mild(Head(todo[r]), scope[r]))
  BY ReadyType DEF IInv
<1>5. scope[r] \in {None, Target(r)}
  BY <1>4 DEF Mild, Target
<1>b. Moves(Head(todo[r]), View(r).db.prio, o.w.db.prio)
  BY <1>4, <1>a DEF Moves, Target
<1>6. Confined(r, o.w.db)
  BY <1>2, <1>4, <1>5, <1>b DEF Confined
<1> QED
  BY <1>2, <1>3, <1>6, ConcludeAgrees

LEMMA RemoveMembershipAgrees ==
  ASSUME IInv, IInv', Serial', Agreed, NEW r \in Requests,
         NEW do \in {"remove", "detach", "cut"}, RemoveMembership(r, do)
  PROVE  Agreed'
<1> DEFINE o == Removal(Subject(r), View(r), Target(r))
<1>1. Ready(r, do) /\ Conclude(r, o)
  BY DEF RemoveMembership
<1>2. /\ Subject(r) \in Members /\ Knowing(View(r)) /\ Orderly(Subject(r), View(r).db)
      /\ Target(r) \in Groups /\ EnsureLegacy(View(r)) = View(r)
  BY <1>1, ReadyKnows DEF Handled
<1>3. View(r).db.prio[Target(r)] # 0
  BY <1>2 DEF RemoveMembership
<1>4. /\ Yields(Subject(r), o)
      /\ \A h \in Groups : o.w.db.prio[h] # 0 => View(r).db.prio[h] # 0 /\ h # Target(r)
  BY <1>2, <1>3, RemovalKnows
<1>a. Sheds(View(r).db.prio, o.w.db.prio, Target(r))
  BY <1>2, <1>3, RemovalOrder
<1> HIDE DEF o
<1>b. Moves(Head(todo[r]), View(r).db.prio, o.w.db.prio)
  BY <1>1, <1>a DEF Moves, Target, Ready, Doing
<1>5. Confined(r, o.w.db)
  BY <1>4, <1>b DEF Confined
<1> QED
  BY <1>1, <1>4, <1>5, ConcludeAgrees

LEMMA NothingToRemoveAgrees ==
  ASSUME IInv, IInv', Serial', Agreed, NEW r \in Requests, NothingToRemove(r)
  PROVE  Agreed'
<1>1. CASE Undo(r, "rejected")
  <2>1. "rejected" \in Ended
    BY DEF Ended
  <2> QED
    BY <1>1, <2>1, UndoRests
<1>2. CASE /\ Ready(r, "detach") /\ EnsureLegacy(View(r)).db.prio[Target(r)] = 0
           /\ Step(r, EnsureLegacy(View(r)), drawn)
  <2>1. /\ Knowing(View(r)) /\ Orderly(Subject(r), View(r).db)
        /\ EnsureLegacy(View(r)) = View(r)
    BY <1>2, ReadyKnows
  <2>2. Step(r, View(r), drawn) /\ View(r).db.prio[Target(r)] = 0
    BY <1>2, <2>1
  <2>3. Confined(r, View(r).db)
    BY <2>2 DEF Confined, Moves
  <2> QED
    BY <1>2, <2>1, <2>2, <2>3, StepAgrees
<1> QED
  BY <1>1, <1>2 DEF NothingToRemove

LEMMA ApproveAgrees ==
  ASSUME IInv, IInv', Serial', Agreed, NEW r \in Requests, Approve(r)
  PROVE  Agreed'
<1> DEFINE o == Approved(View(r))
<1>1. Ready(r, "approve") /\ Conclude(r, o)
  BY DEF Approve
<1>2. /\ Subject(r) \in Members /\ Knowing(View(r)) /\ Orderly(Subject(r), View(r).db)
  BY <1>1, ReadyKnows
<1>3. Yields(Subject(r), o) /\ o.w = View(r)
  BY <1>2, ApprovedKnows DEF IInv, TypeInv
<1> HIDE DEF o
<1>4. Head(todo[r]).do = "approve"
  BY <1>1 DEF Ready, Doing
<1>5. Confined(r, o.w.db)
  BY <1>3, <1>4 DEF Confined, Moves
<1> QED
  BY <1>1, <1>3, <1>5, ConcludeAgrees

LEMMA AppendMembershipAgrees ==
  ASSUME IInv, IInv', Serial', Agreed, NEW r \in Requests, AppendMembership(r)
  PROVE  Agreed'
<1>1. Ready(r, "append")
  BY DEF AppendMembership
<1>2. CASE Target(r) \in groups
  <2>1. Conclude(r, Addition(View(r), Target(r)))
    BY <1>2 DEF AppendMembership
  <2> QED
    BY <1>1, <2>1, AddMembershipAgrees
<1>3. CASE Target(r) \notin groups
  <2>1. Step(r, View(r), drawn)
    BY <1>3 DEF AppendMembership
  <2>2. Knowing(View(r)) /\ Orderly(Subject(r), View(r).db)
    BY <1>1, ReadyKnows
  <2>3. Head(todo[r]).do = "append"
    BY <1>1 DEF Ready, Doing
  <2>4. Confined(r, View(r).db)
    BY <2>3 DEF Confined, Moves
  <2> QED
    BY <1>1, <2>1, <2>2, <2>4, StepAgrees
<1> QED
  BY <1>2, <1>3

LEMMA SyncMembershipsAgrees ==
  ASSUME IInv, IInv', Serial', Agreed, NEW r \in Requests, SyncMemberships(r)
  PROVE  Agreed'
<1> DEFINE m == Subject(r)
           w == EnsureLegacy(View(r))
           wish == Head(todo[r]).wish
           gone == Gone(w.db, wish, scope[r])
           new == ToSet(wish) \ Rows(w.db)
<1>1. Ready(r, "sync")
  BY DEF SyncMemberships
<1>2. /\ m \in Members /\ Knowing(View(r)) /\ Orderly(m, View(r).db) /\ w = View(r)
  BY <1>1, ReadyKnows
<1>3. Head(todo[r]).do = "sync" /\ Head(todo[r]) \in CallRecord
  BY <1>1, ReadyType DEF IInv
<1> HIDE DEF w, wish
<1>4. CASE Violates(w.db) \/ ~MayAdd(new, scope[r])
  <2>1. Undo(r, "rejected") /\ "rejected" \in Ended
    BY <1>4 DEF SyncMemberships, w, wish, Ended
  <2> QED
    BY <2>1, UndoRests
<1>5. CASE ~(Violates(w.db) \/ ~MayAdd(new, scope[r]))
  <2>1. PICK cuts \in InOrder(w.db, gone), adds \in Appended(wish, new) :
          todo' = [todo EXCEPT ![r] =
                     [i \in 1..Len(cuts) |-> Call("cut", m, cuts[i])]
                       \o [i \in 1..Len(adds) |-> Call("append", m, adds[i])]]
    BY <1>5 DEF SyncMemberships, w, wish
  <2> DEFINE a == [i \in 1..Len(cuts) |-> Call("cut", m, cuts[i])]
             b == [i \in 1..Len(adds) |-> Call("append", m, adds[i])]
  <2>2. gone \in SUBSET Groups /\ new \in SUBSET Groups
    <3>1. wish \in Seq(Groups)
      BY <1>3, CallKinds DEF wish
    <3>2. \A i \in DOMAIN wish : wish[i] \in Groups
      BY <3>1, ElementOfSeq
    <3> QED
      BY <3>2 DEF Gone, Rows, ToSet
  <2>3. cuts \in SetToSeqs(gone) /\ adds \in SetToSeqs(new)
    BY <2>1 DEF InOrder, Appended
  <2> HIDE DEF gone, new
  <2>4. a \in Seq(CallRecord) /\ \A i \in DOMAIN a : \E g \in gone : a[i] = Call("cut", m, g)
    BY <1>2, <2>2, <2>3, CallsFor
  <2>5. b \in Seq(CallRecord) /\ \A i \in DOMAIN b : \E g \in new : b[i] = Call("append", m, g)
    BY <1>2, <2>2, <2>3, CallsFor
  <2>6. todo' = [todo EXCEPT ![r] = a \o b]
    BY <2>1
  <2> HIDE DEF a, b
  <2>7. \A i \in DOMAIN (a \o b) :
          (\E j \in DOMAIN a : (a \o b)[i] = a[j]) \/ (\E j \in DOMAIN b : (a \o b)[i] = b[j])
    BY <2>4, <2>5, Joined
  <2>8. \A g : Call("cut", m, g).do # "drop" /\ Call("append", m, g).do # "drop"
    BY DEF Call
  <2>9. \A i \in DOMAIN (a \o b) : (a \o b)[i].do # "drop"
    BY <2>4, <2>5, <2>7, <2>8
  <2>10. Does(r, View(r), a \o b, drawn)
    <3>1. Does(r, w, a \o b, drawn)
      BY <1>5, <2>6 DEF SyncMemberships, Does, Database, w, wish, new
    <3> QED
      BY <1>2, <3>1
  <2>11. Confined(r, View(r).db)
    BY <1>3 DEF Confined, Moves
  <2>12. \A i \in DOMAIN (a \o b) :
           /\ (a \o b)[i].m = m /\ (a \o b)[i].do \in {"cut", "append"}
           /\ (a \o b)[i].do = "append" => View(r).db.prio[(a \o b)[i].g] = 0
    <3>1. \A g \in new : View(r).db.prio[g] = 0
      BY <1>2, <2>2 DEF new, Rows
    <3>2. /\ \A g : Call("cut", m, g).do = "cut" /\ Call("cut", m, g).m = m
          /\ \A g : /\ Call("append", m, g).do = "append" /\ Call("append", m, g).m = m
                   /\ Call("append", m, g).g = g
      BY DEF Call
    <3> QED
      BY <2>4, <2>5, <2>7, <3>1, <3>2
  <2>13. Turn(member, a \o b, work[r])
    <3>1. /\ pc[r] = "run" /\ todo[r] # <<>> /\ todo[r] \in Seq(CallRecord)
          /\ work[r][m] # None /\ View(r).db = work[r][m]
      BY <1>1 DEF Ready, Doing, View, IInv, TypeInv
    <3>2. 1 \in DOMAIN todo[r] /\ Head(todo[r]) = todo[r][1]
      BY <3>1
    <3>3. Turn(member, todo[r], work[r]) /\ m = todo[r][1].m /\ todo[r][1].do = "sync"
      BY <1>3, <3>1, <3>2 DEF Agreed, Subject
    <3> DEFINE t == a \o b
    <3>4. \A i \in DOMAIN t : /\ t[i].m = m /\ t[i].do \in {"cut", "append"}
                              /\ t[i].do = "append" => work[r][m].prio[t[i].g] = 0
      BY <2>12, <3>1
    <3>5. m \in Members
      BY <1>2
    <3> HIDE DEF m, t
    <3>6. Turn(member, t, work[r])
      BY <3>1, <3>2, <3>3, <3>4, <3>5, TurnSynced, ZenonT(60)
    <3> QED
      BY <3>6 DEF t
  <2> HIDE DEF m
  <2> QED
    BY <1>1, <1>2, <2>9, <2>10, <2>11, <2>13, DoesAgrees DEF m
<1> QED
  BY <1>4, <1>5

-----------------------------------------------------------------------------
(* The ends of a request, and its beginning.                               *)

LEMMA PublishAgrees ==
  ASSUME IInv, IInv', Serial', Agreed, NEW r \in Requests, NEW all, NEW rest,
         Publish(r, all, rest), \A m \in Members : Orderly(m, all[m])
  PROVE  Agreed'
<1>1. "failed" \in Ended /\ "done" \in Ended /\ pc \in [Requests -> {"idle", "run"} \cup Ended]
  BY DEF Ended, IInv, TypeInv
<1>2. CASE Clash(all)
  <2>1. Undo(r, "failed")
    BY <1>2 DEF Publish
  <2> QED
    BY <1>1, <2>1, UndoRests
<1>3. CASE ~Clash(all)
  <2>1. member' = all /\ pc' = [pc EXCEPT ![r] = "done"]
    BY <1>3 DEF Publish, Close
  <2>2. \A m \in Members : Orderly(m, member'[m])
    BY <2>1
  <2> QED
    BY <1>1, <2>1, <2>2, ClosedRests
<1> QED
  BY <1>2, <1>3

LEMMA CommitAgrees ==
  ASSUME IInv, IInv', Serial', Agreed, NEW r \in Requests, Commit(r)
  PROVE  Agreed'
<1>1. Publish(r, Written(r), groups)
  BY DEF Commit
<1> QED
  BY <1>1, WrittenOrderly, PublishAgrees

\* Before a group is dropped, the last row of it is gone.
LEMMA NoneLeft ==
  ASSUME IInv, Agreed, NEW r \in Requests, Doing(r, "drop"), Target(r) \in groups
  PROVE  /\ Target(r) \in Groups
         /\ \A m \in Members : Written(r)[m].prio[Target(r)] = 0
<1> DEFINE g == Target(r)
<1>1. pc[r] = "run" /\ todo[r] # <<>> /\ Head(todo[r]).do = "drop"
  BY DEF Doing
<1>2. todo[r] \in Seq(CallRecord) /\ g \in Groups
  BY DEF IInv, TypeInv
<1>3. 1 \in DOMAIN todo[r] /\ Head(todo[r]) = todo[r][1] /\ DOMAIN todo[r] = 1..Len(todo[r])
  BY <1>1, <1>2
<1>4. DropsLast(todo[r], Written(r))
  BY <1>1 DEF Agreed
<1>5. \A j \in DOMAIN todo[r] : j = 1
  <2>1. \A j \in DOMAIN todo[r] : j = 1 \/ j < 1
    BY <1>1, <1>3, <1>4 DEF DropsLast
  <2> QED
    BY <1>3, <2>1
<1>6. todo[r][1].do # "detach" /\ todo[r][1].g = g
  BY <1>1, <1>3 DEF Target
<1> QED
  BY <1>1, <1>2, <1>3, <1>4, <1>5, <1>6 DEF DropsLast

LEMMA DropGroupAgrees ==
  ASSUME IInv, IInv', Serial', Agreed, NEW r \in Requests, DropGroup(r)
  PROVE  Agreed'
<1> DEFINE g == Target(r)
           all == [m \in Members |-> Cascade(Written(r)[m], g)]
<1>1. CASE g \notin groups
  <2>1. Undo(r, "failed") /\ "failed" \in Ended
    BY <1>1 DEF DropGroup, Ended
  <2> QED
    BY <2>1, UndoRests
<1>2. CASE g \in groups
  <2>1. Publish(r, all, groups \ {g})
    BY <1>2 DEF DropGroup
  <2>2. Doing(r, "drop")
    BY DEF DropGroup
  <2>3. g \in Groups /\ \A m \in Members : Written(r)[m].prio[g] = 0
    BY <1>2, <2>2, NoneLeft
  <2>4. \A m \in Members : Written(r)[m] \in Member
    BY WrittenType DEF IInv, Publishable
  <2> HIDE DEF g
  <2>5. \A m \in Members : Orderly(m, all[m])
    BY <2>3, <2>4, WrittenOrderly, CascadeOrderly
  <2> HIDE DEF all
  <2> QED
    BY <2>1, <2>5, PublishAgrees
<1> QED
  BY <1>1, <1>2

\* A call that is the whole of a request drops no group.
LEMMA Single ==
  ASSUME NEW c, c.do # "drop", NEW all
  PROVE  DropsLast(<<c>>, all)
<1>1. \A i \in DOMAIN <<c>> : <<c>>[i] = c
  OBVIOUS
<1> QED
  BY <1>1 DEF DropsLast

LEMMA BeginAgrees ==
  ASSUME IInv, IInv', Serial', Agreed, NEW r \in Requests, NEW kind, NEW admin, NEW m \in Members,
         NEW c, c.m = m, c.do \notin {"detach", "drop"}, Begin(r, kind, admin, <<c>>), Loads(r, m),
         UNCHANGED <<Database, work, drawn>>
  PROVE  Agreed'
<1>1. /\ pc[r] = "idle" /\ pc' = [pc EXCEPT ![r] = "run"]
      /\ todo' = [todo EXCEPT ![r] = <<c>>]
      /\ loaded' = [loaded EXCEPT ![r][m] = Session(member[m])]
      /\ UNCHANGED <<member, work>>
  BY DEF Begin, Loads, Database
<1>2. /\ pc \in [Requests -> {"idle", "run"} \cup Ended]
      /\ todo \in [Requests -> Seq(CallRecord)]
      /\ loaded \in [Requests -> [Members -> Loaded \cup {None}]]
  BY DEF IInv, TypeInv
<1>3. pc'[r] = "run" /\ todo'[r] = <<c>>
  BY <1>1, <1>2
<1>4. \A o \in Members : work'[r][o] = None /\ loaded'[r][o] \in {None, Session(member[o])}
  <2>1. \A o \in Members : work[r][o] = None /\ loaded[r][o] = None
    BY <1>1, IdleValues
  <2> QED
    BY <1>1, <1>2, <2>1
<1>5. \A o \in Members : Agrees(o, member[o], loaded'[r][o], work'[r][o])
  BY <1>4 DEF Agrees
<1>6. DropsLast(todo'[r], Written(r)')
  BY <1>3, Single
<1>7. Turn(member, todo'[r], work'[r])
  BY <1>3, <1>4, TurnAlone
<1> QED
  BY <1>1, <1>3, <1>4, <1>5, <1>6, <1>7, GoesOn

LEMMA LoadMemberAgrees ==
  ASSUME IInv, IInv', Serial', Agreed, NEW r \in Requests, LoadMember(r)
  PROVE  Agreed'
<1> DEFINE m == Subject(r)
<1>1. /\ pc[r] = "run" /\ loaded[r][m] = None
      /\ loaded' = [loaded EXCEPT ![r][m] = Session(member[m])]
      /\ UNCHANGED <<member, pc, todo, scope, work>>
  BY DEF LoadMember, Doing, Loads, Database
<1>2. loaded \in [Requests -> [Members -> Loaded \cup {None}]]
  BY DEF IInv, TypeInv
<1> HIDE DEF m
<1>3. \A o \in Members : Agrees(o, member[o], loaded'[r][o], work'[r][o])
  <2> SUFFICES ASSUME NEW o \in Members
               PROVE  Agrees(o, member[o], loaded'[r][o], work'[r][o])
    OBVIOUS
  <2>1. Agrees(o, member[o], loaded[r][o], work[r][o])
    BY DEF Agreed
  <2>2. CASE o = m
    <3>1. work[r][o] = None
      BY <1>1, <2>2 DEF IInv, Locks
    <3>2. loaded'[r][o] = Session(member[o])
      BY <1>1, <1>2, <2>2
    <3> QED
      BY <1>1, <3>1, <3>2 DEF Agrees
  <2>3. CASE o # m
    BY <1>1, <1>2, <2>1, <2>3
  <2> QED
    BY <2>2, <2>3
<1>4. Written(r)' = Written(r)
  BY <1>1 DEF Written
<1>5. DropsLast(todo'[r], Written(r)')
  BY <1>1, <1>4 DEF Agreed
<1>6. \A o \in Members, g \in Groups :
        work'[r][o] # None /\ scope'[r] \notin {None, g} /\ work'[r][o].prio[g] # 0 =>
          InGroup(member[o], g)
  BY <1>1 DEF Agreed, OnlyOwnAdded
<1>7. Turn(member, todo'[r], work'[r])
  BY <1>1 DEF Agreed
<1> QED
  BY <1>1, <1>3, <1>5, <1>6, <1>7, GoesOn

LEMMA LockMemberAgrees ==
  ASSUME IInv, IInv', Serial', Agreed, NEW r \in Requests, LockMember(r)
  PROVE  Agreed'
<1> DEFINE m == Subject(r)
           d == member[m]
<1>1. /\ pc[r] = "run" /\ todo[r] # <<>> /\ m # None
      /\ loaded[r][m] # None /\ work[r][m] = None
      /\ work' = [work EXCEPT ![r][m] = d]
      /\ loaded' = [loaded EXCEPT
           ![r][m].prio = [g \in Groups |->
              IF d.prio[g] = 0 \/ @[g] = 0 THEN d.prio[g] ELSE @[g]],
           ![r][m].row = [g \in Groups |->
              IF d.prio[g] = 0 \/ loaded[r][m].prio[g] = 0 THEN d.row[g] ELSE @[g]]]
      /\ UNCHANGED <<member, pc, todo, scope>>
  BY DEF LockMember, Database
<1>2. /\ loaded \in [Requests -> [Members -> Loaded \cup {None}]]
      /\ work \in [Requests -> [Members -> Member \cup {None}]]
      /\ member \in [Members -> Member] /\ todo \in [Requests -> Seq(CallRecord)]
  BY DEF IInv, TypeInv
<1>3. m \in Members
  <2>1. Head(todo[r]) \in CallRecord
    BY <1>1, <1>2, HeadTailProperties
  <2> QED
    BY <1>1, <2>1, CallKinds DEF Subject
<1> HIDE DEF m
<1>4. d \in Member /\ d # None /\ Orderly(m, d) /\ loaded[r][m] = Session(d)
  <2>1. Agrees(m, member[m], loaded[r][m], work[r][m]) /\ Orderly(m, member[m])
    BY <1>3 DEF Agreed
  <2> QED
    BY <1>1, <1>2, <1>3, <2>1, Parameters DEF Agrees
<1> HIDE DEF d
<1>5. loaded' = loaded
  <2> DEFINE l == loaded[r][m]
  <2>1. d.prio \in [Groups -> Nat] /\ d.row \in [Groups -> Nat]
    BY <1>4, ColumnTypes
  <2>2. l \in Loaded /\ l.prio = d.prio /\ l.row = d.row
    BY <1>2, <1>3, <1>4, SessionType DEF Session
  <2>3. /\ [g \in Groups |-> IF d.prio[g] = 0 \/ l.prio[g] = 0 THEN d.prio[g] ELSE l.prio[g]] = l.prio
        /\ [g \in Groups |-> IF d.prio[g] = 0 \/ l.prio[g] = 0 THEN d.row[g] ELSE l.row[g]] = l.row
    BY <2>1, <2>2
  <2>4. loaded' = [loaded EXCEPT ![r][m] = [l EXCEPT
          !.prio = [g \in Groups |-> IF d.prio[g] = 0 \/ l.prio[g] = 0 THEN d.prio[g] ELSE l.prio[g]],
          !.row = [g \in Groups |-> IF d.prio[g] = 0 \/ l.prio[g] = 0 THEN d.row[g] ELSE l.row[g]]]]
    BY <1>1, <1>2, <1>3, <2>2 DEF Loaded
  <2>5. loaded' = [loaded EXCEPT ![r][m] = [l EXCEPT !.prio = l.prio, !.row = l.row]]
    BY <2>3, <2>4
  <2>6. [l EXCEPT !.prio = l.prio, !.row = l.row] = l
    BY <2>2 DEF Loaded
  <2> QED
    BY <1>2, <1>3, <2>5, <2>6
<1>6. \A o \in Members : work'[r][o] = IF o = m THEN d ELSE work[r][o]
  BY <1>1, <1>2
<1>7. \A o \in Members : Agrees(o, member[o], loaded'[r][o], work'[r][o])
  <2>1. \A o \in Members : Agrees(o, member[o], loaded[r][o], work[r][o])
    BY DEF Agreed
  <2>2. Agrees(m, member[m], loaded[r][m], d)
    BY <1>4 DEF Agrees
  <2> QED
    BY <1>5, <1>6, <2>1, <2>2
<1>8. Written(r)' = Written(r)
  <2>1. \A o \in Members : (IF work'[r][o] # None THEN work'[r][o] ELSE member[o]) =
                           (IF work[r][o] # None THEN work[r][o] ELSE member[o])
    BY <1>1, <1>4, <1>6 DEF d
  <2> QED
    BY <1>1, <2>1 DEF Written
<1>9. DropsLast(todo'[r], Written(r)')
  BY <1>1, <1>8 DEF Agreed
<1>10. \A o \in Members, g \in Groups :
         work'[r][o] # None /\ scope'[r] \notin {None, g} /\ work'[r][o].prio[g] # 0 =>
           InGroup(member[o], g)
  <2> SUFFICES ASSUME NEW o \in Members, NEW g \in Groups,
                      work'[r][o] # None, scope'[r] \notin {None, g}, work'[r][o].prio[g] # 0
               PROVE  InGroup(member[o], g)
    OBVIOUS
  <2>1. CASE o = m
    <3>1. member[o].prio[g] # 0
      BY <1>6, <2>1 DEF d
    <3> QED
      BY <3>1 DEF InGroup
  <2>2. CASE o # m
    <3>1. work[r][o] # None /\ work[r][o].prio[g] # 0 /\ scope[r] \notin {None, g}
      BY <1>1, <1>6, <2>2
    <3> QED
      BY <3>1 DEF Agreed, OnlyOwnAdded
  <2> QED
    BY <2>1, <2>2
<1>11. Turn(member, todo'[r], work'[r])
  <2>1. 1 \in DOMAIN todo[r] /\ m = todo[r][1].m
    <3> DEFINE s == todo[r]
    <3>1. s \in Seq(CallRecord) /\ s # <<>> /\ m = Head(s).m
      BY <1>1, <1>2 DEF m, Subject
    <3> HIDE DEF s
    <3>2. 1 \in DOMAIN s /\ Head(s) = s[1]
      BY <3>1
    <3> QED
      BY <3>1, <3>2 DEF s
  <2>2. Turn(member, todo[r], work[r])
    BY <1>1 DEF Agreed
  <2> DEFINE V == work'[r]
  <2>3. \A o \in Members : V[o] = IF o = m THEN member[m] ELSE work[r][o]
    BY <1>6 DEF d
  <2> HIDE DEF V
  <2>4. Turn(member, todo[r], V)
    BY <1>2, <1>3, <2>1, <2>2, <2>3, TurnLocked
  <2> QED
    BY <1>1, <2>4 DEF V
<1> QED
  BY <1>1, <1>7, <1>9, <1>10, <1>11, GoesOn

\* A new profile, without a group or with the one selected at registration.
LEMMA NewOrderly ==
  ASSUME NEW m \in Members
  PROVE  /\ Orderly(m, [Nobody EXCEPT !.live = TRUE])
         /\ Session([Nobody EXCEPT !.live = TRUE]) = Session(Nobody)
         /\ \A g \in Groups : Orderly(m, [Nobody EXCEPT !.live = TRUE, !.ptr = g, !.prio[g] = 1])
<1>1. None \notin Groups
  BY Parameters
<1>2. ASSUME NEW w, w.ptr = Nobody.ptr, w.num = Nobody.num, w.prio = Nobody.prio,
             w.row = Nobody.row, w.gm = Nobody.gm, w.gmprim = Nobody.gmprim
      PROVE  Orderly(m, w) /\ Session(w) = Session(Nobody)
  BY <1>2 DEF Orderly, Arranged, Visible, Session, Nobody
<1>3. Orderly(m, [Nobody EXCEPT !.live = TRUE])
      /\ Session([Nobody EXCEPT !.live = TRUE]) = Session(Nobody)
  <2> DEFINE w == [Nobody EXCEPT !.live = TRUE]
  <2>1. w.ptr = Nobody.ptr /\ w.num = Nobody.num /\ w.prio = Nobody.prio
        /\ w.row = Nobody.row /\ w.gm = Nobody.gm /\ w.gmprim = Nobody.gmprim
    BY DEF Nobody
  <2> HIDE DEF w
  <2>2. Orderly(m, w) /\ Session(w) = Session(Nobody)
    BY <1>2, <2>1
  <2> QED
    BY <2>2 DEF w
<1>4. ASSUME NEW g \in Groups
      PROVE  Orderly(m, [Nobody EXCEPT !.live = TRUE, !.ptr = g, !.prio[g] = 1])
  <2> DEFINE d == [Nobody EXCEPT !.live = TRUE, !.ptr = g, !.prio[g] = 1]
  <2>1. /\ d.ptr = g /\ d.num = None /\ d.prio = [h \in Groups |-> IF h = g THEN 1 ELSE 0]
        /\ d.gm = [h \in Groups |-> 0] /\ d.gmprim = {}
    BY DEF Nobody
  <2> HIDE DEF d
  <2>2. Orderly(m, d)
    BY <1>1, <2>1 DEF Orderly, Arranged, Visible
  <2> QED
    BY <2>2 DEF d
<1> QED
  BY <1>3, <1>4

LEMMA CreateMemberAgrees ==
  ASSUME IInv, IInv', Serial', Agreed, NEW r \in Requests, NEW m \in Members,
         NEW wish \in Wishes, NEW admin \in Scopes, CreateMember(r, m, wish, admin)
  PROVE  Agreed'
<1> DEFINE w == [Nobody EXCEPT !.live = TRUE]
           calls == [i \in 1..Len(wish) |-> Call("add", m, wish[i])]
<1>1. /\ pc[r] = "idle" /\ pc' = [pc EXCEPT ![r] = "run"]
      /\ todo' = [todo EXCEPT ![r] = calls]
      /\ loaded' = [loaded EXCEPT ![r][m] = Session(Nobody)]
      /\ work' = [work EXCEPT ![r][m] = w]
      /\ UNCHANGED member
  BY DEF CreateMember, Begin, Database
<1>2. /\ pc \in [Requests -> {"idle", "run"} \cup Ended]
      /\ todo \in [Requests -> Seq(CallRecord)]
      /\ loaded \in [Requests -> [Members -> Loaded \cup {None}]]
      /\ work \in [Requests -> [Members -> Member \cup {None}]]
  BY DEF IInv, TypeInv
<1>3. w \in Member /\ w # None /\ Orderly(m, w) /\ Session(w) = Session(Nobody)
      /\ \A g \in Groups : w.prio[g] = 0
  BY NobodyType, NewOrderly, Parameters
<1>4. \A i \in DOMAIN calls :
        /\ calls[i].do = "add" /\ calls[i].do # "drop" /\ calls[i].m = m
        /\ calls[i].g \in Groups
  <2>1. wish \in Seq(Groups)
    BY Parameters
  <2>2. \A i \in 1..Len(wish) : wish[i] \in Groups
    BY <2>1
  <2> QED
    BY <2>2 DEF Call
<1> HIDE DEF w, calls
<1>5. pc'[r] = "run" /\ todo'[r] = calls
  BY <1>1, <1>2
<1>6. \A o \in Members : work[r][o] = None /\ loaded[r][o] = None
  BY <1>1, IdleValues
<1>7. \A o \in Members : /\ work'[r][o] = IF o = m THEN w ELSE None
                         /\ loaded'[r][o] = IF o = m THEN Session(w) ELSE None
  BY <1>1, <1>2, <1>3, <1>6
<1>8. \A o \in Members : Agrees(o, member[o], loaded'[r][o], work'[r][o])
  BY <1>3, <1>7 DEF Agrees
<1>9. DropsLast(todo'[r], Written(r)')
  BY <1>4, <1>5 DEF DropsLast
<1>10. \A o \in Members, g \in Groups :
         work'[r][o] # None /\ scope'[r] \notin {None, g} /\ work'[r][o].prio[g] # 0 =>
           InGroup(member[o], g)
  BY <1>3, <1>7
<1>11. Turn(member, todo'[r], work'[r])
  <2>1. \A g \in Groups : member[m].prio[g] = 0
    <3>1. Unborn(m)
      BY DEF CreateMember
    <3> QED
      BY <3>1, NobodyType, UnbornValues
  <2> DEFINE V == work'[r]
  <2>2. \A o \in Members \ {m} : V[o] = None
    BY <1>7
  <2> HIDE DEF V
  <2>3. Turn(member, calls, V)
    BY <1>4, <2>1, <2>2, TurnCreated
  <2> QED
    BY <1>5, <2>3 DEF V
<1> QED
  BY <1>1, <1>5, <1>8, <1>9, <1>10, <1>11, GoesOn

\* Every element of a set is in each of its sequences.
LEMMA AllListed ==
  ASSUME NEW S, IsFiniteSet(S), NEW order \in SetToSeqs(S)
  PROVE  /\ Len(order) \in Nat /\ \A i \in 1..Len(order) : order[i] \in S
         /\ \A m \in S : \E i \in 1..Len(order) : order[i] = m
<1> DEFINE n == Cardinality(S)
           D == 1..n
<1>1. IsFiniteSet(S)
  OBVIOUS
<1>2. n \in Nat
  BY <1>1, FS_CardinalityType
<1>3. order \in [D -> S] /\ \A i, j \in D : i # j => order[i] # order[j]
  BY DEF SetToSeqs
<1>4. order \in Injection(D, S)
  BY <1>3 DEF Injection, IsInjective
<1>5. IsFiniteSet(D) /\ Cardinality(D) = n
  <2> HIDE DEF n
  <2>1. 1 \in Int /\ n \in Int
    BY <1>2
  <2>2. IsFiniteSet(1..n) /\ Cardinality(1..n) = IF 1 > n THEN 0 ELSE n - 1 + 1
    BY <2>1, FS_Interval
  <2> QED
    BY <1>2, <2>2
<1>6. order \in Surjection(D, S)
  <2> HIDE DEF D
  <2> QED
    BY <1>1, <1>4, <1>5, FS_Injection
<1>7. \A m \in S : \E i \in D : order[i] = m
  BY <1>6 DEF Surjection
<1>8. Len(order) = n
  <2> HIDE DEF n
  <2> QED
    BY <1>2, <1>3
<1> HIDE DEF n
<1> QED
  BY <1>2, <1>3, <1>7, <1>8

LEMMA DeleteGroupAgrees ==
  ASSUME IInv, IInv', Serial', Agreed, NEW r \in Requests, NEW g \in Groups, DeleteGroup(r, g)
  PROVE  Agreed'
<1> DEFINE in == {m \in Members : member[m].prio[g] # 0}
<1>1. PICK order \in SetToSeqs(in) :
        Begin(r, "delete", None,
          [i \in 1..Len(order) |-> Call("detach", order[i], g)] \o <<Call("drop", None, g)>>)
  BY DEF DeleteGroup
<1> DEFINE a == [i \in 1..Len(order) |-> Call("detach", order[i], g)]
           b == <<Call("drop", None, g)>>
           calls == a \o b
           n == Len(order)
<1>2. /\ pc[r] = "idle" /\ pc' = [pc EXCEPT ![r] = "run"] /\ todo' = [todo EXCEPT ![r] = calls]
      /\ UNCHANGED <<member, loaded, work>>
  BY <1>1 DEF Begin, DeleteGroup, Database
<1>3. /\ n \in Nat /\ \A i \in 1..n : order[i] \in in
      /\ \A m \in in : \E i \in 1..n : order[i] = m
  <2> HIDE DEF in
  <2>1. in \in SUBSET Members /\ IsFiniteSet(Members)
    BY Parameters DEF in
  <2>2. IsFiniteSet(in)
    BY <2>1, FS_Subset
  <2> QED
    BY <2>2, AllListed
<1>4. /\ DOMAIN calls = 1..(n + 1)
      /\ \A i \in 1..(n + 1) : calls[i] = IF i = n + 1 THEN Call("drop", None, g)
                                          ELSE Call("detach", order[i], g)
  <2> HIDE DEF in, n
  <2>1. a \in Seq({Call("detach", order[i], g) : i \in 1..n}) /\ Len(a) = n
        /\ \A i \in 1..n : a[i] = Call("detach", order[i], g)
    <3>1. a \in [1..n -> {Call("detach", order[i], g) : i \in 1..n}]
      BY DEF n
    <3> QED
      BY <1>3, <3>1 DEF n
  <2>2. b \in Seq({Call("drop", None, g)}) /\ Len(b) = 1 /\ b[1] = Call("drop", None, g)
    OBVIOUS
  <2> HIDE DEF a, b
  <2>3. /\ Len(calls) = n + 1
        /\ \A i \in 1..(n + 1) : calls[i] = IF i <= n THEN a[i] ELSE b[i - n]
        /\ DOMAIN calls = 1..Len(calls)
    <3> DEFINE X == {Call("detach", order[i], g) : i \in 1..n} \cup {Call("drop", None, g)}
    <3>1. a \in Seq(X) /\ b \in Seq(X)
      BY <2>1, <2>2
    <3> HIDE DEF X
    <3>2. /\ calls \in Seq(X) /\ Len(calls) = Len(a) + Len(b)
          /\ \A i \in 1..(Len(a) + Len(b)) : calls[i] = IF i <= Len(a) THEN a[i] ELSE b[i - Len(a)]
      BY <3>1, ConcatProperties
    <3> HIDE DEF calls
    <3> QED
      BY <1>3, <2>1, <2>2, <3>2
  <2> HIDE DEF calls
  <2> QED
    BY <1>3, <2>1, <2>2, <2>3
<1> HIDE DEF calls
<1>5. DropsLast(calls, member)
  <2> HIDE DEF in, n
  <2>1. \A i \in 1..(n + 1) : /\ calls[i].g = g
                              /\ calls[i].do = IF i = n + 1 THEN "drop" ELSE "detach"
                              /\ i # n + 1 => calls[i].m = order[i]
    BY <1>4 DEF Call
  <2>2. \A m \in Members : member[m].prio[g] # 0 =>
          \E j \in 1..(n + 1) : calls[j].do = "detach" /\ calls[j].m = m
    <3> SUFFICES ASSUME NEW m \in Members, member[m].prio[g] # 0
                 PROVE  \E j \in 1..(n + 1) : calls[j].do = "detach" /\ calls[j].m = m
      OBVIOUS
    <3>1. PICK j \in 1..n : order[j] = m
      BY <1>3 DEF in
    <3> QED
      BY <1>3, <2>1, <3>1
  <2>3. \A i \in 1..(n + 1) : calls[i].do = "drop" => i = n + 1
    BY <2>1
  <2>4. \A j \in 1..(n + 1) : j = n + 1 \/ (j < n + 1 /\ calls[j].do = "detach" /\ calls[j].g = g)
    BY <1>3, <2>1
  <2> QED
    BY <1>4, <2>1, <2>2, <2>3, <2>4 DEF DropsLast
<1>a. Len(calls) = n + 1 /\ calls[n + 1].do = "drop"
      /\ \A i \in DOMAIN calls : calls[i].do \in {"detach", "drop"} /\ calls[i].g = g
  <2> HIDE DEF in, n
  <2> QED
    BY <1>3, <1>4 DEF Call
<1> HIDE DEF in, n
<1>6. /\ pc \in [Requests -> {"idle", "run"} \cup Ended]
      /\ todo \in [Requests -> Seq(CallRecord)]
      /\ member \in [Members -> Member]
  BY DEF IInv, TypeInv
<1>7. pc'[r] = "run" /\ todo'[r] = calls
  BY <1>2, <1>6
<1>8. \A o \in Members : work'[r][o] = None /\ loaded'[r][o] = None
  <2>1. \A o \in Members : work[r][o] = None /\ loaded[r][o] = None
    BY <1>2, IdleValues
  <2> QED
    BY <1>2, <2>1
<1>9. Written(r)' = member
  <2>1. Written(r)' = [m \in Members |-> IF work'[r][m] # None THEN work'[r][m] ELSE member[m]]
    BY <1>2 DEF Written
  <2> QED
    BY <1>6, <1>8, <2>1
<1>10. \A o \in Members : Agrees(o, member[o], loaded'[r][o], work'[r][o])
  BY <1>8 DEF Agrees
<1>11. DropsLast(todo'[r], Written(r)')
  BY <1>5, <1>7, <1>9
<1>12. Turn(member, todo'[r], work'[r])
  <2> DEFINE V == work'[r]
  <2>1. \A o \in Members : V[o] = None
    BY <1>8
  <2>2. calls # <<>> /\ calls[Len(calls)].do = "drop"
    BY <1>3, <1>a
  <2> HIDE DEF V
  <2>3. Dissolves(g, member, calls, V)
    BY <1>a, <2>1, <2>2 DEF Dissolves
  <2> QED
    BY <1>7, <2>3 DEF V, Turn
<1> QED
  BY <1>2, <1>7, <1>8, <1>10, <1>11, <1>12, GoesOn

LEMMA RegisterAgrees ==
  ASSUME IInv, IInv', Serial', Agreed, NEW r \in Requests, NEW m \in Members, NEW g \in Groups,
         Register(r, m, g)
  PROVE  Agreed'
<1> DEFINE d == [Nobody EXCEPT !.live = TRUE, !.ptr = g, !.prio[g] = 1]
<1>1. member' = [member EXCEPT ![m] = d] /\ pc' = [pc EXCEPT ![r] = "done"]
  BY DEF Register
<1>2. Orderly(m, d)
  BY NewOrderly
<1> HIDE DEF d
<1>3. member \in [Members -> Member] /\ pc \in [Requests -> {"idle", "run"} \cup Ended]
      /\ "done" \in Ended
  BY DEF IInv, TypeInv, Ended
<1>4. \A o \in Members : member'[o] = IF o = m THEN d ELSE member[o]
  BY <1>1, <1>3
<1>5. \A o \in Members : Orderly(o, member'[o])
  BY <1>2, <1>4 DEF Agreed
<1> QED
  BY <1>1, <1>3, <1>5, ClosedRests

LEMMA DeleteMemberAgrees ==
  ASSUME IInv, IInv', Serial', Agreed, NEW r \in Requests, NEW m \in Members,
         DeleteMember(r, m)
  PROVE  Agreed'
<1> DEFINE d == [member[m] EXCEPT !.live = FALSE]
<1>1. member' = [member EXCEPT ![m] = d] /\ pc' = [pc EXCEPT ![r] = "done"]
  BY DEF DeleteMember
<1>2. member \in [Members -> Member] /\ pc \in [Requests -> {"idle", "run"} \cup Ended]
      /\ "done" \in Ended
  BY DEF IInv, TypeInv, Ended
<1>3. /\ d.ptr = member[m].ptr /\ d.num = member[m].num /\ d.prio = member[m].prio
      /\ d.row = member[m].row /\ d.gm = member[m].gm /\ d.gmprim = member[m].gmprim
  BY <1>2 DEF Member
<1> HIDE DEF d
<1>4. Orderly(m, d)
  <2>1. Orderly(m, member[m])
    BY DEF Agreed
  <2> QED
    BY <1>3, <2>1 DEF Orderly, Arranged, Visible
<1>5. \A o \in Members : member'[o] = IF o = m THEN d ELSE member[o]
  BY <1>1, <1>2
<1>6. \A o \in Members : Orderly(o, member'[o])
  BY <1>4, <1>5 DEF Agreed
<1> QED
  BY <1>1, <1>2, <1>6, ClosedRests

-----------------------------------------------------------------------------
(* Every step.                                                             *)

LEMMA RequestAgrees ==
  ASSUME IInv, IInv', Serial', Agreed, NEW r \in Requests, Request(r)
  PROVE  Agreed'
<1>1. ASSUME NEW m \in Members, NEW wish \in Wishes, NEW admin \in Scopes,
             UpdateMember(r, m, wish, admin)
      PROVE  Agreed'
  <2> DEFINE c == [do |-> "sync", m |-> m, wish |-> wish]
  <2>1. c.do \notin {"detach", "drop"} /\ c.m = m
    OBVIOUS
  <2>2. Begin(r, "sync", admin, <<c>>) /\ Loads(r, m) /\ UNCHANGED <<Database, work, drawn>>
    BY <1>1 DEF UpdateMember
  <2> HIDE DEF c
  <2> QED
    BY <2>1, <2>2, BeginAgrees
<1>2. ASSUME NEW m \in Members, NEW do \in {"add", "remove", "approve"}, NEW g,
             Begin(r, do, None, <<Call(do, m, g)>>), Loads(r, m), UNCHANGED <<Database, work, drawn>>
      PROVE  Agreed'
  <2>1. Call(do, m, g).do \notin {"detach", "drop"} /\ Call(do, m, g).m = m
    BY DEF Call
  <2> QED
    BY <1>2, <2>1, BeginAgrees
<1>3. ASSUME NEW m \in Members, ApproveMember(r, m)
      PROVE  Agreed'
  BY <1>2, <1>3 DEF ApproveMember
<1>4. ASSUME NEW m \in Members, NEW g \in Groups, AddGroupMember(r, m, g)
      PROVE  Agreed'
  BY <1>2, <1>4 DEF AddGroupMember
<1>5. ASSUME NEW m \in Members, NEW g \in Groups, RemoveGroupMember(r, m, g)
      PROVE  Agreed'
  BY <1>2, <1>5 DEF RemoveGroupMember
<1>6. ASSUME NEW m \in Members, NotFound(r, m)
      PROVE  Agreed'
  <2>1. /\ pc' = [pc EXCEPT ![r] = "rejected"] /\ UNCHANGED member
        /\ "rejected" \in Ended /\ pc \in [Requests -> {"idle", "run"} \cup Ended]
    BY <1>6 DEF NotFound, Database, Ended, IInv, TypeInv
  <2>2. \A o \in Members : Orderly(o, member'[o])
    BY <2>1 DEF Agreed
  <2> QED
    BY <2>1, <2>2, ClosedRests
<1>7. \/ \E m \in Members, wish \in Wishes, admin \in Scopes :
           CreateMember(r, m, wish, admin) \/ UpdateMember(r, m, wish, admin)
      \/ \E m \in Members, g \in Groups :
           Register(r, m, g) \/ AddGroupMember(r, m, g) \/ RemoveGroupMember(r, m, g)
      \/ \E m \in Members : ApproveMember(r, m) \/ DeleteMember(r, m) \/ NotFound(r, m)
      \/ \E g \in Groups : DeleteGroup(r, g)
  BY DEF Request
<1> QED
  BY <1>1, <1>3, <1>4, <1>5, <1>6, <1>7, CreateMemberAgrees, RegisterAgrees,
     DeleteMemberAgrees, DeleteGroupAgrees

LEMMA ServeAgrees ==
  ASSUME IInv, IInv', Serial', Agreed, NEW r \in Requests, Serve(r)
  PROVE  Agreed'
<1>1. CASE AddMembership(r)
  <2>1. Ready(r, "add") /\ Conclude(r, Addition(View(r), Target(r)))
    BY <1>1 DEF AddMembership
  <2> QED
    BY <2>1, AddMembershipAgrees
<1>2. CASE \E do \in {"remove", "detach", "cut"} : RemoveMembership(r, do)
  BY <1>2, RemoveMembershipAgrees
<1>3. CASE NothingToRemove(r)
  BY <1>3, NothingToRemoveAgrees
<1>4. CASE SyncMemberships(r)
  BY <1>4, SyncMembershipsAgrees
<1>5. CASE AppendMembership(r)
  BY <1>5, AppendMembershipAgrees
<1>6. CASE Approve(r)
  BY <1>6, ApproveAgrees
<1>7. CASE Commit(r)
  BY <1>7, CommitAgrees
<1>8. CASE DropGroup(r)
  BY <1>8, DropGroupAgrees
<1>9. CASE LoadMember(r)
  BY <1>9, LoadMemberAgrees
<1>10. CASE LockMember(r)
  BY <1>10, LockMemberAgrees
<1> QED
  BY <1>1, <1>2, <1>3, <1>4, <1>5, <1>6, <1>7, <1>8, <1>9, <1>10 DEF Serve

LEMMA NextAgrees ==
  ASSUME IInv, IInv', Serial, Serial', Agreed, [Next]_vars
  PROVE  Agreed'
<1>1. ASSUME NEW r \in Requests,
             Request(r) \/ Serve(r) \/ BreakDeadlock(r) \/ Abort(r) \/ Respond(r)
      PROVE  Agreed'
  <2>1. CASE BreakDeadlock(r) \/ Abort(r)
    <3>1. Undo(r, "failed") \/ Undo(r, "aborted")
      BY <2>1 DEF BreakDeadlock, Abort
    <3>2. "failed" \in Ended /\ "aborted" \in Ended
      BY DEF Ended
    <3> QED
      BY <3>1, <3>2, UndoRests
  <2>2. CASE Respond(r)
    <3>1. pc[r] \in Ended /\ pc' = [pc EXCEPT ![r] = "idle"] /\ UNCHANGED member
      BY <2>2 DEF Respond, Database
    <3>2. pc[r] # "idle" /\ pc \in [Requests -> {"idle", "run"} \cup Ended]
      BY <3>1 DEF Ended, IInv, TypeInv
    <3>3. \A s \in Requests : pc'[s] # "run"
      BY <3>1, <3>2 DEF Serial
    <3>4. \A m \in Members : Orderly(m, member'[m])
      BY <3>1 DEF Agreed
    <3> QED
      BY <3>3, <3>4, ComesToRest
  <2> QED
    BY <1>1, <2>1, <2>2, RequestAgrees, ServeAgrees
<1>2. CASE UNCHANGED vars
  <2>1. UNCHANGED <<member, pc, todo, scope, loaded, work>>
    BY <1>2 DEF vars
  <2>2. (\A m \in Members : Orderly(m, member[m]))'
    BY <2>1 DEF Agreed, Orderly, Arranged, Visible
  <2>3. (\A r \in Requests, m \in Members : Agrees(m, member[m], loaded[r][m], work[r][m]))'
    BY <2>1 DEF Agreed, Agrees, Orderly, Arranged, Visible, Session
  <2>4. (\A r \in Requests : pc[r] = "run" => DropsLast(todo[r], Written(r)))'
    BY <2>1 DEF Agreed, DropsLast, Written
  <2>5. OnlyOwnAdded'
    BY <2>1 DEF Agreed, OnlyOwnAdded, InGroup
  <2>6. (\A r \in Requests : pc[r] = "run" => Turn(member, todo[r], work[r]))'
    BY <2>1 DEF Agreed, Turn, Edits, Dissolves, Rejoins, Continues, Sheds
  <2> QED
    BY <2>2, <2>3, <2>4, <2>5, <2>6 DEF Agreed
<1> QED
  BY <1>1, <1>2 DEF Next

LEMMA InitAgrees ==
  ASSUME Init, \A d \in Deployments, m \in Members : Orderly(m, d.member[m])
  PROVE  Agreed
<1>1. PICK d \in Deployments : member = d.member
  BY DEF Init
<1>2. /\ pc = [r \in Requests |-> "idle"] /\ scope = [r \in Requests |-> None]
      /\ loaded = [r \in Requests |-> [m \in Members |-> None]]
      /\ work = [r \in Requests |-> [m \in Members |-> None]]
  BY DEF Init
<1>3. \A m \in Members : Orderly(m, member[m])
  BY <1>1
<1>4. \A r \in Requests, m \in Members : Agrees(m, member[m], loaded[r][m], work[r][m])
  BY <1>2 DEF Agrees
<1>5. OnlyOwnAdded
  BY <1>2 DEF OnlyOwnAdded
<1> QED
  BY <1>2, <1>3, <1>4, <1>5 DEF Agreed

LEMMA Agreement ==
  ASSUME \A d \in Deployments, m \in Members : Orderly(m, d.member[m])
  PROVE  Spec /\ []Serial => []Agreed
<1>1. Init => Agreed
  BY InitAgrees
<1>2. IInv /\ IInv' /\ Serial /\ Serial' /\ Agreed /\ [Next]_vars => Agreed'
  BY NextAgrees
<1> QED
  BY <1>1, <1>2, Invariant, PTL DEF Spec

\* As long as no two requests overlap, and all members agreed at first, the
\* pointer, the visible number and both records of the memberships of every
\* member agree: whatever is called, in whatever order, for whatever groups.
THEOREM SerialConsistent ==
  ASSUME \A d \in Deployments, m \in Members : Orderly(m, d.member[m])
  PROVE  Spec /\ []Serial => []Consistent
<1>1. IInv /\ Agreed => Consistent
  <2> SUFFICES ASSUME IInv, Agreed, NEW m \in Members
               PROVE  Coherent(member[m])
    BY DEF Consistent
  <2> QED
    BY OrderlyCoherent DEF IInv, TypeInv, Agreed
<1> QED
  BY <1>1, Agreement, Invariant, PTL

\* ... and a group admin's request adds no member to another group
\* (sync_memberships).
THEOREM SerialOwnAdded ==
  ASSUME \A d \in Deployments, m \in Members : Orderly(m, d.member[m])
  PROVE  Spec /\ []Serial => []OnlyOwnAdded
<1>1. Agreed => OnlyOwnAdded
  BY DEF Agreed
<1> QED
  BY <1>1, Agreement, PTL

-----------------------------------------------------------------------------
(* The order other requests see is the one the list specification changes. *)

\* s lists S in ascending order of p.
Sorts(s, S, p) == s \in SetToSeqs(S) /\ \A i, j \in DOMAIN s : i < j => p[s[i]] < p[s[j]]

\* Groups of different priorities can be put in order: each goes to the place
\* that counts the groups up to it.
LEMMA Sorting ==
  ASSUME NEW p \in Priorities, Distinct(p), NEW S \in SUBSET Groups,
         \A g \in S : p[g] # 0
  PROVE  \E s : Sorts(s, S, p)
<1> DEFINE n == Cardinality(S)
           D == 1..n
           upto(g) == {h \in S : p[h] <= p[g]}
           rank == [g \in S |-> Cardinality(upto(g))]
<1>1. IsFiniteSet(S)
  BY FS_Subset, Parameters
<1>2. n \in Nat
  BY <1>1, FS_CardinalityType
<1>3. \A g \in S : p[g] \in Nat
  BY DEF Priorities
<1>4. \A g \in S : upto(g) \in SUBSET S /\ g \in upto(g)
  BY <1>3
<1>5. \A g, h \in S : p[g] < p[h] => upto(g) \in SUBSET upto(h) /\ h \notin upto(g)
  BY <1>3
<1> HIDE DEF upto
<1>6. ASSUME NEW g \in S
      PROVE  IsFiniteSet(upto(g)) /\ rank[g] \in D
  <2>1. IsFiniteSet(upto(g)) /\ Cardinality(upto(g)) <= n
    BY <1>1, <1>4, FS_Subset
  <2>2. Cardinality(upto(g)) \in Nat
    BY <2>1, FS_CardinalityType
  <2>3. Cardinality(upto(g)) # 0
    BY <1>4, <2>1, FS_EmptySet
  <2>4. Cardinality(upto(g)) \in 1..n
    <3> HIDE DEF n
    <3> QED
      BY <1>2, <2>1, <2>2, <2>3
  <2> QED
    BY <2>1, <2>4
<1>7. ASSUME NEW g \in S, NEW h \in S, p[g] < p[h]
      PROVE  rank[g] < rank[h]
  <2>1. IsFiniteSet(upto(h)) /\ upto(g) \in SUBSET upto(h) /\ upto(g) # upto(h)
    BY <1>4, <1>5, <1>6, <1>7
  <2>2. /\ Cardinality(upto(g)) <= Cardinality(upto(h))
        /\ Cardinality(upto(h)) = Cardinality(upto(g)) => upto(h) = upto(g)
    BY <2>1, FS_Subset
  <2>3. rank[g] = Cardinality(upto(g)) /\ rank[h] = Cardinality(upto(h))
    OBVIOUS
  <2>4. rank[g] \in D /\ rank[h] \in D
    BY <1>6
  <2> HIDE DEF rank, n
  <2>5. rank[g] \in Nat /\ rank[h] \in Nat
    BY <1>2, <2>4
  <2> QED
    BY <2>1, <2>2, <2>3, <2>5
<1>8. rank \in [S -> D]
  BY <1>6
<1> HIDE DEF rank
<1>9. \A g, h \in S : rank[g] = rank[h] => g = h
  <2> SUFFICES ASSUME NEW g \in S, NEW h \in S, g # h
               PROVE  rank[g] # rank[h]
    OBVIOUS
  <2>1. p[g] # p[h]
    BY DEF Distinct
  <2>2. p[g] < p[h] \/ p[h] < p[g]
    BY <1>3, <2>1
  <2>3. rank[g] < rank[h] \/ rank[h] < rank[g]
    BY <1>7, <2>2
  <2>4. rank[g] \in Nat /\ rank[h] \in Nat
    <3> HIDE DEF n
    <3> QED
      BY <1>2, <1>8
  <2> QED
    BY <2>3, <2>4
<1>10. IsFiniteSet(D) /\ Cardinality(D) = n
  <2> HIDE DEF n
  <2>1. 1 \in Int /\ n \in Int
    BY <1>2
  <2>2. IsFiniteSet(1..n) /\ Cardinality(1..n) = IF 1 > n THEN 0 ELSE n - 1 + 1
    BY <2>1, FS_Interval
  <2> QED
    BY <1>2, <2>2
<1>11. rank \in Surjection(S, D)
  <2>1. rank \in Injection(S, D)
    BY <1>8, <1>9 DEF Injection, IsInjective
  <2> HIDE DEF D
  <2> QED
    BY <1>10, <2>1, FS_Injection
<1>12. \A i \in D : \E g \in S : rank[g] = i
  BY <1>11 DEF Surjection
<1> DEFINE s == [i \in D |-> CHOOSE g \in S : rank[g] = i]
<1>13. \A i \in D : s[i] \in S /\ rank[s[i]] = i
  BY <1>12
<1>14. s \in [D -> S]
  BY <1>13
<1> HIDE DEF s
<1>15. s \in SetToSeqs(S)
  BY <1>13, <1>14 DEF SetToSeqs
<1>16. ASSUME NEW i \in DOMAIN s, NEW j \in DOMAIN s, i < j
       PROVE  p[s[i]] < p[s[j]]
  <2>1. i \in D /\ j \in D /\ s[i] \in S /\ s[j] \in S /\ rank[s[i]] = i /\ rank[s[j]] = j
    BY <1>13, <1>14
  <2>2. i \in Nat /\ j \in Nat
    <3> HIDE DEF n
    <3> QED
      BY <1>2, <2>1
  <2>3. ~(p[s[j]] < p[s[i]])
    BY <1>7, <1>16, <2>1, <2>2
  <2>4. p[s[i]] # p[s[j]]
    <3>1. s[i] # s[j]
      BY <1>16, <2>1, <2>2
    <3> QED
      BY <2>1, <3>1 DEF Distinct
  <2> QED
    BY <1>3, <2>1, <2>3, <2>4
<1> QED
  BY <1>15, <1>16 DEF Sorts

\* s lists the groups that have a priority, in its order.
Orders(s, p) ==
  /\ s \in List!Lists
  /\ \A g \in Groups : g \in List!ToSet(s) <=> p[g] # 0
  /\ \A g, h \in Groups : List!Before(s, g, h) <=> p[g] # 0 /\ p[g] < p[h]

LEMMA SortsOrders ==
  ASSUME NEW p \in Priorities, NEW S, S = {g \in Groups : p[g] # 0}, NEW s, Sorts(s, S, p)
  PROVE  Orders(s, p)
<1>1. IsFiniteSet(S) /\ s \in SetToSeqs(S)
  BY FS_Subset, Parameters DEF Sorts
<1>2. /\ Len(s) \in Nat /\ \A i \in 1..Len(s) : s[i] \in S
      /\ \A g \in S : \E i \in 1..Len(s) : s[i] = g
  BY <1>1, AllListed
<1>3. s \in [1..Cardinality(S) -> S] /\ \A i, j \in 1..Cardinality(S) : i # j => s[i] # s[j]
  BY <1>1 DEF SetToSeqs
<1>4. DOMAIN s = 1..Cardinality(S) /\ Cardinality(S) \in Nat
  BY <1>1, <1>3, FS_CardinalityType
<1>5. s \in Seq(Groups) /\ Len(s) = Cardinality(S)
  BY <1>3, <1>4
<1>6. DOMAIN s = 1..Len(s)
  BY <1>4, <1>5
<1>7. s \in List!Lists
  <2>1. \A i, j \in DOMAIN s : s[i] = s[j] => i = j
    BY <1>3, <1>4
  <2>2. List!IsInjective(s)
    BY <2>1 DEF List!IsInjective
  <2> QED
    BY <1>5, <2>2 DEF List!Lists
<1>8. ASSUME NEW g \in Groups
      PROVE  g \in List!ToSet(s) <=> p[g] # 0
  <2>1. g \in List!ToSet(s) <=> \E i \in DOMAIN s : s[i] = g
    BY DEF List!ToSet
  <2> QED
    BY <1>2, <1>6, <2>1
<1>9. ASSUME NEW g \in Groups, NEW h \in Groups
      PROVE  List!Before(s, g, h) <=> p[g] # 0 /\ p[g] < p[h]
  <2>1. \A i \in DOMAIN s : s[i] \in S /\ p[s[i]] \in Nat /\ i \in Nat
    BY <1>2, <1>6 DEF Priorities
  <2>2. \A i, j \in DOMAIN s : i < j => p[s[i]] < p[s[j]]
    BY DEF Sorts
  <2>3. List!Before(s, g, h) => p[g] # 0 /\ p[g] < p[h]
    BY <2>1, <2>2 DEF List!Before
  <2>4. ASSUME p[g] # 0, p[g] < p[h]
        PROVE  List!Before(s, g, h)
    <3>1. p[g] \in Nat /\ p[h] \in Nat /\ g \in S /\ h \in S
      BY <2>4 DEF Priorities
    <3>2. PICK i \in DOMAIN s, j \in DOMAIN s : s[i] = g /\ s[j] = h
      BY <1>2, <1>6, <3>1
    <3>3. i # j /\ ~(j < i)
      BY <2>2, <2>4, <3>1, <3>2
    <3>4. i < j
      BY <2>1, <3>3
    <3> QED
      BY <3>2, <3>4 DEF List!Before
  <2> QED
    BY <2>3, <2>4
<1> QED
  BY <1>7, <1>8, <1>9 DEF Orders

LEMMA ListedOrders ==
  ASSUME NEW m \in Members, NEW db \in Member, Orderly(m, db)
  PROVE  Orders(Listed(db), db.prio)
<1>1. db.prio \in Priorities /\ db.ptr \in Groups \cup {None}
  BY ColumnTypes DEF Priorities
<1>2. Distinct(db.prio)
  BY DEF Orderly, Arranged, Distinct
<1>3. Rows(db) = {} => {db.ptr} \ {None} = {}
  BY <1>1 DEF Orderly, Arranged, Rows
<1>4. Rows(db) = {g \in Groups : db.prio[g] # 0}
  BY DEF Rows
<1>5. Listed(db) = CHOOSE s \in InOrder(db, Rows(db)) : TRUE
  BY <1>3 DEF Listed
<1>6. \E s : Sorts(s, Rows(db), db.prio)
  BY <1>1, <1>2, <1>4, Sorting
<1>7. \A s : s \in InOrder(db, Rows(db)) <=> Sorts(s, Rows(db), db.prio)
  BY DEF InOrder, Sorts
<1>8. Sorts(Listed(db), Rows(db), db.prio)
  BY <1>5, <1>6, <1>7
<1> QED
  BY <1>1, <1>4, <1>8, SortsOrders

LEMMA OrdersFollow ==
  ASSUME NEW p, NEW q, NEW s, NEW t, Orders(s, p), Orders(t, q), Continues(p, q)
  PROVE  List!Follows(s, t)
<1> SUFFICES ASSUME NEW g \in Groups, NEW h \in Groups, List!Before(t, g, h), h \in List!ToSet(s)
             PROVE  List!Before(s, g, h)
  BY DEF List!Follows
<1>1. q[g] # 0 /\ q[g] < q[h] /\ p[h] # 0
  BY DEF Orders
<1> QED
  BY <1>1 DEF Orders, Continues

\* The lists after a step.
NewLists == [m \in Members |-> Listed(member'[m])]

LEMMA ListsAfter == [m \in Members |-> Listed(member[m])]' = NewLists
  BY DEF NewLists, Listed, InOrder, Rows, SetToSeqs

\* What a step leaves in each list.
LEMMA ListsTyped ==
  ASSUME member' \in [Members -> Member], \A m \in Members : Orderly(m, member'[m])
  PROVE  List!TypeOK'
<1>1. \A m \in Members : Listed(member'[m]) \in List!Lists
  BY ListedOrders DEF Orders
<1>2. NewLists \in [Members -> List!Lists]
  BY <1>1 DEF NewLists
<1>3. [m \in Members |-> Listed(member[m])]' \in [Members -> List!Lists]
  BY <1>2, ListsAfter
<1> QED
  BY <1>3 DEF List!TypeOK, List!Lists, List!IsInjective

\* The groups of one member change.
LEMMA ListChange ==
  ASSUME member \in [Members -> Member], \A o \in Members : Orderly(o, member[o]),
         member' \in [Members -> Member], \A o \in Members : Orderly(o, member'[o]),
         NEW m \in Members, \A o \in Members \ {m} : member'[o] = member[o],
         Continues(member[m].prio, member'[m].prio)
  PROVE  List!Change(m)
<1>1. List!TypeOK'
  BY ListsTyped
<1>2. Orders(Listed(member[m]), member[m].prio) /\ Orders(Listed(member'[m]), member'[m].prio)
  BY ListedOrders
<1>3. List!Follows(Listed(member[m]), Listed(member'[m]))
  BY <1>2, OrdersFollow
<1>4. \A o \in Members \ {m} : Listed(member'[o]) = Listed(member[o])
  OBVIOUS
<1>5. \A o \in Members : [n \in Members |-> Listed(member[n])]'[o] = Listed(member'[o])
  BY ListsAfter DEF NewLists
<1> QED
  BY <1>1, <1>3, <1>4, <1>5 DEF List!Change

\* A group is deleted with all rows of it.
LEMMA ListDissolve ==
  ASSUME member \in [Members -> Member], \A o \in Members : Orderly(o, member[o]),
         member' \in [Members -> Member], \A o \in Members : Orderly(o, member'[o]),
         NEW g \in Groups,
         \A o \in Members : Sheds(member[o].prio, member'[o].prio, g) /\ member'[o].prio[g] = 0
  PROVE  List!Dissolve(g)
<1>1. List!TypeOK'
  BY ListsTyped
<1>2. ASSUME NEW o \in Members
      PROVE  /\ List!ToSet(Listed(member'[o])) = List!ToSet(Listed(member[o])) \ {g}
             /\ List!Follows(Listed(member[o]), Listed(member'[o]))
  <2> DEFINE p == member[o].prio
             q == member'[o].prio
             s == Listed(member[o])
             t == Listed(member'[o])
  <2>1. member[o] \in Member /\ member'[o] \in Member
    OBVIOUS
  <2>2. p \in Priorities /\ q \in Priorities
    BY <2>1, ColumnTypes DEF Priorities
  <2>3. Orders(s, p) /\ Orders(t, q)
    BY <2>1, ListedOrders
  <2>4. Sheds(p, q, g) /\ q[g] = 0
    OBVIOUS
  <2> HIDE DEF p, q, s, t
  <2>5. Continues(p, q)
    BY <2>2, <2>4, ContinuesSame, ContinuesSheds
  <2>6. \A u \in List!Lists : List!ToSet(u) \subseteq Groups
    BY DEF List!Lists, List!ToSet
  <2>7. s \in List!Lists /\ t \in List!Lists
    BY <2>3 DEF Orders
  <2>8. \A h \in Groups : /\ h \in List!ToSet(s) <=> p[h] # 0
                          /\ h \in List!ToSet(t) <=> q[h] # 0
    BY <2>3 DEF Orders
  <2>9. \A h \in Groups : q[h] # 0 <=> p[h] # 0 /\ h # g
    BY <2>4 DEF Sheds
  <2>10. List!ToSet(t) = List!ToSet(s) \ {g}
    BY <2>6, <2>7, <2>8, <2>9
  <2>11. List!Follows(s, t)
    BY <2>3, <2>5, OrdersFollow
  <2> QED
    BY <2>10, <2>11 DEF s, t
<1>3. \A o \in Members : [n \in Members |-> Listed(member[n])]'[o] = Listed(member'[o])
  BY ListsAfter DEF NewLists
<1> QED
  BY <1>1, <1>2, <1>3 DEF List!Dissolve

\* What a commit publishes are the groups of at most one member.
LEMMA CommitOrdered ==
  ASSUME IInv, Agreed, Agreed', IInv', NEW r \in Requests, Commit(r), member' = Written(r)
  PROVE  List!Next
<1>1. pc[r] = "run" /\ todo[r] = <<>>
  BY DEF Commit
<1>2. Turn(member, <<>>, work[r])
  BY <1>1 DEF Agreed
<1>3. PICK m \in Members : Edits(m, member, <<>>, work[r])
  BY <1>2 DEF Turn, Dissolves
<1>4. \A o \in Members : work[r][o] # None =>
        o = m /\ Continues(member[o].prio, work[r][o].prio)
  BY <1>3 DEF Edits
<1>5. \A o \in Members : member'[o] = IF work[r][o] # None THEN work[r][o] ELSE member[o]
  BY DEF Written
<1>6. \A o \in Members \ {m} : member'[o] = member[o]
  BY <1>4, <1>5
<1>7. member \in [Members -> Member] /\ member' \in [Members -> Member]
  BY DEF IInv, TypeInv
<1>8. Continues(member[m].prio, member'[m].prio)
  <2>1. member[m].prio \in Priorities
    BY <1>7, ColumnTypes DEF Priorities
  <2> QED
    BY <1>4, <1>5, <2>1, ContinuesSame
<1>9. \A o \in Members : Orderly(o, member[o])
  BY DEF Agreed
<1>10. \A o \in Members : Orderly(o, member'[o])
  BY DEF Agreed, Orderly, Arranged, Visible
<1> HIDE DEF Commit
<1>11. List!Change(m)
  BY <1>6, <1>7, <1>8, <1>9, <1>10, ListChange
<1> QED
  BY <1>11 DEF List!Next

\* A group that is dropped goes out of every list, the others keep theirs.
LEMMA DropOrdered ==
  ASSUME IInv, Agreed, Agreed', IInv', NEW r \in Requests, NEW g, g = Target(r),
         Doing(r, "drop"), g \in groups, member' = [m \in Members |-> Cascade(Written(r)[m], g)]
  PROVE  List!Next
<1>1. pc[r] = "run" /\ todo[r] # <<>> /\ Head(todo[r]).do = "drop"
  BY DEF Doing
<1>2. g \in Groups /\ \A m \in Members : Written(r)[m].prio[g] = 0
  BY NoneLeft
<1>3. todo[r] \in Seq(CallRecord)
  BY DEF IInv, TypeInv
<1>4. 1 \in DOMAIN todo[r] /\ Head(todo[r]) = todo[r][1] /\ todo[r][1].do = "drop"
      /\ todo[r][1].g = g
  BY <1>1, <1>3 DEF Target
<1>5. Turn(member, todo[r], work[r])
  BY <1>1 DEF Agreed
<1>6. PICK h \in Groups : Dissolves(h, member, todo[r], work[r])
  BY <1>4, <1>5 DEF Turn, Edits
<1>7. \A o \in Members : work[r][o] # None => Sheds(member[o].prio, work[r][o].prio, g)
  BY <1>4, <1>6 DEF Dissolves
<1>8. member \in [Members -> Member] /\ member' \in [Members -> Member]
  BY DEF IInv, TypeInv
<1>9. \A o \in Members : Written(r)[o] \in Member
  BY WrittenType DEF IInv, Publishable
<1>10. ASSUME NEW o \in Members
       PROVE  Sheds(member[o].prio, member'[o].prio, g) /\ member'[o].prio[g] = 0
  <2> DEFINE w == Written(r)[o]
  <2>1. w = IF work[r][o] # None THEN work[r][o] ELSE member[o]
    BY DEF Written
  <2>2. w \in Member /\ member'[o] = Cascade(w, g)
    BY <1>9
  <2>3. w.prio \in Priorities /\ member[o].prio \in Priorities /\ w.prio[g] = 0
    BY <1>2, <1>8, <2>2, ColumnTypes DEF Priorities
  <2>4. Sheds(member[o].prio, w.prio, g)
    BY <1>2, <1>7, <2>1, <2>3, ContinuesSame
  <2> HIDE DEF w
  <2>5. member'[o].prio = [w.prio EXCEPT ![g] = 0]
    BY <2>2 DEF Cascade, Member
  <2>6. member'[o].prio = w.prio
    BY <1>2, <2>3, <2>5 DEF Priorities
  <2> QED
    BY <2>3, <2>4, <2>6
<1>11. \A o \in Members : Orderly(o, member[o])
  BY DEF Agreed
<1>12. \A o \in Members : Orderly(o, member'[o])
  BY DEF Agreed, Orderly, Arranged, Visible
<1>13. List!Dissolve(g)
  BY <1>2, <1>8, <1>10, <1>11, <1>12, ListDissolve
<1> QED
  BY <1>2, <1>13 DEF List!Next

LEMMA PublishLeaves ==
  ASSUME NEW r, NEW all, NEW rest, Publish(r, all, rest)
  PROVE  UNCHANGED member \/ member' = all
  BY DEF Publish, Undo, Database

LEMMA StepLeaves ==
  ASSUME NEW r, NEW done, NEW numbers, Step(r, done, numbers)
  PROVE  UNCHANGED member
  BY DEF Step, Undo, Database

LEMMA ConcludeLeaves ==
  ASSUME NEW r, NEW outcome, Conclude(r, outcome)
  PROVE  UNCHANGED member
  BY StepLeaves DEF Conclude, Undo, Database

\* The steps that change a stored member.
LEMMA Changers ==
  ASSUME NEW r \in Requests,
         Request(r) \/ Serve(r) \/ BreakDeadlock(r) \/ Abort(r) \/ Respond(r)
  PROVE  \/ UNCHANGED member
         \/ \E m \in Members, g \in Groups : Register(r, m, g)
         \/ \E m \in Members : DeleteMember(r, m)
         \/ Commit(r) /\ member' = Written(r)
         \/ /\ Doing(r, "drop") /\ Target(r) \in groups
            /\ member' = [m \in Members |-> Cascade(Written(r)[m], Target(r))]
<1>1. CASE BreakDeadlock(r) \/ Abort(r) \/ Respond(r)
  BY <1>1 DEF BreakDeadlock, Abort, Respond, Undo, Database
<1>2. CASE Request(r)
  <2>1. ASSUME NEW m, NEW wish, NEW admin,
               CreateMember(r, m, wish, admin) \/ UpdateMember(r, m, wish, admin)
        PROVE  UNCHANGED member
    BY <2>1 DEF CreateMember, UpdateMember, Database
  <2>2. ASSUME NEW m, NEW g,
               \/ AddGroupMember(r, m, g) \/ RemoveGroupMember(r, m, g)
               \/ ApproveMember(r, m) \/ NotFound(r, m) \/ DeleteGroup(r, g)
        PROVE  UNCHANGED member
    BY <2>2 DEF AddGroupMember, RemoveGroupMember, ApproveMember, NotFound, DeleteGroup, Database
  <2> QED
    BY <1>2, <2>1, <2>2 DEF Request
<1>3. CASE Serve(r)
  <2>1. CASE LoadMember(r) \/ LockMember(r)
    BY <2>1 DEF LoadMember, LockMember, Database
  <2>2. CASE AddMembership(r) \/ Approve(r)
             \/ (\E do \in {"remove", "detach", "cut"} : RemoveMembership(r, do))
    BY <2>2, ConcludeLeaves DEF AddMembership, Approve, RemoveMembership
  <2>3. CASE NothingToRemove(r)
    BY <2>3, StepLeaves DEF NothingToRemove, Undo, Database
  <2>4. CASE AppendMembership(r)
    BY <2>4, ConcludeLeaves, StepLeaves DEF AppendMembership
  <2>5. CASE SyncMemberships(r)
    BY <2>5 DEF SyncMemberships, Undo, Database
  <2>6. CASE Commit(r)
    BY <2>6, PublishLeaves DEF Commit
  <2>7. CASE DropGroup(r)
    <3>1. CASE Target(r) \in groups
      <4>1. Publish(r, [m \in Members |-> Cascade(Written(r)[m], Target(r))],
                    groups \ {Target(r)})
        BY <2>7, <3>1 DEF DropGroup
      <4> QED
        BY <2>7, <3>1, <4>1, PublishLeaves DEF DropGroup
    <3>2. CASE Target(r) \notin groups
      BY <2>7, <3>2 DEF DropGroup, Undo, Database
    <3> QED
      BY <3>1, <3>2
  <2> QED
    BY <1>3, <2>1, <2>2, <2>3, <2>4, <2>5, <2>6, <2>7 DEF Serve
<1> QED
  BY <1>1, <1>2, <1>3

LEMMA StepOrdered ==
  ASSUME IInv, IInv', Agreed, Agreed', [Next]_vars
  PROVE  List!Next \/ UNCHANGED [m \in Members |-> Listed(member[m])]
<1>1. ASSUME UNCHANGED member
      PROVE  UNCHANGED [m \in Members |-> Listed(member[m])]
  BY <1>1, ListsAfter DEF NewLists
<1>2. member \in [Members -> Member] /\ member' \in [Members -> Member]
  BY DEF IInv, TypeInv
<1>3. \A o \in Members : Orderly(o, member[o])
  BY DEF Agreed
<1>4. \A o \in Members : Orderly(o, member'[o])
  BY DEF Agreed, Orderly, Arranged, Visible
<1>5. ASSUME NEW r \in Requests, NEW m \in Members, NEW g \in Groups, Register(r, m, g)
      PROVE  List!Next
  <2>1. member[m] = Nobody
    BY <1>5, UnbornValues DEF Register
  <2>2. Continues(member[m].prio, member'[m].prio)
    BY <2>1 DEF Continues, Nobody
  <2>3. \A o \in Members \ {m} : member'[o] = member[o]
    BY <1>2, <1>5 DEF Register
  <2>4. List!Change(m)
    BY <1>2, <1>3, <1>4, <2>2, <2>3, ListChange
  <2> QED
    BY <2>4 DEF List!Next
<1>6. ASSUME NEW r \in Requests, NEW m \in Members, DeleteMember(r, m)
      PROVE  List!Next
  <2>1. member' = [member EXCEPT ![m].live = FALSE]
    BY <1>6 DEF DeleteMember
  <2>2. \A o \in Members \ {m} : member'[o] = member[o]
    BY <1>2, <2>1
  <2>3. member'[m].prio = member[m].prio
    BY <1>2, <2>1 DEF Member
  <2>4. Continues(member[m].prio, member'[m].prio)
    BY <1>2, <2>3, ColumnTypes, ContinuesSame DEF Priorities
  <2>5. List!Change(m)
    BY <1>2, <1>3, <1>4, <2>2, <2>4, ListChange
  <2> QED
    BY <2>5 DEF List!Next
<1>7. CASE UNCHANGED vars
  BY <1>1, <1>7 DEF vars
<1>8. CASE Next
  <2>1. PICK r \in Requests :
          Request(r) \/ Serve(r) \/ BreakDeadlock(r) \/ Abort(r) \/ Respond(r)
    BY <1>8 DEF Next
  <2> QED
    BY <1>1, <1>5, <1>6, <2>1, Changers, CommitOrdered, DropOrdered
<1> QED
  BY <1>7, <1>8

LEMMA InitOrdered ==
  ASSUME IInv, Agreed
  PROVE  List!Init
<1>1. \A m \in Members : member[m] \in Member /\ Orderly(m, member[m])
  BY DEF IInv, TypeInv, Agreed
<1>2. \A m \in Members : Listed(member[m]) \in List!Lists
  BY <1>1, ListedOrders DEF Orders
<1> QED
  BY <1>2 DEF List!Init, List!TypeOK

\* As long as no two requests overlap, and all members agreed at first, every
\* request leaves the groups a member keeps in their order, the new ones behind
\* them, and a deleted group goes out of every list without moving the others.
THEOREM SerialOrdered ==
  ASSUME \A d \in Deployments, m \in Members : Orderly(m, d.member[m])
  PROVE  Spec /\ []Serial => Ordered
<1>1. IInv /\ Agreed => List!Init
  BY InitOrdered
<1>2. IInv /\ IInv' /\ Agreed /\ Agreed' /\ [Next]_vars =>
        [List!Next]_[m \in Members |-> Listed(member[m])]
  BY StepOrdered
<1> QED
  BY <1>1, <1>2, Agreement, Invariant, PTL DEF Spec, Ordered, List!Spec
=============================================================================
