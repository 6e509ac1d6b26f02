-------------------------- MODULE PhotoSlotsProofs --------------------------
(***************************************************************************)
(* The photos of a member, for any number of requests, slots, uploads and  *)
(* Drive files, any storage and any start at which an uploaded photo that  *)
(* is recorded is stored.                                                  *)
(***************************************************************************)
EXTENDS PhotoSlots, TLAPS

TypeInv ==
  /\ backend \in [public : BOOLEAN, lists : BOOLEAN]
  /\ row \in Row
  /\ media \in [Keys -> {"none", "live", "hidden"}]
  /\ objects \subseteq Keys /\ lost \subseteq Keys
  /\ DOMAIN before \subseteq Nat
  /\ req \in [Requests -> Request]
  /\ calls \in Nat /\ faults \in Nat

Storing == {"upload", "profile"}
Clearing == {"remove", "delete"}
Migrating == {"batch", "single"}
Discarding == {"upload", "remove", "delete"}

\* Where a request is tells what it is and what it holds.
Shape(q) ==
  /\ q.at = "idle" => q = Idle
  /\ q.at # "idle" => q.seen \in Row /\ q.ss \in Row
  /\ q.at = "store" => q.op \in Storing
  /\ q.at \in {"store", "write"} =>
       /\ q.op \in Storing \cup Clearing \cup {"link"}
       /\ q.mine = None /\ q.ss = q.seen /\ q.hide = {} /\ q.gone = {}
  /\ q.at = "discard" => q.op \in Discarding /\ q.mine \in Row /\ q.hide = {} /\ q.gone = {}
  /\ q.at \in {"slot", "copy", "record"} => q.op \in Migrating /\ q.mine = None
  /\ q.op = "upload" /\ q.at # "idle" => \E s \in Slots : q.slots = {s}
  /\ q.op \in Clearing \cup {"link"} => q.key = None
  /\ q.op \notin Storing => q.make \cap Uploads = {}

\* The slot a migration is at, and the file and the key it copies to.
Target(q) ==
  LET s == CHOOSE t \in q.slots : t = "member" \/ "member" \notin q.slots IN
  /\ q.at \in {"copy", "record"} => q.slots # {} /\ Source(q.ss, s) \in Files
  /\ q.at = "record" => q.key = Migrated(s, Source(q.ss, s))

\* A stored upload is its request's alone until the commit.
Holding(q) == q.op \in Storing /\ q.at \in {"write", "discard", "commit"}

Holds(q) ==
  Holding(q) =>
    /\ q.key \in Uploads \cap objects /\ media[q.key] = "none"
    /\ q.make = {q.key}

HeldApart ==
  \A r, s \in Requests :
    Holding(req[r]) /\ Holding(req[s]) /\ req[r].key = req[s].key => r = s

\* A recorded upload has its media row, which is never gone.
Rows == {row} \cup {req[r].seen : r \in {s \in Requests : req[s].at # "idle"}}

Recorded ==
  \A a \in Rows, s \in Slots :
    a.key[s] \in Uploads =>
      /\ media[a.key[s]] # "none"
      /\ \A b \in Rows, t \in Slots : b.key[t] = a.key[s] => t = s

Hidden == \A r \in Requests : \A k \in req[r].hide : media[k] # "none"

\* A session has the uploads it has seen, but for what it has stored.
Session(q) ==
  q.at \in {"slot", "copy", "record"} =>
    \A s \in Slots : q.ss.key[s] \in Uploads => q.ss.key[s] = q.seen.key[s]

\* One transaction at a time has flushed the row.
OneFlushed ==
  \A r, s \in Requests : req[r].mine # None /\ req[s].mine # None => r = s

Flushed(q) ==
  q.mine # None =>
    \A s \in Slots :
      \/ q.mine.key[s] = row.key[s]
      \/ q.mine.key[s] \notin Uploads
      \/ q.op = "upload" /\ s \in q.slots /\ q.mine.key[s] = q.key

\* What a request is about to discard it no longer refers to, and what it has
\* deleted it does not either.
Leaves(q) ==
  /\ q.at = "discard" =>
       \A s \in q.slots : q.seen.key[s] \in Uploads => q.mine.key[s] # q.seen.key[s]
  /\ \A k \in q.gone \cap Uploads :
       \E s \in Slots :
         /\ q.seen.key[s] = k
         /\ q.at \in {"slot", "copy", "record"} => q.ss.key[s] # k
         /\ q.at = "commit" => q.mine # None /\ q.mine.key[s] # k

Static(q) == Shape(q) /\ Target(q) /\ Session(q) /\ Leaves(q)

IInv ==
  /\ TypeInv
  /\ \A r \in Requests : Static(req[r]) /\ Holds(req[r]) /\ Flushed(req[r])
  /\ HeldApart /\ Recorded /\ Hidden /\ OneFlushed
  /\ NoDangling

-----------------------------------------------------------------------------
(* Types.                                                                  *)

LEMMA IdleType == Idle \in Request /\ Static(Idle) /\ ~Holding(Idle) /\ Idle.mine = None
<1>1. Idle \in Request
  BY DEF Idle, Request
<1>2. ~Holding(Idle) /\ Idle.mine = None
  BY DEF Idle, Holding
<1>3. Static(Idle)
  BY DEF Static, Shape, Target, Session, Leaves, Idle, Storing, Clearing, Migrating
<1> QED
  BY <1>1, <1>2, <1>3

LEMMA OverlaidType ==
  ASSUME NEW base \in Row, NEW seen \in Row, NEW ss \in Row
  PROVE  /\ Overlaid(base, seen, ss) \in Row
         /\ \A s \in Slots :
              Overlaid(base, seen, ss).key[s] =
                (IF ss.key[s] = seen.key[s] THEN base.key[s] ELSE ss.key[s])
  BY DEF Overlaid, Row

LEMMA WrittenType ==
  ASSUME NEW q \in Request, q.seen \in Row
  PROVE  /\ Written(q) \in Row
         /\ \A s \in Slots :
              Written(q).key[s] = (IF s \in q.slots /\ q.op \in {"upload", "remove", "delete"}
                                   THEN q.key ELSE q.seen.key[s])
<1> DEFINE link == CASE q.op \in {"upload", "profile"} -> q.key
                     [] q.op = "link" -> q.link
                     [] OTHER -> None
<1>1. link \in Links
  BY DEF Request, Links
<1> HIDE DEF link
<1>2. Written(q) =
        [live  |-> q.seen.live /\ q.op # "delete",
         key   |-> [s \in Slots |->
                      IF s \in q.slots /\ q.op \in {"upload", "remove", "delete"}
                      THEN q.key ELSE q.seen.key[s]],
         drive |-> q.seen.drive,
         data  |-> [s \in Slots |-> IF s \in q.slots THEN link ELSE q.seen.data[s]],
         col   |-> IF "member" \in q.slots THEN link ELSE q.seen.col]
  BY DEF Written, link
<1>3. q.key \in Keys \cup {None}
  BY DEF Request
<1> QED
  BY <1>1, <1>2, <1>3 DEF Row

LEMMA MigratedType ==
  ASSUME NEW s \in Slots, NEW f \in Files
  PROVE  Migrated(s, f) \in Keys \ Uploads
<1>1. Migrated(s, f) \in MigratedKeys(s)
  BY DEF MigratedKeys
<1> QED
  BY <1>1, Parameters DEF Keys

LEMMA MigratedKeysType ==
  ASSUME NEW s \in Slots
  PROVE  MigratedKeys(s) \subseteq Keys \ Uploads
  BY MigratedType DEF MigratedKeys

LEMMA SlotType ==
  ASSUME NEW r \in Requests, req[r].slots # {}
  PROVE  Slot(r) \in req[r].slots
  BY DEF Slot

LEMMA SourceType ==
  ASSUME NEW ss \in Row, NEW s \in Slots
  PROVE  Source(ss, s) \in Files \cup {None}
  BY DEF Source, FromDrive, Row

LEMMA FinishedType ==
  ASSUME TypeInv, NEW ss \in Row, NEW s \in Slots, NEW k \in Keys, NEW f \in Files
  PROVE  /\ Finished(ss, s, k, f) \in Row
         /\ Finished(ss, s, k, f).key[s] = k
         /\ \A t \in Slots \ {s} : Finished(ss, s, k, f).key[t] = ss.key[t]
<1> DEFINE kept == [ss EXCEPT !.key = [ss.key EXCEPT ![s] = k], !.drive = [ss.drive EXCEPT ![s] = f]]
           shown == [kept EXCEPT !.data = [ss.data EXCEPT ![s] = k],
                                 !.col = IF s = "member" THEN k ELSE ss.col]
<1>1. [ss.key EXCEPT ![s] = k] \in [Slots -> Keys \cup {None}]
  BY DEF Row
<1>2. [ss.drive EXCEPT ![s] = f] \in [Slots -> Files \cup {None}]
  BY DEF Row
<1>3. [ss.data EXCEPT ![s] = k] \in [Slots -> Links]
  BY DEF Row, Links
<1>4. (IF s = "member" THEN k ELSE ss.col) \in Links
  BY DEF Row, Links
<1>5. kept \in Row /\ kept.key = [ss.key EXCEPT ![s] = k]
  BY <1>1, <1>2 DEF Row
<1>6. shown \in Row /\ shown.key = kept.key
  BY <1>3, <1>4, <1>5 DEF Row
<1>7. Finished(ss, s, k, f) = IF ~backend.public THEN kept ELSE shown
  BY DEF Finished, Row
<1>8. /\ [ss.key EXCEPT ![s] = k][s] = k
      /\ \A t \in Slots \ {s} : [ss.key EXCEPT ![s] = k][t] = ss.key[t]
  BY DEF Row
<1> HIDE DEF kept, shown
<1> QED
  BY <1>5, <1>6, <1>7, <1>8

-----------------------------------------------------------------------------
(* A step of one request that commits nothing.                             *)

LEMMA RequestStep ==
  ASSUME IInv, NEW r \in Requests, NEW x \in Request, req' = [req EXCEPT ![r] = x],
         backend' = backend, row' = row, media' = media, DOMAIN before' = DOMAIN before,
         objects' \subseteq Keys, lost' \subseteq Keys, lost \subseteq lost',
         calls' \in Nat, faults' \in Nat,
         \A k \in (objects \ objects') \cap Uploads : k \in x.gone /\ media[k] # "none",
         req[r].gone \subseteq x.gone \cup lost',
         Static(x), Flushed(x),
         Holding(x) => /\ x.key \in Uploads \cap objects' /\ media[x.key] = "none"
                       /\ x.make = {x.key}
                       /\ \A q \in Requests \ {r} : Holding(req[q]) => req[q].key # x.key,
         x.at # "idle" => x.seen = row \/ (req[r].at # "idle" /\ x.seen = req[r].seen),
         \A k \in x.hide : media[k] # "none",
         x.mine # None => \A q \in Requests \ {r} : req[q].mine = None
  PROVE  IInv'
<1>1. /\ req' \in [Requests -> Request] /\ req'[r] = x
      /\ \A q \in Requests \ {r} : req'[q] = req[q]
  BY DEF IInv, TypeInv
<1>2. TypeInv'
  BY <1>1 DEF IInv, TypeInv
<1>3. ASSUME NEW q \in Requests
      PROVE  Static(req'[q]) /\ Holds(req[q])' /\ Flushed(req[q])'
  <2>1. CASE q = r
    BY <1>1, <2>1 DEF Holds, Flushed
  <2>2. CASE q # r
    <3>1. req'[q] = req[q] /\ Static(req[q]) /\ Holds(req[q]) /\ Flushed(req[q])
      BY <1>1, <2>2 DEF IInv
    <3>2. Holding(req[q]) => req[q].key \in objects'
      BY <3>1 DEF Holds
    <3>3. Holds(req[q])'
      BY <3>1, <3>2 DEF Holds
    <3>4. Flushed(req[q])'
      BY <3>1 DEF Flushed
    <3> QED
      BY <3>1, <3>3, <3>4
  <2> QED
    BY <2>1, <2>2
<1>4. HeldApart'
  BY <1>1 DEF IInv, HeldApart
<1>5. Recorded'
  <2>1. Rows' \subseteq Rows
    BY <1>1 DEF Rows
  <2> QED
    BY <2>1 DEF IInv, Recorded
<1>6. Hidden' /\ OneFlushed'
  BY <1>1 DEF IInv, Hidden, OneFlushed
<1>7. NoDangling'
  <2> SUFFICES ASSUME NEW s \in Slots, row.key[s] \in Uploads \ objects'
               PROVE  row.key[s] \in lost' \cup UNION {req'[q].gone : q \in Requests}
    BY DEF NoDangling
  <2>1. CASE row.key[s] \in objects
    BY <1>1, <2>1
  <2>2. CASE row.key[s] \in lost
    BY <2>2
  <2>3. CASE \E q \in Requests : row.key[s] \in req[q].gone
    BY <1>1, <2>3
  <2> QED
    BY <2>1, <2>2, <2>3 DEF IInv, NoDangling
<1> QED
  BY <1>2, <1>3, <1>4, <1>5, <1>6, <1>7 DEF IInv, Static, Shape, Target, Session, Leaves

LEMMA BeginKeeps ==
  ASSUME IInv, NEW r \in Requests, NEW op, NEW slots \in SUBSET Slots,
         NEW link \in Files \cup {None}, NEW at, NEW page \in SUBSET Nat,
         BeginOver(r, op, slots, link, at, page), calls' \in Nat,
         \/ at = "store" /\ op \in Storing
         \/ at = "write" /\ op \in Clearing \cup {"link"}
         \/ at = "slot" /\ op \in Migrating,
         op = "upload" => \E s \in Slots : slots = {s}
  PROVE  IInv'
<1> DEFINE x == [Idle EXCEPT !.op = op, !.slots = slots, !.link = link, !.at = at,
                             !.seen = row, !.ss = row, !.page = page]
<1>1. /\ req' = [req EXCEPT ![r] = x] /\ req[r].at = "idle" /\ op \in Ops
      /\ UNCHANGED <<backend, row, media, objects, before, lost, faults>>
  BY DEF BeginOver
<1>2. row \in Row /\ at \in {"store", "write", "slot"}
  BY DEF IInv, TypeInv
<1>3. x \in Request
  BY <1>1, <1>2 DEF Idle, Request
<1>4. /\ x.op = op /\ x.slots = slots /\ x.at = at /\ x.seen = row /\ x.ss = row
      /\ x.mine = None /\ x.key = None /\ x.make = {} /\ x.hide = {} /\ x.gone = {}
  BY DEF Idle
<1> HIDE DEF x
<1>5. Shape(x)
  BY <1>2, <1>4 DEF Shape, Storing, Clearing, Migrating
<1>6. Target(x) /\ Session(x) /\ Leaves(x)
  BY <1>2, <1>4 DEF Target, Session, Leaves
<1>7. ~Holding(x) \/ at = "write"
  BY <1>2, <1>4 DEF Holding
<1>8. ~Holding(x)
  BY <1>4, <1>7 DEF Holding, Storing, Clearing, Migrating
<1>9. Static(x) /\ Flushed(x)
  BY <1>4, <1>5, <1>6 DEF Static, Flushed
<1>10. req[r].gone = {}
  BY <1>1 DEF IInv, Static, Shape, Idle
<1> QED
  BY <1>1, <1>3, <1>4, <1>8, <1>9, <1>10, RequestStep DEF IInv, TypeInv

LEMMA CallKeeps ==
  ASSUME IInv, NEW r \in Requests, Call(r)
  PROVE  IInv'
<1>1. Client => calls' \in Nat
  BY DEF Client, IInv, TypeInv
<1>2. "member" \in Slots
  BY Parameters
<1>3. ASSUME NEW s \in Slots, UploadPhoto(r, s)
      PROVE  IInv'
  BY <1>1, <1>3, BeginKeeps DEF Begin, UploadPhoto, Storing
<1>4. ASSUME NEW s \in Slots, DeletePhoto(r, s)
      PROVE  IInv'
  BY <1>1, <1>4, BeginKeeps DEF Begin, DeletePhoto, Clearing
<1>5. ASSUME NEW s \in Slots, NEW f \in Entered, UpdateLink(r, s, f)
      PROVE  IInv'
  BY <1>1, <1>5, BeginKeeps, Parameters DEF Begin, UpdateLink
<1>6. CASE UploadProfilePhoto(r)
  BY <1>1, <1>2, <1>6, BeginKeeps DEF Begin, UploadProfilePhoto, Storing
<1>7. CASE DeleteMember(r)
  BY <1>1, <1>7, BeginKeeps DEF Begin, DeleteMember, Clearing
<1>8. CASE MigrateOne(r) \/ MigrateBatch(r)
  <2>1. calls' \in Nat
    BY <1>1, <1>8 DEF MigrateOne, MigrateBatch, IInv, TypeInv
  <2>2. Page \in SUBSET Nat
    BY DEF Page, Waiting, IInv, TypeInv
  <2> QED
    BY <1>8, <2>1, <2>2, BeginKeeps DEF Begin, MigrateOne, MigrateBatch, Migrating
<1> QED
  BY <1>3, <1>4, <1>5, <1>6, <1>7, <1>8 DEF Call

\* What is known of a request that is under way.
LEMMA AtWork ==
  ASSUME IInv, NEW r \in Requests, req[r].at # "idle"
  PROVE  /\ req[r] \in Request /\ req[r].seen \in Row /\ req[r].ss \in Row
         /\ Shape(req[r]) /\ Target(req[r]) /\ Session(req[r]) /\ Leaves(req[r])
         /\ Holds(req[r]) /\ Flushed(req[r])
         /\ \A s \in Slots : req[r].seen.key[s] \in Uploads => media[req[r].seen.key[s]] # "none"
  <1>1. Static(req[r]) /\ Holds(req[r]) /\ Flushed(req[r]) /\ req[r] \in Request
    BY DEF IInv, TypeInv
  <1>2. Shape(req[r]) /\ Target(req[r]) /\ Session(req[r]) /\ Leaves(req[r])
    BY <1>1 DEF Static
  <1>3. req[r].seen \in Rows
    BY DEF Rows
  <1> QED
    BY <1>1, <1>2, <1>3 DEF Shape, IInv, Recorded

LEMMA StoreKeeps ==
  ASSUME IInv, NEW r \in Requests, Store(r)
  PROVE  IInv'
<1> DEFINE q == req[r]
<1>1. PICK u \in Uploads :
        /\ media[u] = "none" /\ u \notin objects /\ objects' = objects \cup {u}
        /\ req' = [req EXCEPT ![r].at = "write", ![r].key = u, ![r].make = {u}]
  BY DEF Store, Fresh
<1> DEFINE x == [q EXCEPT !.at = "write", !.key = u, !.make = {u}]
<1>2. req' = [req EXCEPT ![r] = x] /\ q.at = "store"
      /\ UNCHANGED <<backend, row, media, before, lost, calls, faults>>
  BY <1>1 DEF Store, IInv, TypeInv
<1>3. q \in Request /\ Shape(q) /\ Leaves(q)
  BY <1>2, AtWork
<1>4. u \in Keys
  BY DEF Keys
<1> HIDE DEF q
<1>5. /\ x \in Request /\ x.at = "write" /\ x.key = u /\ x.make = {u} /\ x.op = q.op
      /\ x.slots = q.slots /\ x.seen = q.seen /\ x.ss = q.ss /\ x.mine = q.mine
      /\ x.hide = q.hide /\ x.gone = q.gone
  BY <1>3, <1>4 DEF Request
<1> HIDE DEF x
<1>6. /\ q.op \in Storing /\ q.mine = None /\ q.ss = q.seen /\ q.hide = {} /\ q.gone = {}
      /\ q.seen \in Row
      /\ q.op = "upload" => \E s \in Slots : q.slots = {s}
  BY <1>2, <1>3 DEF Shape
<1>7. Shape(x)
  BY <1>3, <1>5, <1>6, <1>2 DEF Shape, Storing, Clearing
<1>8. Static(x) /\ Flushed(x)
  BY <1>5, <1>6, <1>7 DEF Static, Target, Session, Leaves, Flushed
<1>9. \A s \in Requests : Holding(req[s]) => req[s].key # u
  BY <1>1 DEF IInv, Holds
<1>10. objects' \subseteq Keys /\ objects \ objects' = {} /\ u \in objects'
  BY <1>1, <1>4 DEF IInv, TypeInv
<1>11. /\ req[r].gone = x.gone /\ x.hide = {} /\ x.mine = None
       /\ req[r].at # "idle" /\ x.seen = req[r].seen
  BY <1>2, <1>5, <1>6 DEF q
<1>12. lost' \subseteq Keys /\ calls' \in Nat /\ faults' \in Nat
  BY <1>2 DEF IInv, TypeInv
<1> QED
  BY <1>1, <1>2, <1>5, <1>8, <1>9, <1>10, <1>11, <1>12, RequestStep

LEMMA WriteKeeps ==
  ASSUME IInv, NEW r \in Requests, Write(r)
  PROVE  IInv'
<1> DEFINE q == req[r]
           w == Written(q)
           o == Overlaid(row, q.seen, w)
           at == IF q.op \in {"upload", "remove", "delete"} THEN "discard" ELSE "commit"
           x == [q EXCEPT !.ss = w, !.mine = o, !.at = at]
<1>1. req' = [req EXCEPT ![r] = x] /\ q.at = "write" /\ RowFree(r)
      /\ UNCHANGED <<backend, row, media, objects, before, lost, calls, faults>>
  BY DEF Write, IInv, TypeInv
<1>2. /\ q \in Request /\ q.seen \in Row /\ row \in Row
      /\ Shape(q) /\ Holds(q)
      /\ \A s \in Slots : q.seen.key[s] \in Uploads => media[q.seen.key[s]] # "none"
  BY <1>1, AtWork DEF IInv, TypeInv
<1>3. /\ w \in Row
      /\ \A s \in Slots : w.key[s] = IF s \in q.slots /\ q.op \in {"upload", "remove", "delete"}
                                     THEN q.key ELSE q.seen.key[s]
  BY <1>2, WrittenType
<1>h. w \in Row
  BY <1>3
<1> HIDE DEF w, q
<1>4. /\ o \in Row
      /\ \A s \in Slots : o.key[s] = IF w.key[s] = q.seen.key[s] THEN row.key[s] ELSE w.key[s]
  BY <1>2, <1>h, OverlaidType
<1>5. at \in {"discard", "commit"} /\ (at = "discard" <=> q.op \in Discarding)
  BY DEF Discarding
<1> HIDE DEF o, at
<1>6. /\ x \in Request /\ x.at = at /\ x.ss = w /\ x.mine = o /\ x.op = q.op
      /\ x.slots = q.slots /\ x.seen = q.seen /\ x.key = q.key /\ x.make = q.make
      /\ x.hide = q.hide /\ x.gone = q.gone
  BY <1>2, <1>3, <1>4, <1>5 DEF Request
<1> HIDE DEF x
<1>7. /\ q.op \in Storing \cup Clearing \cup {"link"} /\ q.hide = {} /\ q.gone = {}
      /\ q.op = "upload" => \E s \in Slots : q.slots = {s}
      /\ q.op \in Clearing \cup {"link"} => q.key = None
      /\ q.op \notin Storing => q.make \cap Uploads = {}
  BY <1>1, <1>2 DEF Shape
<1>8. q.op \in Storing => q.key \in Uploads \cap objects /\ media[q.key] = "none" /\ q.make = {q.key}
  BY <1>1, <1>2 DEF Holds, Holding
<1>9. Shape(x)
  BY <1>2, <1>3, <1>4, <1>5, <1>6, <1>7 DEF Shape
<1>10. None \notin Uploads
  BY Parameters DEF Keys
<1>11. ASSUME q.op \in Discarding, NEW s \in q.slots, s \in Slots, q.seen.key[s] \in Uploads
       PROVE  o.key[s] # q.seen.key[s]
  <2>1. w.key[s] = q.key
    BY <1>3, <1>11 DEF Discarding
  <2>2. q.key # q.seen.key[s]
    <3>1. CASE q.op = "upload"
      BY <1>2, <1>8, <1>11, <3>1 DEF Storing
    <3>2. CASE q.op # "upload"
      BY <1>7, <1>10, <1>11, <3>2 DEF Clearing, Discarding
    <3> QED
      BY <3>1, <3>2
  <2> QED
    BY <1>4, <1>11, <2>1, <2>2
<1>12. q.slots \subseteq Slots
  BY <1>2 DEF Request
<1>13. Leaves(x)
  BY <1>5, <1>6, <1>7, <1>11, <1>12 DEF Leaves
<1>14. Static(x)
  BY <1>5, <1>6, <1>9, <1>13 DEF Static, Target, Session
<1>15. Flushed(x)
  <2> SUFFICES ASSUME NEW s \in Slots, o.key[s] # row.key[s]
               PROVE  o.key[s] \notin Uploads \/ (q.op = "upload" /\ s \in q.slots /\ o.key[s] = q.key)
    BY <1>6 DEF Flushed
  <2>1. /\ o.key[s] = q.key /\ s \in q.slots /\ q.op \in {"upload", "remove", "delete"}
    BY <1>3, <1>4
  <2> QED
    BY <1>7, <1>10, <2>1 DEF Clearing
<1>16. \A s \in Requests \ {r} : Holding(req[s]) /\ q.op \in Storing => req[s].key # q.key
  BY <1>1 DEF IInv, HeldApart, Holding, q
<1>17. \A s \in Requests \ {r} : req[s].mine = None
  BY <1>1 DEF RowFree
<1>18. Holding(x) => q.op \in Storing
  BY <1>6 DEF Holding
<1>19. req[r].gone = x.gone /\ x.hide = {} /\ req[r].at # "idle" /\ x.seen = req[r].seen
  BY <1>1, <1>6, <1>7 DEF q
<1>20. /\ objects' \subseteq Keys /\ lost' \subseteq Keys /\ calls' \in Nat /\ faults' \in Nat
       /\ objects \ objects' = {}
  BY <1>1 DEF IInv, TypeInv
<1> QED
  BY ZenonT(60), <1>1, <1>6, <1>8, <1>14, <1>15, <1>16, <1>17, <1>18, <1>19, <1>20, RequestStep

LEMMA DeletesType ==
  ASSUME IInv, NEW keys, DeleteObjects(keys)
  PROVE  /\ objects' \subseteq objects /\ objects \ objects' \subseteq keys
         /\ objects' \subseteq Keys /\ faults' \in Nat
  BY DEF DeleteObjects, Fault, IInv, TypeInv

LEMMA DiscardKeeps ==
  ASSUME IInv, NEW r \in Requests, Discard(r)
  PROVE  IInv'
<1> DEFINE q == req[r]
           previous == Previous(q)
           hide == {k \in previous : media[k] # "none"}
           x == [q EXCEPT !.hide = hide, !.gone = previous, !.at = "commit"]
<1>1. /\ req' = [req EXCEPT ![r] = x] /\ q.at = "discard" /\ DeleteObjects(previous)
      /\ UNCHANGED <<backend, row, media, before, lost, calls>>
  BY DEF Discard, IInv, TypeInv
<1>2. /\ q \in Request /\ q.seen \in Row /\ q.ss \in Row
      /\ Shape(q) /\ Holds(q) /\ Flushed(q) /\ Leaves(q)
      /\ \A s \in Slots : q.seen.key[s] \in Uploads => media[q.seen.key[s]] # "none"
  BY <1>1, AtWork
<1>3. previous = {q.seen.key[s] : s \in q.slots} \ {None} /\ q.slots \subseteq Slots
  BY <1>2 DEF Previous, Request
<1> HIDE DEF q, previous
<1>4. previous \subseteq Keys /\ hide \subseteq Keys
  BY <1>2, <1>3 DEF Row
<1>5. \A k \in previous \cap Uploads :
        /\ media[k] # "none"
        /\ \E s \in q.slots : q.seen.key[s] = k /\ q.mine.key[s] # k
  BY <1>1, <1>2, <1>3 DEF Leaves
<1>6. \A k \in hide : media[k] # "none"
  OBVIOUS
<1> HIDE DEF hide
<1>7. /\ x \in Request /\ x.at = "commit" /\ x.ss = q.ss /\ x.mine = q.mine /\ x.op = q.op
      /\ x.slots = q.slots /\ x.seen = q.seen /\ x.key = q.key /\ x.make = q.make
      /\ x.hide = hide /\ x.gone = previous
  BY <1>2, <1>4 DEF Request
<1> HIDE DEF x
<1>8. q.mine \in Row /\ q.gone = {} /\ q.op \in Discarding
  BY <1>1, <1>2 DEF Shape
<1>9. q.mine # None
  BY <1>8, Parameters
<1>10. Shape(x)
  BY <1>1, <1>2, <1>7, <1>8 DEF Shape, Discarding, Storing, Clearing, Migrating
<1>11. Leaves(x)
  BY <1>3, <1>5, <1>7, <1>9 DEF Leaves
<1>12. Static(x) /\ Flushed(x)
  BY <1>2, <1>7, <1>10, <1>11 DEF Static, Target, Session, Flushed
<1>13. Holding(x) => Holding(q)
  BY <1>1, <1>7 DEF Holding
<1>14. /\ objects' \subseteq objects /\ objects \ objects' \subseteq previous
       /\ objects' \subseteq Keys /\ faults' \in Nat /\ calls' \in Nat /\ lost' \subseteq Keys
  BY <1>1, DeletesType DEF IInv, TypeInv
<1>15. Holding(q) => /\ q.key \in Uploads \cap objects /\ media[q.key] = "none"
                     /\ q.make = {q.key} /\ q.key \notin previous
                     /\ \A s \in Requests \ {r} : Holding(req[s]) => req[s].key # q.key
  BY <1>2, <1>5 DEF Holds, IInv, HeldApart, q
<1>16. \A s \in Requests \ {r} : req[s].mine = None
  BY <1>9 DEF IInv, OneFlushed, q
<1>17. req[r].gone = {} /\ req[r].at # "idle" /\ x.seen = req[r].seen
  BY <1>1, <1>7, <1>8 DEF q
<1>18. Holding(x) => /\ x.key \in Uploads \cap objects' /\ media[x.key] = "none"
                     /\ x.make = {x.key}
                     /\ \A s \in Requests \ {r} : Holding(req[s]) => req[s].key # x.key
  BY <1>7, <1>13, <1>14, <1>15
<1>19. \A k \in (objects \ objects') \cap Uploads : k \in x.gone /\ media[k] # "none"
  BY <1>5, <1>7, <1>14
<1>20. \A k \in x.hide : media[k] # "none"
  BY <1>6, <1>7
<1> QED
  BY <1>1, <1>7, <1>12, <1>14, <1>16, <1>17, <1>18, <1>19, <1>20, RequestStep

LEMMA FailKeeps ==
  ASSUME IInv, NEW r \in Requests, Fail(r), faults' \in Nat
  PROVE  IInv'
<1>1. /\ req' = [req EXCEPT ![r] = Idle] /\ lost' = lost \cup req[r].gone
      /\ UNCHANGED <<backend, row, media, objects, before, calls>>
  BY DEF Fail
<1>2. req[r].gone \subseteq Keys
  BY DEF IInv, TypeInv, Request
<1>3. /\ Idle \in Request /\ Static(Idle) /\ ~Holding(Idle) /\ Flushed(Idle)
      /\ Idle.mine = None /\ Idle.hide = {} /\ Idle.at = "idle"
  BY IdleType DEF Flushed, Idle
<1>4. /\ objects' \subseteq Keys /\ lost' \subseteq Keys /\ calls' \in Nat /\ objects \ objects' = {}
  BY <1>1, <1>2 DEF IInv, TypeInv
<1> QED
  BY <1>1, <1>3, <1>4, RequestStep

-----------------------------------------------------------------------------
(* The migration.                                                          *)

\* A step of a migration: what its session replaces it may delete.
LEMMA MigrationStep ==
  ASSUME IInv, NEW r \in Requests, req[r].at \in {"slot", "copy", "record"},
         NEW x \in Request, req' = [req EXCEPT ![r] = x],
         x.op = req[r].op, x.seen = req[r].seen, x.mine = req[r].mine, x.ss \in Row,
         x.at \in {"slot", "copy", "record"}, Target(x),
         x.make \cap Uploads \subseteq req[r].make, \A k \in x.hide \ req[r].hide : media[k] # "none",
         req[r].gone \subseteq x.gone,
         \A s \in Slots : x.ss.key[s] \in Uploads => x.ss.key[s] = req[r].ss.key[s],
         \A k \in (x.gone \ req[r].gone) \cap Uploads :
           \E s \in Slots : req[r].ss.key[s] = k /\ x.ss.key[s] # k,
         backend' = backend, row' = row, media' = media, before' = before, lost' = lost,
         calls' \in Nat,
         objects' \subseteq Keys, objects \ objects' \subseteq x.gone, faults' \in Nat
  PROVE  IInv'
<1> DEFINE q == req[r]
<1>1. /\ q \in Request /\ q.seen \in Row /\ q.at \in {"slot", "copy", "record"}
      /\ Shape(q) /\ Session(q) /\ Leaves(q)
      /\ \A s \in Slots : q.seen.key[s] \in Uploads => media[q.seen.key[s]] # "none"
  BY AtWork
<1>2. q.op \in Migrating /\ q.mine = None /\ q.make \cap Uploads = {}
  BY <1>1 DEF Shape, Migrating, Storing
<1>3. \A s \in Slots : q.ss.key[s] \in Uploads => q.ss.key[s] = q.seen.key[s]
  BY <1>1 DEF Session
<1>4. \A k \in q.hide : media[k] # "none"
  BY DEF IInv, Hidden
<1>5. \A s \in Slots : x.ss.key[s] \in Uploads => x.ss.key[s] = q.ss.key[s]
  OBVIOUS
<1>6. \A k \in (x.gone \ q.gone) \cap Uploads : \E s \in Slots : q.ss.key[s] = k /\ x.ss.key[s] # k
  OBVIOUS
<1>7. /\ x.op = q.op /\ x.seen = q.seen /\ x.mine = q.mine
      /\ x.make \cap Uploads \subseteq q.make /\ q.gone \subseteq x.gone
      /\ \A k \in x.hide \ q.hide : media[k] # "none"
  OBVIOUS
<1> HIDE DEF q
<1>8. Shape(x)
  BY <1>1, <1>2, <1>7 DEF Shape, Storing, Clearing, Migrating
<1>9. Session(x)
  BY <1>3, <1>5, <1>7 DEF Session
<1>10. ASSUME NEW k \in x.gone \cap Uploads
       PROVE  \E s \in Slots : q.seen.key[s] = k /\ x.ss.key[s] # k
  <2>1. CASE k \notin q.gone
    BY <1>3, <1>6, <1>10, <2>1
  <2>2. CASE k \in q.gone
    <3>1. PICK s \in Slots : q.seen.key[s] = k /\ q.ss.key[s] # k
      BY <1>1, <1>10, <2>2 DEF Leaves
    <3> QED
      BY <1>10, <1>5, <3>1
  <2> QED
    BY <1>7, <1>10, <2>1, <2>2
<1>11. Leaves(x)
  BY <1>7, <1>10 DEF Leaves
<1>12. Static(x) /\ Flushed(x) /\ ~Holding(x)
  BY <1>2, <1>7, <1>8, <1>9, <1>11 DEF Static, Flushed, Holding, Storing, Migrating
<1>13. \A k \in (objects \ objects') \cap Uploads : k \in x.gone /\ media[k] # "none"
  BY <1>1, <1>10
<1>14. \A k \in x.hide : media[k] # "none"
  BY <1>4, <1>7
<1>15. /\ req[r].gone \subseteq x.gone /\ req[r].at # "idle" /\ x.seen = req[r].seen
       /\ x.mine = None /\ lost' \subseteq Keys
  BY <1>1, <1>2, <1>7 DEF q, IInv, TypeInv
<1> QED
  BY <1>12, <1>13, <1>14, <1>15, RequestStep

\* On to the next slot.
LEMMA SkipKeeps ==
  ASSUME IInv, NEW r \in Requests, req[r].at \in {"slot", "copy"}, NEW ss \in Row, Skip(r, ss),
         \A s \in Slots : ss.key[s] \in Uploads => ss.key[s] = req[r].ss.key[s],
         UNCHANGED <<backend, row, media, objects, before, lost, calls>>, faults' \in Nat
  PROVE  IInv'
<1> DEFINE q == req[r]
           x == [q EXCEPT !.slots = @ \ {Slot(r)}, !.ss = ss, !.key = None, !.at = "slot"]
<1>1. q \in Request /\ req' = [req EXCEPT ![r] = x]
  BY DEF Skip, IInv, TypeInv
<1>2. /\ x \in Request /\ x.op = q.op /\ x.seen = q.seen /\ x.mine = q.mine /\ x.ss = ss
      /\ x.at = "slot" /\ x.make = q.make /\ x.hide = q.hide /\ x.gone = q.gone
  BY <1>1 DEF Request
<1> HIDE DEF x
<1>3. Target(x)
  BY <1>2 DEF Target
<1>4. objects' \subseteq Keys /\ objects \ objects' = {} /\ calls' \in Nat
  BY DEF IInv, TypeInv
<1>5. /\ x.op = req[r].op /\ x.seen = req[r].seen /\ x.mine = req[r].mine
      /\ x.make \cap Uploads \subseteq req[r].make /\ x.hide \ req[r].hide = {}
      /\ req[r].gone \subseteq x.gone /\ x.gone \ req[r].gone = {}
      /\ req[r].at \in {"slot", "copy", "record"} /\ x.at \in {"slot", "copy", "record"}
      /\ x.ss \in Row
  BY <1>2
<1>6. \A s \in Slots : x.ss.key[s] \in Uploads => x.ss.key[s] = req[r].ss.key[s]
  BY <1>2
<1> HIDE DEF q
<1> QED
  BY <1>1, <1>2, <1>3, <1>4, <1>5, <1>6, MigrationStep

LEMMA DecideKeeps ==
  ASSUME IInv, NEW r \in Requests, Decide(r)
  PROVE  IInv'
<1> DEFINE q == req[r]
           s == Slot(r)
           there == q.ss.key[s] \in objects
           found == FindObjectKey(MigratedKeys(s))
<1>1. /\ q.at = "slot" /\ q.slots # {}
      /\ UNCHANGED <<backend, row, media, objects, before, lost, calls, faults>>
  BY DEF Decide
<1>2. q \in Request /\ q.ss \in Row /\ TypeInv /\ s \in q.slots /\ s \in Slots
  BY <1>1, AtWork, SlotType DEF IInv, Request
<1>3. Source(q.ss, s) \in Files \cup {None}
  BY <1>2, SourceType
<1>4. faults' \in Nat
  BY <1>1, <1>2 DEF TypeInv
<1>5. CASE Skip(r, q.ss)
  BY <1>1, <1>2, <1>4, <1>5, SkipKeeps
<1>6. CASE Source(q.ss, s) # None /\ \E k \in found : Skip(r, Finished(q.ss, s, k, Source(q.ss, s)))
  <2>1. PICK k \in found : Skip(r, Finished(q.ss, s, k, Source(q.ss, s)))
    BY <1>6
  <2>2. k \in Keys \ Uploads
    BY <1>2, MigratedKeysType DEF FindObjectKey
  <2>3. Source(q.ss, s) \in Files
    BY <1>3, <1>6
  <2> DEFINE f == Finished(q.ss, s, k, Source(q.ss, s))
  <2>4. f \in Row /\ f.key[s] = k /\ \A t \in Slots \ {s} : f.key[t] = q.ss.key[t]
    BY <1>2, <2>2, <2>3, FinishedType
  <2> HIDE DEF f
  <2>5. \A t \in Slots : f.key[t] \in Uploads => f.key[t] = q.ss.key[t]
    BY <2>2, <2>4
  <2>6. Skip(r, f)
    BY <2>1 DEF f
  <2> QED
    BY <1>1, <1>4, <2>4, <2>5, <2>6, SkipKeeps
<1>7. CASE Source(q.ss, s) # None /\ req' = [req EXCEPT ![r].at = "copy"]
  <2> DEFINE x == [q EXCEPT !.at = "copy"]
  <2>1. req' = [req EXCEPT ![r] = x]
    BY <1>2, <1>7 DEF TypeInv
  <2>2. /\ x \in Request /\ x.op = q.op /\ x.seen = q.seen /\ x.mine = q.mine /\ x.ss = q.ss
        /\ x.at = "copy" /\ x.make = q.make /\ x.hide = q.hide /\ x.gone = q.gone
        /\ x.slots = q.slots
    BY <1>2 DEF Request
  <2> HIDE DEF x
  <2>3. Source(q.ss, CHOOSE t \in q.slots : t = "member" \/ "member" \notin q.slots) \in Files
    BY <1>3, <1>7 DEF Slot
  <2>4. Target(x)
    BY <1>1, <2>2, <2>3 DEF Target
  <2>5. objects' \subseteq Keys /\ objects \ objects' = {} /\ calls' \in Nat
    BY <1>1, <1>2 DEF TypeInv
  <2>6. /\ x.op = req[r].op /\ x.seen = req[r].seen /\ x.mine = req[r].mine
        /\ x.make \cap Uploads \subseteq req[r].make /\ x.hide \ req[r].hide = {}
        /\ req[r].gone \subseteq x.gone /\ x.gone \ req[r].gone = {}
        /\ req[r].at \in {"slot", "copy", "record"} /\ x.at \in {"slot", "copy", "record"}
        /\ x.ss \in Row
    BY <1>1, <1>2, <2>2
  <2>7. \A t \in Slots : x.ss.key[t] \in Uploads => x.ss.key[t] = req[r].ss.key[t]
    BY <2>2
  <2> HIDE DEF q
  <2> QED
    BY <1>1, <1>4, <2>1, <2>2, <2>4, <2>5, <2>6, <2>7, MigrationStep
<1> QED
  <2>1. \/ Skip(r, q.ss)
        \/ Source(q.ss, s) # None /\ \E k \in found : Skip(r, Finished(q.ss, s, k, Source(q.ss, s)))
        \/ Source(q.ss, s) # None /\ req' = [req EXCEPT ![r].at = "copy"]
    BY DEF Decide
  <2> QED
    BY <2>1, <1>5, <1>6, <1>7

LEMMA CopyKeeps ==
  ASSUME IInv, NEW r \in Requests, Copy(r)
  PROVE  IInv'
<1> DEFINE q == req[r]
           s == Slot(r)
           k == Migrated(s, Source(q.ss, s))
           x == [q EXCEPT !.at = "record", !.key = k]
<1>a. CASE Source(q.ss, s) \in Unshared
  <2>1. /\ q.at = "copy" /\ Skip(r, q.ss)
        /\ UNCHANGED <<backend, row, media, objects, before, lost, calls, faults>>
    BY <1>a DEF Copy
  <2>2. q.ss \in Row /\ faults' \in Nat
    BY <2>1, AtWork DEF IInv, TypeInv
  <2> QED
    BY <2>1, <2>2, SkipKeeps
<1> SUFFICES ASSUME Source(q.ss, s) \notin Unshared
             PROVE  IInv'
  BY <1>a
<1>1. /\ q.at = "copy" /\ objects' = objects \cup {k} /\ req' = [req EXCEPT ![r] = x]
      /\ UNCHANGED <<backend, row, media, before, lost, calls, faults>>
  BY DEF Copy, IInv, TypeInv
<1>2. q \in Request /\ q.ss \in Row /\ q.slots # {} /\ Source(q.ss, s) \in Files
  BY <1>1, AtWork DEF Target, Slot
<1>3. s \in Slots
  BY <1>2, SlotType DEF Request
<1>4. k \in Keys
  BY <1>2, <1>3, MigratedType
<1>5. LET t == CHOOSE t \in q.slots : t = "member" \/ "member" \notin q.slots
      IN  Source(q.ss, t) \in Files /\ k = Migrated(t, Source(q.ss, t))
  BY <1>2 DEF Slot
<1> HIDE DEF k
<1>6. /\ x \in Request /\ x.op = q.op /\ x.seen = q.seen /\ x.mine = q.mine /\ x.ss = q.ss
      /\ x.at = "record" /\ x.make = q.make /\ x.hide = q.hide /\ x.gone = q.gone
      /\ x.slots = q.slots /\ x.key = k
  BY <1>2, <1>4 DEF Request
<1> HIDE DEF x
<1>7. Target(x)
  BY <1>2, <1>5, <1>6 DEF Target
<1>8. objects' \subseteq Keys /\ objects \ objects' = {} /\ calls' \in Nat /\ faults' \in Nat
  BY <1>1, <1>4 DEF IInv, TypeInv
<1>9. /\ x.op = req[r].op /\ x.seen = req[r].seen /\ x.mine = req[r].mine
      /\ x.make \cap Uploads \subseteq req[r].make /\ x.hide \ req[r].hide = {}
      /\ req[r].gone \subseteq x.gone /\ x.gone \ req[r].gone = {}
      /\ req[r].at \in {"slot", "copy", "record"} /\ x.at \in {"slot", "copy", "record"}
      /\ x.ss \in Row
  BY <1>1, <1>2, <1>6
<1>10. \A t \in Slots : x.ss.key[t] \in Uploads => x.ss.key[t] = req[r].ss.key[t]
  BY <1>6
<1> HIDE DEF q
<1> QED
  BY <1>1, <1>6, <1>7, <1>8, <1>9, <1>10, MigrationStep

LEMMA RecordKeeps ==
  ASSUME IInv, NEW r \in Requests, Record(r)
  PROVE  IInv'
<1> DEFINE q == req[r]
           s == Slot(r)
           k == q.key
           old == IF Replaced(q.ss, s) /\ q.ss.key[s] # k THEN {q.ss.key[s]} ELSE {}
           make == IF media[k] = "none" THEN {k} ELSE {}
           hide == {o \in old : media[o] # "none"}
           slots == q.slots \ {s}
           f == Finished(q.ss, s, k, Source(q.ss, s))
           x == [q EXCEPT !.make = @ \cup make, !.hide = @ \cup hide, !.gone = @ \cup old,
                          !.slots = slots, !.key = None, !.at = "slot", !.ss = f]
<1>1. /\ q.at = "record" /\ DeleteObjects(old)
      /\ req' = [req EXCEPT
           ![r].make = @ \cup make, ![r].hide = @ \cup hide, ![r].gone = @ \cup old,
           ![r].slots = @ \ {s}, ![r].key = None, ![r].at = "slot", ![r].ss = f]
      /\ UNCHANGED <<backend, row, media, before, lost, calls>>
  BY DEF Record
<1>2. /\ q \in Request /\ q.ss \in Row /\ q.slots # {} /\ Source(q.ss, s) \in Files
      /\ k = Migrated(s, Source(q.ss, s)) /\ TypeInv
  BY <1>1, AtWork DEF Target, Slot, IInv
<1>3. s \in Slots /\ slots \in SUBSET Slots
  BY <1>2, SlotType DEF Request
<1>4. k \in Keys \ Uploads
  BY <1>2, <1>3, MigratedType
<1>5. f \in Row /\ f.key[s] = k /\ \A t \in Slots \ {s} : f.key[t] = q.ss.key[t]
  BY <1>2, <1>3, <1>4, FinishedType
<1>6. old \subseteq Keys /\ (\A o \in old : o = q.ss.key[s] /\ o # k)
  BY <1>2, <1>3 DEF Replaced, Row
<1>7. make \in SUBSET (Keys \ Uploads) /\ hide \in SUBSET Keys
  BY <1>4, <1>6
<1>8. \A o \in hide : media[o] # "none"
  OBVIOUS
<1>9. req' = [req EXCEPT ![r] = x]
  BY ZenonT(60), <1>1, <1>2 DEF TypeInv
<1>10. req[r] = q
  OBVIOUS
<1> HIDE DEF q, k, old, make, hide, slots, f
<1>11. /\ x \in Request /\ x.op = q.op /\ x.seen = q.seen /\ x.mine = q.mine /\ x.ss = f
       /\ x.at = "slot" /\ x.make = q.make \cup make /\ x.hide = q.hide \cup hide
       /\ x.gone = q.gone \cup old
  BY <1>2, <1>3, <1>5, <1>6, <1>7 DEF Request
<1> HIDE DEF x
<1>12. Target(x)
  BY <1>11 DEF Target
<1>13. \A t \in Slots : x.ss.key[t] \in Uploads => x.ss.key[t] = req[r].ss.key[t]
  BY <1>4, <1>5, <1>10, <1>11
<1>14. \A o \in (x.gone \ req[r].gone) \cap Uploads :
         \E t \in Slots : req[r].ss.key[t] = o /\ x.ss.key[t] # o
  BY <1>3, <1>5, <1>6, <1>10, <1>11
<1>15. /\ objects' \subseteq Keys /\ objects \ objects' \subseteq x.gone
       /\ calls' \in Nat /\ faults' \in Nat
  BY <1>1, <1>2, <1>6, <1>11, DeletesType DEF TypeInv
<1>16. /\ x.op = req[r].op /\ x.seen = req[r].seen /\ x.mine = req[r].mine
       /\ x.make \cap Uploads \subseteq req[r].make
       /\ \A o \in x.hide \ req[r].hide : media[o] # "none"
       /\ req[r].gone \subseteq x.gone
       /\ req[r].at \in {"slot", "copy", "record"} /\ x.at \in {"slot", "copy", "record"}
       /\ x.ss \in Row
  BY <1>1, <1>5, <1>7, <1>8, <1>10, <1>11
<1> QED
  BY <1>1, <1>9, <1>11, <1>12, <1>13, <1>14, <1>15, <1>16, MigrationStep

LEMMA FlushKeeps ==
  ASSUME IInv, NEW r \in Requests, Flush(r)
  PROVE  IInv'
<1> DEFINE q == req[r]
           o == Overlaid(row, q.seen, q.ss)
           mine == IF q.ss = q.seen THEN None ELSE o
           x == [q EXCEPT !.mine = mine, !.at = "commit"]
<1>1. /\ q.at = "slot" /\ req' = [req EXCEPT ![r] = x] /\ (q.ss # q.seen => RowFree(r))
      /\ UNCHANGED <<backend, row, media, objects, before, lost, calls, faults>>
  BY DEF Flush, IInv, TypeInv
<1>2. /\ q \in Request /\ q.seen \in Row /\ q.ss \in Row /\ row \in Row
      /\ Shape(q) /\ Session(q) /\ Leaves(q)
  BY <1>1, AtWork DEF IInv, TypeInv
<1>3. q.op \in Migrating /\ q.make \cap Uploads = {}
  BY <1>1, <1>2 DEF Shape, Migrating, Storing
<1>4. \A s \in Slots : q.ss.key[s] \in Uploads => q.ss.key[s] = q.seen.key[s]
  BY <1>1, <1>2 DEF Session
<1>5. \A k \in q.gone \cap Uploads : \E s \in Slots : q.seen.key[s] = k /\ q.ss.key[s] # k
  BY <1>1, <1>2 DEF Leaves
<1>6. \A k \in q.hide : media[k] # "none"
  BY DEF IInv, Hidden
<1>7. q.ss # q.seen => \A p \in Requests \ {r} : req[p].mine = None
  BY <1>1 DEF RowFree
<1> HIDE DEF q
<1>8. /\ o \in Row
      /\ \A s \in Slots : o.key[s] = IF q.ss.key[s] = q.seen.key[s] THEN row.key[s] ELSE q.ss.key[s]
  BY <1>2, OverlaidType
<1> HIDE DEF o
<1>9. /\ mine \in Row \cup {None} /\ (mine = None <=> q.ss = q.seen) /\ (mine # None => mine = o)
  BY <1>8, Parameters
<1> HIDE DEF mine
<1>10. /\ x \in Request /\ x.op = q.op /\ x.seen = q.seen /\ x.ss = q.ss /\ x.mine = mine
       /\ x.at = "commit" /\ x.make = q.make /\ x.hide = q.hide /\ x.gone = q.gone
  BY <1>2, <1>9 DEF Request
<1> HIDE DEF x
<1>11. Shape(x)
  BY <1>2, <1>3, <1>10 DEF Shape, Storing, Clearing, Migrating
<1>12. ASSUME NEW k \in q.gone \cap Uploads
       PROVE  \E s \in Slots : q.seen.key[s] = k /\ mine # None /\ mine.key[s] # k
  <2>1. PICK s \in Slots : q.seen.key[s] = k /\ q.ss.key[s] # k
    BY <1>5
  <2>2. mine # None /\ mine.key[s] # k
    BY <1>8, <1>9, <2>1
  <2> QED
    BY <2>1, <2>2
<1>13. Leaves(x)
  BY <1>10, <1>12 DEF Leaves
<1>14. Flushed(x)
  BY <1>4, <1>8, <1>9, <1>10 DEF Flushed
<1>15. Static(x) /\ ~Holding(x)
  BY <1>3, <1>10, <1>11, <1>13 DEF Static, Target, Session, Holding, Storing, Migrating
<1>16. /\ x.seen = req[r].seen /\ req[r].at # "idle" /\ req[r].gone \subseteq x.gone
       /\ (x.mine # None => \A p \in Requests \ {r} : req[p].mine = None)
       /\ \A k \in x.hide : media[k] # "none"
  BY <1>1, <1>6, <1>7, <1>9, <1>10 DEF q
<1>17. /\ objects' \subseteq Keys /\ lost' \subseteq Keys /\ calls' \in Nat /\ faults' \in Nat
       /\ objects \ objects' = {}
  BY <1>1 DEF IInv, TypeInv
<1> QED
  BY <1>1, <1>10, <1>14, <1>15, <1>16, <1>17, RequestStep

-----------------------------------------------------------------------------
(* The commit, and a media deleted by itself.                              *)

LEMMA DeleteMediaKeeps ==
  ASSUME IInv, NEW k \in Keys, DeleteMedia(k)
  PROVE  IInv'
<1>1. /\ media[k] # "none" /\ lost' = lost \cup {k} /\ calls' = calls + 1
      /\ UNCHANGED <<backend, row, before, req>>
  BY DEF DeleteMedia, Client
<1>2. /\ objects' \subseteq objects /\ objects \ objects' \subseteq {k} /\ faults' \in Nat
      /\ media' = media \/ media' = [media EXCEPT ![k] = "hidden"]
  <2>1. CASE DeleteObjects({k}) /\ media' = [media EXCEPT ![k] = "hidden"]
    BY <2>1, DeletesType
  <2>2. CASE objects' = objects \ {k} /\ Fault /\ UNCHANGED media
    BY <2>2 DEF Fault, IInv, TypeInv
  <2> QED
    BY <2>1, <2>2 DEF DeleteMedia
<1>3. /\ media' \in [Keys -> {"none", "live", "hidden"}]
      /\ \A j \in Keys : media'[j] = "none" <=> media[j] = "none"
  BY <1>1, <1>2 DEF IInv, TypeInv
<1>4. TypeInv'
  BY <1>1, <1>2, <1>3 DEF IInv, TypeInv
<1>5. ASSUME NEW r \in Requests
      PROVE  Static(req[r])' /\ Holds(req[r])' /\ Flushed(req[r])'
  <2>1. Static(req[r]) /\ Holds(req[r]) /\ Flushed(req[r])
    BY DEF IInv
  <2>2. Static(req[r])'
    BY <1>1, <2>1 DEF Static, Shape, Target, Session, Leaves
  <2>3. Holds(req[r])'
    BY <1>1, <1>2, <1>3, <2>1 DEF Holds, Holding, Keys
  <2> QED
    BY <1>1, <2>1, <2>2, <2>3 DEF Flushed
<1>6. HeldApart' /\ OneFlushed'
  BY <1>1 DEF IInv, HeldApart, OneFlushed, Holding
<1>7. Recorded'
  <2>1. Rows' = Rows
    BY <1>1 DEF Rows
  <2>2. Uploads \subseteq Keys
    BY DEF Keys
  <2> QED
    BY <1>3, <2>1, <2>2 DEF IInv, Recorded
<1>8. Hidden'
  <2>1. \A r \in Requests : req[r].hide \subseteq Keys
    BY DEF IInv, TypeInv, Request
  <2> QED
    BY <1>1, <1>3, <2>1 DEF IInv, Hidden
<1>9. NoDangling'
  BY <1>1, <1>2 DEF IInv, NoDangling
<1> QED
  BY <1>4, <1>5, <1>6, <1>7, <1>8, <1>9 DEF IInv

LEMMA CommitKeeps ==
  ASSUME IInv, NEW r \in Requests, Commit(r)
  PROVE  IInv'
<1> DEFINE q == req[r]
<1>1. /\ q.at = "commit" /\ req' = [req EXCEPT ![r] = Idle]
      /\ row' = (IF q.mine = None THEN row ELSE q.mine)
      /\ media' = [k \in Keys |->
           CASE k \in q.hide -> "hidden"
             [] k \in q.make \ q.hide -> "live"
             [] OTHER -> media[k]]
      /\ DOMAIN before' = DOMAIN before
      /\ UNCHANGED <<backend, objects, lost, calls, faults>>
  BY DEF Commit, Swept
<1>2. /\ q \in Request /\ q.seen \in Row /\ Shape(q) /\ Leaves(q) /\ Holds(q) /\ Flushed(q)
  BY <1>1, AtWork
<1>3. q.seen \in Rows /\ row \in Rows
  BY <1>1 DEF Rows
<1>4. \A k \in q.hide : media[k] # "none"
  BY DEF IInv, Hidden
<1>5. /\ req' \in [Requests -> Request] /\ req'[r] = Idle
      /\ \A p \in Requests \ {r} : req'[p] = req[p]
  BY <1>1, IdleType DEF IInv, TypeInv
<1>6. \A p \in Requests \ {r} : q.mine # None => req[p].mine = None
  BY DEF IInv, OneFlushed
<1>7. \A p \in Requests \ {r} : Holding(q) /\ Holding(req[p]) => q.key # req[p].key
  BY DEF IInv, HeldApart
<1>8. Uploads \subseteq Keys /\ None \notin Row
  BY Parameters DEF Keys
<1> HIDE DEF q
<1>9. q.mine \in Row \cup {None} /\ q.hide \subseteq Keys /\ q.make \subseteq Keys
  BY <1>2 DEF Request
<1>10. /\ media' \in [Keys -> {"none", "live", "hidden"}]
       /\ \A k \in Keys : media'[k] = "none" <=> media[k] = "none" /\ k \notin q.make
  <2>1. ASSUME NEW k \in Keys
        PROVE  /\ media'[k] \in {"none", "live", "hidden"}
               /\ media'[k] = "none" <=> media[k] = "none" /\ k \notin q.make
    <3>1. media[k] \in {"none", "live", "hidden"}
      BY DEF IInv, TypeInv
    <3>2. CASE k \in q.hide
      BY <1>1, <1>4, <3>2
    <3>3. CASE k \in q.make \ q.hide
      BY <1>1, <3>3
    <3>4. CASE k \notin q.hide /\ k \notin q.make
      BY <1>1, <3>1, <3>4
    <3> QED
      BY <3>2, <3>3, <3>4
  <2> QED
    BY <1>1, <2>1
\* What it commits that the row did not have is the upload that it stored.
<1>11. \A s \in Slots : row'.key[s] \in Uploads =>
         \/ row'.key[s] = row.key[s]
         \/ /\ q.op = "upload" /\ s \in q.slots /\ row'.key[s] = q.key
            /\ q.key \in objects /\ media[q.key] = "none" /\ q.key \in q.make
  BY <1>1, <1>2 DEF Flushed, Holds, Holding, Storing
<1>12. q.op = "upload" => \A s, t \in q.slots : s = t
  BY <1>1, <1>2 DEF Shape
<1>13. TypeInv'
  BY <1>1, <1>5, <1>8, <1>9, <1>10 DEF IInv, TypeInv
<1>14. ASSUME NEW p \in Requests
       PROVE  Static(req'[p]) /\ Holds(req[p])' /\ Flushed(req[p])'
  <2>1. CASE p = r
    BY <1>5, <2>1, IdleType DEF Holds, Flushed
  <2>2. CASE p # r
    <3>1. req'[p] = req[p] /\ Static(req[p]) /\ Holds(req[p]) /\ Flushed(req[p])
      BY <1>5, <2>2 DEF IInv
    <3>2. Holding(req[p]) => req[p].key \notin q.make
      <4>1. CASE Holding(q)
        BY <1>2, <1>7, <2>2, <4>1 DEF Holds
      <4>2. CASE ~Holding(q)
        BY <1>1, <1>2, <3>1, <4>2 DEF Holding, Shape, Holds
      <4> QED
        BY <4>1, <4>2
    <3>3. Holds(req[p])'
      BY <1>1, <1>8, <1>10, <3>1, <3>2 DEF Holds
    <3>4. Flushed(req[p])'
      BY <1>1, <1>6, <2>2, <3>1 DEF Flushed
    <3> QED
      BY <3>1, <3>3, <3>4
  <2> QED
    BY <2>1, <2>2
<1>15. HeldApart' /\ OneFlushed'
  BY <1>5, IdleType DEF IInv, HeldApart, OneFlushed
<1>16. \A a \in Rows' : a \in Rows \/ a = row'
  BY <1>5, IdleType DEF Rows, Idle
<1>17. \A a \in Rows, s \in Slots : a.key[s] \in Uploads =>
         /\ media[a.key[s]] # "none"
         /\ \A b \in Rows, t \in Slots : b.key[t] = a.key[s] => t = s
  BY DEF IInv, Recorded
<1>18. Recorded'
  <2> SUFFICES ASSUME NEW a \in Rows', NEW s \in Slots, a.key[s] \in Uploads
               PROVE  /\ media'[a.key[s]] # "none"
                      /\ \A b \in Rows', t \in Slots : b.key[t] = a.key[s] => t = s
    BY DEF Recorded
  <2> DEFINE k == a.key[s]
  <2>1. CASE media[k] # "none"
    <3>1. \A b \in Rows', t \in Slots : b.key[t] = k => \E c \in Rows : c.key[t] = k
      BY <1>3, <1>11, <1>16, <2>1
    <3> QED
      BY <1>8, <1>10, <1>17, <2>1, <3>1
  <2>2. CASE media[k] = "none"
    <3>1. \A b \in Rows', t \in Slots : b.key[t] = k => q.op = "upload" /\ t \in q.slots /\ k = q.key /\ k \in q.make
      BY <1>3, <1>11, <1>16, <1>17, <2>2
    <3> QED
      BY <1>8, <1>10, <1>12, <3>1
  <2> QED
    BY <2>1, <2>2
<1>19. Hidden'
  <2>1. \A p \in Requests : req[p].hide \subseteq Keys
    BY DEF IInv, TypeInv, Request
  <2> QED
    BY <1>5, <1>10, <2>1 DEF IInv, Hidden, Idle
<1>20. NoDangling'
  <2> SUFFICES ASSUME NEW s \in Slots, row'.key[s] \in Uploads \ objects
               PROVE  row'.key[s] \in lost \cup UNION {req'[p].gone : p \in Requests}
    BY <1>1 DEF NoDangling
  <2> DEFINE k == row'.key[s]
  <2>1. k = row.key[s]
    BY <1>11
  <2>2. k \notin q.gone
    <3> SUFFICES ASSUME k \in q.gone
                 PROVE  FALSE
      OBVIOUS
    <3>1. PICK t \in Slots : q.seen.key[t] = k /\ q.mine # None /\ q.mine.key[t] # k
      BY <1>1, <1>2 DEF Leaves
    <3>2. t = s
      BY <1>3, <1>17, <2>1, <3>1
    <3> QED
      BY <1>1, <3>1, <3>2
  <2>3. CASE k \in lost
    BY <2>3
  <2>4. CASE \E p \in Requests : k \in req[p].gone
    BY <1>5, <2>2, <2>4 DEF q
  <2> QED
    BY <2>1, <2>3, <2>4 DEF IInv, NoDangling
<1> QED
  BY <1>13, <1>14, <1>15, <1>18, <1>19, <1>20 DEF IInv, Static, Shape, Target, Session, Leaves

-----------------------------------------------------------------------------
(* The invariant.                                                          *)

LEMMA InitHolds == Init => IInv
<1> SUFFICES ASSUME Init
             PROVE  IInv
  OBVIOUS
<1>1. PICK d \in Deployments :
        row = d.row /\ media = d.media /\ objects = d.objects /\ before = d.before
  BY DEF Init
<1>2. /\ lost = {} /\ req = [r \in Requests |-> Idle] /\ calls = 0 /\ faults = 0
      /\ \E s \in Settings : backend = Storage(s)
  BY DEF Init
<1>3. \A s \in Settings : Storage(s) \in [public : BOOLEAN, lists : BOOLEAN]
  BY Parameters DEF Storage
<1>4. /\ d.row \in Row /\ d.media \in [Keys -> {"none", "live", "hidden"}] /\ d.objects \subseteq Keys
      /\ \A s \in Slots :
           d.row.key[s] \in Uploads =>
             /\ d.media[d.row.key[s]] # "none" /\ d.row.key[s] \in d.objects
             /\ \A t \in Slots : d.row.key[t] = d.row.key[s] => t = s
  BY Stored
<1>5. TypeInv
  <2>1. before \in Seq(Row)
    BY <1>1, Stored
  <2>2. DOMAIN before \subseteq Nat
    BY <2>1
  <2> QED
    BY <1>1, <1>2, <1>3, <1>4, <2>2, IdleType DEF TypeInv
<1>6. \A r \in Requests : Static(req[r]) /\ Holds(req[r]) /\ Flushed(req[r])
  BY <1>2, IdleType DEF Holds, Flushed
<1>7. HeldApart /\ OneFlushed /\ Hidden
  BY <1>2, IdleType DEF HeldApart, OneFlushed, Hidden, Idle
<1>8. Rows = {row}
  BY <1>2 DEF Rows, Idle
<1>9. Recorded
  BY <1>1, <1>4, <1>8 DEF Recorded
<1>10. NoDangling
  BY <1>1, <1>4 DEF NoDangling
<1> QED
  BY <1>5, <1>6, <1>7, <1>9, <1>10 DEF IInv

\* What is done to other members only.
LEMMA OthersKeep ==
  ASSUME IInv, UNCHANGED <<backend, row, media, objects, lost, req, faults>>,
         DOMAIN before' = DOMAIN before, calls' \in Nat
  PROVE  IInv'
<1>1. TypeInv'
  BY DEF IInv, TypeInv
<1>2. UNCHANGED <<HeldApart, Recorded, Hidden, OneFlushed, NoDangling>>
  BY DEF HeldApart, Holding, Recorded, Rows, Hidden, OneFlushed, NoDangling
<1>3. ASSUME NEW r \in Requests
      PROVE  Static(req[r])' /\ Holds(req[r])' /\ Flushed(req[r])'
  BY DEF IInv, Static, Shape, Target, Session, Leaves, Holds, Holding, Flushed
<1> QED
  BY <1>1, <1>2, <1>3 DEF IInv

LEMMA NextKeeps ==
  ASSUME IInv, [Next]_vars
  PROVE  IInv'
<1>1. ASSUME NEW r \in Requests, Serve(r)
      PROVE  IInv'
  <2>1. CASE RecordCollides(r)
    BY <2>1, FailKeeps DEF RecordCollides, IInv, TypeInv
  <2> QED
    BY <1>1, <2>1, StoreKeeps, WriteKeeps, DiscardKeeps, DecideKeeps, CopyKeeps, RecordKeeps,
       FlushKeeps, CommitKeeps DEF Serve
<1>2. ASSUME NEW r \in Requests, Unreadable(r)
      PROVE  IInv'
  <2>1. /\ req[r].at = "copy" /\ Fault /\ Skip(r, req[r].ss)
        /\ UNCHANGED <<backend, row, media, objects, before, lost, calls>>
    BY <1>2 DEF Unreadable
  <2>2. req[r].ss \in Row
    BY <2>1, AtWork
  <2>3. faults' \in Nat
    BY <2>1 DEF Fault, IInv, TypeInv
  <2> QED
    BY <2>1, <2>2, <2>3, SkipKeeps
<1>3. ASSUME NEW r \in Requests, Abort(r)
      PROVE  IInv'
  <2>1. faults' \in Nat
    BY <1>3 DEF Abort, Fault, IInv, TypeInv
  <2> QED
    BY <1>3, <2>1, FailKeeps DEF Abort
<1>4. CASE UNCHANGED vars
  BY <1>4, OthersKeep DEF vars, IInv, TypeInv
<1>5. CASE MigrateOthers
  <2>1. DOMAIN before' = DOMAIN before
    BY <1>5 DEF MigrateOthers, Swept
  <2> QED
    BY <1>5, <2>1, OthersKeep DEF MigrateOthers, IInv, TypeInv
<1>6. ASSUME NEW i \in DOMAIN before, NEW f \in Entered \cup Unshared, LinkBefore(i, f)
      PROVE  IInv'
  <2>1. DOMAIN before' = DOMAIN before /\ calls' \in Nat
    BY <1>6 DEF LinkBefore, Client, IInv, TypeInv
  <2> QED
    BY <1>6, <2>1, OthersKeep DEF LinkBefore
<1> QED
  BY <1>1, <1>2, <1>3, <1>4, <1>5, <1>6, CallKeeps, DeleteMediaKeeps DEF Next

LEMMA Invariant == Spec => []IInv
<1>1. IInv /\ [Next]_vars => IInv'
  BY NextKeeps
<1> QED
  BY <1>1, InitHolds, PTL DEF Spec

-----------------------------------------------------------------------------
(* The results.                                                            *)

\* What every client relies on: the uploaded photo that a member's row refers
\* to is in the storage, whatever requests, migrations, failures and retries
\* went before; it is gone only while a request that removes or replaces it is
\* still to commit, or has been rolled back after deleting it, or after DELETE
\* /media/{id}.
THEOREM UploadsStay == Spec => []NoDangling
<1>1. IInv => NoDangling
  BY DEF IInv
<1> QED
  BY <1>1, Invariant, PTL

LEMMA StepReplaces ==
  ASSUME IInv, [Next]_vars, NEW s \in Slots,
         row.key[s] \in (Uploads \cap objects) \ objects', row.key[s] \notin lost'
  PROVE  \E r \in Requests :
           /\ row.key[s] \in req'[r].gone
           /\ \/ req[r].op \in {"remove", "delete"}
              \/ req[r].key \in (Uploads \cap objects) \cup UNION {MigratedKeys(t) : t \in Slots}
<1> DEFINE k == row.key[s]
           Stores(r) == req[r].key \in (Uploads \cap objects) \cup UNION {MigratedKeys(t) : t \in Slots}
<1>1. ASSUME NEW r \in Requests, Discard(r)
      PROVE  k \in req'[r].gone /\ (req[r].op \in {"remove", "delete"} \/ Stores(r))
  <2>1. /\ req[r].at = "discard" /\ DeleteObjects(Previous(req[r]))
        /\ req'[r].gone = Previous(req[r])
    BY <1>1 DEF Discard, IInv, TypeInv, Request
  <2>2. k \in Previous(req[r])
    BY <2>1, DeletesType
  <2>3. Shape(req[r]) /\ Holds(req[r])
    BY <2>1, AtWork
  <2>4. req[r].op \in {"remove", "delete"} \/ req[r].key \in Uploads \cap objects
    BY <2>1, <2>3 DEF Shape, Holds, Holding, Discarding, Storing
  <2> QED
    BY <2>1, <2>2, <2>4
<1>2. ASSUME NEW r \in Requests, Record(r)
      PROVE  k \in req'[r].gone /\ Stores(r)
  <2> DEFINE q == req[r]
             t == Slot(r)
             old == IF Replaced(q.ss, t) /\ q.ss.key[t] # q.key THEN {q.ss.key[t]} ELSE {}
             x == [q EXCEPT !.make = @ \cup (IF media[q.key] = "none" THEN {q.key} ELSE {}),
                            !.hide = @ \cup {o \in old : media[o] # "none"},
                            !.gone = @ \cup old, !.slots = @ \ {t}, !.key = None, !.at = "slot",
                            !.ss = Finished(q.ss, t, q.key, Source(q.ss, t))]
  <2>a. /\ q.at = "record" /\ DeleteObjects(old) /\ req' = [req EXCEPT ![r] = x]
    BY ZenonT(60), <1>2 DEF Record, IInv, TypeInv
  <2>b. q \in Request /\ req'[r] = x
    BY <2>a DEF IInv, TypeInv
  <2> HIDE DEF old
  <2>c. x.gone = q.gone \cup old
    BY <2>b DEF Request
  <2>1. q.at = "record" /\ DeleteObjects(old) /\ req'[r].gone = q.gone \cup old
    BY <2>a, <2>b, <2>c
  <2>2. k \in old
    BY <2>a, DeletesType
  <2>3. q \in Request /\ q.slots # {} /\ Source(q.ss, t) \in Files /\ q.key = Migrated(t, Source(q.ss, t))
    BY <2>1, AtWork DEF Target, Slot
  <2>4. t \in Slots
    BY <2>3, SlotType DEF Request
  <2>5. q.key \in MigratedKeys(t)
    BY <2>3 DEF MigratedKeys
  <2> QED
    BY <2>1, <2>2, <2>4, <2>5
<1>3. \A j \in Keys : ~DeleteMedia(j)
  <2> SUFFICES ASSUME NEW j \in Keys, DeleteMedia(j)
               PROVE  FALSE
    OBVIOUS
  <2>1. lost' = lost \cup {j} /\ objects \ objects' \subseteq {j}
    BY DEF DeleteMedia, DeleteObjects
  <2> QED
    BY <2>1
<1>4. ~UNCHANGED objects
  OBVIOUS
<1>5. ASSUME NEW r \in Requests
      PROVE  ~(Call(r) \/ Unreadable(r) \/ Abort(r))
  BY <1>4 DEF Call, UploadPhoto, UploadProfilePhoto, DeletePhoto, DeleteMember, UpdateLink,
              MigrateOne, MigrateBatch, Begin, BeginOver, Unreadable, Abort, Fail
<1>6. ASSUME NEW r \in Requests, Serve(r)
      PROVE  Discard(r) \/ Record(r)
  <2>1. ~(Store(r) \/ Copy(r))
    BY <1>4 DEF Store, Fresh, Copy
  <2>2. ~(Write(r) \/ Decide(r) \/ RecordCollides(r) \/ Flush(r) \/ Commit(r))
    BY <1>4 DEF Write, Decide, RecordCollides, Fail, Flush, Commit
  <2> QED
    BY <1>6, <2>1, <2>2 DEF Serve
<1>7. ~UNCHANGED vars
  BY <1>4 DEF vars
<1>8. ~MigrateOthers /\ (\A i \in DOMAIN before, f \in Entered \cup Unshared : ~LinkBefore(i, f))
  BY <1>4 DEF MigrateOthers, LinkBefore
<1>9. \E r \in Requests : Discard(r) \/ Record(r)
  BY <1>3, <1>5, <1>6, <1>7, <1>8 DEF Next
<1> QED
  BY <1>1, <1>2, <1>9

\* Nobody loses a photo to a request that did not get to its replacement: an
\* uploaded photo that the row refers to is deleted only by the request that
\* removes it, or by one whose own object is in the storage already.
THEOREM StoredBeforeReplaced == Spec => ReplacedFirst
<1>1. IInv /\ [Next]_vars =>
        [\A s \in Slots :
           row.key[s] \in (Uploads \cap objects) \ objects' /\ row.key[s] \notin lost' =>
             \E r \in Requests :
               /\ row.key[s] \in req'[r].gone
               /\ \/ req[r].op \in {"remove", "delete"}
                  \/ req[r].key \in (Uploads \cap objects) \cup UNION {MigratedKeys(t) : t \in Slots}]_vars
  BY StepReplaces
<1> QED
  BY <1>1, Invariant, PTL DEF Spec, ReplacedFirst
=============================================================================
