---------------------------- MODULE ContentProofs ----------------------------
(***************************************************************************)
(* An item of content with its images, for any number of requests, keys    *)
(* and images, and any kind of item.                                       *)
(***************************************************************************)
EXTENDS Content, FiniteSetTheorems, TLAPS

TypeInv ==
  /\ kind \in Kinds /\ item \in Item(kind)
  /\ images \in [Keys -> [state : {"none", "live", "hidden"}, pos : Int]]
  /\ objects \subseteq Keys /\ drawn \subseteq Keys /\ lost \subseteq Keys
  /\ req \in [Requests -> Request]
  /\ overlap \in BOOLEAN
  /\ calls \in Nat /\ faults \in Nat

Hosted == {"event", "tirth"}     \* the kinds with a gallery
Active(q) == q.at # "idle"

\* The row is written: of an item with a gallery before its objects go.
Wrote(q) == q.at = "commit" \/ (q.at = "discard" /\ kind \in Hosted /\ q.op # "image")

\* Where a request is tells what it is and what it holds.
Shape(q) ==
  /\ ~Active(q) => q = Idle
  /\ Active(q) =>
       /\ q.seen \in Item(kind) /\ q.next \in Item(kind)
       /\ q.op \in {"create", "form", "edit", "upload", "remove", "images", "image", "delete"}
       /\ q.at = "store" => q.op \in {"form", "upload"} /\ q.gone = {}
       /\ q.at \in {"count", "image"} => q.op = "images"
       /\ q.at = "count" => q.new = <<>>
       /\ q.at = "list" => q.op = "delete" /\ q.gone = {}
       /\ q.at = "discard" => q.op \in {"upload", "remove", "delete", "image"}
       /\ q.at = "store" /\ q.op = "upload" => q.next = q.seen
       /\ q.op = "form" => kind = "ad"
       /\ q.op = "images" => q.at \in {"count", "image", "commit"} /\ q.gone = {}
       /\ q.op = "image" => q.at \in {"discard", "commit"}
       /\ q.op \in {"images", "image"} => q.next = q.seen /\ kind \in Hosted
       /\ q.op # "images" => q.new = <<>>
       /\ q.op \notin {"image", "delete"} => q.drop = {}
       /\ q.at \in {"image", "commit"} /\ q.op = "images" => Len(q.new) <= q.size
       /\ q.at = "image" => Len(q.new) < q.size
       /\ q.at = "count" => q.size > 0

\* What is flushed, and when.
Flushed(q) ==
  /\ q.mine # None => q.mine = Overlaid(item, q.seen, q.next)
  /\ Active(q) /\ Wrote(q) => (q.mine = None <=> q.next = q.seen)
  /\ ~Wrote(q) => q.mine = None

\* The photos a request is about, which it no longer refers to by the time it
\* deletes their objects.
About(q) == IF q.op = "delete" THEN Slots ELSE {q.slot}

Parting(q) ==
  Active(q) /\ q.op \in {"upload", "remove", "delete"} /\ q.at # "store" /\ kind # "news" =>
    \A s \in About(q) : q.seen[s] # None => q.next[s] # q.seen[s]

Leaving(q) ==
  \A k \in q.gone : k \in q.drop \/ \E s \in Slots : q.seen[s] = k /\ q.next[s] # k

Imaged == {k \in Keys : images[k].state # "none"}

Static(q) ==
  /\ Shape(q) /\ Flushed(q) /\ Parting(q) /\ Leaving(q)
  /\ q.drop \subseteq Imaged

\* The keys that a request has stored and that are not committed.
Fresh(q) ==
  {k \in Keys : \/ \E s \in Slots : Active(q) /\ q.next[s] = k /\ q.seen[s] # k
                \/ \E i \in DOMAIN q.new : q.new[i] = k}

Rows == {item} \cup {req[r].seen : r \in {s \in Requests : Active(req[s])}}
Refs(a) == {a[s] : s \in Slots} \ {None}

\* A key has one place: a slot, the gallery, or a request that stored it.
OnePlace ==
  /\ Imaged \subseteq drawn /\ used \subseteq media /\ media \subseteq drawn
  /\ \A a \in Rows : Refs(a) \subseteq drawn \ Imaged
  /\ \A a, b \in Rows, s, t \in Slots : a[s] = b[t] /\ a[s] # None => s = t
  /\ \A r \in Requests :
       /\ Fresh(req[r]) \subseteq (drawn \cap objects) \ (Imaged \cup media)
       /\ \A a \in Rows : Fresh(req[r]) \cap Refs(a) = {}
       /\ \A p \in Requests \ {r} : Fresh(req[r]) \cap Fresh(req[p]) = {}
       /\ Active(req[r]) /\ req[r].next["cover"] = req[r].next["large"]
            => req[r].next["cover"] = None

OneFlushed == \A r, p \in Requests : req[r].mine # None /\ req[p].mine # None => r = p

\* While requests follow one another, each works on the row as it is.
InTurn(q) ==
  Active(q) =>
    /\ q.seen = item
    /\ Agree(q.next.columns)
    /\ q.op = "images" /\ q.at \in {"image", "commit"} =>
         Cardinality(Gallery) + q.size <= MaxImages

Sequential ==
  ~overlap =>
    /\ \A r, p \in Requests : Active(req[r]) /\ Active(req[p]) => r = p
    /\ \A r \in Requests : InTurn(req[r])
    /\ Cardinality(Gallery) <= MaxImages
    /\ Agree(item.columns)

\* ... and while nothing fails, no object is left that the item has shown and
\* shows no longer.
Clean(q) ==
  Active(q) =>
    /\ item.state # "deleted"
    /\ q.next.state = "deleted" => q.op = "delete"
    /\ q.op = "delete" => \A s \in Slots : q.next[s] = None
    /\ q.op = "delete" /\ q.at # "list" => q.drop = Gallery /\ q.drop \subseteq q.gone
    /\ q.at = "commit" =>
         /\ q.drop \subseteq q.gone
         /\ \A s \in Slots : q.seen[s] \notin {None, q.next[s]} => q.seen[s] \in q.gone
    /\ \A s \in Slots \ About(q) : q.next[s] = q.seen[s]
    /\ q.op \in {"create", "edit"} => \A s \in Slots : q.next[s] = q.seen[s]

NoOrphans ==
  kind \in Hosted /\ ~overlap /\ faults = 0 =>
    /\ objects \cap used \subseteq Refs(item) \cup Gallery
    /\ \A r \in Requests : Clean(req[r]) /\ objects \cap req[r].gone = {}
    /\ item.state = "deleted" => Refs(item) = {} /\ Gallery = {}

IInv ==
  /\ TypeInv
  /\ \A r \in Requests : Static(req[r])
  /\ OnePlace /\ OneFlushed /\ Sequential /\ NoOrphans
  /\ Serves

-----------------------------------------------------------------------------
(* Types.                                                                  *)

LEMMA OverlaidType ==
  ASSUME NEW k \in Kinds, NEW base \in Item(k), NEW seen \in Item(k), NEW next \in Item(k)
  PROVE  /\ Overlaid(base, seen, next) \in Item(k)
         /\ \A s \in Slots : Overlaid(base, seen, next)[s]
                               = (IF next[s] = seen[s] THEN base[s] ELSE next[s])
         /\ Overlaid(base, seen, next).state
              = (IF next.state = seen.state THEN base.state ELSE next.state)
         /\ base = seen => Overlaid(base, seen, next) = next
<1> DEFINE columns == [c \in DOMAIN base.columns |->
                         Pick(base.columns[c], seen.columns[c], next.columns[c])]
<1>1. /\ base.columns \in Columns(k) /\ seen.columns \in Columns(k) /\ next.columns \in Columns(k)
  BY DEF Item
<1>2. columns \in Columns(k) /\ (base = seen => columns = next.columns)
  <2>1. CASE k = "event"
    BY <1>1, <2>1 DEF Columns, Pick
  <2>2. CASE k = "tirth"
    BY <1>1, <2>2 DEF Columns, Pick
  <2>3. CASE k = "ad"
    BY <1>1, <2>3 DEF Columns, Pick
  <2>4. CASE k = "news"
    BY <1>1, <2>4 DEF Columns, Pick
  <2>5. CASE k = "payment"
    BY <1>1, <2>5 DEF Columns, Pick
  <2> QED
    BY <2>1, <2>2, <2>3, <2>4, <2>5, Parameters
<1>3. Overlaid(base, seen, next) =
        [f \in DOMAIN base |-> IF f = "columns" THEN columns ELSE Pick(base[f], seen[f], next[f])]
  BY DEF Overlaid
<1> HIDE DEF columns
<1>4. Overlaid(base, seen, next) =
        [state   |-> Pick(base.state, seen.state, next.state),
         cover   |-> Pick(base.cover, seen.cover, next.cover),
         large   |-> Pick(base.large, seen.large, next.large),
         shown   |-> Pick(base.shown, seen.shown, next.shown),
         columns |-> columns]
  BY <1>3 DEF Item
<1> QED
  BY <1>2, <1>4 DEF Item, Pick, Slots

LEMMA DefaultsType ==
  ASSUME NEW k \in Kinds
  PROVE  Defaults(k) \in Columns(k)
<1>1. First(Dates) \in Dates /\ First(Times) \in Times
  BY Parameters DEF First
<1> QED
  BY <1>1, Parameters DEF Defaults, Columns, Draft, Published, Approved, Rejected, Pending, Success, Failed

LEMMA IdleType ==
  ASSUME kind \in Kinds
  PROVE  /\ Idle \in Request /\ Static(Idle) /\ ~Active(Idle) /\ Fresh(Idle) = {}
         /\ Idle.mine = None /\ Idle.gone = {}
<1>1. /\ Idle.op = None /\ Idle.at = "idle" /\ Idle.slot = "cover" /\ Idle.seen = None
      /\ Idle.next = None /\ Idle.mine = None /\ Idle.size = 0 /\ Idle.count = 0
      /\ Idle.new = <<>> /\ Idle.drop = {} /\ Idle.gone = {}
  BY DEF Idle
<1>2. <<>> \in [1..0 -> Keys]
  OBVIOUS
<1>3. 0 \in 0..MaxImages /\ 0 \in 0..Cardinality(Keys)
  BY Parameters, FS_CardinalityType
<1>4. Idle \in Request
  BY <1>2, <1>3 DEF Idle, Request, Slots
<1>5. Static(Idle)
  BY <1>1 DEF Static, Shape, Flushed, Wrote, Active, Parting, Leaving
<1>6. Fresh(Idle) = {}
  BY <1>1 DEF Fresh, Active
<1> QED
  BY <1>1, <1>4, <1>5, <1>6 DEF Active

\* The keys stored by a batch, as a sequence.
LEMMA NewType ==
  ASSUME NEW q \in Request
  PROVE  q.new \in Seq(Keys) /\ Len(q.new) \in 0..MaxImages
<1>1. PICK n \in 0..MaxImages : q.new \in [1..n -> Keys]
  BY DEF Request
<1> QED
  BY <1>1

-----------------------------------------------------------------------------
(* A step of one request that commits nothing.                             *)

LEMMA RequestStep ==
  ASSUME IInv, NEW r \in Requests, NEW x \in Request, req' = [req EXCEPT ![r] = x],
         kind' = kind, item' = item, images' = images, media' = media, used' = used,
         objects' \subseteq Keys, drawn \subseteq drawn', drawn' \subseteq Keys,
         lost \subseteq lost', lost' \subseteq Keys, overlap \in BOOLEAN, overlap' \in BOOLEAN,
         calls' \in Nat, faults' \in Nat, faults' = 0 => faults = 0,
         Static(x),
         Active(x) => x.seen = item \/ (Active(req[r]) /\ x.seen = req[r].seen),
         Fresh(x) \subseteq drawn' \cap objects',
         \A k \in Fresh(x) : k \in Fresh(req[r]) \/ k \notin drawn,
         Active(x) /\ x.next["cover"] = x.next["large"] => x.next["cover"] = None,
         \A k \in objects \ objects' :
           k \in x.gone /\ (k \in Imaged \/ \E a \in Rows : k \in Refs(a)),
         req[r].gone \subseteq x.gone \cup lost',
         x.mine # None => \A p \in Requests \ {r} : req[p].mine = None,
         ~overlap' => ~overlap /\ InTurn(x),
         ~overlap' /\ Active(x) => \A p \in Requests \ {r} : ~Active(req[p]),
         kind \in Hosted /\ ~overlap' /\ faults' = 0 =>
           /\ Clean(x) /\ objects' \cap x.gone = {}
           /\ objects' \subseteq objects \cup Fresh(x)
  PROVE  IInv'
<1>1. /\ req' \in [Requests -> Request] /\ req'[r] = x
      /\ \A p \in Requests \ {r} : req'[p] = req[p]
  BY DEF IInv, TypeInv
<1>2. TypeInv'
  BY <1>1 DEF IInv, TypeInv, Request
<1>3. ASSUME NEW p \in Requests
      PROVE  Static(req[p])'
  <2>1. Static(req'[p])
    BY <1>1 DEF IInv
  <2> QED
    BY <2>1 DEF Static, Shape, Flushed, Wrote, Parting, Leaving, Imaged
<1>4. Rows' \subseteq Rows
  BY <1>1 DEF Rows, Active
<1>5. Imaged' = Imaged /\ Gallery' = Gallery
  BY DEF Imaged, Gallery
<1>6. OnePlace'
  <2>1. /\ Imaged \subseteq drawn /\ used \subseteq media /\ media \subseteq drawn
        /\ \A a \in Rows : Refs(a) \subseteq drawn \ Imaged
    BY DEF IInv, OnePlace
  <2>2. ASSUME NEW p \in Requests
        PROVE  /\ Fresh(req'[p]) \subseteq (drawn' \cap objects') \ (Imaged \cup media)
               /\ \A a \in Rows : Fresh(req'[p]) \cap Refs(a) = {}
               /\ Active(req'[p]) /\ req'[p].next["cover"] = req'[p].next["large"]
                    => req'[p].next["cover"] = None
    <3>1. /\ Fresh(req[p]) \subseteq (drawn \cap objects) \ (Imaged \cup media)
          /\ \A a \in Rows : Fresh(req[p]) \cap Refs(a) = {}
          /\ Active(req[p]) /\ req[p].next["cover"] = req[p].next["large"]
               => req[p].next["cover"] = None
      BY DEF IInv, OnePlace
    <3>2. CASE p = r
      BY <1>1, <2>1, <3>1, <3>2
    <3>3. CASE p # r
      BY <1>1, <3>1, <3>3
    <3> QED
      BY <3>2, <3>3
  <2>3. ASSUME NEW p \in Requests, NEW o \in Requests \ {p}
        PROVE  Fresh(req'[p]) \cap Fresh(req'[o]) = {}
    <3>1. /\ Fresh(req[p]) \cap Fresh(req[o]) = {}
          /\ Fresh(req[p]) \subseteq drawn /\ Fresh(req[o]) \subseteq drawn
      BY DEF IInv, OnePlace
    <3>2. CASE p = r
      BY <1>1, <3>1, <3>2
    <3>3. CASE o = r
      BY <1>1, <3>1, <3>3
    <3>4. CASE p # r /\ o # r
      BY <1>1, <3>1, <3>4
    <3> QED
      BY <3>2, <3>3, <3>4
  <2>4. \A p \in Requests : Fresh(req[p])' = Fresh(req'[p])
    BY DEF Fresh, Active
  <2>5. \A a, b \in Rows', s, t \in Slots : a[s] = b[t] /\ a[s] # None => s = t
    BY <1>4 DEF IInv, OnePlace
  <2>6. /\ Imaged' \subseteq drawn' /\ used' \subseteq media' /\ media' \subseteq drawn'
        /\ \A a \in Rows' : Refs(a) \subseteq drawn' \ Imaged'
    BY <1>4, <1>5, <2>1
  <2>7. \A p \in Requests :
          /\ Fresh(req[p])' \subseteq (drawn' \cap objects') \ (Imaged' \cup media')
          /\ \A a \in Rows' : Fresh(req[p])' \cap Refs(a) = {}
          /\ \A o \in Requests \ {p} : Fresh(req[p])' \cap Fresh(req[o])' = {}
          /\ Active(req'[p]) /\ req'[p].next["cover"] = req'[p].next["large"]
               => req'[p].next["cover"] = None
    BY <1>4, <1>5, <2>2, <2>3, <2>4
  <2> HIDE DEF Fresh, Refs, Rows
  <2> QED
    BY <2>5, <2>6, <2>7 DEF OnePlace, Active
<1>7. OneFlushed'
  BY <1>1 DEF IInv, OneFlushed
<1>8. Sequential'
  <2> SUFFICES ASSUME ~overlap'
               PROVE  /\ \A p, o \in Requests : Active(req'[p]) /\ Active(req'[o]) => p = o
                      /\ \A p \in Requests : InTurn(req[p])'
                      /\ Cardinality(Gallery) <= MaxImages
                      /\ Agree(item.columns)'
    BY <1>5 DEF Sequential, Active
  <2>1. /\ \A p, o \in Requests : Active(req[p]) /\ Active(req[o]) => p = o
        /\ \A p \in Requests : InTurn(req[p])
        /\ Cardinality(Gallery) <= MaxImages /\ Agree(item.columns)
    BY DEF IInv, Sequential
  <2>2. \A p \in Requests : InTurn(req'[p])
    BY <1>1, <2>1
  <2>3. \A p \in Requests : InTurn(req[p])'
    BY <1>5, <2>2 DEF InTurn, Agree, Active
  <2>4. Agree(item.columns)'
    BY <2>1 DEF Agree
  <2> QED
    BY <1>1, <2>1, <2>3, <2>4
<1>9. NoOrphans'
  <2> SUFFICES ASSUME kind \in Hosted, ~overlap', faults' = 0
               PROVE  /\ objects' \cap used \subseteq Refs(item) \cup Gallery
                      /\ \A p \in Requests : Clean(req[p])' /\ objects' \cap req'[p].gone = {}
                      /\ item.state = "deleted" => Refs(item) = {} /\ Gallery = {}
    BY <1>5 DEF NoOrphans, Hosted, Refs, Fresh, Active
  <2>1. /\ objects \cap used \subseteq Refs(item) \cup Gallery
        /\ \A p \in Requests : Clean(req[p]) /\ objects \cap req[p].gone = {}
        /\ item.state = "deleted" => Refs(item) = {} /\ Gallery = {}
    BY DEF IInv, NoOrphans
  <2>2. ASSUME NEW k \in objects' \cap used
        PROVE  k \in Refs(item) \cup Gallery
    <3>1. k \in drawn
      BY DEF IInv, OnePlace
    <3>2. k \in Fresh(x) => k \in Fresh(req[r])
      BY <3>1
    <3>3. Fresh(req[r]) \subseteq objects
      BY DEF IInv, OnePlace
    <3> HIDE DEF Fresh
    <3> QED
      BY <2>1, <3>2, <3>3
  <2>3. ASSUME NEW p \in Requests
        PROVE  Clean(req[p])' /\ objects' \cap req'[p].gone = {}
    <3>1. CASE p = r
      BY <1>1, <3>1 DEF Clean, Active, About, Gallery
    <3>2. CASE p # r
      <4>1. Clean(req[p]) /\ objects \cap req[p].gone = {} /\ req'[p] = req[p]
        BY <1>1, <2>1, <3>2
      <4>2. CASE ~Active(req[p])
        <5>1. req[p].gone = {}
          BY <4>2, IdleType DEF IInv, TypeInv, Static, Shape
        <5> QED
          BY <4>1, <4>2, <5>1 DEF Clean, Active
      <4>3. CASE Active(req[p])
        <5>1. ~Active(x)
          BY <3>2, <4>3
        <5>2. objects' \subseteq objects
          BY <5>1, <4>3, <3>2 DEF Static, Shape, Fresh, Idle, Active
        <5> QED
          BY <1>5, <4>1, <5>2 DEF Clean, Active, About
      <4> QED
        BY <4>2, <4>3
    <3> QED
      BY <3>1, <3>2
  <2> QED
    BY <2>1, <2>2, <2>3
<1>10. Serves'
  <2> SUFFICES ASSUME NEW k \in (Refs(item) \cup Gallery) \ {None}
               PROVE  k \in objects' \cup lost' \cup UNION {req'[p].gone : p \in Requests}
    BY <1>5 DEF Serves, Refs, Slots
  <2>1. k \in objects \cup lost \cup UNION {req[p].gone : p \in Requests}
    BY DEF IInv, Serves, Refs, Slots
  <2> QED
    BY <1>1, <2>1
<1> QED
  BY <1>2, <1>3, <1>6, <1>7, <1>8, <1>9, <1>10 DEF IInv

\* What each kind of request starts with.
Starts(op, at, slot, size, next, drop) ==
  /\ slot \in Slots /\ size \in 0..MaxImages /\ next \in Item(kind) /\ drop \subseteq Imaged
  /\ \A s \in Slots : next[s] \in {item[s], None}
  /\ kind \in Hosted => item.state # "deleted"
  /\ kind \in Hosted /\ next.state = "deleted" => op = "delete"
  /\ Agree(item.columns) => Agree(next.columns)
  /\ \/ op \in {"create", "edit"} /\ at = "write" /\ drop = {}
        /\ \A s \in Slots : next[s] = item[s]
     \/ op = "form" /\ at = "store" /\ kind = "ad" /\ drop = {}
     \/ op = "upload" /\ at = "store" /\ next = item /\ drop = {}
     \/ op = "remove" /\ at = (IF kind = "ad" THEN "discard" ELSE "write") /\ drop = {}
        /\ next[slot] = None /\ \A s \in Slots \ {slot} : next[s] = item[s]
     \/ op = "images" /\ at = "count" /\ kind \in Hosted /\ size > 0 /\ next = item /\ drop = {}
     \/ op = "image" /\ at = "discard" /\ kind \in Hosted /\ next = item
     \/ op = "delete" /\ at \in {"list", "discard", "write"} /\ drop = {}
        /\ (kind \in Hosted => at = "list")
        /\ (kind # "news" => \A s \in Slots : next[s] = None)

LEMMA BeginKeeps ==
  ASSUME IInv, NEW r \in Requests, NEW op, NEW at, NEW slot, NEW size, NEW next, NEW drop,
         Starts(op, at, slot, size, next, drop),
         Begin(r, op, at, slot, size, next, drop)
  PROVE  IInv'
<1> DEFINE x == [Idle EXCEPT !.op = op, !.at = at, !.slot = slot, !.size = size,
                             !.seen = item, !.next = next, !.drop = drop]
<1>1. /\ req[r].at = "idle" /\ calls' = calls + 1
      /\ overlap' = (overlap \/ \E q \in Requests : req[q].at # "idle")
      /\ req' = [req EXCEPT ![r] = x]
      /\ UNCHANGED <<kind, item, images, objects, drawn, media, used, lost, faults>>
  BY DEF Begin
<1>2. /\ kind \in Kinds /\ item \in Item(kind) /\ TypeInv
      /\ slot \in Slots /\ size \in 0..MaxImages /\ next \in Item(kind) /\ drop \subseteq Imaged
      /\ \A s \in Slots : next[s] \in {item[s], None}
      /\ kind \in Hosted => item.state # "deleted"
      /\ kind \in Hosted /\ next.state = "deleted" => op = "delete"
      /\ Agree(item.columns) => Agree(next.columns)
  BY DEF Starts, IInv, TypeInv
<1>3. \/ op \in {"create", "edit"} /\ at = "write" /\ drop = {}
         /\ \A s \in Slots : next[s] = item[s]
      \/ op = "form" /\ at = "store" /\ kind = "ad" /\ drop = {}
      \/ op = "upload" /\ at = "store" /\ next = item /\ drop = {}
      \/ op = "remove" /\ at = (IF kind = "ad" THEN "discard" ELSE "write") /\ drop = {}
         /\ next[slot] = None /\ \A s \in Slots \ {slot} : next[s] = item[s]
      \/ op = "images" /\ at = "count" /\ kind \in Hosted /\ size > 0 /\ next = item /\ drop = {}
      \/ op = "image" /\ at = "discard" /\ kind \in Hosted /\ next = item
      \/ op = "delete" /\ at \in {"list", "discard", "write"} /\ drop = {}
         /\ (kind \in Hosted => at = "list")
         /\ (kind # "news" => \A s \in Slots : next[s] = None)
  BY DEF Starts
<1>4. Idle \in Request /\ Idle.mine = None /\ Idle.gone = {} /\ Idle.new = <<>>
  BY <1>2, IdleType DEF Idle
<1>5. /\ op \in {"create", "form", "edit", "upload", "remove", "images", "image", "delete"}
      /\ at \in {"store", "write", "discard", "count", "list"}
  BY <1>3
<1>6. drop \in SUBSET Keys
  BY <1>2 DEF Imaged
<1> DEFINE y == [Idle EXCEPT !.op = op, !.at = at, !.slot = slot, !.size = size]
<1>a. /\ y \in Request /\ y.op = op /\ y.at = at /\ y.slot = slot /\ y.size = size
      /\ y.mine = None /\ y.new = <<>> /\ y.gone = {}
  BY ZenonT(60), <1>2, <1>4, <1>5 DEF Request
<1>b. x = [y EXCEPT !.seen = item, !.next = next, !.drop = drop]
  OBVIOUS
<1> HIDE DEF x, y
<1>7. x \in Request
  BY <1>a, <1>b, <1>2, <1>6 DEF Request
<1>8. /\ x.op = op /\ x.at = at /\ x.slot = slot /\ x.size = size /\ x.seen = item
      /\ x.next = next /\ x.drop = drop /\ x.mine = None /\ x.new = <<>> /\ x.gone = {}
  BY <1>a, <1>b DEF Request
<1>9. Shape(x)
  BY <1>2, <1>3, <1>5, <1>8 DEF Shape, Active
<1>10. ~Wrote(x)
  BY <1>3, <1>5, <1>8, Parameters DEF Wrote, Hosted
<1>11. Flushed(x)
  BY <1>8, <1>10 DEF Flushed
<1>12. Parting(x)
  BY <1>3, <1>8 DEF Parting, About
<1>13. Leaving(x)
  BY <1>8 DEF Leaving
<1>14. Static(x)
  BY <1>2, <1>8, <1>9, <1>11, <1>12, <1>13 DEF Static
<1>15. Active(x) /\ ~Active(req[r]) /\ Fresh(x) = {}
  BY <1>1, <1>2, <1>5, <1>8, Parameters DEF Active, Fresh
<1>16. x.next["cover"] = x.next["large"] => x.next["cover"] = None
  <2>1. item["cover"] = item["large"] => item["cover"] = None
    BY DEF IInv, OnePlace, Rows, Slots
  <2> QED
    BY <1>2, <1>8, <2>1 DEF Slots
<1>17. req[r] = Idle /\ req[r].gone = {} /\ Fresh(req[r]) = {}
  BY <1>1, <1>2, IdleType DEF IInv, Static, Shape, Active
<1>18. ~overlap' => ~overlap /\ \A p \in Requests : ~Active(req[p])
  BY <1>1 DEF Active
<1>19. ~overlap' => InTurn(x)
  BY <1>2, <1>3, <1>8, <1>18 DEF IInv, Sequential, InTurn
<1>20. kind \in Hosted => Clean(x)
  <2>1. (x.at # "commit" /\ x.op # "form") \/ kind \notin Hosted
    BY <1>3, <1>5, <1>8 DEF Hosted
  <2>2. kind \in Hosted => kind # "news" /\ kind # "ad"
    BY DEF Hosted
  <2>3. kind \in Hosted => \A s \in Slots \ About(x) : x.next[s] = x.seen[s]
    BY <1>3, <1>8, <2>1, <2>2 DEF About
  <2>4. kind \in Hosted =>
          /\ item.state # "deleted"
          /\ x.next.state = "deleted" => x.op = "delete"
          /\ x.op = "delete" => \A s \in Slots : x.next[s] = None
          /\ x.op = "delete" => x.at = "list"
          /\ x.op \in {"create", "edit"} => \A s \in Slots : x.next[s] = x.seen[s]
          /\ x.op # "form"
    BY <1>2, <1>3, <1>8, <2>2
  <2> QED
    BY <1>5, <1>8, <2>1, <2>3, <2>4 DEF Clean
<1>21. /\ objects' \subseteq Keys /\ drawn' \subseteq Keys /\ lost' \subseteq Keys
       /\ overlap \in BOOLEAN /\ overlap' \in BOOLEAN /\ calls' \in Nat /\ faults' \in Nat
       /\ objects \ objects' = {} /\ (faults' = 0 => faults = 0)
  BY <1>1, <1>2 DEF TypeInv
<1> HIDE DEF Active, Fresh
<1> QED
  BY <1>1, <1>7, <1>8, <1>14, <1>15, <1>16, <1>17, <1>18, <1>19, <1>20, <1>21, RequestStep

LEMMA CreateKeeps ==
  ASSUME IInv, NEW r \in Requests,
         \/ CreateEvent(r) \/ CreateTirth(r) \/ CreateAdvertisement(r) \/ CreateNews(r)
         \/ CreateAdvertisementForm(r) \/ CreateOrder(r)
  PROVE  IInv'
<1>1. /\ kind \in Kinds /\ item \in Item(kind) /\ item.columns \in Columns(kind)
      /\ 0 \in 0..MaxImages /\ "cover" \in Slots /\ {} \subseteq Imaged
  BY Parameters DEF IInv, TypeInv, Slots, Item
<1>2. ASSUME NEW c \in Columns(kind), item.state = "absent", Agree(item.columns) => Agree(c),
             NEW next, next = [New EXCEPT !.columns = c]
      PROVE  /\ Starts("create", "write", "cover", 0, next, {})
             /\ kind = "ad" => Starts("form", "store", "cover", 0, next, {})
  <2>1. /\ next \in Item(kind) /\ next.state = "live" /\ next.columns = c
        /\ \A s \in Slots : next[s] = item[s]
    BY <1>1, <1>2 DEF New, Item, Slots
  <2> QED
    BY <1>1, <1>2, <2>1 DEF Starts
<1>3. New = [New EXCEPT !.columns = item.columns]
  BY <1>1 DEF New, Item
<1>4. CASE CreateEvent(r) \/ CreateTirth(r) \/ CreateAdvertisement(r) \/ CreateOrder(r)
  <2>1. item.state = "absent" /\ Begin(r, "create", "write", "cover", 0, New, {})
    BY <1>4 DEF CreateEvent, CreateTirth, CreateAdvertisement, CreateOrder
  <2>2. Starts("create", "write", "cover", 0, New, {})
    BY <1>1, <1>2, <1>3, <2>1
  <2> QED
    BY <2>1, <2>2, BeginKeeps
<1>5. CASE CreateAdvertisementForm(r)
  <2>1. /\ item.state = "absent" /\ kind = "ad"
        /\ Begin(r, "form", "store", "cover", 0, New, {})
    BY <1>5 DEF CreateAdvertisementForm
  <2>2. Starts("form", "store", "cover", 0, New, {})
    BY <1>1, <1>2, <1>3, <2>1
  <2> QED
    BY <2>1, <2>2, BeginKeeps
<1>6. CASE CreateNews(r)
  <2>1. PICK c \in {Defaults("news"), [status |-> Published, published_at |-> Given]} :
          Begin(r, "create", "write", "cover", 0, [New EXCEPT !.columns = c], {})
    BY <1>6 DEF CreateNews
  <2>2. kind = "news" /\ item.state = "absent"
    BY <1>6 DEF CreateNews
  <2>3. c \in Columns("news") /\ (c.status = Published => c.published_at # None)
    BY <2>1, Absent DEF Columns, Defaults, Draft, Published
  <2>4. Agree(c)
    BY <2>2, <2>3 DEF Agree
  <2>5. Starts("create", "write", "cover", 0, [New EXCEPT !.columns = c], {})
    BY <1>2, <2>2, <2>3, <2>4
  <2> QED
    BY <2>1, <2>5, BeginKeeps
<1> QED
  BY <1>4, <1>5, <1>6

LEMMA EditKeeps ==
  ASSUME IInv, NEW r \in Requests,
         \/ VerifyPayment(r) \/ UpdateEvent(r) \/ UpdateTirth(r) \/ ApproveAdvertisement(r)
         \/ UpdateAdvertisement(r) \/ UpdateNews(r) \/ PublishNews(r)
  PROVE  IInv'
<1>1. /\ kind \in Kinds /\ item \in Item(kind) /\ item.columns \in Columns(kind)
      /\ 0 \in 0..MaxImages /\ "cover" \in Slots /\ {} \subseteq Imaged
  BY Parameters DEF IInv, TypeInv, Slots, Item
<1>2. ASSUME NEW c \in Columns(kind), Agree(item.columns) => Agree(c), Edit(r, c)
      PROVE  IInv'
  <2> DEFINE next == [item EXCEPT !.columns = c]
  <2>1. /\ Begin(r, "edit", "write", "cover", 0, next, {})
        /\ item.state # "absent" /\ (kind \in Hosted => item.state # "deleted")
    BY <1>2 DEF Edit, Loadable, Hosted
  <2>2. /\ next \in Item(kind) /\ next.state = item.state /\ next.columns = c
        /\ \A s \in Slots : next[s] = item[s]
    BY <1>1 DEF Item, Slots
  <2> HIDE DEF next
  <2>3. Starts("edit", "write", "cover", 0, next, {})
    BY <1>1, <1>2, <2>1, <2>2 DEF Starts
  <2> QED
    BY <2>1, <2>3, BeginKeeps
<1>3. CASE UpdateEvent(r)
  <2>1. PICK d \in Dates, t \in Times : Edit(r, Timed(d, t))
    BY <1>3 DEF UpdateEvent
  <2>2. kind = "event"
    BY <1>3 DEF UpdateEvent
  <2>3. Timed(d, t) \in Columns(kind) /\ Agree(Timed(d, t))
    BY <2>2 DEF Timed, Columns, Agree
  <2> QED
    BY <1>2, <2>1, <2>3
<1>4. CASE UpdateTirth(r)
  <2>1. PICK s \in {Draft, Published} : Edit(r, [status |-> s])
    BY <1>4 DEF UpdateTirth
  <2>2. kind = "tirth"
    BY <1>4 DEF UpdateTirth
  <2>3. [status |-> s] \in Columns(kind) /\ Agree([status |-> s])
    BY <2>2 DEF Columns, Agree
  <2> QED
    BY <1>2, <2>1, <2>3
<1>5. CASE ApproveAdvertisement(r)
  <2>1. PICK a \in BOOLEAN : Edit(r, Decision(a))
    BY <1>5 DEF ApproveAdvertisement
  <2>2. kind = "ad"
    BY <1>5 DEF ApproveAdvertisement
  <2>3. Decision(a) \in Columns(kind) /\ Agree(Decision(a))
    BY <2>2 DEF Decision, Columns, Agree
  <2> QED
    BY <1>2, <2>1, <2>3
<1>6. CASE UpdateAdvertisement(r)
  <2>1. PICK s \in {Approved, Rejected} : Edit(r, [item.columns EXCEPT !.status = s])
    BY <1>6 DEF UpdateAdvertisement
  <2>2. kind = "ad"
    BY <1>6 DEF UpdateAdvertisement
  <2> DEFINE c == [item.columns EXCEPT !.status = s]
  <2>3. c \in Columns(kind) /\ Agree(c)
    BY <1>1, <2>2 DEF Columns, Agree
  <2> QED
    BY <1>2, <2>1, <2>3
<1>7. CASE UpdateNews(r)
  <2>1. PICK s \in {Draft, Published} :
          Edit(r, [status |-> s,
                   published_at |-> IF s = Published THEN Given ELSE item.columns.published_at])
    BY <1>7 DEF UpdateNews
  <2>2. kind = "news"
    BY <1>7 DEF UpdateNews
  <2> DEFINE c == [status |-> s,
                   published_at |-> IF s = Published THEN Given ELSE item.columns.published_at]
  <2>3. c \in Columns(kind) /\ Agree(c)
    BY <1>1, <2>2, Absent DEF Columns, Agree
  <2> QED
    BY <1>2, <2>1, <2>3
<1>8. CASE PublishNews(r)
  <2>1. PICK s \in {Draft, Published} :
          Edit(r, [status |-> s, published_at |-> IF s = Published THEN Given ELSE None])
    BY <1>8 DEF PublishNews
  <2>2. kind = "news"
    BY <1>8 DEF PublishNews
  <2> DEFINE c == [status |-> s, published_at |-> IF s = Published THEN Given ELSE None]
  <2>3. c \in Columns(kind) /\ Agree(c)
    BY <2>2, Absent DEF Columns, Agree
  <2> QED
    BY <1>2, <2>1, <2>3
<1>9. CASE VerifyPayment(r)
  <2>1. PICK s \in {Success, Failed} :
          Edit(r, [status |-> s, paid_at |-> IF s = Success THEN Given ELSE item.columns.paid_at])
    BY <1>9 DEF VerifyPayment
  <2>2. kind = "payment" /\ item.columns.status = Pending
    BY <1>9 DEF VerifyPayment
  <2> DEFINE c == [status |-> s, paid_at |-> IF s = Success THEN Given ELSE item.columns.paid_at]
  <2>3. c \in Columns(kind)
    BY <1>1, <2>2 DEF Columns
  <2>4. Agree(item.columns) => Agree(c)
    BY <1>1, <2>2, Absent DEF Agree, Columns, Pending, Success, Failed
  <2> QED
    BY <1>2, <2>1, <2>3, <2>4
<1> QED
  BY <1>3, <1>4, <1>5, <1>6, <1>7, <1>8, <1>9

LEMMA ImageCallKeeps ==
  ASSUME IInv, NEW r \in Requests,
         \/ UploadEventCover(r) \/ UploadTirthCover(r) \/ UploadAdvertisementCover(r)
         \/ RemoveEventCover(r) \/ RemoveTirthCover(r) \/ RemoveAdvertisementCover(r)
         \/ UploadLarge(r) \/ RemoveLarge(r)
         \/ \E n \in 1..MaxImages : UploadEventImages(r, n) \/ UploadTirthImages(r, n)
         \/ \E k \in Keys : DeleteEventImage(r, k) \/ DeleteTirthImage(r, k)
  PROVE  IInv'
<1>1. /\ kind \in Kinds /\ item \in Item(kind) /\ 0 \in 0..MaxImages /\ {} \subseteq Imaged
      /\ Slots = {"cover", "large"}
  BY Parameters DEF IInv, TypeInv, Slots
<1>2. ASSUME WithImages \/ WithGallery
      PROVE  kind \in Hosted => item.state # "deleted"
  BY <1>2 DEF WithImages, WithGallery, Loadable, Hosted
<1>3. ASSUME NEW slot \in Slots, WithImages, Begin(r, "upload", "store", slot, 0, item, {})
      PROVE  IInv'
  <2>1. kind \in Hosted => item.state # "deleted"
    BY <1>2, <1>3
  <2>2. Starts("upload", "store", slot, 0, item, {})
    BY <1>1, <2>1 DEF Starts
  <2> QED
    BY <1>3, <2>2, BeginKeeps
<1>4. ASSUME NEW slot \in Slots, WithImages, NEW next, next = [item EXCEPT ![slot] = None],
             Begin(r, "remove", IF kind = "ad" THEN "discard" ELSE "write", slot, 0, next, {})
      PROVE  IInv'
  <2>1. kind \in Hosted => item.state # "deleted"
    BY <1>2, <1>4
  <2>2. /\ next \in Item(kind) /\ next.state = item.state /\ next.columns = item.columns
        /\ next[slot] = None /\ \A s \in Slots \ {slot} : next[s] = item[s]
    BY <1>1, <1>4 DEF Item
  <2>3. Starts("remove", IF kind = "ad" THEN "discard" ELSE "write", slot, 0, next, {})
    BY <1>1, <2>1, <2>2 DEF Starts
  <2> QED
    BY <1>4, <2>3, BeginKeeps
<1>5. CASE UploadEventCover(r) \/ UploadTirthCover(r) \/ UploadAdvertisementCover(r) \/ UploadLarge(r)
  <2>1. \E slot \in Slots : WithImages /\ Begin(r, "upload", "store", slot, 0, item, {})
    BY <1>1, <1>5 DEF UploadEventCover, UploadTirthCover, UploadAdvertisementCover, UploadLarge,
                      UploadCover
  <2> QED
    BY <1>3, <2>1
<1>6. CASE RemoveEventCover(r) \/ RemoveTirthCover(r) \/ RemoveAdvertisementCover(r)
  <2> DEFINE next == [item EXCEPT !.cover = None]
             at == IF kind = "ad" THEN "discard" ELSE "write"
  <2>1. WithImages /\ Begin(r, "remove", at, "cover", 0, next, {})
    BY <1>6 DEF RemoveEventCover, RemoveTirthCover, RemoveAdvertisementCover, RemoveCover
  <2>2. next = [item EXCEPT !["cover"] = None]
    OBVIOUS
  <2> QED
    BY <1>1, <1>4, <2>1, <2>2
<1>7. CASE RemoveLarge(r)
  <2> DEFINE next == [item EXCEPT !.large = None]
             at == IF kind = "ad" THEN "discard" ELSE "write"
  <2>1. WithImages /\ Begin(r, "remove", at, "large", 0, next, {})
    BY <1>7 DEF RemoveLarge
  <2>2. next = [item EXCEPT !["large"] = None]
    OBVIOUS
  <2> QED
    BY <1>1, <1>4, <2>1, <2>2
<1>8. CASE \E n \in 1..MaxImages : UploadEventImages(r, n) \/ UploadTirthImages(r, n)
  <2>1. PICK n \in 1..MaxImages : WithGallery /\ Begin(r, "images", "count", "cover", n, item, {})
    BY <1>8 DEF UploadEventImages, UploadTirthImages
  <2>2. kind \in Hosted /\ item.state # "deleted" /\ n \in 0..MaxImages /\ n > 0
    BY <1>2, <2>1, Parameters DEF WithGallery, Hosted
  <2>3. Starts("images", "count", "cover", n, item, {})
    BY <1>1, <2>2 DEF Starts
  <2> QED
    BY <2>1, <2>3, BeginKeeps
<1>9. CASE \E k \in Keys : DeleteEventImage(r, k) \/ DeleteTirthImage(r, k)
  <2>1. PICK k \in Gallery : WithGallery /\ Begin(r, "image", "discard", "cover", 0, item, {k})
    BY <1>9 DEF DeleteEventImage, DeleteTirthImage
  <2>2. kind \in Hosted /\ item.state # "deleted" /\ {k} \subseteq Imaged
    BY <1>2, <2>1 DEF WithGallery, Hosted, Gallery, Imaged
  <2>3. Starts("image", "discard", "cover", 0, item, {k})
    BY <1>1, <2>2 DEF Starts
  <2> QED
    BY <2>1, <2>3, BeginKeeps
<1> QED
  BY <1>5, <1>6, <1>7, <1>8, <1>9

LEMMA DeleteKeeps ==
  ASSUME IInv, NEW r \in Requests,
         DeleteEvent(r) \/ DeleteTirth(r) \/ DeleteAdvertisement(r) \/ DeleteNews(r)
  PROVE  IInv'
<1>1. /\ kind \in Kinds /\ item \in Item(kind) /\ 0 \in 0..MaxImages /\ {} \subseteq Imaged
      /\ Slots = {"cover", "large"}
  BY Parameters DEF IInv, TypeInv, Slots
<1>2. /\ Removed \in Item(kind) /\ Removed.columns = item.columns
      /\ \A s \in Slots : Removed[s] = None
  BY <1>1 DEF Removed, Item
<1>3. Loadable => (kind \in Hosted => item.state # "deleted")
  BY DEF Loadable, Hosted
<1>4. CASE DeleteEvent(r) \/ DeleteTirth(r)
  <2>1. /\ kind \in Hosted /\ Loadable /\ Begin(r, "delete", "list", "cover", 0, Removed, {})
    BY <1>4 DEF DeleteEvent, DeleteTirth, Hosted
  <2>2. Starts("delete", "list", "cover", 0, Removed, {})
    BY <1>1, <1>2, <1>3, <2>1 DEF Starts
  <2> QED
    BY <2>1, <2>2, BeginKeeps
<1>5. CASE DeleteAdvertisement(r)
  <2>1. /\ kind = "ad" /\ Begin(r, "delete", "discard", "cover", 0, Removed, {})
    BY <1>5 DEF DeleteAdvertisement
  <2>2. Starts("delete", "discard", "cover", 0, Removed, {})
    BY <1>1, <1>2, <2>1 DEF Starts, Hosted
  <2> QED
    BY <2>1, <2>2, BeginKeeps
<1>6. CASE DeleteNews(r)
  <2> DEFINE next == [item EXCEPT !.state = "deleted"]
  <2>1. /\ kind = "news" /\ Begin(r, "delete", "write", "cover", 0, next, {})
    BY <1>6 DEF DeleteNews
  <2>2. /\ next \in Item(kind) /\ next.columns = item.columns
        /\ \A s \in Slots : next[s] = item[s]
    BY <1>1 DEF Item
  <2> HIDE DEF next
  <2>3. Starts("delete", "write", "cover", 0, next, {})
    BY <1>1, <2>1, <2>2 DEF Starts, Hosted
  <2> QED
    BY <2>1, <2>3, BeginKeeps
<1> QED
  BY <1>4, <1>5, <1>6

LEMMA CallKeeps ==
  ASSUME IInv, NEW r \in Requests, Call(r)
  PROVE  IInv'
  BY CreateKeeps, EditKeeps, ImageCallKeeps, DeleteKeeps DEF Call

-----------------------------------------------------------------------------
(* The steps of a request.                                                 *)

\* What is known of a request that is under way.
LEMMA AtWork ==
  ASSUME IInv, NEW r \in Requests, Active(req[r])
  PROVE  /\ req[r] \in Request /\ req[r].seen \in Item(kind) /\ req[r].next \in Item(kind)
         /\ Shape(req[r]) /\ Flushed(req[r]) /\ Parting(req[r]) /\ Leaving(req[r])
         /\ req[r].drop \subseteq Imaged
         /\ req[r].seen \in Rows /\ Refs(req[r].seen) \subseteq drawn \ Imaged
         /\ Fresh(req[r]) \subseteq (drawn \cap objects) \ (Imaged \cup media)
         /\ \A a \in Rows : Fresh(req[r]) \cap Refs(a) = {}
         /\ req[r].next["cover"] = req[r].next["large"] => req[r].next["cover"] = None
         /\ kind \in Kinds /\ item \in Item(kind) /\ item \in Rows
         /\ ~overlap => InTurn(req[r]) /\ \A p \in Requests \ {r} : ~Active(req[p])
         /\ kind \in Hosted /\ ~overlap /\ faults = 0 =>
              Clean(req[r]) /\ objects \cap req[r].gone = {}
<1>1. Static(req[r]) /\ req[r] \in Request /\ kind \in Kinds /\ item \in Item(kind)
  BY DEF IInv, TypeInv
<1>2. req[r].seen \in Rows /\ item \in Rows
  BY DEF Rows
<1>3. /\ Shape(req[r]) /\ Flushed(req[r]) /\ Parting(req[r]) /\ Leaving(req[r])
      /\ req[r].drop \subseteq Imaged
  BY <1>1 DEF Static
<1>4. req[r].seen \in Item(kind) /\ req[r].next \in Item(kind)
  BY <1>3 DEF Shape
<1>5. /\ Refs(req[r].seen) \subseteq drawn \ Imaged
      /\ Fresh(req[r]) \subseteq (drawn \cap objects) \ (Imaged \cup media)
      /\ \A a \in Rows : Fresh(req[r]) \cap Refs(a) = {}
      /\ req[r].next["cover"] = req[r].next["large"] => req[r].next["cover"] = None
  BY <1>2 DEF IInv, OnePlace
<1>6. ~overlap => InTurn(req[r]) /\ \A p \in Requests \ {r} : ~Active(req[p])
  BY DEF IInv, Sequential
<1>7. kind \in Hosted /\ ~overlap /\ faults = 0 =>
        Clean(req[r]) /\ objects \cap req[r].gone = {}
  BY DEF IInv, NoOrphans
<1> QED
  BY <1>1, <1>2, <1>3, <1>4, <1>5, <1>6, <1>7

LEMMA SameKeys ==
  ASSUME NEW q \in Request, NEW x \in Request, Active(q), Active(x),
         x.seen = q.seen, x.next = q.next, x.new = q.new
  PROVE  Fresh(x) = Fresh(q)
  BY DEF Fresh

LEMMA AbortKeeps ==
  ASSUME IInv, NEW r \in Requests, Abort(r)
  PROVE  IInv'
<1>1. /\ req' = [req EXCEPT ![r] = Idle] /\ lost' = lost \cup req[r].gone /\ faults' = faults + 1
      /\ Active(req[r]) /\ UNCHANGED <<kind, item, images, objects, drawn, media, used, overlap, calls>>
  BY DEF Abort, Fault, Active
<1>2. /\ Idle \in Request /\ Static(Idle) /\ ~Active(Idle) /\ Fresh(Idle) = {}
      /\ Idle.mine = None /\ Idle.gone = {}
  BY IdleType DEF IInv, TypeInv
<1>3. req[r].gone \subseteq Keys
  BY DEF IInv, TypeInv, Request
<1>4. /\ objects' \subseteq Keys /\ drawn' \subseteq Keys /\ lost' \subseteq Keys
      /\ overlap \in BOOLEAN /\ overlap' \in BOOLEAN /\ calls' \in Nat /\ faults' \in Nat
      /\ objects \ objects' = {} /\ faults' # 0
  BY <1>1, <1>3 DEF IInv, TypeInv
<1>5. InTurn(Idle)
  BY <1>2 DEF InTurn
<1> HIDE DEF Fresh, Active
<1> QED
  BY <1>1, <1>2, <1>4, <1>5, RequestStep

\* A refused file ends its request, which has deleted nothing.
LEMMA RefuseKeeps ==
  ASSUME IInv, NEW r \in Requests, Refuse(r)
  PROVE  IInv'
<1>1. /\ req' = [req EXCEPT ![r] = Idle] /\ req[r].at \in {"store", "image"} /\ Active(req[r])
      /\ UNCHANGED <<kind, item, images, objects, drawn, media, used, lost, overlap, calls, faults>>
  BY DEF Refuse, Active
<1>2. /\ Idle \in Request /\ Static(Idle) /\ ~Active(Idle) /\ Fresh(Idle) = {}
      /\ Idle.mine = None /\ Idle.gone = {}
  BY IdleType DEF IInv, TypeInv
<1>3. req[r].gone = {}
  <2>1. Shape(req[r])
    BY <1>1, AtWork
  <2> QED
    BY <1>1, <2>1 DEF Shape
<1>4. /\ objects' \subseteq Keys /\ drawn' \subseteq Keys /\ lost' \subseteq Keys
      /\ overlap \in BOOLEAN /\ overlap' \in BOOLEAN /\ calls' \in Nat /\ faults' \in Nat
      /\ objects \ objects' = {}
  BY <1>1 DEF IInv, TypeInv
<1>5. InTurn(Idle) /\ Clean(Idle)
  BY <1>2 DEF InTurn, Clean
<1> HIDE DEF Fresh, Active
<1> QED
  BY <1>1, <1>2, <1>3, <1>4, <1>5, RequestStep

LEMMA SkipImageKeeps ==
  ASSUME IInv, NEW r \in Requests, SkipImage(r)
  PROVE  IInv'
<1> DEFINE q == req[r]
           at == IF q.slot = "cover" THEN "store" ELSE "write"
           x == [q EXCEPT !.slot = "large", !.at = at]
<1>1. /\ q.op = "form" /\ q.at = "store" /\ req' = [req EXCEPT ![r] = x]
      /\ UNCHANGED <<kind, item, images, objects, drawn, media, used, lost, overlap, calls, faults>>
  BY DEF SkipImage, IInv, TypeInv
<1>2. /\ q \in Request /\ q.seen \in Item(kind) /\ q.next \in Item(kind)
      /\ Shape(q) /\ Flushed(q) /\ Parting(q) /\ Leaving(q) /\ q.drop \subseteq Imaged
      /\ Fresh(q) \subseteq drawn \cap objects
      /\ q.next["cover"] = q.next["large"] => q.next["cover"] = None
      /\ ~overlap => InTurn(q) /\ \A p \in Requests \ {r} : ~Active(req[p])
  BY <1>1, AtWork DEF Active
<1>3. at \in {"store", "write"}
  OBVIOUS
<1> HIDE DEF at
<1>4. /\ x \in Request /\ x.op = "form" /\ x.at = at /\ x.slot = "large" /\ x.seen = q.seen
      /\ x.next = q.next /\ x.mine = q.mine /\ x.size = q.size /\ x.new = q.new /\ x.drop = q.drop
      /\ x.gone = q.gone
  BY <1>1, <1>2, <1>3 DEF Request, Slots
<1> HIDE DEF x
<1>5. kind = "ad" /\ q.gone = {} /\ q.mine = None
  BY <1>1, <1>2 DEF Shape, Active, Flushed, Wrote
<1>6. Shape(x)
  BY <1>1, <1>2, <1>3, <1>4 DEF Shape, Active
<1>7. Flushed(x) /\ Parting(x) /\ Leaving(x)
  BY <1>3, <1>4, <1>5 DEF Flushed, Wrote, Parting, Leaving
<1>8. Static(x)
  BY <1>2, <1>4, <1>6, <1>7 DEF Static
<1>9. Active(req[r]) /\ Active(x)
  BY <1>1, <1>3, <1>4 DEF Active
<1>10. Fresh(x) = Fresh(q)
  BY <1>2, <1>4, <1>9, SameKeys
<1>11. ~overlap => InTurn(x)
  BY <1>1, <1>2, <1>4, <1>9 DEF InTurn
<1>12. /\ objects' \subseteq Keys /\ drawn' \subseteq Keys /\ lost' \subseteq Keys
       /\ overlap \in BOOLEAN /\ overlap' \in BOOLEAN /\ calls' \in Nat /\ faults' \in Nat
       /\ objects \ objects' = {} /\ kind \notin Hosted
  BY <1>1, <1>5 DEF IInv, TypeInv, Hosted
<1>13. /\ x.seen = req[r].seen /\ req[r].gone \subseteq x.gone /\ x.mine = None
       /\ Fresh(x) \subseteq drawn' \cap objects' /\ Fresh(x) = Fresh(req[r])
       /\ (x.next["cover"] = x.next["large"] => x.next["cover"] = None)
       /\ (~overlap => \A p \in Requests \ {r} : ~Active(req[p]))
  BY <1>1, <1>2, <1>4, <1>5, <1>10
<1> HIDE DEF q, Fresh, Active
<1> QED
  BY <1>1, <1>4, <1>8, <1>9, <1>11, <1>12, <1>13, RequestStep

LEMMA StoresKeeps ==
  ASSUME IInv, NEW r \in Requests, NEW slot \in Slots, NEW at, Stores(r, slot, at),
         \/ kind \in Hosted /\ at = "write"
         \/ kind = "ad" /\ at = (IF req[r].op = "form" THEN IF slot = "cover" THEN "store" ELSE "write"
                                 ELSE "discard")
  PROVE  IInv'
<1> DEFINE q == req[r]
<1>1. PICK u \in Keys \ drawn :
        /\ drawn' = drawn \cup {u} /\ objects' = objects \cup {u}
        /\ req' = [req EXCEPT
             ![r].next = [@ EXCEPT ![slot] = u, !.shown = Shown(req[r], slot, u)],
             ![r].slot = IF req[r].op = "form" THEN "large" ELSE @,
             ![r].at = at]
  BY DEF Stores
<1>2. /\ q.at = "store" /\ q.slot = slot
      /\ UNCHANGED <<kind, item, images, media, used, lost, overlap, calls, faults>>
  BY DEF Stores
<1>3. /\ q \in Request /\ q.seen \in Item(kind) /\ q.next \in Item(kind)
      /\ Shape(q) /\ Flushed(q) /\ Leaving(q) /\ q.drop \subseteq Imaged
      /\ q.seen \in Rows /\ Refs(q.seen) \subseteq drawn
      /\ Fresh(q) \subseteq drawn \cap objects
      /\ q.next["cover"] = q.next["large"] => q.next["cover"] = None
      /\ ~overlap => InTurn(q) /\ \A p \in Requests \ {r} : ~Active(req[p])
      /\ kind \in Hosted /\ ~overlap /\ faults = 0 => Clean(q) /\ objects \cap q.gone = {}
  BY <1>2, AtWork DEF Active
<1>4. q.op \in {"form", "upload"} /\ q.gone = {} /\ q.drop = {} /\ q.new = <<>> /\ q.mine = None
  BY <1>2, <1>3 DEF Shape, Active, Flushed, Wrote
<1>5. at \in {"store", "write", "discard"} /\ (at = "store" => q.op = "form")
      /\ (at = "discard" => kind = "ad" /\ q.op = "upload") /\ (q.op = "form" => kind = "ad")
  BY <1>2, <1>3, <1>4 DEF Shape, Active
\* A key that no slot holds so far.
<1>6. \A s \in Slots : q.seen[s] # u /\ q.next[s] # u
  <2> SUFFICES ASSUME NEW s \in Slots
               PROVE  q.seen[s] # u /\ q.next[s] # u
    OBVIOUS
  <2>1. u # None
    BY Parameters
  <2>2. q.seen[s] # u
    BY <1>3, <2>1 DEF Refs
  <2>3. q.next[s] = u => u \in Fresh(q)
    BY <1>2, <2>2 DEF Fresh, Active
  <2> QED
    BY <1>3, <2>2, <2>3
<1> DEFINE shown == Shown(q, slot, u)
           next == [q.next EXCEPT ![slot] = u, !.shown = shown]
           y == [q EXCEPT !.slot = IF q.op = "form" THEN "large" ELSE @, !.at = at]
           x == [y EXCEPT !.next = next]
<1>7. shown \in Keys \cup {None}
  BY <1>3 DEF Shown, Item
<1> HIDE DEF shown
<1>8. /\ next \in Item(kind) /\ next[slot] = u /\ next.state = q.next.state
      /\ next.columns = q.next.columns /\ \A s \in Slots \ {slot} : next[s] = q.next[s]
  BY <1>3, <1>7 DEF Item, Slots
<1>9. /\ y \in Request /\ y.op = q.op /\ y.at = at /\ y.seen = q.seen /\ y.mine = None
      /\ y.new = <<>> /\ y.drop = {} /\ y.gone = {} /\ y.size = q.size
      /\ y.slot = (IF q.op = "form" THEN "large" ELSE slot)
  BY ZenonT(60), <1>2, <1>3, <1>4, <1>5 DEF Request, Slots
<1>10. req' = [req EXCEPT ![r] = x]
  BY <1>1, <1>3 DEF IInv, TypeInv, Request, shown
<1> HIDE DEF y, next
<1>11. /\ x \in Request /\ x.op = q.op /\ x.at = at /\ x.seen = q.seen /\ x.mine = None
       /\ x.new = <<>> /\ x.drop = {} /\ x.gone = {} /\ x.next = next /\ x.size = q.size
       /\ x.slot = (IF q.op = "form" THEN "large" ELSE slot)
  BY <1>8, <1>9 DEF Request
<1> HIDE DEF x
<1>12. Shape(x)
  BY <1>3, <1>4, <1>5, <1>8, <1>11 DEF Shape, Active
<1>13. Flushed(x) /\ Leaving(x)
  BY <1>5, <1>11 DEF Flushed, Wrote, Leaving, Hosted
<1>14. Parting(x)
  BY <1>4, <1>6, <1>8, <1>11 DEF Parting, About
<1>15. Static(x)
  BY <1>11, <1>12, <1>13, <1>14 DEF Static
<1>16. \A k \in Fresh(x) : k \in Fresh(q) \/ k = u
  BY <1>2, <1>8, <1>11 DEF Fresh, Active
<1>17. kind \in Hosted => q.op = "upload" /\ q.next = q.seen /\ Fresh(q) = {}
  BY <1>2, <1>3, <1>4 DEF Shape, Active, Fresh, Hosted
<1>18. u \in Fresh(x)
  BY <1>6, <1>8, <1>5, <1>11 DEF Fresh, Active
<1>19. Fresh(x) \subseteq drawn' \cap objects' /\ \A k \in Fresh(x) : k \in Fresh(q) \/ k \notin drawn
  BY <1>1, <1>3, <1>16
<1>20. x.next["cover"] = x.next["large"] => x.next["cover"] = None
  BY <1>3, <1>6, <1>8, <1>11 DEF Slots
<1>21. ~overlap => InTurn(x)
  BY <1>2, <1>3, <1>4, <1>5, <1>8, <1>11 DEF InTurn, Active
<1>22. kind \in Hosted /\ ~overlap /\ faults = 0 => Clean(x)
  <2> SUFFICES ASSUME kind \in Hosted, ~overlap, faults = 0
               PROVE  Clean(x)
    OBVIOUS
  <2>1. /\ item.state # "deleted" /\ (q.next.state = "deleted" => q.op = "delete")
        /\ q.op = "upload" /\ at = "write"
    BY <1>2, <1>3, <1>5, <1>17 DEF Clean, Active, Hosted
  <2>2. \A s \in Slots \ {slot} : next[s] = q.seen[s]
    BY <1>8, <1>17
  <2> QED
    BY <1>8, <1>11, <2>1, <2>2 DEF Clean, About
<1>23. /\ objects' \subseteq Keys /\ drawn' \subseteq Keys /\ lost' \subseteq Keys
       /\ overlap \in BOOLEAN /\ overlap' \in BOOLEAN /\ calls' \in Nat /\ faults' \in Nat
       /\ objects \ objects' = {} /\ objects' \subseteq objects \cup Fresh(x)
  BY <1>1, <1>2, <1>18 DEF IInv, TypeInv
<1>24. /\ Active(req[r]) /\ x.seen = req[r].seen /\ req[r].gone \subseteq x.gone
       /\ x.mine = None /\ objects' \cap x.gone = {}
  BY <1>2, <1>4, <1>11 DEF Active
<1>25. kind \in Hosted => Fresh(req[r]) \subseteq Fresh(x)
  BY <1>17
<1>26. /\ \A k \in Fresh(x) : k \in Fresh(req[r]) \/ k \notin drawn
       /\ ~overlap => \A p \in Requests \ {r} : ~Active(req[p])
  BY <1>3, <1>19
<1> HIDE DEF q, Fresh, Active
<1> QED
  BY <1>1, <1>2, <1>10, <1>11, <1>15, <1>19, <1>20, <1>21, <1>22, <1>23, <1>24, <1>25, <1>26, RequestStep

LEMMA WriteKeeps ==
  ASSUME IInv, NEW r \in Requests, Write(r)
  PROVE  IInv'
<1> DEFINE q == req[r]
           o == Overlaid(item, q.seen, q.next)
           mine == IF q.next = q.seen THEN None ELSE o
           at == IF kind \in {"event", "tirth"} /\ q.op \in {"upload", "remove", "delete"}
                 THEN "discard" ELSE "commit"
           x == [q EXCEPT !.mine = mine, !.at = at]
<1>1. /\ q.at = "write" /\ RowFree(r)
      /\ req' = [req EXCEPT ![r].mine = mine, ![r].at = at]
      /\ UNCHANGED <<kind, item, images, objects, drawn, media, used, lost, overlap, calls, faults>>
  BY DEF Write
<1>2. /\ q \in Request /\ q.seen \in Item(kind) /\ q.next \in Item(kind)
      /\ Shape(q) /\ Parting(q) /\ Leaving(q) /\ q.drop \subseteq Imaged
      /\ Fresh(q) \subseteq drawn \cap objects
      /\ q.next["cover"] = q.next["large"] => q.next["cover"] = None
      /\ kind \in Kinds /\ item \in Item(kind)
      /\ ~overlap => InTurn(q) /\ \A p \in Requests \ {r} : ~Active(req[p])
      /\ kind \in Hosted /\ ~overlap /\ faults = 0 => Clean(q) /\ objects \cap q.gone = {}
  BY <1>1, AtWork DEF Active
<1>3. req' = [req EXCEPT ![r] = x]
  BY <1>1 DEF IInv, TypeInv
<1>4. o \in Item(kind)
  BY <1>2, OverlaidType
<1>5. mine \in Item(kind) \cup {None} /\ (mine = None <=> q.next = q.seen)
      /\ (mine # None => mine = o)
  BY <1>2, <1>4, Absent
<1>6. at \in {"discard", "commit"} /\ (kind \in Hosted /\ q.op \in {"upload", "remove", "delete"} <=> at = "discard")
  BY DEF Hosted
<1> HIDE DEF mine, at
<1>7. /\ x \in Request /\ x.op = q.op /\ x.at = at /\ x.slot = q.slot /\ x.seen = q.seen
      /\ x.next = q.next /\ x.mine = mine /\ x.size = q.size /\ x.new = q.new /\ x.drop = q.drop
      /\ x.gone = q.gone
  BY <1>2, <1>5, <1>6 DEF Request
<1> HIDE DEF x
<1>8. Shape(x)
  BY <1>1, <1>2, <1>6, <1>7 DEF Shape, Active
<1>9. Flushed(x)
  BY <1>1, <1>2, <1>5, <1>6, <1>7 DEF Flushed, Wrote, Shape, Active
<1>10. Parting(x) /\ Leaving(x)
  BY <1>1, <1>2, <1>6, <1>7 DEF Parting, Leaving, About, Active
<1>11. Static(x)
  BY <1>2, <1>7, <1>8, <1>9, <1>10 DEF Static
<1>12. Active(req[r]) /\ Active(x)
  BY <1>1, <1>6, <1>7 DEF Active
<1>13. Fresh(x) = Fresh(q)
  BY <1>2, <1>7, <1>12, SameKeys
<1>14. ~overlap => InTurn(x)
  BY <1>1, <1>2, <1>7, <1>12 DEF InTurn, Shape
<1>15. kind \in Hosted /\ ~overlap /\ faults = 0 => Clean(x) /\ objects' \cap x.gone = {}
  <2> SUFFICES ASSUME kind \in Hosted, ~overlap, faults = 0
               PROVE  Clean(x) /\ objects' \cap x.gone = {}
    OBVIOUS
  <2>1. Clean(q) /\ objects \cap q.gone = {}
    BY <1>2
  <2>a. /\ q.op \in {"create", "form", "edit", "upload", "remove", "delete"}
        /\ q.op \notin {"image", "delete"} => q.drop = {}
        /\ q.op # "form"
    BY <1>1, <1>2 DEF Shape, Active, Hosted
  <2>b. (q.op \in {"create", "edit"} => \A s \in Slots : q.next[s] = q.seen[s])
    BY <1>1, <2>1 DEF Clean, Active
  <2>3. q.op \notin {"upload", "remove", "delete"} =>
          q.drop = {} /\ \A s \in Slots : q.next[s] = q.seen[s]
    BY <2>a, <2>b
  <2> QED
    BY <1>1, <1>6, <1>7, <1>12, <2>1, <2>3 DEF Clean, About
<1>16. /\ objects' \subseteq Keys /\ drawn' \subseteq Keys /\ lost' \subseteq Keys
       /\ overlap \in BOOLEAN /\ overlap' \in BOOLEAN /\ calls' \in Nat /\ faults' \in Nat
       /\ objects \ objects' = {}
  BY <1>1 DEF IInv, TypeInv
<1>17. /\ x.seen = req[r].seen /\ req[r].gone \subseteq x.gone
       /\ \A p \in Requests \ {r} : req[p].mine = None
  BY <1>1, <1>7 DEF RowFree
<1>18. Fresh(x) \subseteq drawn' \cap objects' /\ Fresh(x) = Fresh(req[r])
       /\ (x.next["cover"] = x.next["large"] => x.next["cover"] = None)
       /\ (~overlap => \A p \in Requests \ {r} : ~Active(req[p]))
  BY <1>1, <1>2, <1>7, <1>13
<1> HIDE DEF q, Fresh, Active
<1> QED
  BY <1>1, <1>3, <1>7, <1>11, <1>12, <1>14, <1>15, <1>16, <1>17, <1>18, RequestStep

LEMMA DiscardsKeeps ==
  ASSUME IInv, NEW r \in Requests, NEW at, Discards(r, at),
         (kind \in Hosted /\ at = "commit") \/ (kind = "ad" /\ at = "write")
  PROVE  IInv'
<1> DEFINE q == req[r]
           previous == Previous(q)
           x == [q EXCEPT !.gone = @ \cup previous, !.at = at]
<1>1. /\ q.at = "discard" /\ DeleteObjects(previous)
      /\ req' = [req EXCEPT ![r].gone = @ \cup previous, ![r].at = at]
      /\ UNCHANGED <<kind, item, images, drawn, media, used, lost, overlap, calls>>
  BY DEF Discards
<1>2. /\ q \in Request /\ q.seen \in Item(kind) /\ q.next \in Item(kind)
      /\ Shape(q) /\ Flushed(q) /\ Parting(q) /\ Leaving(q) /\ q.drop \subseteq Imaged
      /\ q.seen \in Rows /\ Fresh(q) \subseteq (drawn \cap objects) \ Imaged
      /\ \A a \in Rows : Fresh(q) \cap Refs(a) = {}
      /\ q.next["cover"] = q.next["large"] => q.next["cover"] = None
      /\ ~overlap => InTurn(q) /\ \A p \in Requests \ {r} : ~Active(req[p])
      /\ kind \in Hosted /\ ~overlap /\ faults = 0 => Clean(q) /\ objects \cap q.gone = {}
  BY <1>1, AtWork DEF Active
<1>3. req' = [req EXCEPT ![r] = x]
  BY <1>1 DEF IInv, TypeInv
<1>4. q.op \in {"upload", "remove", "delete", "image"} /\ q.slot \in Slots /\ kind # "news"
  BY <1>1, <1>2 DEF Shape, Active, Hosted, Request
<1>5. /\ q.op = "image" => previous = q.drop
      /\ q.op # "image" => previous = {q.seen[s] : s \in About(q)} \ {None}
  BY <1>4 DEF Previous, About, Slots
<1>6. About(q) \subseteq Slots
  BY <1>4 DEF About
<1> HIDE DEF previous
<1>7. \A k \in previous : k \in Imaged \/ k \in Refs(q.seen)
  BY <1>2, <1>5, <1>6 DEF Refs
<1>8. previous \subseteq Keys
  BY <1>2, <1>7 DEF Imaged, Refs, Item, Slots
<1>9. \A k \in previous : k \in q.drop \/ \E s \in Slots : q.seen[s] = k /\ q.next[s] # k
  BY <1>1, <1>2, <1>4, <1>5, <1>6 DEF Parting, Active
<1>10. /\ objects' \subseteq objects /\ objects \ objects' \subseteq previous /\ faults' \in Nat
       /\ faults' = 0 => faults = 0 /\ objects' = objects \ previous
  BY <1>1 DEF DeleteObjects, Fault, IInv, TypeInv
<1>11. at \in {"commit", "write"}
  OBVIOUS
<1>12. /\ x \in Request /\ x.op = q.op /\ x.at = at /\ x.slot = q.slot /\ x.seen = q.seen
       /\ x.next = q.next /\ x.mine = q.mine /\ x.size = q.size /\ x.new = q.new /\ x.drop = q.drop
       /\ x.gone = q.gone \cup previous
  BY <1>2, <1>8, <1>11 DEF Request
<1> HIDE DEF x
<1>13. Shape(x)
  BY <1>1, <1>2, <1>4, <1>11, <1>12 DEF Shape, Active, Hosted
<1>14. Flushed(x)
  BY <1>1, <1>2, <1>4, <1>11, <1>12 DEF Flushed, Wrote, Shape, Active, Hosted
<1>15. Parting(x)
  BY <1>1, <1>2, <1>12 DEF Parting, About, Active
<1>16. Leaving(x)
  BY <1>2, <1>9, <1>12 DEF Leaving
<1>17. Static(x)
  BY <1>2, <1>12, <1>13, <1>14, <1>15, <1>16 DEF Static
<1>18. Active(req[r]) /\ Active(x)
  BY <1>1, <1>11, <1>12 DEF Active
<1>19. Fresh(x) = Fresh(q)
  BY <1>2, <1>12, <1>18, SameKeys
<1>20. Fresh(q) \subseteq objects'
  BY <1>2, <1>7, <1>10
<1>21. ~overlap => InTurn(x)
  BY <1>1, <1>2, <1>4, <1>12, <1>18 DEF InTurn
<1>22. kind \in Hosted /\ ~overlap /\ faults' = 0 => Clean(x) /\ objects' \cap x.gone = {}
  <2> SUFFICES ASSUME kind \in Hosted, ~overlap, faults' = 0
               PROVE  Clean(x) /\ objects' \cap x.gone = {}
    OBVIOUS
  <2>1. Clean(q) /\ objects \cap q.gone = {} /\ faults = 0
    BY <1>2, <1>10
  <2>2. q.drop \subseteq x.gone
    BY <1>1, <1>2, <1>4, <1>5, <1>12, <2>1 DEF Clean, Shape, Active
  <2>3. ASSUME NEW s \in Slots, q.seen[s] \notin {None, q.next[s]}
        PROVE  q.seen[s] \in previous
    <3>1. q.op # "image"
      BY <1>1, <1>2, <2>3 DEF Shape, Active
    <3>2. s \in About(q)
      BY <1>1, <2>1, <2>3 DEF Clean, Active
    <3> QED
      BY <1>5, <2>3, <3>1, <3>2
  <2> QED
    BY <1>1, <1>10, <1>12, <1>18, <2>1, <2>2, <2>3 DEF Clean, About, Active
<1>23. /\ objects' \subseteq Keys /\ drawn' \subseteq Keys /\ lost' \subseteq Keys
       /\ overlap \in BOOLEAN /\ overlap' \in BOOLEAN /\ calls' \in Nat
  BY <1>1, <1>10 DEF IInv, TypeInv
<1>24. /\ x.seen = req[r].seen /\ req[r].gone \subseteq x.gone
       /\ \A k \in objects \ objects' :
            k \in x.gone /\ (k \in Imaged \/ \E a \in Rows : k \in Refs(a))
  BY <1>2, <1>7, <1>10, <1>12
<1>25. x.mine # None => \A p \in Requests \ {r} : req[p].mine = None
  BY <1>12 DEF IInv, OneFlushed
<1>26. Fresh(x) \subseteq drawn' \cap objects' /\ Fresh(x) = Fresh(req[r])
       /\ (x.next["cover"] = x.next["large"] => x.next["cover"] = None)
       /\ (~overlap => \A p \in Requests \ {r} : ~Active(req[p]))
  BY <1>1, <1>2, <1>12, <1>19, <1>20
<1> HIDE DEF q, Fresh, Active
<1> QED
  BY <1>1, <1>3, <1>10, <1>12, <1>17, <1>18, <1>21, <1>22, <1>23, <1>24, <1>25, <1>26, RequestStep

LEMMA GalleryType ==
  /\ Gallery \subseteq Keys /\ IsFiniteSet(Gallery)
  /\ Cardinality(Gallery) \in 0..Cardinality(Keys) /\ Cardinality(Gallery) \in Nat
<1>1. Gallery \in SUBSET Keys
  BY DEF Gallery
<1> HIDE DEF Gallery
<1>2. IsFiniteSet(Gallery) /\ Cardinality(Gallery) <= Cardinality(Keys)
  BY <1>1, Parameters, FS_Subset
<1>3. Cardinality(Gallery) \in Nat /\ Cardinality(Keys) \in Nat
  BY <1>2, Parameters, FS_CardinalityType
<1> QED
  BY <1>1, <1>2, <1>3

LEMMA CountImagesKeeps ==
  ASSUME IInv, NEW r \in Requests, NEW k, CountImages(r, k)
  PROVE  IInv'
<1> DEFINE q == req[r]
           x == [q EXCEPT !.at = "image", !.count = Cardinality(Gallery)]
<1>1. /\ q.at = "count"
      /\ UNCHANGED <<kind, item, images, objects, drawn, media, used, lost, overlap, calls, faults>>
  BY DEF CountImages
<1>2. req' = [req EXCEPT ![r] = IF WithinLimit(Cardinality(Gallery), q.size) THEN x ELSE Idle]
  BY DEF CountImages
<1>3. /\ q \in Request /\ q.seen \in Item(kind) /\ q.next \in Item(kind)
      /\ Shape(q) /\ Flushed(q) /\ Parting(q) /\ Leaving(q) /\ q.drop \subseteq Imaged
      /\ Fresh(q) \subseteq drawn \cap objects
      /\ q.next["cover"] = q.next["large"] => q.next["cover"] = None
      /\ ~overlap => InTurn(q) /\ \A p \in Requests \ {r} : ~Active(req[p])
      /\ kind \in Hosted /\ ~overlap /\ faults = 0 => Clean(q) /\ objects \cap q.gone = {}
      /\ kind \in Kinds
  BY <1>1, AtWork DEF Active
<1>4. /\ q.op = "images" /\ q.new = <<>> /\ q.gone = {} /\ q.drop = {} /\ q.next = q.seen
      /\ q.size > 0 /\ q.mine = None
  BY <1>1, <1>3 DEF Shape, Active, Flushed, Wrote
<1>5. /\ objects' \subseteq Keys /\ drawn' \subseteq Keys /\ lost' \subseteq Keys
      /\ overlap \in BOOLEAN /\ overlap' \in BOOLEAN /\ calls' \in Nat /\ faults' \in Nat
      /\ objects \ objects' = {} /\ Active(req[r])
  BY <1>1 DEF IInv, TypeInv, Active
<1>6. Fresh(q) = {}
  BY <1>4 DEF Fresh
<1>7. CASE ~WithinLimit(Cardinality(Gallery), q.size)
  <2>1. /\ Idle \in Request /\ Static(Idle) /\ ~Active(Idle) /\ Fresh(Idle) = {}
        /\ Idle.mine = None /\ Idle.gone = {}
    BY <1>3, IdleType
  <2>2. InTurn(Idle) /\ (kind \in Hosted /\ ~overlap /\ faults = 0 => Clean(Idle))
    BY <2>1 DEF InTurn, Clean
  <2>3. req' = [req EXCEPT ![r] = Idle]
    BY <1>2, <1>7
  <2>4. req[r].gone = {} /\ Fresh(req[r]) = {}
    BY <1>4, <1>6
  <2> HIDE DEF q, Fresh, Active
  <2> QED
    BY <1>1, <1>5, <2>1, <2>2, <2>3, <2>4, RequestStep
<1>8. CASE WithinLimit(Cardinality(Gallery), q.size)
  <2>1. Cardinality(Gallery) + q.size <= MaxImages
    BY <1>8 DEF WithinLimit
  <2>2. /\ x \in Request /\ x.op = q.op /\ x.at = "image" /\ x.slot = q.slot /\ x.seen = q.seen
        /\ x.next = q.next /\ x.mine = q.mine /\ x.size = q.size /\ x.new = q.new /\ x.drop = q.drop
        /\ x.gone = q.gone
    BY <1>3, GalleryType DEF Request
  <2>3. req' = [req EXCEPT ![r] = x]
    BY <1>2, <1>8
  <2> HIDE DEF x
  <2>4. Shape(x)
    <3>1. Len(x.new) = 0 /\ x.size \in Nat /\ x.size > 0
      BY <1>3, <1>4, <2>2 DEF Request
    <3>2. kind \in Hosted
      BY <1>1, <1>3, <1>4 DEF Shape, Active
    <3> QED
      BY <1>3, <1>4, <2>2, <3>1, <3>2 DEF Shape, Active
  <2>5. Flushed(x) /\ Parting(x) /\ Leaving(x)
    BY <1>4, <2>2 DEF Flushed, Wrote, Parting, Leaving
  <2>6. Static(x)
    BY <1>3, <2>2, <2>4, <2>5 DEF Static
  <2>7. Active(x) /\ Fresh(x) = {}
    BY <1>4, <2>2 DEF Active, Fresh
  <2>8. ~overlap => InTurn(x)
    BY <1>1, <1>3, <2>1, <2>2 DEF InTurn, Active
  <2>9. kind \in Hosted /\ ~overlap /\ faults = 0 => Clean(x)
    BY <1>1, <1>3, <1>4, <2>2 DEF Clean, Active, About
  <2>10. /\ x.seen = req[r].seen /\ req[r].gone \subseteq x.gone /\ x.mine = None
         /\ Fresh(req[r]) = {} /\ objects' \cap x.gone = {}
         /\ (x.next["cover"] = x.next["large"] => x.next["cover"] = None)
         /\ (~overlap => \A p \in Requests \ {r} : ~Active(req[p]))
    BY <1>3, <1>4, <1>6, <2>2
  <2> HIDE DEF q, Fresh, Active
  <2> QED
    BY <1>1, <1>5, <2>2, <2>3, <2>6, <2>7, <2>8, <2>9, <2>10, RequestStep
<1> QED
  BY <1>7, <1>8

LEMMA StoreImageKeeps ==
  ASSUME IInv, NEW r \in Requests, NEW k, StoreImage(r, k)
  PROVE  IInv'
<1> DEFINE q == req[r]
<1>1. PICK u \in Keys \ drawn :
        /\ drawn' = drawn \cup {u} /\ objects' = objects \cup {u}
        /\ req' = [req EXCEPT ![r].new = Append(@, u),
                              ![r].at = IF Len(req[r].new) + 1 = req[r].size THEN "commit" ELSE @]
  BY DEF StoreImage
<1>2. /\ q.at = "image"
      /\ UNCHANGED <<kind, item, images, media, used, lost, overlap, calls, faults>>
  BY DEF StoreImage
<1>3. /\ q \in Request /\ q.seen \in Item(kind) /\ q.next \in Item(kind)
      /\ Shape(q) /\ Flushed(q) /\ Parting(q) /\ Leaving(q) /\ q.drop \subseteq Imaged
      /\ Fresh(q) \subseteq drawn \cap objects
      /\ q.next["cover"] = q.next["large"] => q.next["cover"] = None
      /\ ~overlap => InTurn(q) /\ \A p \in Requests \ {r} : ~Active(req[p])
      /\ kind \in Hosted /\ ~overlap /\ faults = 0 => Clean(q) /\ objects \cap q.gone = {}
  BY <1>2, AtWork DEF Active
<1>4. /\ q.op = "images" /\ q.gone = {} /\ q.drop = {} /\ q.next = q.seen
      /\ Len(q.new) < q.size /\ q.mine = None
  BY <1>2, <1>3 DEF Shape, Active, Flushed, Wrote
<1>5. q.new \in Seq(Keys) /\ q.size \in 0..MaxImages
  BY <1>3, NewType DEF Request
<1> DEFINE new == Append(q.new, u)
           at == IF Len(q.new) + 1 = q.size THEN "commit" ELSE "image"
           x == [q EXCEPT !.new = new, !.at = at]
<1>6. /\ new \in Seq(Keys) /\ Len(new) = Len(q.new) + 1 /\ new[Len(q.new) + 1] = u
      /\ \A i \in 1..Len(q.new) : new[i] = q.new[i]
      /\ Len(new) <= q.size
  BY <1>4, <1>5
<1>7. new \in [1..Len(new) -> Keys] /\ Len(new) \in 0..MaxImages
  <2> HIDE DEF new
  <2>1. new \in [1..Len(new) -> Keys]
    BY <1>6
  <2>2. Len(new) \in Nat /\ q.size \in Int /\ q.size <= MaxImages /\ MaxImages \in Int
    BY <1>5, <1>6, Parameters
  <2>3. Len(new) \in 0..MaxImages
    BY <1>6, <2>2
  <2> QED
    BY <2>1, <2>3
<1>8. at \in {"image", "commit"} /\ (at = "image" => Len(q.new) + 1 < q.size)
  BY <1>4, <1>5
<1>9. req' = [req EXCEPT ![r] = x]
  BY <1>1, <1>2 DEF IInv, TypeInv
<1> HIDE DEF new, at
<1>10. /\ x \in Request /\ x.op = q.op /\ x.at = at /\ x.slot = q.slot /\ x.seen = q.seen
       /\ x.next = q.next /\ x.mine = q.mine /\ x.size = q.size /\ x.new = new /\ x.drop = q.drop
       /\ x.gone = q.gone
  BY ZenonT(60), <1>3, <1>7, <1>8 DEF Request
<1> HIDE DEF x
<1>11. Shape(x)
  BY <1>2, <1>3, <1>4, <1>6, <1>8, <1>10 DEF Shape, Active
<1>12. Flushed(x) /\ Parting(x) /\ Leaving(x)
  BY <1>4, <1>8, <1>10 DEF Flushed, Wrote, Parting, Leaving
<1>13. Static(x)
  BY <1>3, <1>10, <1>11, <1>12 DEF Static
<1>14. Fresh(x) = Fresh(q) \cup {u}
  <2>1. DOMAIN new = 1..(Len(q.new) + 1) /\ DOMAIN q.new = 1..Len(q.new) /\ Len(q.new) \in Nat
    BY <1>5, <1>6
  <2>2. 1..(Len(q.new) + 1) = 1..Len(q.new) \cup {Len(q.new) + 1}
    BY <2>1
  <2> QED
    BY <1>4, <1>6, <1>10, <2>1, <2>2 DEF Fresh
<1>15. ~overlap => InTurn(x)
  BY <1>2, <1>3, <1>4, <1>10 DEF InTurn, Active
<1>16. kind \in Hosted /\ ~overlap /\ faults = 0 => Clean(x)
  BY <1>2, <1>3, <1>4, <1>10 DEF Clean, Active, About
<1>17. /\ objects' \subseteq Keys /\ drawn' \subseteq Keys /\ lost' \subseteq Keys
       /\ overlap \in BOOLEAN /\ overlap' \in BOOLEAN /\ calls' \in Nat /\ faults' \in Nat
       /\ objects \ objects' = {} /\ objects' \subseteq objects \cup Fresh(x)
  BY <1>1, <1>2, <1>14 DEF IInv, TypeInv
<1>18. /\ Active(req[r]) /\ x.seen = req[r].seen /\ req[r].gone \subseteq x.gone /\ x.mine = None
       /\ objects' \cap x.gone = {}
       /\ (x.next["cover"] = x.next["large"] => x.next["cover"] = None)
       /\ (~overlap => \A p \in Requests \ {r} : ~Active(req[p]))
  BY <1>2, <1>3, <1>4, <1>10 DEF Active
<1>19. /\ Fresh(x) \subseteq drawn' \cap objects' /\ Fresh(req[r]) \subseteq Fresh(x)
       /\ \A j \in Fresh(x) : j \in Fresh(req[r]) \/ j \notin drawn
  BY <1>1, <1>3, <1>14
<1> HIDE DEF q, Fresh, Active
<1> QED
  BY <1>1, <1>2, <1>9, <1>10, <1>13, <1>15, <1>16, <1>17, <1>18, <1>19, RequestStep

LEMMA DeleteGalleryKeeps ==
  ASSUME IInv, NEW r \in Requests, NEW k \in Hosted, DeleteGallery(r, k)
  PROVE  IInv'
<1> DEFINE q == req[r]
<1>1. PICK S \in SUBSET Gallery :
        /\ Cardinality(S) = (IF Cardinality(Gallery) < MaxImages
                             THEN Cardinality(Gallery) ELSE MaxImages)
        /\ DeleteObjects(S)
        /\ req' = [req EXCEPT ![r].drop = S, ![r].gone = S, ![r].at = "write"]
  BY DEF DeleteGallery
<1>2. /\ q.at = "list" /\ kind \in Hosted
      /\ UNCHANGED <<kind, item, images, drawn, media, used, lost, overlap, calls>>
  BY DEF DeleteGallery
<1>3. /\ q \in Request /\ q.seen \in Item(kind) /\ q.next \in Item(kind)
      /\ Shape(q) /\ Flushed(q) /\ Parting(q)
      /\ Fresh(q) \subseteq (drawn \cap objects) \ Imaged
      /\ q.next["cover"] = q.next["large"] => q.next["cover"] = None
      /\ ~overlap => InTurn(q) /\ \A p \in Requests \ {r} : ~Active(req[p])
      /\ ~overlap /\ faults = 0 => Clean(q)
  BY <1>2, AtWork DEF Active
<1>4. q.op = "delete" /\ q.gone = {} /\ q.mine = None
  BY <1>2, <1>3 DEF Shape, Active, Flushed, Wrote, Hosted
<1> DEFINE x == [q EXCEPT !.drop = S, !.gone = S, !.at = "write"]
<1>5. req' = [req EXCEPT ![r] = x]
  BY <1>1 DEF IInv, TypeInv
<1>6. S \subseteq Imaged /\ S \in SUBSET Keys
  BY DEF Gallery, Imaged
<1>7. /\ x \in Request /\ x.op = q.op /\ x.at = "write" /\ x.slot = q.slot /\ x.seen = q.seen
      /\ x.next = q.next /\ x.mine = q.mine /\ x.size = q.size /\ x.new = q.new /\ x.drop = S
      /\ x.gone = S
  BY <1>3, <1>6 DEF Request
<1> HIDE DEF x
<1>8. Shape(x)
  BY <1>2, <1>3, <1>4, <1>7 DEF Shape, Active
<1>9. Flushed(x) /\ Parting(x) /\ Leaving(x)
  BY <1>2, <1>3, <1>4, <1>7 DEF Flushed, Wrote, Parting, Leaving, About, Active
<1>10. Static(x)
  BY <1>6, <1>7, <1>8, <1>9 DEF Static
<1>11. /\ objects' \subseteq objects /\ objects \ objects' \subseteq S /\ faults' \in Nat
       /\ faults' = 0 => faults = 0 /\ objects' = objects \ S
  BY <1>1 DEF DeleteObjects, Fault, IInv, TypeInv
<1>12. Active(req[r]) /\ Active(x)
  BY <1>2, <1>7 DEF Active
<1>13. Fresh(x) = Fresh(q)
  BY <1>3, <1>7, <1>12, SameKeys
<1>14. ~overlap => InTurn(x)
  BY <1>3, <1>4, <1>7, <1>12 DEF InTurn
\* As long as the limit is held the whole gallery goes.
<1>15. ~overlap => S = Gallery
  <2> SUFFICES ASSUME ~overlap
               PROVE  S = Gallery
    OBVIOUS
  <2>1. Cardinality(Gallery) <= MaxImages
    BY DEF IInv, Sequential
  <2>2. Cardinality(S) = Cardinality(Gallery)
    BY <1>1, <2>1, GalleryType, Parameters
  <2> QED
    BY <2>2, GalleryType, FS_Subset
<1>16. ~overlap /\ faults' = 0 => Clean(x) /\ objects' \cap x.gone = {}
  <2> SUFFICES ASSUME ~overlap, faults' = 0
               PROVE  Clean(x) /\ objects' \cap x.gone = {}
    OBVIOUS
  <2>1. Clean(q) /\ objects' = objects \ S
    BY <1>3, <1>11
  <2> QED
    BY <1>4, <1>7, <1>12, <1>15, <2>1 DEF Clean, About
<1>17. /\ objects' \subseteq Keys /\ drawn' \subseteq Keys /\ lost' \subseteq Keys
       /\ overlap \in BOOLEAN /\ overlap' \in BOOLEAN /\ calls' \in Nat
  BY <1>2, <1>11 DEF IInv, TypeInv
<1>18. /\ x.seen = req[r].seen /\ req[r].gone \subseteq x.gone /\ x.mine = None
       /\ (x.next["cover"] = x.next["large"] => x.next["cover"] = None)
       /\ (~overlap => \A p \in Requests \ {r} : ~Active(req[p]))
       /\ \A j \in objects \ objects' : j \in x.gone /\ j \in Imaged
  BY <1>3, <1>4, <1>6, <1>7, <1>11
<1>19. Fresh(x) \subseteq drawn' \cap objects' /\ Fresh(x) = Fresh(req[r])
  BY <1>2, <1>3, <1>6, <1>11, <1>13
<1> HIDE DEF q, Fresh, Active
<1> QED
  BY <1>2, <1>5, <1>7, <1>10, <1>11, <1>12, <1>14, <1>16, <1>17, <1>18, <1>19, RequestStep

\* The keys of a batch are as many as it stored.
LEMMA BatchBound ==
  ASSUME NEW q \in Request
  PROVE  LET N == {k \in Keys : \E i \in DOMAIN q.new : q.new[i] = k}
         IN  IsFiniteSet(N) /\ Cardinality(N) \in Nat /\ Cardinality(N) <= Len(q.new)
<1> DEFINE N == {k \in Keys : \E i \in DOMAIN q.new : q.new[i] = k}
           n == Len(q.new)
<1>1. q.new \in Seq(Keys) /\ n \in Nat
  BY NewType
<1>2. q.new \in [1..n -> Keys]
  BY <1>1
<1>3. q.new \in [1..n -> N] /\ \A k \in N : \E i \in 1..n : q.new[i] = k
  BY <1>2
<1>4. q.new \in Surjection(1..n, N)
  BY <1>3 DEF Surjection
<1>5. IsFiniteSet(1..n) /\ Cardinality(1..n) = n
  BY <1>1, FS_Interval
<1> HIDE DEF N, n
<1>6. IsFiniteSet(N) /\ Cardinality(N) <= n
  BY <1>4, <1>5, FS_Surjection
<1> QED
  BY <1>6, FS_CardinalityType DEF N, n

LEMMA CommitKeeps ==
  ASSUME IInv, NEW r \in Requests, Commit(r)
  PROVE  IInv'
<1> DEFINE q == req[r]
           it == IF q.mine = None THEN item ELSE q.mine
           N == {k \in Keys : \E i \in DOMAIN q.new : q.new[i] = k}
<1>1. /\ q.at = "commit" /\ Active(q) /\ item' = it /\ req' = [req EXCEPT ![r] = Idle]
      /\ UNCHANGED <<kind, objects, drawn, lost, overlap, calls, faults>>
      /\ media' = media \cup Images(q, it) /\ used' = used \cup Images(q, it)
  BY DEF Commit, Active
<1>2. /\ q \in Request /\ q.seen \in Item(kind) /\ q.next \in Item(kind)
      /\ Shape(q) /\ Flushed(q) /\ Leaving(q) /\ q.drop \subseteq Imaged
      /\ q.seen \in Rows /\ item \in Rows /\ Refs(q.seen) \subseteq drawn \ Imaged
      /\ Fresh(q) \subseteq (drawn \cap objects) \ Imaged
      /\ \A a \in Rows : Fresh(q) \cap Refs(a) = {}
      /\ q.next["cover"] = q.next["large"] => q.next["cover"] = None
      /\ kind \in Kinds /\ item \in Item(kind)
      /\ ~overlap => InTurn(q) /\ \A p \in Requests \ {r} : ~Active(req[p])
      /\ kind \in Hosted /\ ~overlap /\ faults = 0 => Clean(q) /\ objects \cap q.gone = {}
  BY <1>1, AtWork
\* What is committed of the row.
<1>3. /\ it \in Item(kind)
      /\ \A s \in Slots : it[s] = (IF q.next[s] = q.seen[s] THEN item[s] ELSE q.next[s])
      /\ item = q.seen => it = q.next
  <2>1. q.mine = None <=> q.next = q.seen
    BY <1>1, <1>2 DEF Flushed, Wrote
  <2>2. CASE q.mine = None
    BY <1>2, <2>1, <2>2
  <2>3. CASE q.mine # None
    <3>1. it = Overlaid(item, q.seen, q.next)
      BY <1>2, <2>3 DEF Flushed
    <3> HIDE DEF it, q
    <3> QED
      BY <1>2, <3>1, OverlaidType
  <2> QED
    BY <2>2, <2>3
<1>4. it # item => q.mine # None
  OBVIOUS
<1> HIDE DEF it
<1>5. N # {} => q.op = "images" /\ q.drop = {} /\ \A s \in Slots : q.next[s] = q.seen[s]
  <2>1. q.op # "images" => N = {}
    BY <1>1, <1>2 DEF Shape
  <2>2. q.op = "images" => q.drop = {} /\ q.next = q.seen
    BY <1>1, <1>2 DEF Shape
  <2> HIDE DEF N, q
  <2> QED
    BY <2>1, <2>2
<1>6. N \subseteq Fresh(q) /\ \A s \in Slots : q.next[s] # q.seen[s] /\ q.next[s] # None => q.next[s] \in Fresh(q)
  BY <1>1, <1>2 DEF Fresh, Slots, Item
<1>7. N \cap Imaged = {} /\ N \subseteq Keys
  BY <1>2, <1>6
\* What is committed of the gallery.
<1>8. \A k \in Keys :
        images'[k] = IF k \in q.drop THEN [images[k] EXCEPT !.state = "hidden"]
                     ELSE IF k \in N
                     THEN LET i == CHOOSE j \in DOMAIN q.new : q.new[j] = k
                          IN  [state |-> "live", pos |-> Positions(q)[i]]
                     ELSE images[k]
  BY DEF Commit
<1>9. /\ images' \in [Keys -> [state : {"none", "live", "hidden"}, pos : Int]]
      /\ \A k \in Keys :
           /\ k \in q.drop => images'[k].state = "hidden"
           /\ k \in N \ q.drop => images'[k].state = "live"
           /\ k \notin N \cup q.drop => images'[k] = images[k]
  <2>1. images \in [Keys -> [state : {"none", "live", "hidden"}, pos : Int]]
    BY DEF IInv, TypeInv
  <2>2. DOMAIN images' = Keys /\ images' = [k \in Keys |-> images'[k]]
    BY DEF Commit
  <2>3. ASSUME NEW k \in Keys
        PROVE  /\ images'[k] \in [state : {"none", "live", "hidden"}, pos : Int]
               /\ k \in q.drop => images'[k].state = "hidden"
               /\ k \in N \ q.drop => images'[k].state = "live"
               /\ k \notin N \cup q.drop => images'[k] = images[k]
    <3>1. CASE k \in q.drop
      BY <1>8, <2>1, <3>1
    <3>2. CASE k \in N \ q.drop
      <4> DEFINE i == CHOOSE j \in DOMAIN q.new : q.new[j] = k
      <4>1. i \in DOMAIN q.new
        BY <3>2
      <4>2. i \in Int /\ q.count \in Int
        BY <1>2, <4>1, NewType, FS_CardinalityType, Parameters DEF Request
      <4>3. Positions(q)[i] \in Int
        BY <4>1, <4>2 DEF Positions
      <4>4. images'[k] = [state |-> "live", pos |-> Positions(q)[i]]
        BY <1>8, <3>2
      <4> HIDE DEF i, q, N
      <4> QED
        BY <3>2, <4>3, <4>4
    <3>3. CASE k \notin N \cup q.drop
      BY <1>8, <2>1, <3>3
    <3> QED
      BY <3>1, <3>2, <3>3
  <2> HIDE DEF N, q
  <2> QED
    BY <2>2, <2>3
<1> HIDE DEF N
<1>10. Imaged' = Imaged \cup N /\ Gallery' = (Gallery \ q.drop) \cup N
  <2>1. Imaged' = Imaged \cup N
    BY <1>2, <1>7, <1>9 DEF Imaged
  <2>2. Gallery' = (Gallery \ q.drop) \cup N
    BY <1>2, <1>7, <1>9 DEF Gallery, Imaged
  <2> QED
    BY <2>1, <2>2
<1>11. /\ Idle \in Request /\ Static(Idle) /\ ~Active(Idle) /\ Fresh(Idle) = {}
       /\ Idle.mine = None /\ Idle.gone = {} /\ Idle.drop = {} /\ Idle.at = "idle"
  BY <1>2, IdleType DEF Idle
<1>12. /\ req' \in [Requests -> Request] /\ req'[r] = Idle
       /\ \A p \in Requests \ {r} : req'[p] = req[p]
  BY <1>1, <1>11 DEF IInv, TypeInv
<1>13. TypeInv'
  BY <1>1, <1>3, <1>9, <1>12 DEF IInv, TypeInv, Request
<1>14. ASSUME NEW p \in Requests
       PROVE  Static(req[p])'
  <2>1. CASE p = r
    <3>1. Shape(Idle)' /\ Flushed(Idle)' /\ Parting(Idle)' /\ Leaving(Idle)'
      BY <1>11 DEF Shape, Flushed, Wrote, Parting, Leaving, Active
    <3> QED
      BY <1>11, <1>12, <2>1, <3>1 DEF Static, Shape, Flushed, Wrote, Parting, Leaving, Active
  <2>2. CASE p # r
    <3>1. /\ Shape(req[p]) /\ Flushed(req[p]) /\ Parting(req[p]) /\ Leaving(req[p])
          /\ req[p].drop \subseteq Imaged /\ req'[p] = req[p]
      BY <1>12, <2>2 DEF IInv, Static
    <3>2. item' # item => req[p].mine = None
      BY <1>1, <1>4, <2>2 DEF IInv, OneFlushed
    <3>3. Flushed(req[p])'
      BY <1>1, <3>1, <3>2 DEF Flushed, Wrote, Active
    <3>4. Shape(req[p])' /\ Parting(req[p])' /\ Leaving(req[p])'
      BY <1>1, <3>1 DEF Shape, Parting, Leaving, Active
    <3> QED
      BY <1>10, <3>1, <3>3, <3>4 DEF Static
  <2> QED
    BY <2>1, <2>2
<1>15. \A k \in Refs(it) : k \in Refs(item) \/ (k \in Fresh(q) /\ N = {})
  BY <1>3, <1>5, <1>6 DEF Refs
<1>16. \A a \in Rows' : a \in Rows \/ a = it
  BY <1>1, <1>11, <1>12 DEF Rows
\* What is committed has its media row, and has been shown.
<1>b. Images(q, it) = Refs(it) \cup N
  <2>1. Refs(it) = {it.cover, it.large} \ {None}
    BY DEF Refs, Slots
  <2>2. N = {q.new[i] : i \in DOMAIN q.new}
    BY <1>2, NewType DEF N
  <2> QED
    BY <2>1, <2>2 DEF Images
<1>c. Refs(it) \cup N \subseteq drawn
  <2>1. Refs(item) \subseteq drawn
    BY <1>2 DEF IInv, OnePlace
  <2> HIDE DEF Refs, Fresh, q
  <2> QED
    BY <1>2, <1>6, <1>15, <2>1
<1>17. OnePlace'
  <2>1. Imaged' \subseteq drawn' /\ used' \subseteq media' /\ media' \subseteq drawn'
    BY <1>1, <1>2, <1>6, <1>10, <1>b, <1>c DEF IInv, OnePlace
  <2>2. \A a \in Rows : Refs(a) \subseteq drawn \ Imaged /\ Refs(a) \cap N = {}
    BY <1>2, <1>6 DEF IInv, OnePlace
  <2>3. \A a \in Rows' : Refs(a) \subseteq drawn' \ Imaged'
    <3> HIDE DEF Refs, Rows, Fresh, q
    <3> QED
      BY <1>1, <1>2, <1>10, <1>15, <1>16, <2>2
  <2>4. ASSUME NEW a \in Rows', NEW b \in Rows', NEW s \in Slots, NEW t \in Slots,
               a[s] = b[t], a[s] # None
        PROVE  s = t
    <3>1. \A c, d \in Rows, v, w \in Slots : c[v] = d[w] /\ c[v] # None => v = w
      BY DEF IInv, OnePlace
    <3>2. \A c \in Rows, w \in Slots : c[w] # None => c[w] \notin Fresh(q)
      BY <1>2 DEF Refs
    <3>3. \A v \in Slots : it[v] # None => it[v] = item[v] \/ (it[v] = q.next[v] /\ it[v] \in Fresh(q))
      BY <1>3, <1>6
    <3>4. \A v, w \in Slots : q.next[v] = q.next[w] /\ q.next[v] # None => v = w
      BY <1>2 DEF Slots
    <3> HIDE DEF Rows, Fresh, q
    <3>5. CASE a \in Rows /\ b \in Rows
      BY <2>4, <3>1, <3>5
    <3>6. CASE a \in Rows /\ b = it
      BY <1>2, <2>4, <3>1, <3>2, <3>3, <3>6
    <3>7. CASE a = it /\ b \in Rows
      BY <1>2, <2>4, <3>1, <3>2, <3>3, <3>7
    <3>8. CASE a = it /\ b = it
      BY <1>2, <2>4, <3>1, <3>2, <3>3, <3>4, <3>8
    <3> QED
      BY <1>16, <3>5, <3>6, <3>7, <3>8
  <2>5. ASSUME NEW p \in Requests
        PROVE  /\ Fresh(req'[p]) \subseteq (drawn' \cap objects') \ (Imaged' \cup media')
               /\ \A a \in Rows' : Fresh(req'[p]) \cap Refs(a) = {}
               /\ \A o \in Requests \ {p} : Fresh(req'[p]) \cap Fresh(req'[o]) = {}
               /\ Active(req'[p]) /\ req'[p].next["cover"] = req'[p].next["large"]
                    => req'[p].next["cover"] = None
    <3>1. CASE p = r
      BY <1>11, <1>12, <3>1
    <3>2. CASE p # r
      <4>1. /\ Fresh(req[p]) \subseteq (drawn \cap objects) \ (Imaged \cup media)
            /\ \A a \in Rows : Fresh(req[p]) \cap Refs(a) = {}
            /\ Fresh(req[p]) \cap Fresh(q) = {}
            /\ \A o \in Requests \ {p} : Fresh(req[p]) \cap Fresh(req[o]) = {}
            /\ Active(req[p]) /\ req[p].next["cover"] = req[p].next["large"]
                 => req[p].next["cover"] = None
        BY <3>2 DEF IInv, OnePlace
      <4>2. req'[p] = req[p] /\ \A o \in Requests \ {p} : req'[o] = req[o] \/ Fresh(req'[o]) = {}
        BY <1>11, <1>12, <3>2
      <4>3. Fresh(req[p]) \cap Refs(it) = {}
        BY <1>2, <1>15, <4>1
      <4> HIDE DEF Rows, Refs, Fresh, q
      <4>4. \A o \in Requests \ {p} : Fresh(req'[p]) \cap Fresh(req'[o]) = {}
        BY <4>1, <4>2
      <4>5. \A a \in Rows' : Fresh(req'[p]) \cap Refs(a) = {}
        BY <1>16, <4>1, <4>2, <4>3
      <4>6. Fresh(req[p]) \cap N = {}
        BY <1>6, <4>1
      <4> QED
        BY <1>1, <1>10, <1>b, <4>1, <4>2, <4>3, <4>4, <4>5, <4>6
    <3> QED
      BY <3>1, <3>2
  <2>6. \A p \in Requests : Fresh(req[p])' = Fresh(req'[p])
    BY DEF Fresh, Active
  <2>7. \A p \in Requests :
          /\ Fresh(req[p])' \subseteq (drawn' \cap objects') \ (Imaged' \cup media')
          /\ \A a \in Rows' : Fresh(req[p])' \cap Refs(a) = {}
          /\ \A o \in Requests \ {p} : Fresh(req[p])' \cap Fresh(req[o])' = {}
          /\ Active(req'[p]) /\ req'[p].next["cover"] = req'[p].next["large"]
               => req'[p].next["cover"] = None
    BY <2>5, <2>6
  <2>8. \A a, b \in Rows', s, t \in Slots : a[s] = b[t] /\ a[s] # None => s = t
    BY <2>4
  <2> HIDE DEF Fresh, Refs, Rows, q
  <2> QED
    BY <2>1, <2>3, <2>7, <2>8 DEF OnePlace, Active
<1>18. OneFlushed'
  BY <1>11, <1>12 DEF IInv, OneFlushed
\* The limit is held: the batch was counted on the gallery as it still is.
<1>19. ~overlap => Cardinality(Gallery') <= MaxImages
  <2> SUFFICES ASSUME ~overlap
               PROVE  Cardinality(Gallery') <= MaxImages
    OBVIOUS
  <2>1. Cardinality(Gallery) <= MaxImages /\ MaxImages \in Nat
    BY Parameters DEF IInv, Sequential
  <2>2. /\ Gallery \in SUBSET Keys /\ IsFiniteSet(Gallery) /\ Cardinality(Gallery) \in Nat
    BY GalleryType
  <2>3. CASE N = {}
    <3>1. Gallery' \in SUBSET Gallery
      BY <1>10, <2>3
    <3>2. IsFiniteSet(Gallery') /\ Cardinality(Gallery') <= Cardinality(Gallery)
      BY <2>2, <3>1, FS_Subset
    <3>3. Cardinality(Gallery') \in Nat
      BY <3>2, FS_CardinalityType
    <3> QED
      BY <2>1, <2>2, <3>2, <3>3
  <2>4. CASE N # {}
    <3>1. q.op = "images" /\ q.drop = {}
      BY <1>5, <2>4
    <3>2. Cardinality(Gallery) + q.size <= MaxImages
      BY <1>1, <1>2, <3>1 DEF InTurn
    <3>3. Len(q.new) <= q.size
      BY <1>1, <1>2, <3>1 DEF Shape
    <3>4. IsFiniteSet(N) /\ Cardinality(N) \in Nat /\ Cardinality(N) <= Len(q.new)
      BY <1>2, BatchBound DEF N
    <3>5. Gallery' = Gallery \cup N
      BY <1>10, <3>1
    <3>6. Gallery \cap N = {}
      BY <1>7 DEF Gallery, Imaged
    <3>7. Cardinality(Gallery \cup N) = Cardinality(Gallery) + Cardinality(N) - Cardinality(Gallery \cap N)
      BY <2>2, <3>4, FS_Union
    <3>8. Cardinality(Gallery \cap N) = 0
      BY <3>6, FS_EmptySet
    <3>9. q.size \in Nat /\ Len(q.new) \in Nat
      BY <1>2, NewType DEF Request
    <3> HIDE DEF q
    <3> QED
      BY <2>1, <2>2, <3>2, <3>3, <3>4, <3>5, <3>7, <3>8, <3>9
  <2> QED
    BY <2>3, <2>4
<1>20. Sequential'
  <2> SUFFICES ASSUME ~overlap
               PROVE  /\ \A p \in Requests : ~Active(req'[p])
                      /\ Agree(it.columns)
    BY <1>1, <1>19 DEF Sequential, InTurn, Agree, Active
  <2>1. \A p \in Requests : ~Active(req'[p])
    BY <1>2, <1>11, <1>12
  <2>2. Agree(it.columns)
    BY <1>1, <1>2, <1>3 DEF InTurn
  <2> QED
    BY <2>1, <2>2
<1>21. NoOrphans'
  <2> SUFFICES ASSUME kind \in Hosted, ~overlap, faults = 0
               PROVE  /\ objects \cap used' \subseteq Refs(it) \cup Gallery'
                      /\ \A p \in Requests : ~Active(req'[p]) /\ req'[p].gone = {}
                      /\ it.state = "deleted" => Refs(it) = {} /\ Gallery' = {}
    <3> HIDE DEF Refs, Fresh, q
    <3>1. NoOrphans' <=>
            (kind' \in Hosted /\ ~overlap' /\ faults' = 0 =>
               /\ objects' \cap used' \subseteq Refs(item') \cup Gallery'
               /\ \A p \in Requests : Clean(req[p])' /\ objects' \cap req'[p].gone = {}
               /\ item'.state = "deleted" => Refs(item') = {} /\ Gallery' = {})
      BY DEF NoOrphans, Refs, Hosted
    <3>2. \A p \in Requests : ~Active(req'[p]) => Clean(req[p])'
      BY DEF Clean, Active
    <3> QED
      BY <1>1, <3>1, <3>2 DEF Hosted
  <2>1. \A p \in Requests : ~Active(req'[p])
    BY <1>2, <1>11, <1>12
  <2>2. \A p \in Requests \ {r} : req[p] = Idle
    BY <1>2 DEF IInv, Static, Shape
  <2>3. Clean(q) /\ objects \cap q.gone = {} /\ q.seen = item
    BY <1>1, <1>2 DEF InTurn
  <2>4. /\ q.next.state = "deleted" => q.op = "delete"
        /\ q.op = "delete" => (\A s \in Slots : q.next[s] = None) /\ q.drop = Gallery
        /\ q.drop \subseteq q.gone
        /\ \A s \in Slots : q.seen[s] \notin {None, q.next[s]} => q.seen[s] \in q.gone
    BY <1>1, <2>3 DEF Clean
  <2>5. \A k \in objects \cap used' : k \in Refs(item) \/ k \in Gallery \/ k \in Refs(it) \/ k \in N
    <3>1. objects \cap used \subseteq Refs(item) \cup Gallery
      BY DEF IInv, NoOrphans
    <3> QED
      BY <1>1, <1>b, <3>1
  <2>6. it = q.next
    BY <1>3, <2>3
  <2>7. ASSUME NEW k \in objects \cap used'
        PROVE  k \in Refs(it) \cup Gallery'
    <3>1. CASE k \in Refs(item)
      BY <2>3, <2>4, <2>6, <3>1 DEF Refs
    <3>2. CASE k \in Gallery
      BY <1>10, <2>3, <2>4, <3>2
    <3> QED
      BY <1>10, <2>5, <3>1, <3>2
  <2>8. ASSUME it.state = "deleted"
        PROVE  Refs(it) = {} /\ Gallery' = {}
    <3>1. q.op = "delete" /\ (\A s \in Slots : it[s] = None) /\ q.drop = Gallery
      BY <2>4, <2>6, <2>8
    <3>2. N = {}
      BY <1>5, <3>1
    <3> QED
      BY <1>10, <3>1, <3>2 DEF Refs
  <2>9. \A p \in Requests : req'[p].gone = {}
    BY <1>11, <1>12, <2>2
  <2> QED
    BY <2>1, <2>7, <2>8, <2>9
<1>22. Serves'
  <2> SUFFICES ASSUME NEW k \in Refs(it) \cup Gallery', k # None
               PROVE  k \in objects \cup lost \cup UNION {req'[p].gone : p \in Requests}
    BY <1>1 DEF Serves, Refs, Slots
  <2>1. \A j \in (Refs(item) \cup Gallery) \ q.gone :
          j # None => j \in objects \cup lost \cup UNION {req'[p].gone : p \in Requests}
    <3>1. \A j \in Refs(item) \cup Gallery :
            j # None => j \in objects \cup lost \cup UNION {req[p].gone : p \in Requests}
      BY DEF IInv, Serves, Refs, Slots
    <3> QED
      BY <1>12, <3>1
  <2>2. CASE k \in Fresh(q)
    BY <1>2, <2>2
  <2>3. CASE k \in Gallery \ q.drop
    <3>1. k \in Imaged
      BY <2>3 DEF Gallery, Imaged
    <3>2. k \notin q.gone
      BY <1>2, <2>3, <3>1 DEF Leaving, Refs
    <3> QED
      BY <2>1, <2>3, <3>2
  <2>4. CASE k \in Refs(it) /\ k \notin Fresh(q)
    <3>1. PICK s \in Slots : it[s] = k
      BY <2>4 DEF Refs
    <3>2. q.next[s] = q.seen[s] /\ k = item[s]
      BY <1>3, <1>6, <2>4, <3>1
    <3>3. \A t \in Slots : q.seen[t] = k => t = s
      BY <1>2, <3>2 DEF IInv, OnePlace
    <3>4. k \notin Imaged /\ k \in Refs(item)
      BY <1>2, <3>2 DEF IInv, OnePlace, Refs
    <3>5. k \notin q.gone
      BY <1>2, <3>2, <3>3, <3>4 DEF Leaving
    <3> QED
      BY <2>1, <3>4, <3>5
  <2>5. k \in Fresh(q) \/ k \in Gallery \ q.drop \/ (k \in Refs(it) /\ k \notin Fresh(q))
    BY <1>6, <1>10
  <2> QED
    BY <2>2, <2>3, <2>4, <2>5
<1> HIDE DEF q
<1> QED
  BY <1>13, <1>14, <1>17, <1>18, <1>20, <1>21, <1>22 DEF IInv

-----------------------------------------------------------------------------
(* The inductive invariant.                                                *)

LEMMA InitHolds == Init => IInv
<1> SUFFICES ASSUME Init
             PROVE  IInv
  OBVIOUS
<1>1. /\ kind \in Kinds /\ images = [k \in Keys |-> [state |-> "none", pos |-> 0]]
      /\ objects = {} /\ drawn = {} /\ media = {} /\ used = {} /\ lost = {}
      /\ req = [r \in Requests |-> Idle]
      /\ overlap = FALSE /\ calls = 0 /\ faults = 0
      /\ item = [state |-> "absent", cover |-> None, large |-> None, shown |-> None,
                 columns |-> Defaults(kind)]
  BY DEF Init
<1>2. /\ Idle \in Request /\ Static(Idle) /\ ~Active(Idle) /\ Fresh(Idle) = {}
      /\ Idle.mine = None /\ Idle.gone = {}
  BY <1>1, IdleType
<1>3. /\ item \in Item(kind) /\ item.state = "absent" /\ item.columns = Defaults(kind)
      /\ \A s \in Slots : item[s] = None
  BY <1>1, DefaultsType DEF Item, Slots
<1>4. Imaged = {} /\ Gallery = {} /\ Refs(item) = {}
  BY <1>1, <1>3 DEF Imaged, Gallery, Refs
<1>5. /\ req \in [Requests -> Request] /\ \A r \in Requests : req[r] = Idle
      /\ \A r \in Requests : ~Active(req[r]) /\ Fresh(req[r]) = {} /\ req[r].gone = {}
      /\ \A r \in Requests : req[r].mine = None /\ Static(req[r])
  BY <1>1, <1>2
<1>6. TypeInv
  <2>1. images \in [Keys -> [state : {"none", "live", "hidden"}, pos : Int]]
    BY <1>1
  <2> QED
    BY <1>1, <1>3, <1>5, <2>1 DEF TypeInv
<1>7. Rows = {item}
  BY <1>5 DEF Rows
<1>8. OnePlace
  <2> HIDE DEF Fresh, Active, Refs
  <2> QED
    BY <1>1, <1>3, <1>4, <1>5, <1>7 DEF OnePlace
<1>9. OneFlushed
  BY <1>5 DEF OneFlushed
<1>10. Agree(item.columns)
  BY <1>1, <1>3, Parameters, Absent DEF Agree, Defaults, Draft, Published, Pending, Success
<1>11. Cardinality(Gallery) <= MaxImages
  BY <1>4, FS_EmptySet, Parameters
<1>12. Sequential
  BY <1>5, <1>10, <1>11 DEF Sequential, InTurn
<1>13. NoOrphans
  BY <1>1, <1>3, <1>5 DEF NoOrphans, Clean
<1>14. Serves
  BY <1>3, <1>4 DEF Serves, Slots
<1> QED
  BY <1>5, <1>6, <1>8, <1>9, <1>12, <1>13, <1>14 DEF IInv

LEMMA StepKeeps ==
  ASSUME IInv, NEW r \in Requests, Call(r) \/ Serve(r) \/ Abort(r)
  PROVE  IInv'
<1>1. CASE Call(r)
  BY <1>1, CallKeeps
<1>2. CASE Abort(r)
  BY <1>2, AbortKeeps
<1>3. CASE Commit(r)
  BY <1>3, CommitKeeps
<1>4. CASE Write(r)
  BY <1>4, WriteKeeps
<1>5. CASE StoreEventCover(r) \/ StoreTirthCover(r)
  <2>1. kind \in Hosted /\ Stores(r, "cover", "write")
    BY <1>5 DEF StoreEventCover, StoreTirthCover, Hosted
  <2>2. "cover" \in Slots
    BY DEF Slots
  <2> QED
    BY <2>1, <2>2, StoresKeeps
<1>6. CASE StoreAdvertisementCover(r)
  <2> DEFINE at == IF req[r].op = "form" THEN "store" ELSE "discard"
  <2>1. kind = "ad" /\ Stores(r, "cover", at) /\ "cover" \in Slots
    BY <1>6 DEF StoreAdvertisementCover, Slots
  <2>2. at = (IF req[r].op = "form" THEN IF "cover" = "cover" THEN "store" ELSE "write" ELSE "discard")
    OBVIOUS
  <2> HIDE DEF at
  <2> QED
    BY <2>1, <2>2, StoresKeeps
<1>7. CASE StoreLarge(r)
  <2> DEFINE at == IF req[r].op = "form" THEN "write" ELSE "discard"
  <2>1. kind = "ad" /\ Stores(r, "large", at) /\ "large" \in Slots
    BY <1>7 DEF StoreLarge, Slots
  <2>2. at = (IF req[r].op = "form" THEN IF "large" = "cover" THEN "store" ELSE "write" ELSE "discard")
    OBVIOUS
  <2> HIDE DEF at
  <2> QED
    BY <2>1, <2>2, StoresKeeps
<1>8. CASE DiscardEventObjects(r) \/ DiscardTirthObjects(r) \/ DiscardAdvertisementObjects(r)
  <2>1. \/ kind \in Hosted /\ Discards(r, "commit")
        \/ kind = "ad" /\ Discards(r, "write")
    BY <1>8 DEF DiscardEventObjects, DiscardTirthObjects, DiscardAdvertisementObjects, Hosted
  <2> QED
    BY <2>1, DiscardsKeeps
<1>9. CASE CountEventImages(r) \/ CountTirthImages(r)
  BY <1>9, CountImagesKeeps DEF CountEventImages, CountTirthImages
<1>10. CASE StoreEventImage(r) \/ StoreTirthImage(r)
  BY <1>10, StoreImageKeeps DEF StoreEventImage, StoreTirthImage
<1>11. CASE DeleteEventGallery(r) \/ DeleteTirthGallery(r)
  <2>1. "event" \in Hosted /\ "tirth" \in Hosted
    BY DEF Hosted
  <2> QED
    BY <1>11, <2>1, DeleteGalleryKeeps DEF DeleteEventGallery, DeleteTirthGallery
<1>12. CASE SkipImage(r)
  BY <1>12, SkipImageKeeps
<1>13. CASE RefuseEventImage(r) \/ RefuseTirthImage(r) \/ RefuseAdvertisementImage(r)
  BY <1>13, RefuseKeeps DEF RefuseEventImage, RefuseTirthImage, RefuseAdvertisementImage
<1> QED
  BY <1>1, <1>2, <1>3, <1>4, <1>5, <1>6, <1>7, <1>8, <1>9, <1>10, <1>11, <1>12, <1>13 DEF Serve

\* What the media routes do, or nothing: no request is told.
LEMMA MediaKeeps ==
  ASSUME IInv, UNCHANGED <<kind, item, images, used, req, overlap>>,
         calls' \in Nat, faults' \in Nat, faults' = 0 => faults = 0,
         drawn \subseteq drawn', drawn' \subseteq Keys, lost \subseteq lost', lost' \subseteq Keys,
         media \subseteq media', media' \subseteq media \cup (drawn' \ drawn),
         objects' \subseteq objects \cup (drawn' \ drawn), objects \ objects' \subseteq media \cap lost'
  PROVE  IInv'
<1>1. objects' \subseteq Keys
  BY DEF IInv, TypeInv
<1>2. TypeInv'
  BY <1>1 DEF IInv, TypeInv, Request
<1>3. Imaged' = Imaged /\ Gallery' = Gallery /\ Rows' = Rows
  BY DEF Imaged, Gallery, Rows, Active
<1>4. ASSUME NEW r \in Requests
      PROVE  Static(req[r])'
  BY <1>3 DEF IInv, Static, Shape, Flushed, Wrote, Parting, Leaving, Active
<1>5. \A r \in Requests : Fresh(req[r])' = Fresh(req[r])
  BY DEF Fresh, Active
<1>6. OnePlace'
  <2>1. /\ Imaged \subseteq drawn /\ used \subseteq media /\ media \subseteq drawn
        /\ \A a \in Rows : Refs(a) \subseteq drawn \ Imaged
        /\ \A r \in Requests : Fresh(req[r]) \subseteq (drawn \cap objects) \ (Imaged \cup media)
    BY DEF IInv, OnePlace
  <2> HIDE DEF Fresh, Imaged, Rows, Refs
  <2>2. /\ Imaged' \subseteq drawn' /\ used' \subseteq media' /\ media' \subseteq drawn'
        /\ \A a \in Rows' : Refs(a) \subseteq drawn' \ Imaged'
    BY <1>3, <2>1
  <2>3. \A r \in Requests :
          Fresh(req[r])' \subseteq (drawn' \cap objects') \ (Imaged' \cup media')
    BY <1>3, <1>5, <2>1
  <2> QED
    BY <1>3, <1>5, <2>2, <2>3 DEF IInv, OnePlace, Active
<1>7. OneFlushed'
  BY DEF IInv, OneFlushed
<1>8. Sequential'
  BY <1>3 DEF IInv, Sequential, InTurn, Agree, Active
<1>9. NoOrphans'
  <2> SUFFICES ASSUME kind \in Hosted, ~overlap, faults' = 0
               PROVE  /\ objects' \cap used \subseteq Refs(item) \cup Gallery
                      /\ \A r \in Requests : Clean(req[r])' /\ objects' \cap req[r].gone = {}
                      /\ item.state = "deleted" => Refs(item) = {} /\ Gallery = {}
    BY <1>3 DEF NoOrphans, Hosted, Refs
  <2>1. /\ objects \cap used \subseteq Refs(item) \cup Gallery
        /\ \A r \in Requests : Clean(req[r]) /\ objects \cap req[r].gone = {}
        /\ item.state = "deleted" => Refs(item) = {} /\ Gallery = {}
    BY DEF IInv, NoOrphans
  <2>2. used \subseteq drawn
    BY DEF IInv, OnePlace
  <2>3. ASSUME NEW r \in Requests
        PROVE  req[r].gone \subseteq drawn
    <3>1. CASE ~Active(req[r])
      BY <3>1, IdleType DEF IInv, TypeInv, Static, Shape
    <3>2. CASE Active(req[r])
      <4>1. /\ Leaving(req[r]) /\ req[r].drop \subseteq Imaged /\ Refs(req[r].seen) \subseteq drawn
            /\ Imaged \subseteq drawn /\ req[r] \in Request
        BY <3>2, AtWork DEF IInv, OnePlace
      <4>2. \A k \in Keys : k # None
        BY Parameters
      <4> QED
        BY <4>1, <4>2 DEF Leaving, Refs, Request
    <3> QED
      BY <3>1, <3>2
  <2>4. \A r \in Requests : Clean(req[r])'
    BY <1>3, <2>1 DEF Clean, Active, About
  <2> QED
    BY <2>1, <2>2, <2>3, <2>4
<1>10. Serves'
  BY <1>3 DEF IInv, Serves
<1> QED
  BY <1>2, <1>4, <1>6, <1>7, <1>8, <1>9, <1>10 DEF IInv

LEMMA UploadMediaKeeps == IInv /\ UploadMedia => IInv'
<1> SUFFICES ASSUME IInv, UploadMedia
             PROVE  IInv'
  OBVIOUS
<1>1. /\ calls' = calls + 1 /\ UNCHANGED <<kind, item, images, used, req, overlap>>
      /\ lost' = lost
  BY DEF UploadMedia, MediaCall
<1>2. PICK u \in Keys \ drawn :
        /\ drawn' = drawn \cup {u} /\ objects' = objects \cup {u}
        /\ \/ media' = media \cup {u} /\ UNCHANGED faults
           \/ Fault /\ UNCHANGED media
  BY DEF UploadMedia
<1>3. /\ drawn \subseteq Keys /\ lost \subseteq Keys /\ calls \in Nat /\ faults \in Nat
  BY DEF IInv, TypeInv
<1>4. faults' \in Nat /\ (faults' = 0 => faults = 0)
  BY <1>2, <1>3 DEF Fault
<1> QED
  BY <1>1, <1>2, <1>3, <1>4, MediaKeeps

LEMMA DeleteMediaKeeps ==
  ASSUME IInv, NEW k \in Keys, DeleteMedia(k)
  PROVE  IInv'
<1>1. /\ calls' = calls + 1 /\ UNCHANGED <<kind, item, images, used, req, overlap, drawn, media>>
      /\ lost' = lost \cup {k} /\ k \in media /\ DeleteObjects({k})
  BY DEF DeleteMedia, MediaCall
<1>2. /\ drawn \subseteq Keys /\ lost \subseteq Keys /\ calls \in Nat /\ faults \in Nat
  BY DEF IInv, TypeInv
<1>3. /\ faults' \in Nat /\ (faults' = 0 => faults = 0)
      /\ objects' \subseteq objects /\ objects \ objects' \subseteq {k}
  BY <1>1, <1>2 DEF DeleteObjects, Fault
<1> QED
  BY <1>1, <1>2, <1>3, MediaKeeps

LEMMA StutterKeeps == IInv /\ UNCHANGED vars => IInv'
<1> SUFFICES ASSUME IInv, UNCHANGED vars
             PROVE  IInv'
  OBVIOUS
<1>1. UNCHANGED <<kind, item, images, objects, drawn, media, used, lost, req, overlap, calls, faults>>
  BY DEF vars
<1>2. drawn \subseteq Keys /\ lost \subseteq Keys /\ calls \in Nat /\ faults \in Nat
  BY DEF IInv, TypeInv
<1> QED
  BY <1>1, <1>2, MediaKeeps

LEMMA Invariant == Spec => []IInv
<1>1. IInv /\ [Next]_vars => IInv'
  BY StepKeeps, UploadMediaKeeps, DeleteMediaKeeps, StutterKeeps DEF Next
<1> QED
  BY <1>1, InitHolds, PTL DEF Spec

\* Whatever a committed row refers to is stored, unless a request that is
\* replacing it has deleted it already or was rolled back after that, or the
\* object was deleted by itself, by DELETE /media/{id} (upload_cover,
\* upload_large, delete_event and the like).
THEOREM RowsServe == Spec => []Serves
<1>1. IInv => Serves
  BY DEF IInv
<1> QED
  BY <1>1, Invariant, PTL

\* Requests that follow one another never push a gallery past its limit
\* (_assert_within_limit), whatever the sizes of their batches.
THEOREM LimitKept == Spec => []LimitHeld
<1>1. IInv => LimitHeld
  BY DEF IInv, Sequential, LimitHeld
<1> QED
  BY <1>1, Invariant, PTL

\* Requests that follow one another leave the columns that are written
\* together in agreement (update_event, publish_news, verify_payment).
THEOREM ColumnsTogether == Spec => []ColumnsAgree
<1>1. IInv => ColumnsAgree
  BY DEF IInv, Sequential, ColumnsAgree
<1> QED
  BY <1>1, Invariant, PTL

\* With a deleted event or tirth the objects of all its images are gone, of
\* those it once had as well, where requests follow one another and nothing
\* failed, whatever batches were refused and media filed or deleted meanwhile
\* (delete_event, delete_tirth, the image services).
THEOREM NothingLeft == Spec => []ObjectsGo
<1>1. IInv => ObjectsGo
  BY DEF IInv, NoOrphans, ObjectsGo, Hosted
<1> QED
  BY <1>1, Invariant, PTL
=============================================================================
