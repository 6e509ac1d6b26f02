------------------------------- MODULE Content -------------------------------
(***************************************************************************)
(* One item of content, an event, a Jain tirth, an advertisement or a news *)
(* item, with its cover, its large image (advertisements) and its gallery  *)
(* (events and tirths): api/v1/events.py, jain_tirths.py,                  *)
(* advertisements.py, news.py and the image services.  A payment           *)
(* (api/v1/payments.py) is created and verified the same way.              *)
(*                                                                         *)
(* A request loads the row, changes what it has loaded, writes the columns *)
(* that changed, and commits.  Objects are stored and deleted meanwhile.   *)
(* The media routes (api/v1/media.py) file objects for the item and delete *)
(* any, whatever refers to it.                                             *)
(***************************************************************************)
EXTENDS Integers, FiniteSets, Sequences

CONSTANTS
  Kinds,         \* the kinds this instance has, of "event", "tirth", "ad", "news", "payment"
  Keys,          \* object keys, each drawn once (uuid4)
  Dates, Times,  \* of events
  Requests,
  MaxImages,     \* MAX_IMAGES_PER_EVENT, MAX_IMAGES_PER_TIRTH
  MaxCalls,      \* bound: requests
  MaxFaults,     \* bound: failures of storage or connections
  None

ASSUME Parameters ==
  /\ Kinds \subseteq {"event", "tirth", "ad", "news", "payment"}
  /\ None \notin Keys \cup Dates \cup Times
  /\ Dates # {} /\ Times # {} /\ IsFiniteSet(Keys)
  /\ MaxImages \in Nat \ {0} /\ MaxCalls \in Nat /\ MaxFaults \in Nat

Draft == "draft"
Published == "published"
Approved == "approved"
Rejected == "rejected"
Pending == "pending"
Success == "success"
Failed == "failed"
Given == "given"     \* a reason, a time of publication or of payment

\* The columns of a kind that more than one request writes.
Columns(k) ==
  CASE k = "event" -> [date : Dates, time : Times, starts : Dates \X Times]
    [] k = "tirth" -> [status : {Draft, Published}]
    [] k = "ad" -> [status : {Approved, Rejected}, reason : {None, Given}]
    [] k = "news" -> [status : {Draft, Published}, published_at : {None, Given}]
    [] k = "payment" -> [status : {Pending, Success, Failed}, paid_at : {None, Given}]

Item(k) ==
  [state : {"absent", "live", "deleted"},
   cover : Keys \cup {None}, large : Keys \cup {None},
   shown : Keys \cup {None},                  \* media_url of an advertisement
   columns : Columns(k)]

ASSUME Absent == None # Given /\ \A k \in Kinds : None \notin Item(k)

VARIABLES
  kind,
  item,      \* the committed row
  images,    \* the committed rows of the gallery: [state, pos]
  objects,   \* the keys under which the storage holds an object
  drawn,     \* the keys drawn so far
  media,     \* the keys that have a committed media row, deleted or not
  used,      \* history: the keys that a committed cover, large or gallery image had
  lost,      \* the keys whose object went although the rows stayed
  req,       \* the requests: see Request
  overlap,   \* history: two requests have been under way at once
  calls, faults

vars == <<kind, item, images, objects, drawn, media, used, lost, req, overlap, calls, faults>>

Slots == {"cover", "large"}

Request ==
  [op    : {None, "create", "form", "edit", "upload", "remove", "images", "image", "delete"},
   at    : {"idle", "store", "write", "discard", "count", "image", "list", "commit"},
   slot  : Slots,
   seen  : Item(kind) \cup {None},      \* the row as loaded
   next  : Item(kind) \cup {None},      \* the row as its session has it
   mine  : Item(kind) \cup {None},      \* the row as flushed: its lock is held
   size  : 0..MaxImages,                \* images of the batch
   count : 0..Cardinality(Keys),        \* images counted before it
   new   : UNION {[1..n -> Keys] : n \in 0..MaxImages},
   drop  : SUBSET Keys,                 \* the gallery rows it soft deletes
   gone  : SUBSET Keys]                 \* the objects it has deleted

Idle == [op |-> None, at |-> "idle", slot |-> "cover", seen |-> None, next |-> None,
         mine |-> None, size |-> 0, count |-> 0, new |-> <<>>, drop |-> {}, gone |-> {}]

First(S) == CHOOSE x \in S : TRUE

\* The columns of a new item.
Defaults(k) ==
  CASE k = "event" -> [date |-> First(Dates), time |-> First(Times),
                       starts |-> <<First(Dates), First(Times)>>]
    [] k = "tirth" -> [status |-> Draft]
    [] k = "ad" -> [status |-> Approved, reason |-> None]
    [] k = "news" -> [status |-> Draft, published_at |-> None]
    [] k = "payment" -> [status |-> Pending, paid_at |-> None]

Init ==
  /\ kind \in Kinds
  /\ item = [state |-> "absent", cover |-> None, large |-> None, shown |-> None,
             columns |-> Defaults(kind)]
  /\ images = [k \in Keys |-> [state |-> "none", pos |-> 0]]
  /\ objects = {} /\ drawn = {} /\ media = {} /\ used = {} /\ lost = {}
  /\ req = [r \in Requests |-> Idle]
  /\ overlap = FALSE
  /\ calls = 0 /\ faults = 0

-----------------------------------------------------------------------------
(* The session.                                                            *)

Begin(r, op, at, slot, size, next, drop) ==
  /\ req[r].at = "idle" /\ calls < MaxCalls
  /\ calls' = calls + 1
  /\ overlap' = (overlap \/ \E q \in Requests : req[q].at # "idle")
  /\ req' = [req EXCEPT ![r] =
       [Idle EXCEPT !.op = op, !.at = at, !.slot = slot, !.size = size,
                    !.seen = item, !.next = next, !.drop = drop]]
  /\ UNCHANGED <<kind, item, images, objects, drawn, media, used, lost, faults>>

\* The lookups of advertisements and news do not leave deleted rows out.
Loadable == item.state = "live" \/ (item.state = "deleted" /\ kind \in {"ad", "news"})

\* The UPDATE of the columns that changed, on the row as committed by now.
Pick(base, seen, next) == IF next = seen THEN base ELSE next
Overlaid(base, seen, next) ==
  [f \in DOMAIN base |->
     IF f = "columns"
     THEN [c \in DOMAIN base.columns |->
             Pick(base.columns[c], seen.columns[c], next.columns[c])]
     ELSE Pick(base[f], seen[f], next[f])]

RowFree(r) == \A q \in Requests \ {r} : req[q].mine = None

Fault == faults < MaxFaults /\ faults' = faults + 1

\* The transaction is rolled back; what it did to the storage stays.
Abort(r) ==
  /\ req[r].at # "idle" /\ Fault
  /\ req' = [req EXCEPT ![r] = Idle]
  /\ lost' = lost \cup req[r].gone
  /\ UNCHANGED <<kind, item, images, objects, drawn, media, used, overlap, calls>>

\* A file that is no image, after the objects of others were stored: the
\* request is answered 400, and its transaction rolled back.
Refuse(r) ==
  /\ req[r].at \in {"store", "image"}
  /\ req' = [req EXCEPT ![r] = Idle]
  /\ UNCHANGED <<kind, item, images, objects, drawn, media, used, lost, overlap, calls, faults>>

Positions(q) == [i \in DOMAIN q.new |-> q.count + i - 1]

\* The keys a committed request leaves in the rows it wrote.
Images(q, row) ==
  ({row.cover, row.large} \ {None}) \cup {q.new[i] : i \in DOMAIN q.new}

Commit(r) ==
  /\ req[r].at = "commit"
  /\ item' = IF req[r].mine = None THEN item ELSE req[r].mine
  /\ images' = [k \in Keys |->
       IF k \in req[r].drop THEN [images[k] EXCEPT !.state = "hidden"]
       ELSE IF \E i \in DOMAIN req[r].new : req[r].new[i] = k
       THEN LET i == CHOOSE j \in DOMAIN req[r].new : req[r].new[j] = k
            IN  [state |-> "live", pos |-> Positions(req[r])[i]]
       ELSE images[k]]
  /\ media' = media \cup Images(req[r], item')
  /\ used' = used \cup Images(req[r], item')
  /\ req' = [req EXCEPT ![r] = Idle]
  /\ UNCHANGED <<kind, objects, drawn, lost, overlap, calls, faults>>

-----------------------------------------------------------------------------
(* Creating and editing.                                                   *)

New == [item EXCEPT !.state = "live"]

CreateEvent(r) ==
  kind = "event" /\ item.state = "absent" /\ Begin(r, "create", "write", "cover", 0, New, {})
CreateTirth(r) ==
  kind = "tirth" /\ item.state = "absent" /\ Begin(r, "create", "write", "cover", 0, New, {})
CreateAdvertisement(r) ==
  kind = "ad" /\ item.state = "absent" /\ Begin(r, "create", "write", "cover", 0, New, {})
\* A published news item is created with its time.
CreateNews(r) ==
  /\ kind = "news" /\ item.state = "absent"
  /\ \E c \in {Defaults("news"), [status |-> Published, published_at |-> Given]} :
       Begin(r, "create", "write", "cover", 0, [New EXCEPT !.columns = c], {})

CreateOrder(r) ==
  kind = "payment" /\ item.state = "absent" /\ Begin(r, "create", "write", "cover", 0, New, {})

\* The form: the row, then its cover and its large image, if they are sent.
CreateAdvertisementForm(r) ==
  kind = "ad" /\ item.state = "absent" /\ Begin(r, "form", "store", "cover", 0, New, {})

Edit(r, columns) ==
  Loadable /\ Begin(r, "edit", "write", "cover", 0, [item EXCEPT !.columns = columns], {})

\* Faulty: a change of the time alone leaves the instant.
TimedByDate(date, time) ==
  [date |-> date, time |-> time, starts |-> <<date, item.columns.starts[2]>>]

\* combine_local: the instant of the wall-clock date and time.
Timed(date, time) == [date |-> date, time |-> time, starts |-> <<date, time>>]

\* PATCH /events/{id}: the date, the time, both, or neither is sent, or an old
\* client sends the instant, from which date and time are read back.
UpdateEvent(r) ==
  kind = "event" /\ \E d \in Dates, t \in Times : Edit(r, Timed(d, t))

UpdateTirth(r) ==
  kind = "tirth" /\ \E s \in {Draft, Published} : Edit(r, [status |-> s])

\* POST /advertisements/{id}/approve.
Decision(approve) ==
  IF approve THEN [status |-> Approved, reason |-> None]
  ELSE [status |-> Rejected, reason |-> Given]

ApproveAdvertisement(r) ==
  kind = "ad" /\ \E a \in BOOLEAN : Edit(r, Decision(a))

\* PATCH /advertisements/{id}: a status is taken as sent, the reason is not touched.
UpdateAdvertisement(r) ==
  kind = "ad" /\ \E s \in {Approved, Rejected} : Edit(r, [item.columns EXCEPT !.status = s])

\* PATCH /news/{id}: the first publication is stamped.
UpdateNews(r) ==
  /\ kind = "news"
  /\ \E s \in {Draft, Published} :
       Edit(r, [status |-> s,
                published_at |-> IF s = Published THEN Given ELSE item.columns.published_at])

\* POST /news/{id}/publish.
PublishNews(r) ==
  /\ kind = "news"
  /\ \E s \in {Draft, Published} :
       Edit(r, [status |-> s, published_at |-> IF s = Published THEN Given ELSE None])

\* POST /payments/{id}/verify: any answer of the provider but success is a failure.
VerifyPayment(r) ==
  /\ kind = "payment" /\ item.columns.status = Pending
  /\ \E s \in {Success, Failed} :
       Edit(r, [status |-> s, paid_at |-> IF s = Success THEN Given ELSE item.columns.paid_at])

Write(r) ==
  LET q == req[r]
  IN  /\ q.at = "write" /\ RowFree(r)
      /\ req' = [req EXCEPT
           ![r].mine = IF q.next = q.seen THEN None ELSE Overlaid(item, q.seen, q.next),
           ![r].at = IF kind \in {"event", "tirth"} /\ q.op \in {"upload", "remove", "delete"}
                     THEN "discard" ELSE "commit"]
      /\ UNCHANGED <<kind, item, images, objects, drawn, media, used, lost, overlap, calls, faults>>

-----------------------------------------------------------------------------
(* Covers and large images.                                                *)

WithImages == kind \notin {"news", "payment"} /\ Loadable

UploadCover(r) == WithImages /\ Begin(r, "upload", "store", "cover", 0, item, {})
UploadEventCover(r) == kind = "event" /\ UploadCover(r)
UploadTirthCover(r) == kind = "tirth" /\ UploadCover(r)
UploadAdvertisementCover(r) == kind = "ad" /\ UploadCover(r)
UploadLarge(r) == kind = "ad" /\ WithImages /\ Begin(r, "upload", "store", "large", 0, item, {})

\* Of events and tirths the row is flushed before the object goes, of
\* advertisements after it.
RemoveCover(r, at) ==
  WithImages /\ Begin(r, "remove", at, "cover", 0, [item EXCEPT !.cover = None], {})
RemoveEventCover(r) == kind = "event" /\ RemoveCover(r, "write")
RemoveTirthCover(r) == kind = "tirth" /\ RemoveCover(r, "write")
RemoveAdvertisementCover(r) == kind = "ad" /\ RemoveCover(r, "discard")
RemoveLarge(r) ==
  /\ kind = "ad" /\ WithImages
  /\ Begin(r, "remove", "discard", "large", 0, [item EXCEPT !.large = None], {})

\* The first cover of an advertisement also becomes its media_url.
Shown(q, slot, u) ==
  IF kind = "ad" /\ slot = "cover" /\ q.next.shown = None THEN u ELSE q.next.shown

\* MediaService.upload draws a key, and the service sets the attribute.
Stores(r, slot, at) ==
  /\ req[r].at = "store" /\ req[r].slot = slot
  /\ \E u \in Keys \ drawn :
       /\ drawn' = drawn \cup {u}
       /\ objects' = objects \cup {u}
       /\ req' = [req EXCEPT
            ![r].next = [@ EXCEPT ![slot] = u, !.shown = Shown(req[r], slot, u)],
            ![r].slot = IF req[r].op = "form" THEN "large" ELSE @,
            ![r].at = at]
  /\ UNCHANGED <<kind, item, images, media, used, lost, overlap, calls, faults>>

StoreEventCover(r) == kind = "event" /\ Stores(r, "cover", "write")
StoreTirthCover(r) == kind = "tirth" /\ Stores(r, "cover", "write")
StoreAdvertisementCover(r) ==
  kind = "ad" /\ Stores(r, "cover", IF req[r].op = "form" THEN "store" ELSE "discard")
StoreLarge(r) ==
  kind = "ad" /\ Stores(r, "large", IF req[r].op = "form" THEN "write" ELSE "discard")

\* An image of the form that is not sent.
SkipImage(r) ==
  /\ req[r].op = "form" /\ req[r].at = "store"
  /\ req' = [req EXCEPT
       ![r].slot = "large",
       ![r].at = IF req[r].slot = "cover" THEN "store" ELSE "write"]
  /\ UNCHANGED <<kind, item, images, objects, drawn, media, used, lost, overlap, calls, faults>>

RefuseAdvertisementImage(r) == kind = "ad" /\ Refuse(r)

\* delete_object: nothing is raised where the storage cannot be reached.
DeleteObjects(keys) ==
  \/ objects' = objects \ keys /\ UNCHANGED faults
  \/ keys \cap objects # {} /\ Fault /\ UNCHANGED objects

\* Faulty: the keys as set by now.
PreviousNext(q) ==
  CASE q.op = "delete" -> {q.seen.cover, q.seen.large} \ {None}
    [] q.op = "image" -> q.drop
    [] OTHER -> {q.next[q.slot]} \ {None}

\* The objects a request replaces or removes, as it loaded them.
Previous(q) ==
  CASE q.op = "delete" -> {q.seen.cover, q.seen.large} \ {None}
    [] q.op = "image" -> q.drop
    [] OTHER -> {q.seen[q.slot]} \ {None}

\* _discard_object.
Discards(r, at) ==
  /\ req[r].at = "discard"
  /\ DeleteObjects(Previous(req[r]))
  /\ req' = [req EXCEPT ![r].gone = @ \cup Previous(req[r]), ![r].at = at]
  /\ UNCHANGED <<kind, item, images, drawn, media, used, lost, overlap, calls>>

DiscardEventObjects(r) == kind = "event" /\ Discards(r, "commit")
DiscardTirthObjects(r) == kind = "tirth" /\ Discards(r, "commit")
DiscardAdvertisementObjects(r) == kind = "ad" /\ Discards(r, "write")

-----------------------------------------------------------------------------
(* The gallery.                                                            *)

Gallery == {k \in Keys : images[k].state = "live"}
WithGallery == kind \in {"event", "tirth"} /\ item.state = "live"

UploadEventImages(r, n) ==
  kind = "event" /\ WithGallery /\ Begin(r, "images", "count", "cover", n, item, {})
UploadTirthImages(r, n) ==
  kind = "tirth" /\ WithGallery /\ Begin(r, "images", "count", "cover", n, item, {})

\* Faulty: the batch alone is held against the limit.
WithinLimitAlone(existing, incoming) == incoming <= MaxImages

\* _assert_within_limit.
WithinLimit(existing, incoming) == existing + incoming <= MaxImages

\* The whole batch is checked before anything is stored.
CountImages(r, k) ==
  /\ kind = k /\ req[r].at = "count"
  /\ req' = [req EXCEPT ![r] =
       IF WithinLimit(Cardinality(Gallery), req[r].size)
       THEN [@ EXCEPT !.at = "image", !.count = Cardinality(Gallery)] ELSE Idle]
  /\ UNCHANGED <<kind, item, images, objects, drawn, media, used, lost, overlap, calls, faults>>

CountEventImages(r) == CountImages(r, "event")
CountTirthImages(r) == CountImages(r, "tirth")

StoreImage(r, k) ==
  /\ kind = k /\ req[r].at = "image"
  /\ \E u \in Keys \ drawn :
       /\ drawn' = drawn \cup {u}
       /\ objects' = objects \cup {u}
       /\ req' = [req EXCEPT ![r].new = Append(@, u),
                             ![r].at = IF Len(req[r].new) + 1 = req[r].size THEN "commit" ELSE @]
  /\ UNCHANGED <<kind, item, images, media, used, lost, overlap, calls, faults>>

StoreEventImage(r) == StoreImage(r, "event")
StoreTirthImage(r) == StoreImage(r, "tirth")

\* Each file is checked when its turn comes; those before it are stored.
RefuseEventImage(r) == kind = "event" /\ Refuse(r)
RefuseTirthImage(r) == kind = "tirth" /\ Refuse(r)

DeleteEventImage(r, k) ==
  /\ kind = "event" /\ WithGallery /\ k \in Gallery
  /\ Begin(r, "image", "discard", "cover", 0, item, {k})
DeleteTirthImage(r, k) ==
  /\ kind = "tirth" /\ WithGallery /\ k \in Gallery
  /\ Begin(r, "image", "discard", "cover", 0, item, {k})

-----------------------------------------------------------------------------
(* Deletion: the gallery, the cover and the large image, the row.          *)

Removed == [item EXCEPT !.state = "deleted", !.cover = None, !.large = None]

DeleteEvent(r) ==
  kind = "event" /\ Loadable /\ Begin(r, "delete", "list", "cover", 0, Removed, {})
DeleteTirth(r) ==
  kind = "tirth" /\ Loadable /\ Begin(r, "delete", "list", "cover", 0, Removed, {})
DeleteAdvertisement(r) ==
  kind = "ad" /\ Loadable /\ Begin(r, "delete", "discard", "cover", 0, Removed, {})
DeleteNews(r) ==
  kind = "news" /\ Loadable
  /\ Begin(r, "delete", "write", "cover", 0, [item EXCEPT !.state = "deleted"], {})

\* Faulty: the rows of the gallery go, their objects stay.
DeleteGalleryRows(r, k) ==
  /\ kind = k /\ req[r].at = "list"
  /\ req' = [req EXCEPT ![r].drop = Gallery, ![r].at = "write"]
  /\ UNCHANGED <<kind, item, images, objects, drawn, media, used, lost, overlap, calls, faults>>

\* delete_all_for_event: as many images as an event may hold, in their order.
DeleteGallery(r, k) ==
  /\ kind = k /\ req[r].at = "list"
  /\ \E S \in SUBSET Gallery :
       /\ Cardinality(S) = (IF Cardinality(Gallery) < MaxImages
                            THEN Cardinality(Gallery) ELSE MaxImages)
       /\ \A a \in S, b \in Gallery \ S : images[a].pos <= images[b].pos
       /\ DeleteObjects(S)
       /\ req' = [req EXCEPT ![r].drop = S, ![r].gone = S, ![r].at = "write"]
  /\ UNCHANGED <<kind, item, images, drawn, media, used, lost, overlap, calls>>

DeleteEventGallery(r) == DeleteGallery(r, "event")
DeleteTirthGallery(r) == DeleteGallery(r, "tirth")

-----------------------------------------------------------------------------
(* The media routes, about which the item is not told.                     *)

MediaCall ==
  /\ calls < MaxCalls /\ calls' = calls + 1
  /\ UNCHANGED <<kind, item, images, used, req, overlap>>

\* POST /media/upload: the object stays where its row is not committed.
UploadMedia ==
  /\ MediaCall
  /\ \E u \in Keys \ drawn :
       /\ drawn' = drawn \cup {u}
       /\ objects' = objects \cup {u}
       /\ \/ media' = media \cup {u} /\ UNCHANGED faults
          \/ Fault /\ UNCHANGED media
  /\ UNCHANGED lost

\* DELETE /media/{id}: the object goes, and the rows that refer to it stay.
DeleteMedia(k) ==
  /\ k \in media /\ MediaCall
  /\ DeleteObjects({k})
  /\ lost' = lost \cup {k}
  /\ UNCHANGED <<drawn, media>>

-----------------------------------------------------------------------------
Call(r) ==
  \/ CreateEvent(r) \/ CreateTirth(r) \/ CreateAdvertisement(r) \/ CreateNews(r)
  \/ CreateAdvertisementForm(r) \/ CreateOrder(r) \/ VerifyPayment(r)
  \/ UpdateEvent(r) \/ UpdateTirth(r) \/ ApproveAdvertisement(r) \/ UpdateAdvertisement(r)
  \/ UpdateNews(r) \/ PublishNews(r)
  \/ UploadEventCover(r) \/ UploadTirthCover(r) \/ UploadAdvertisementCover(r)
  \/ RemoveEventCover(r) \/ RemoveTirthCover(r) \/ RemoveAdvertisementCover(r)
  \/ UploadLarge(r) \/ RemoveLarge(r)
  \/ \E n \in 1..MaxImages : UploadEventImages(r, n) \/ UploadTirthImages(r, n)
  \/ \E k \in Keys : DeleteEventImage(r, k) \/ DeleteTirthImage(r, k)
  \/ DeleteEvent(r) \/ DeleteTirth(r) \/ DeleteAdvertisement(r) \/ DeleteNews(r)

Serve(r) ==
  \/ Write(r) \/ Commit(r)
  \/ StoreEventCover(r) \/ StoreTirthCover(r)
  \/ StoreAdvertisementCover(r) \/ StoreLarge(r) \/ SkipImage(r)
  \/ DiscardEventObjects(r) \/ DiscardTirthObjects(r) \/ DiscardAdvertisementObjects(r)
  \/ CountEventImages(r) \/ CountTirthImages(r)
  \/ StoreEventImage(r) \/ StoreTirthImage(r)
  \/ RefuseEventImage(r) \/ RefuseTirthImage(r) \/ RefuseAdvertisementImage(r)
  \/ DeleteEventGallery(r) \/ DeleteTirthGallery(r)

Next ==
  \/ \E r \in Requests : Call(r) \/ Serve(r) \/ Abort(r)
  \/ UploadMedia
  \/ \E k \in Keys : DeleteMedia(k)

Spec == Init /\ [][Next]_vars

-----------------------------------------------------------------------------
(* Properties.                                                             *)

\* "a storage failure leaves the previous cover in place rather than an event
\* pointing at an object that does not exist" (EventService.upload_cover):
\* whatever a committed row refers to is stored, unless a request that is
\* replacing it has deleted it already, or was rolled back after that, or the
\* object was deleted by itself (DELETE /media/{id}, which leaves the item as
\* it is).
Serves ==
  ({item.cover, item.large} \cup Gallery) \ {None} \subseteq
     objects \cup lost \cup UNION {req[r].gone : r \in Requests}

\* "neither a single oversized request nor a series of requests can push an
\* event past the limit" (upload_event_images): not a series, but two at once.
LimitHeld == ~overlap => Cardinality(Gallery) <= MaxImages

\* Columns that are written together agree, between requests that follow one
\* another: the instant with date and time, a publication with its time, and
\* what has been paid with the time of it.
Agree(columns) ==
  CASE kind = "event" -> columns.starts = <<columns.date, columns.time>>
    [] kind = "news" -> columns.status = Published => columns.published_at # None
    [] kind = "payment" -> columns.status = Success <=> columns.paid_at # None
    [] OTHER -> TRUE
ColumnsAgree == ~overlap => Agree(item.columns)

\* "The stored objects go with the event, not just the rows" (delete_event): of
\* every image it ever showed, replaced, removed or there to the end.  What it
\* never showed stays: the first files of a batch that was refused for a later
\* one, and what was filed for it by POST /media/upload.  (An image can still
\* be uploaded to a deleted advertisement.)
ObjectsGo ==
  (item.state = "deleted" /\ kind \in {"event", "tirth"} /\ ~overlap /\ faults = 0) =>
     objects \cap used = {} /\ Gallery = {}
=============================================================================
