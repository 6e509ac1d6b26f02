----------------------------- MODULE PhotoSlots -----------------------------
(***************************************************************************)
(* The photos of one member and of its spouse: member_photo_service.py,    *)
(* the profile photo and profile links of profile_service.py, DELETE       *)
(* /media/{id}, and the Drive migration (drive_photo_migration.py), which  *)
(* comes to the member only after the members of smaller ids.              *)
(*                                                                         *)
(* The row of the member and the media rows belong to a transaction; the   *)
(* objects of the storage do not.  A request loads the row, calls the      *)
(* storage, writes the attributes it changed when it flushes, and commits. *)
(* The links of both photos are one JSON attribute, written as a whole.    *)
(***************************************************************************)
EXTENDS Integers, FiniteSets, Sequences

CONSTANTS
  Slots,          \* "member" and "spouse"
  Uploads,        \* object keys of uploads, each drawn once (uuid4)
  Files,          \* Drive files
  Unshared,       \* the files Drive lets nobody read
  Entered,        \* the files that clients enter links of
  Ext,            \* the extension each file is stored under
  Requests,
  Ops,            \* the kinds of request this instance issues
  Settings,       \* MEDIA_STORAGE_BACKEND, and whether R2 is configured
                  \* and has a public URL
  Deployments,    \* the stored [row, media, objects, before] at the start
  Limit, Offset,  \* --limit and --offset of the batch migration
  MaxCalls,       \* bound: requests of clients
  MaxFaults,      \* bound: failures of storage, Drive or connections
  None

\* A deterministic key per slot and extension, distinct from those of uploads.
Migrated(s, f) == <<s, Ext[f]>>
MigratedKeys(s) == {Migrated(s, f) : f \in Files}
Keys == Uploads \cup UNION {MigratedKeys(s) : s \in Slots}

\* What can be stored as a photo link: a URL of ours, a link to a Drive file.
Links == Keys \cup Files \cup {None}

Row ==
  [live  : BOOLEAN,                         \* the member is not deleted
   key   : [Slots -> Keys \cup {None}],     \* *_photo_r2_object_key
   drive : [Slots -> Files \cup {None}],    \* *_photo_drive_url
   data  : [Slots -> Links],                \* profile_data
   col   : Links]                           \* profile_photo_url

ASSUME Parameters ==
  /\ "member" \in Slots
  /\ DOMAIN Ext = Files
  /\ Uploads \cap (Files \cup {None}) = {} /\ None \notin Files
  /\ Entered \subseteq Files /\ Unshared \subseteq Files
  /\ Ops \subseteq {"upload", "profile", "remove", "delete", "link", "media", "batch", "single"}
  /\ Settings \subseteq [choice : {"auto", "r2", "database", "local"},
                         r2 : BOOLEAN, public : BOOLEAN]
  /\ None \notin Keys \cup Row
  /\ \A s \in Slots : Uploads \cap MigratedKeys(s) = {}
  /\ \A s \in Settings : s.choice = "r2" => s.r2
  /\ Limit \in Nat \ {0} /\ Offset \in Nat
  /\ MaxCalls \in Nat /\ MaxFaults \in Nat

\* An upload is recorded once, with its media row and its object.
ASSUME Stored ==
  \A d \in Deployments :
    /\ d.row \in Row
    /\ d.media \in [Keys -> {"none", "live", "hidden"}]
    /\ d.objects \subseteq Keys
    /\ d.before \in Seq(Row)
    /\ \A s \in Slots :
         d.row.key[s] \in Uploads =>
           /\ d.media[d.row.key[s]] # "none" /\ d.row.key[s] \in d.objects
           /\ \A t \in Slots : d.row.key[t] = d.row.key[s] => t = s

VARIABLES
  backend,   \* what the storage in use can do: [public, lists]
  row,       \* the committed row of the member
  media,     \* the committed media rows; "hidden" is soft deleted
  objects,   \* the keys under which the storage holds an object
  before,    \* the rows of the members of smaller ids, in their order
  lost,      \* the keys whose object went although the rows stayed
  req,       \* the requests: see Request
  calls, faults

vars == <<backend, row, media, objects, before, lost, req, calls, faults>>

Request ==
  [op    : Ops \cup {None},
   slots : SUBSET Slots,             \* the slots it is about
   link  : Files \cup {None},        \* the link it stores
   at    : {"idle", "store", "write", "discard", "commit", "slot", "copy", "record"},
   seen  : Row \cup {None},          \* the row as loaded
   ss    : Row \cup {None},          \* the row as its session has it
   mine  : Row \cup {None},          \* the row as flushed: its lock is held
   key   : Keys \cup {None},         \* the object it has stored or found
   make  : SUBSET Keys,              \* the media rows it has inserted
   hide  : SUBSET Keys,              \* the media rows it has soft deleted
   gone  : SUBSET Keys,              \* the objects it has deleted
   page  : SUBSET Nat]               \* the other members its batch is about

Idle == [op |-> None, slots |-> {}, link |-> None, at |-> "idle", seen |-> None,
         ss |-> None, mine |-> None, key |-> None, make |-> {}, hide |-> {}, gone |-> {},
         page |-> {}]

\* get_storage: R2 lists its objects, and with a public URL serves them; the
\* database and the disk do neither.
Storage(s) ==
  LET remote == s.choice = "r2" \/ (s.choice = "auto" /\ s.r2)
  IN  [public |-> remote /\ s.public, lists |-> remote]

Init ==
  /\ backend \in {Storage(s) : s \in Settings}
  /\ \E d \in Deployments : 
       row = d.row /\ media = d.media /\ objects = d.objects /\ before = d.before
  /\ lost = {}
  /\ req = [r \in Requests |-> Idle]
  /\ calls = 0 /\ faults = 0

-----------------------------------------------------------------------------
(* The session.                                                            *)

BeginOver(r, op, slots, link, at, page) ==
  /\ op \in Ops
  /\ req[r].at = "idle"
  /\ req' = [req EXCEPT ![r] =
       [Idle EXCEPT !.op = op, !.slots = slots, !.link = link, !.at = at,
                    !.seen = row, !.ss = row, !.page = page]]
  /\ UNCHANGED <<backend, row, media, objects, before, lost, faults>>

Begin(r, op, slots, link, at) == BeginOver(r, op, slots, link, at, {})

Client == calls < MaxCalls /\ calls' = calls + 1

\* The UPDATE of the attributes that changed, on the row as committed by now.
Overlaid(base, seen, ss) ==
  [live  |-> IF ss.live = seen.live THEN base.live ELSE ss.live,
   key   |-> [s \in Slots |-> IF ss.key[s] = seen.key[s] THEN base.key[s] ELSE ss.key[s]],
   drive |-> [s \in Slots |-> IF ss.drive[s] = seen.drive[s] THEN base.drive[s] ELSE ss.drive[s]],
   data  |-> IF ss.data = seen.data THEN base.data ELSE ss.data,
   col   |-> IF ss.col = seen.col THEN base.col ELSE ss.col]

RowFree(r) == \A q \in Requests \ {r} : req[q].mine = None

Fault == faults < MaxFaults /\ faults' = faults + 1

\* The transaction is rolled back; what it did to the storage stays.
Fail(r) ==
  /\ req' = [req EXCEPT ![r] = Idle]
  /\ lost' = lost \cup req[r].gone
  /\ UNCHANGED <<backend, row, media, objects, before, calls>>

\* A crash, a lost connection, an error of the storage or the database.
Abort(r) ==
  /\ req[r].at # "idle"
  /\ Fault
  /\ Fail(r)

\* delete_object: nothing is raised where the storage cannot be reached.
DeleteObjects(keys) ==
  \/ objects' = objects \ keys /\ UNCHANGED faults
  \/ /\ keys \cap objects # {} /\ Fault
     /\ UNCHANGED objects

-----------------------------------------------------------------------------
(* Uploads and removals.                                                   *)

\* POST /members/{id}/photo/{role}.
UploadPhoto(r, s) ==
  /\ row.live /\ Client
  /\ Begin(r, "upload", {s}, None, "store")

\* POST /profile/photo: no key is recorded, and nothing is replaced.
UploadProfilePhoto(r) ==
  /\ row.live /\ Client
  /\ Begin(r, "profile", {"member"}, None, "store")

\* DELETE /members/{id}/photo/{role}.
DeletePhoto(r, s) ==
  /\ row.live /\ Client
  /\ Begin(r, "remove", {s}, None, "write")

\* DELETE /members/{id}: a soft delete, and every slot removed.
DeleteMember(r) ==
  /\ row.live /\ Client
  /\ Begin(r, "delete", Slots, None, "write")

\* PUT /profile with another photo link.
UpdateLink(r, s, f) ==
  /\ row.live /\ Client
  /\ Begin(r, "link", {s}, f, "write")

\* Faulty: an object that cannot be stored is passed over.
StoreUnchecked(r) ==
  /\ req[r].at = "store"
  /\ req' = [req EXCEPT ![r].at = "write"]
  /\ UNCHANGED <<backend, row, media, objects, before, lost, calls, faults>>

\* A key that was never drawn; it does not matter which.
Fresh == {u \in Uploads : media[u] = "none" /\ u \notin objects}

\* MediaService.upload: the object is stored before anything is written.
Store(r) ==
  /\ req[r].at = "store"
  /\ \E u \in Fresh :
       /\ u = CHOOSE x \in Fresh : TRUE
       /\ objects' = objects \cup {u}
       /\ req' = [req EXCEPT ![r].at = "write", ![r].key = u, ![r].make = {u}]
  /\ UNCHANGED <<backend, row, media, before, lost, calls, faults>>

\* _write_slot and its callers: what the session holds afterwards.
Written(q) ==
  LET link == CASE q.op \in {"upload", "profile"} -> q.key
                [] q.op = "link" -> q.link
                [] OTHER -> None
  IN  [live  |-> q.seen.live /\ q.op # "delete",
       key   |-> [s \in Slots |->
                    IF s \in q.slots /\ q.op \in {"upload", "remove", "delete"}
                    THEN q.key ELSE q.seen.key[s]],
       drive |-> q.seen.drive,
       data  |-> [s \in Slots |-> IF s \in q.slots THEN link ELSE q.seen.data[s]],
       col   |-> IF "member" \in q.slots THEN link ELSE q.seen.col]

Write(r) ==
  /\ req[r].at = "write"
  /\ RowFree(r)
  /\ req' = [req EXCEPT
       ![r].ss = Written(req[r]),
       ![r].mine = Overlaid(row, req[r].seen, Written(req[r])),
       ![r].at = IF req[r].op \in {"upload", "remove", "delete"} THEN "discard" ELSE "commit"]
  /\ UNCHANGED <<backend, row, media, objects, before, lost, calls, faults>>

\* Faulty: the keys recorded now.
PreviousNew(q) == {q.mine.key[s] : s \in q.slots} \ {None}

\* The keys recorded for the slots when the request loaded them.
Previous(q) == {q.seen.key[s] : s \in q.slots} \ {None}

\* _discard_object: before the commit.
Discard(r) ==
  /\ req[r].at = "discard"
  /\ DeleteObjects(Previous(req[r]))
  /\ req' = [req EXCEPT
       ![r].hide = {k \in Previous(req[r]) : media[k] # "none"},
       ![r].gone = Previous(req[r]),
       ![r].at = "commit"]
  /\ UNCHANGED <<backend, row, media, before, lost, calls>>

\* DELETE /media/{id}, whatever refers to the object; the row can stay when
\* the object is gone already.
DeleteMedia(k) ==
  /\ "media" \in Ops
  /\ media[k] # "none" /\ Client
  /\ lost' = lost \cup {k}
  /\ \/ DeleteObjects({k}) /\ media' = [media EXCEPT ![k] = "hidden"]
     \/ objects' = objects \ {k} /\ Fault /\ UNCHANGED media
  /\ UNCHANGED <<backend, row, before, req>>

-----------------------------------------------------------------------------
(* The Drive migration: one member's slots, one after the other.           *)

\* parse_photo_link, as far as it matters here.
FromDrive(link) == link \in Files

\* _member_source_link: the first Drive link of these, the preserved one last.
Source(ss, s) ==
  CASE FromDrive(ss.data[s]) -> ss.data[s]
    [] ~FromDrive(ss.data[s]) /\ s = "member" /\ FromDrive(ss.col) -> ss.col
    [] OTHER -> ss.drive[s]

\* The sheet points at another file than the one last migrated.
Replaced(ss, s) ==
  /\ ss.key[s] # None
  /\ Source(ss, s) # None /\ ss.drive[s] # None
  /\ Source(ss, s) # ss.drive[s]

\* Faulty: a slot without a recorded object is not selected.
PendingChanged(x) ==
  \E s \in Slots : x.key[s] # None /\ (FromDrive(x.data[s]) \/ (s = "member" /\ FromDrive(x.col)))

\* pending_members: a member with one photo has no object for the other slot,
\* and stays pending.
Pending(x) ==
  /\ x.col # None \/ \E s \in Slots : x.data[s] # None
  /\ \E s \in Slots :
       \/ x.key[s] = None
       \/ FromDrive(x.data[s])
       \/ s = "member" /\ FromDrive(x.col)

\* A batch takes the pending members by their ids, from Offset on.  Those of
\* greater ids do not matter to this one.
Waiting == {i \in DOMAIN before : Pending(before[i])}
InPage(rank) == Offset <= rank /\ rank < Offset + Limit
Page == {i \in Waiting : InPage(Cardinality({j \in Waiting : j < i}))}
Selected == Pending(row) /\ InPage(Cardinality(Waiting))

\* POST /media/migrate-drive-photos and scripts/migrate_drive_photos.py, over
\* whoever is pending or for one member; deleted members are not left out.
MigrateBatch(r) ==
  Selected /\ BeginOver(r, "batch", Slots, None, "slot", Page) /\ UNCHANGED calls
MigrateOne(r) == Client /\ Begin(r, "single", Slots, None, "slot")

Slot(r) == CHOOSE s \in req[r].slots : s = "member" \/ "member" \notin req[r].slots

\* On to the next slot, with ss for the row.
Skip(r, ss) ==
  req' = [req EXCEPT
    ![r].slots = @ \ {Slot(r)}, ![r].ss = ss, ![r].key = None, ![r].at = "slot"]

\* _finish: where the object has no public URL the link stays.
Finished(ss, s, k, f) ==
  LET kept == [ss EXCEPT !.key[s] = k, !.drive[s] = f]
  IN  IF ~backend.public THEN kept
      ELSE [kept EXCEPT !.data[s] = k, !.col = IF s = "member" THEN k ELSE @]

\* What a batch makes of another member: the photos that Drive hands out are
\* copied.
Wanted(x, s) == Source(x, s) \in Files \ Unshared /\ (x.key[s] = None \/ Replaced(x, s))
Shown(x, s) == backend.public /\ Wanted(x, s)
Copies(x) ==
  [x EXCEPT
    !.key = [s \in Slots |-> IF Wanted(x, s) THEN Migrated(s, Source(x, s)) ELSE x.key[s]],
    !.drive = [s \in Slots |-> IF Wanted(x, s) THEN Source(x, s) ELSE x.drive[s]],
    !.data = [s \in Slots |-> IF Shown(x, s) THEN Migrated(s, Source(x, s)) ELSE x.data[s]],
    !.col = IF Shown(x, "member") THEN Migrated("member", Source(x, "member")) ELSE @]
Swept(page) == [i \in DOMAIN before |-> IF i \in page THEN Copies(before[i]) ELSE before[i]]

\* A batch that does not come to this member.
MigrateOthers ==
  /\ "batch" \in Ops /\ ~Selected
  /\ before' = Swept(Page)
  /\ UNCHANGED <<backend, row, media, objects, lost, req, calls, faults>>

\* PUT /profile, or the sheet, has another link for one of them.
LinkBefore(i, f) ==
  /\ "link" \in Ops /\ Client
  /\ before' = [before EXCEPT ![i].data["member"] = f, ![i].col = f]
  /\ UNCHANGED <<backend, row, media, objects, lost, req, faults>>

FindObjectKey(keys) == IF backend.lists THEN keys \cap objects ELSE {}

\* The first half of _migrate_one: what is known of the slot without Drive.
Decide(r) ==
  LET ss == req[r].ss
      s == Slot(r)
      there == ss.key[s] \in objects
      found == FindObjectKey(MigratedKeys(s))
  IN  /\ req[r].at = "slot" /\ req[r].slots # {}
      /\ CASE there /\ ~Replaced(ss, s) -> Skip(r, ss)
           [] ~(there /\ ~Replaced(ss, s)) /\ Source(ss, s) = None -> Skip(r, ss)
           [] ~there /\ ~Replaced(ss, s) /\ Source(ss, s) # None /\ found # {} ->
                \E k \in found : Skip(r, Finished(ss, s, k, Source(ss, s)))
           [] OTHER -> req' = [req EXCEPT ![r].at = "copy"]
      /\ UNCHANGED <<backend, row, media, objects, before, lost, calls, faults>>

\* The download, and the upload under the slot's key.  A photo that Drive does
\* not hand out is reported, and the run goes on.
Copy(r) ==
  LET f == Source(req[r].ss, Slot(r))
      k == Migrated(Slot(r), f)
  IN  /\ req[r].at = "copy"
      /\ IF f \in Unshared THEN Skip(r, req[r].ss) /\ UNCHANGED objects
         ELSE /\ objects' = objects \cup {k}
              /\ req' = [req EXCEPT ![r].at = "record", ![r].key = k]
      /\ UNCHANGED <<backend, row, media, before, lost, calls, faults>>

\* The download fails.
Unreadable(r) ==
  /\ req[r].at = "copy"
  /\ Fault
  /\ Skip(r, req[r].ss)
  /\ UNCHANGED <<backend, row, media, objects, before, lost, calls>>

\* _record_media, the superseded object, and _finish.  A media row that is
\* there is used again as it is.
Record(r) ==
  LET ss == req[r].ss
      s == Slot(r)
      k == req[r].key
      old == IF Replaced(ss, s) /\ ss.key[s] # k THEN {ss.key[s]} ELSE {}
  IN  /\ req[r].at = "record"
      /\ \A q \in Requests \ {r} : k \notin req[q].make
      /\ DeleteObjects(old)
      /\ req' = [req EXCEPT
           ![r].make = @ \cup (IF media[k] = "none" THEN {k} ELSE {}),
           ![r].hide = @ \cup {o \in old : media[o] # "none"},
           ![r].gone = @ \cup old,
           ![r].slots = @ \ {s}, ![r].key = None, ![r].at = "slot",
           ![r].ss = Finished(ss, s, k, Source(ss, s))]
      /\ UNCHANGED <<backend, row, media, before, lost, calls>>

\* Another run inserts the same media row: its unique key ends this one.
RecordCollides(r) ==
  /\ req[r].at = "record"
  /\ \E q \in Requests \ {r} : req[r].key \in req[q].make
  /\ Fail(r)
  /\ UNCHANGED faults

\* The member's savepoint ends: the row is written if the run changed it.
Flush(r) ==
  /\ req[r].at = "slot" /\ req[r].slots = {}
  /\ req[r].ss # req[r].seen => RowFree(r)
  /\ req' = [req EXCEPT
       ![r].mine = IF req[r].ss = req[r].seen THEN None
                   ELSE Overlaid(row, req[r].seen, req[r].ss),
       ![r].at = "commit"]
  /\ UNCHANGED <<backend, row, media, objects, before, lost, calls, faults>>

\* get_db commits, and so does the script after a batch.
Commit(r) ==
  /\ req[r].at = "commit"
  /\ row' = IF req[r].mine = None THEN row ELSE req[r].mine
  /\ media' = [k \in Keys |->
       CASE k \in req[r].hide -> "hidden"
         [] k \in req[r].make \ req[r].hide -> "live"
         [] OTHER -> media[k]]
  /\ before' = Swept(req[r].page)
  /\ req' = [req EXCEPT ![r] = Idle]
  /\ UNCHANGED <<backend, objects, lost, calls, faults>>

-----------------------------------------------------------------------------
Call(r) ==
  \/ \E s \in Slots : UploadPhoto(r, s) \/ DeletePhoto(r, s)
  \/ \E s \in Slots, f \in Entered : UpdateLink(r, s, f)
  \/ UploadProfilePhoto(r) \/ DeleteMember(r) \/ MigrateOne(r) \/ MigrateBatch(r)

Serve(r) ==
  \/ Store(r) \/ Write(r) \/ Discard(r)
  \/ Decide(r) \/ Copy(r) \/ Record(r) \/ RecordCollides(r) \/ Flush(r)
  \/ Commit(r)

Next ==
  \/ \E r \in Requests : Call(r) \/ Serve(r) \/ Unreadable(r) \/ Abort(r)
  \/ \E k \in Keys : DeleteMedia(k)
  \/ MigrateOthers
  \/ \E i \in DOMAIN before, f \in Entered \cup Unshared : LinkBefore(i, f)

Spec == Init /\ [][Next]_vars

\* Requests run on, and whoever runs the batch migration runs it again.
Batch == MigrateOthers \/ \E r \in Requests : MigrateBatch(r)
FairSpec == Spec /\ (\A r \in Requests : SF_vars(Serve(r))) /\ WF_vars(Batch)

-----------------------------------------------------------------------------
(* Properties.                                                             *)

\* The uploaded photo a committed row refers to can be read, unless a request
\* is replacing it or was rolled back after its deletion, or the media was
\* deleted by itself.  (Of a migrated photo this is not so: a run that finds the
\* object records it after a removal has deleted it.)
NoDangling ==
  \A s \in Slots : row.key[s] \in Uploads \ objects =>
    row.key[s] \in lost \cup UNION {req[r].gone : r \in Requests}

\* Uploading first: an uploaded photo a committed row refers to is deleted only
\* by a request that removes the photo or has stored its replacement.  One that
\* was uploaded is still there; a copy is under a key that others may have
\* deleted since.
ReplacedFirst ==
  [][\A s \in Slots :
       row.key[s] \in (Uploads \cap objects) \ objects' /\ row.key[s] \notin lost' =>
         \E r \in Requests :
           /\ row.key[s] \in req'[r].gone
           /\ \/ req[r].op \in {"remove", "delete"}
              \/ req[r].key \in (Uploads \cap objects) \cup UNION {MigratedKeys(t) : t \in Slots}]_vars

\* The members of smaller ids that stay pending when their photos are copied.
Stuck == {i \in DOMAIN before : Pending(Copies(before[i]))}

\* A photo behind a Drive link gets its copy, unless the link goes, while a batch
\* takes more members than stay pending before this one.  (Otherwise the batches
\* never come to it, nor, with an offset, to members the others move before it:
\* "keep going until nothing is left", scripts/migrate_drive_photos.py, does not
\* hold.)
Starved == Offset > 0 \/ Cardinality(Stuck) >= Limit
Copied ==
  \A s \in Slots :
    row.key[s] = None /\ row.data[s] \in Files \ Unshared ~>
      row.key[s] # None \/ row.data[s] \notin Files \ Unshared \/ Starved
=============================================================================
