# Verification of the JSSG API

TLA+ models of the JSSG API (`src/app`, a FastAPI service over PostgreSQL): what
identifies a group and a member, which member belongs to which group, the files
and photos that rows refer to, the import of the registration sheet, accounts
and their sessions, who may see and change what, and profiles. TLC checks the
models on small instances; TLAPS proves all of their safety properties, in the
eight `...Proofs` modules, for every value of the constants.

## The system

Every request runs in one SQLAlchemy session and one READ COMMITTED transaction
(`database.get_db`), committed when the handler returns and rolled back by any
exception. Several instances serve requests at once; nothing but the database
(and the object storage) is shared. So the interesting behaviour is between
statements: rows are read before they are locked, a session keeps the
attributes it has loaded even when it selects the row again, `SELECT ... FOR
UPDATE` locks nothing where there is no row, and object storage does not roll
back.

| Component | State it keeps | Operations | What makes it correct |
|---|---|---|---|
| Group ID allocation (`group_id_service`, `groups.py`) | `social_groups`, `district_group_counters` | create, edit, delete a group | one ID per group, never reissued; numbers consecutive per district; creates of one district line up; every create answered |
| Memberships and member IDs (`member_group_service`, `assign_member_id`, `members.py`, `groups.py`, `register`) | `members` (primary pointer, visible number), `member_group_memberships` (priority, number), `group_members`, `group_member_counters` | create and register a member, add, remove, select groups, approve, delete a member or a group | the three records of the primary group agree; a number has one owner for ever; order of groups is kept, the next one is promoted; a group admin touches its own group only; every request answered |
| Texts of the IDs | no state of its own | format, match | the text identifies its group and sequence |
| Media and photo slots (`member_photo_service`, `media_service`, `media_storage`, the image services) | `media`, photo columns, covers, gallery rows; objects in R2, on disk or in the database | upload, replace, remove, read | what a committed row refers to exists, unless a rollback followed a deletion; galleries keep their limit; objects go with their item |
| Drive photo migration | photo columns, `media`, objects | run in batches or for one member | every photo behind a Drive link gets its copy, whatever uploads and other runs do; a changed link replaces |
| Registration sheet sync (`registration_sync_service`) | `users`, `members` with their JSON bag | apply, again and again | an account is never left without its member; a row reported as written is written; a blank clears nothing; a second run creates nothing |
| Accounts and sessions (`auth_service`, `members.py`, `users.py`) | `users`, `otp_codes`, `refresh_tokens` | log in, request and verify a code, refresh, log out, change a password, approve, block | the newest code serves, once; a login has one live token; who is shut out stays out |
| Access scope and permissions (`scope`, `permissions`, the routers) | roles, groups, flags of rows | list, open, write | an admin writes inside its group; whoever writes can read; what is listed opens; lists that should agree do |
| Payments | `payments` | order, verify | paid exactly when there is a time of payment |
| Content (events, advertisements, news, trustees, tirths) | rows, covers, galleries | create, edit, publish, approve, delete | columns written together agree |
| Profiles, family, search, celebrations | `profile_data`, account, family and professional records | read, merge | a profile shows what was sent; the records follow |
| Geo data and RTO codes | tables, checked-in map | import, resolve | a city has one code |
| Schema guard, bootstrap, migrations | the schema, roles, first account | start up | repeatable |
| Outside services, application shell | none | call, configure | - |

How they meet: creating a group draws its number and inserts its
`group_member_counters` row in one transaction; a membership call locks the
member, then the counters of the groups it numbers in; deleting a group detaches
its members one by one with the same calls and leaves the rest to the foreign
keys; registration and sheet sync create members that later get numbers, and
write the same bag as profile edits; photo uploads, the profile photo and the
migration write the same columns and objects; decisions over a member open and
shut its account; the lists of `Access` read what all of them write.

The hard behaviours are listed with their lines under `hazards` in
`PROJECT.json`.

## What is modelled

### `GroupIds` (with `IdIssuer`, `MCGroupIds`, `GroupIdsProofs`)

`POST /groups` statement by statement. `pc[r]` is the statement a request is at;
`want`, `seen` and `drawn` are its local state; `groups` and `counter` are the
committed rows.

| Action | Code |
|---|---|
| `RejectCity`, `Begin` | `resolve_city`, then the lookup by name |
| `LockCounter`, `MissCounter` | `SELECT ... FOR UPDATE` with and without a counter row |
| `ReadHighest`, `InsertCounter`, `InsertCounterFails` | `get_max_district_group_seq`, the INSERT of the counter, and its loss to another create |
| `InsertGroup` | the flush with the unique index on `group_id` |
| `Commit`, `Rollback`, `Respond` | `get_db`, and a new call |
| `UpdateGroup`, `DeleteGroup` | PATCH and DELETE, one step each |

`Deployments` says what is stored when the version starts: the counters can be
absent (they are created lazily) or behind the groups (a restored database).
`minted` is a history variable, the numbers committed per district in order; it
is what refines `IdIssuer`, the abstract promise that the numbers of a key only
go up. `IdIssuer` is refined by member numbers as well.

### `Memberships` (with `MembershipList`, `IdIssuer`, `MCMemberships`, `MembershipsProofs`)

A request is a list of calls on members (`todo`): creating a member is one
addition per group, a selection is computed into removals and additions, a
deletion of a group is one removal per member and the DELETE. Per request the
model keeps what its session believes of a member (`loaded`, read at the start
and never refreshed), what the transaction sees and has written (`work`, from
the lock on), and the numbers it drew, in order (`drawn`, which stands for the
locked counters). A call is one action: all it touches it touches under locks held to
the end of the transaction, so nothing can come between its statements. An
assignment reaches the database only where it changes what the session believes
(`SetPtr`, `SetNum`, `SetPrio`, `SetRow`): this is how stale reads do harm. A
selection removes what is no longer wished in the order of the priorities that
are stored (`InOrder`) and adds what is new in the order of the wish (`Appended`).

`Next` also has a waiting request failed by the deadlock detector
(`BreakDeadlock`), and any request aborted at any point (`Abort`).

`MembershipList` is what a client is promised of a member's list of groups: a
change keeps the order of what stays and appends what is new; nothing else
changes. `Memberships` is checked, and proved, to refine it where requests do not
overlap, from any list at the start.

### `IdFormat` (with `MCIdFormat`; its proofs are in `GroupIdsProofs`)

The other models take the pair of key and number for the identifier. This one
has the text, as its length and its decimal value, and asks where two pairs are
written alike, and what `membership_number_matches` then takes for a number of
the group. A number is refused (`Taken`) by the two unique indexes: the one of
visible numbers (`Shown`) and the one of a group's account records (`Listed`),
which only members with a login account have (`users`).

### `PhotoSlots` (with `MCPhotoSlots`, `PhotoSlotsProofs`)

The two photos of a member: the committed `row` and `media` against `objects`,
which no rollback restores. A request loads the row (`seen`), stores an object
(`Store`), flushes what it changed over whatever is committed by then (`Write`,
`Overlaid`, and the row lock `RowFree`), deletes the previous object (`Discard`)
and commits; the order is that of `upload_photo`, `delete_photo`,
`upload_profile_photo` and `delete_member`. `Decide`, `Copy`, `Record` and
`Flush` are `_migrate_one` for each slot of a member: what is stored is kept, a
lost object is found again or copied again, a changed link replaces.
`RecordCollides` is the unique key of `media` when two runs meet. `Settings`
says which storage `get_storage` chooses, and what it can do.

The batches go by pages. `before` has the members of smaller ids, one row each:
`Waiting` are those that are pending, `Page` those of them that a batch of
`Limit` takes from `Offset` on, and `MigrateBatch` may begin only if this member
is `Selected`, that is, in the page that follows. A batch makes of the other
members in its page what `Copies` says, at its commit; `MigrateOthers` is a batch
whose page ends before this member. What stays pending then stays in the way:
a member with one photo only, or with a file that Drive does not hand out
(`Unshared`). `LinkBefore` gives one of them another link.

### `Content` (with `MCContent`, `ContentProofs`)

One item: an event, a tirth, an advertisement, a news item or a payment, each
with the columns that several requests write (`Columns`), a cover, the large
image of an advertisement, and a gallery. Steps as in `PhotoSlots`: `Begin`
loads, then store, `Write`, discard, `Commit`, with `Abort` at any point.
`CountEventImages`/`CountTirthImages` count the gallery before the batch is
stored; each file is checked when its turn comes, and one that is refused
(`Refuse`, a 400) leaves the objects of those before it. The images of the
advertisement form are optional (`SkipImage`). An edit of an event sends the
date, the time, both or the instant (`Timed`). `UploadMedia` and `DeleteMedia` are
the routes that file and delete an object without telling the item: `media` are
the keys that have a row to be deleted by. `used` remembers the images the item
ever showed, `lost` what a rollback or `DELETE /media/{id}` took. `CreateOrder` and
`VerifyPayment` are the two writes of a payment.

### `Registration` (with `MCRegistration`, `RegistrationProofs`)

A run of the import: `StartRun` reads the sheet, `Lock` takes the advisory lock,
`Index` builds the lookups in memory, then every row is passed over
(`PassRow`), updates, inserts or links (`UpdateRow`, `InsertRow`, `LinkRow`) or
fails under its savepoint (`FailRow`, which detaches every object of the session
as `_row_failure` does); `CommitRun` or `AbortRun` ends it. What the run wrote is
in `run[r].users` and `run[r].members` until it commits. `Request` has what else
writes the same rows: registration, the administrators' calls, the groups' calls
that give an account its record (`AddGroupMember`, `AppointAdmin`), and the
profile, which claims a record by its number. `taken` remembers the accounts
whose record an appointment gave to another. A field is kept in a column and in the
bag, and an edit writes the bag back whole, as the code does: `UpdateMember`
(`PATCH /members/{id}`) and `UpdateProfile` (`PUT /profile`) load the record
(`BeginEdit`), and `CommitEdit` writes for each field what was sent: nothing, a
value, or a null, which clears it (`Edits`, `Put`). Both give a number and an
address that are sent to the account of the record too; the first joins a record
without an account to the one of its number or address (`Joined`), or, with a
password, to a new one. One edit is under way at a time: of two that overlap, the
later writes the bag as it loaded it, and reverts the other's.

### `Sessions` (with `MCSessions`, `SessionsProofs`)

One account and everything that opens or shuts it. A request loads the account,
the codes and the token when it begins and writes when it ends; nothing is
locked but the rows it has written. Codes are ended, sent and stored in three
steps (`RequestCode`, `SendCode`, `StoreCode`); a try loads the newest open code
(`VerifyCode`), then counts (`RefuseCode`) or uses it up (`AcceptCode`); a
refresh revokes the token and stores the next (`Refresh`, `RotateToken`); a
decision writes only the columns that differ from those it loaded (`Written`).

### `Access` (with `MCAccess`, `AccessProofs`)

One caller, any of roles, groups and member records, and one row of any kind.
`Scope`, `AdminGroup`, `GroupAccess`, `MemberAccess` and `Managed` are
`core/scope.py`; every list and detail endpoint is an operator (`ListMembers`,
`ListTrustees`, `SearchMembers`, `ListNews`, `OpensEvent`, ...) and every write
an action. There is nothing concurrent in it: what can go wrong is that thirty
endpoints put the same decisions together in as many ways.

### `Profiles` (with `MCProfiles`, `ProfilesProofs`)

`update_profile` and what `get_profile` shows, over one field of each sort: with
twin spellings, in the account, in a family record found by relation and order,
in the professional record, and in the routes that write those records
directly. `Over` lays what is sent over what is stored. One request at a time.

## Runs

| Run | Shows |
|---|---|
| `GroupIds` | three creates, edits and deletions in one district, from a new deployment, one from before the counters and a restored one: `UniqueIds`, `OneHolder` (the counter serialises the creates of a district, its first ones too), `Gapless` (a failed create returns its number), `Issues` (refines `IdIssuer`), `Answered` |
| `Memberships_one` | every kind of request, one at a time: `Consistent` (pointer, priority 1, visible number and account records agree), `OnlyOwnAdded`, `Ordered` (refines `MembershipList`) |
| `Memberships_two` | two requests at once: `NumberOwned` (a number never has two owners), `Issues`, `OthersKept` (a group admin's update removes nothing elsewhere, however stale) |
| `Memberships_answered` | two requests that lock in opposite orders, and deletions: `Answered` |
| `Memberships_stale` | violated: of two concurrent removals the second leaves the pointer to a group the member has left |
| `IdFormat` | widths: `OneMembership` (no text of two groups of one width; none of two members before a group's and a member's sequence are past their widths), `RefusedPastWidths` (nor a 409) |
| `PhotoSlots` | two requests and a failure: `NoDangling`, `ReplacedFirst` (an uploaded photo goes only once its replacement is stored, or for a removal), `Copied` (the migration, run again and again over pages of the pending members, copies a linked photo, unless members that stay pending fill the pages before it) |
| `Content` | five kinds, two requests, five calls, refused files, the media routes and a failure: `Serves` (what a row refers to is stored), `LimitHeld`, `ColumnsAgree`, `ObjectsGo` (no image the item ever showed outlives it) |
| `Registration` | two runs, two people, edits that set and clear, a failure: `NoHalfImport`, `MergedUntilFailure`, `Rerun`, `BlankKept` (only an edit that sends a field clears it or replaces the photo, in the column and in the bag), `NeverRelinked` |
| `Sessions` | two requests, codes, tokens, decisions: `OneLive`, `CodeServes`, `ShutOut` |
| `Access` | every caller against every row: `KeptInside`, `OpensWhatItWrites`, `ListedOpens`, `ListsAgree` |
| `Profiles` | three requests: `ShownAsSent`, `TwinsShownAlike`, `RecordsFollow` |

The violated run is a disagreement between what the repository says and what
its code does; `findings` in `PROJECT.json` quotes the lines. `Consistent` thus
holds only where requests about a member do not overlap.

Several properties say where they stop, because the code stops there:
`NumberOwned` needs groups that have a counter; `LimitHeld`, `ColumnsAgree`,
`ObjectsGo`, `CodeServes` and `BlankKept` exclude requests that overlap, with a
history variable that says so; `MergedUntilFailure` ends at a failed row;
`Rerun` excludes live accounts whose addresses differ only in case (`CaseTwins`);
`NoDangling` and `Serves` exclude what a rollback restored after a deletion, and
what `DELETE /media/{id}` deleted by itself (`lost`); `ObjectsGo` is about images
the item showed (`used`), not about the first files of a refused batch, nor what
`POST /media/upload` filed for it; `Copied` ends where the batches have an offset,
or as many members before this one stay pending as a batch takes (`Starved`). The
section on divergences says what happens beyond.

### Bounds

- `MaxSeq` (no create begins once a counter is there), `MaxNumber`, `MaxPrio`
  (no request that may draw or append begins): numbers only matter by their
  order and equality, and two more than the start show reuse, gaps and
  collisions. Requests already begun may pass the bound.
- Three creates are needed for a loser to meet a winner and a waiter; two
  requests for every pair of stale reads. Three groups are needed for a
  promotion to have a choice.
- `MaxProfiles` is one in `Memberships_one`: members meet only in numbers and in
  deletions, which `Memberships_two` has, about two members of one group or one
  member of two.
- `MaxJoins`, and the sequences of `IdFormat`: the values on both sides of each
  change of width; four memberships are two texts that meet and, for either
  member, one to come from. The proofs have every sequence a column can hold.
- `MaxCalls` and `MaxFaults` bound the requests and the failures of a behaviour.
  In `PhotoSlots` two calls of clients are a change and one that overlaps it,
  beside any number of migrations, and one failure leaves a rollback to be
  healed; a client enters links of one file (`Entered`). One member before this
  one, pages of one member and no offset (`Limit`, `Offset`) are enough for both
  outcomes: it has two photos and gets out of the way with the first batch, or a
  client gives it a link that Drive does not hand out, and it never does. The start has an upload
  that replaced a photo from Drive, a link entered since, and the copy of that
  link's file from earlier: what is kept, what is replaced and what is found
  again are one step away. In `Content` five calls fill a gallery of two images, pass its
  limit, and delete the item, with a second request under way; a call of a media
  route is one of the five. In `Registration` four are two runs, a request before
  and a request between them; an edit, of which the null and the record's account
  have a part, counts two. Clients send one value (`Entered`), the sheets another
  one too. In `Sessions`
  four are two requests for codes and two tries, or a login, a refresh and a
  block between them; codes and attempts are limited to two.
- The sheets of `MCRegistration` have what sets rows apart: a match by number
  and by e-mail, two spellings of one address, an invalid row, a duplicate.
- `MCAccess` has two groups, every label the code resolves and one it does not,
  and events on both sides of both ends of the window. One row is enough: no
  list looks at two rows to decide about one.
- `MaxRows` and `Bodies` of `Profiles`: two sons are two records that can be
  mistaken for one another; a request sends one field, both spellings, or a son
  of each order.

`CHECK_DEADLOCK FALSE` stands where the bounds on calls, or a client that has
nothing more to ask, end a behaviour.

### Fairness

`SF_vars(Create(r))` and `SF_vars(Serve(r))`: a transaction that runs goes on,
and PostgreSQL grants a row lock to its waiters in the order they came, so a
request that can go on again and again does. `WF_vars(BreakDeadlock(r))`: the
detector ends a deadlock (`deadlock_timeout`). `WF_vars(Batch)`, of `PhotoSlots`,
is an assumption about people, not about the code: somebody runs the batch
migration again and again, by the endpoint or by the script, always with the same
`Limit` and `Offset` (as one start of the script does, for at most
`--max-batches`, `scripts/migrate_drive_photos.py:78`). It does not say that a
batch comes to this member: a batch that takes others (`MigrateOthers`) serves it
as well. No fairness is assumed of clients, aborts or the `Respond` that lets a
client call again.

## Proofs

Each component has one module of proofs. All follow one scheme: an invariant
`IInv` (in `Access` the types alone) that holds at first and is kept by every
action, one lemma per action or group of actions, and the theorems from it. The
parameters of a theorem are sets of any size, of requests, members, groups,
accounts, keys and rows, and any bounds on calls, numbers and failures: the
bounds that make TLC end are not what makes a theorem true. What must be said of
the constants is in the `ASSUME` of each module, and TLC evaluates it in the
module's run.

| Module | Theorems |
|---|---|
| `GroupIdsProofs` | `TypeCorrect`, `IdsUnique`, `CountersLocked`, `NoHoles`, `Implements`; of the texts `TextsIdentify`, `RefusalsPastWidths`, `TextsShown` |
| `MembershipsProofs` | `Typed`, `OthersStay`, `Implements`, `NumbersStay`, `SerialConsistent`, `SerialOwnAdded`, `SerialOrdered` |
| `PhotoSlotsProofs` | `UploadsStay`, `StoredBeforeReplaced` |
| `ContentProofs` | `RowsServe`, `LimitKept`, `ColumnsTogether`, `NothingLeft` |
| `RegistrationProofs` | `NothingHalfImported`, `OwnersKept`, `BlanksKeep`, `UpdatesReach`, `SecondRunCreatesNothing` |
| `SessionsProofs` | `Typed`, `ShutAccountsStayOut`, `OneLiveToken`, `CodesServe` |
| `AccessProofs` | `WritesKeptInside`, `WritersRead`, `ListsOpen`, `ListsAreAlike` |
| `ProfilesProofs` | `SentIsShown`, `TwinsAlike`, `RecordsHold` |

`theorems` in `PROJECT.json` names the property each one states.

### Group IDs

`IdsUnique`, `CountersLocked` and `NoHoles` are `[]UniqueIds`, `[]OneHolder` and
`[]Gapless`; `Implements` is `Spec => Issues`, every step being a step of
`IdIssuer` or a stutter. Assumed: a city has one district, there is a name and a
configured city (`Registry`); what is stored at the start has unique IDs and
counters that are numbers or absent (`Stored`). No relation between counters and
stored groups is assumed.

None of these is inductive. `IInv` adds `HeldIsNext` (a held number is the one
after the counter, unless its holder inserts the counter; so what commits next
extends the numbers minted) and `HeldIsFree` (what passed the unique index is
still free at the commit; it needs `OneHolder`, as only another holder of the
district could have taken it). `OneHolder` in turn rests on both ways to a number
waiting for `Locked`.

### The texts

`TextsIdentify`, `RefusalsPastWidths` and `TextsShown` are `[]OneMembership`,
`[]RefusedPastWidths` and `[]TextsOK` of `IdFormat`, for any members, groups and
joins. Assumed: sequences are positive and fit a column of type Integer
(`Widths`). `TextInv` adds `Drawn` (a number begins with the ID of the group it is
a number of, and some group's counter drew it, maybe another group's: a kept one)
and `SharedPast` (the half of `OneMembership` about two members). `SameText` is the
reason: two pairs spelled alike are the same pair, or the group IDs differ in
length, and then the longer one's group and the other one's member are past their
widths. `SameGroup` is why the width is all it takes: of the groups of one width
one at most begins a text, whichever counter drew it.

### Memberships

`IInv` has the locks (a member that is being written is locked by one request,
which has loaded it), `OwnCalls` (what a group admin's request still has to do is
a selection, or is about its own group), `Drawing` (one request at a time draws
for a group, upward, above the counter, and what was minted is at most the
counter) and `OthersKept` itself. `OthersStay` needs `OwnCalls`, since a selection
computes removals that run later; `Implements` is `Drawing`, as a commit appends
what was drawn to what was minted.

`NumbersStay` needs more, of every copy of a number: what a session has loaded or
a transaction has written (`Holds`) was committed before or was drawn by that
request, for one member; and what was committed is at most the counter. So a
number a request draws is new, and one it writes back from a stale load is still
its member's own. The theorem has one hypothesis, `Counted`, about the start:
stored numbers are at most their group's counter and have one owner. It is
needed, because a missing counter is seeded with a count of the members
(`group_id_service.py:400`) and then repeats numbers; it holds of every database
that has only seen this version, and of `Memberships_two`. The other theorems
hold of any start of the right types, but for those of the next paragraphs.
Members and groups are finite (`Parameters`), as the highest number and priority
of a group are looked up.

`SerialConsistent`, `SerialOwnAdded` and `SerialOrdered` are about requests that
follow one another: `Serial` says that at most one is under way at any moment, its
answer included, whoever sends it and about whomever. Without it the first two are
false:
`Memberships_stale` shows it of `Consistent`, and a group admin's request that
loaded the pointer before another request cleared it materialises a membership in
that other group (`member_group_service.py:51`). The inductive invariant is `Agreed`: the records of
every stored member are `Orderly` (which is `Consistent`, with distinct priorities
in addition); what a session believes of a member is what is stored, or what the
request itself has written (`Agrees`); a group is dropped last, after every member
with a row of it has been detached (`DropsLast`), else a pointer would be left to a
group that is gone. Each helper (`SetPtr`, `SetPrio`, `Promote` and so on) has a
lemma that it keeps the session right about the member. The hypothesis says that
the members of the deployment are `Orderly`: a deployment whose records disagree
already is not repaired by most calls. The members of `Memberships_one` are; that
run has one request, hence is serial, and the theorem makes it any number of
requests, members and groups.

`SerialOrdered` is the refinement: every commit of `Memberships` is a step of
`MembershipList`, under a mapping that gives each member the sequence of its rows in
ascending priority (`Listed`; that there is one is `Sorting`, each group's place
being the number of groups up to it). What a commit publishes was written call by
call, so the argument is an invariant on the way there, `Turn`, which `Agreed`
contains: the rest of a request either edits one member, and then what it has written
of that member `Continues` the stored order (what precedes an old group is old and
preceded it), or dissolves one group, and then every member it has written is what
is stored without that group, in the same order (`Sheds`). A call moves the
priorities in one of three ways (`Moves`): not at all, by a row behind all others
(`Gains`), or by a row less, its successor being promoted where it was the first
(`Sheds`). `Continues` survives a gain only where the group is not one the member had
before (`ContinuesGains`): a request that removed a row and added it again would
move it behind the others. `Edits` therefore says that what is still to be added is
new to the stored member, unless it is all the request does; a selection meets this
as it adds only what it has no row of.

### Photos

`UploadsStay` is `[]NoDangling`. A key of an upload belongs to one request until
it commits (`Holds`, `HeldApart`), then to one slot with its row in `media`
(`Recorded`); what is flushed over the row changes another slot's upload to
nothing (`Flushed`); what a request deletes it no longer refers to (`Leaves`).
`StoredBeforeReplaced` is `ReplacedFirst`, from the same invariant. Assumed: keys
of uploads and copies differ (`Parameters`), and an upload that is recorded at
first is stored, once, with its media row (`Stored`).

### Content

`RowsServe` is `[]Serves`, and rests on `OnePlace`: a key is in one slot of the
row or of the rows that requests have loaded, or in the gallery, or with the
request that stored it, and then it has no committed row of `media` yet by which
`DELETE /media/{id}` could take it. The other three have `~overlap` for their precondition
and need what holds meanwhile: the one request at work has loaded the row as it
is, and its batch, once counted, fits (`Sequential`); where nothing failed, every
object that is stored and that the item ever showed is still referred to, and what
a request has deleted is gone (`NoOrphans`, for `NothingLeft`). Assumed: there are dates and times, keys are finite, and the
value for "nothing" is not among the others (`Parameters`, `Absent`).

### Registration

`NothingHalfImported` is an invariant because a run writes an account together
with its record (`Whole`) and what it has found exists (`Found`), also after a
failed row has detached it; `OwnersKept` because the record a run writes keeps
the owner that is stored (`SameOwner`); `BlanksKeep` because a run's copies of a
record have all the fields of the stored one, in the columns and in the bag, and
its photos, while no edit came between (`SparesRow`, `Spares`), and an edit that
nothing overlapped has loaded the bag as it is (`Editing`): what it does not send
is what is stored. One run at a time holds the advisory lock (`OneHolds`).

`UpdatesReach` needs a second invariant, `TracedInv`, relative to the first: the
accounts a run knows exist, so it never takes an update's account for a new one
(`Known`); the results are those of the rows before the next (`AtNext`); a row
reported as an update has its number and address noted, so a later row that means
the same account is a duplicate (`UpdatesNoted`); and a record that is still in
the session has the bag that was written (`InSession`).

`SecondRunCreatesNothing` relates two whole runs, by a third invariant,
`RerunInv`, that has two halves. `Watch` follows a run that nobody disturbs
(`calm`) at its rows (`Track`): what it knows of the numbers and addresses not
yet seen is what its next `Index` would find; the rows it did not pass over as
invalid or repeated are the first of their numbers and addresses (`Listing`); and
each of them is `Quiet`: in the accounts and records as the commit will leave
them, it is of an account that has a record, or it clashes, or its number or
address is taken by an account it cannot have, such as a deleted one. `StillQuiet`
carries this over the commit: since a settled import, the first rows of the sheet
are `Quiet` (`Settles`), and every undisturbed run of that sheet walks these rows
and no others and has created nothing (`Follows`). All of it needs `Alone`, that no
two live accounts share an address but for case: where two do, which of them a
row finds is not determined, and a second run may give a record to the one the
first run did not find.

Assumed: addresses have one lower-case form, sheets are sequences of rows
(`Parameters`, `Sheet`), `None` is no row, sheet, user or record (`Absent`), and
the null of an edit is no number, address or value (`Marked`).

### Sessions

`OneLiveToken` needs that of a login that was not exchanged twice at once the one
request that exchanges a token holds the only one that can be live (`TokenInv`).
`CodesServe` needs, while no requests for codes and no tries of one code overlap
(`crossed`), that all wrong tries are counted, that codes are stored in the order
they were asked for and only the last one is open, and that a try has loaded the
count that is stored (`OrderInv`); and, always, that a code ends with its last try
and is used once (`CodeInv`). `ShutAccountsStayOut` needs that a decision nobody
overlaps sees the account as it is (`ShutInv`). `RecentInv` bounds the codes of an
hour, for the types. Assumed: the requests are finitely many, and an account at
the start has its types and tokens that are logins of their own (`Accounts`).

### Access

Nothing is concurrent, so the types are the invariant. `WritesKeptInside` and
`WritersRead` go through the writes one by one; `ListsOpen` and `ListsAreAlike`
through the lists, for any caller, row and filter. Assumed: what a list may be
asked for has a fixed set of fields, and `None` is not among the groups, labels
and offices (`Parameters`).

### Profiles

`SentIsShown` and `RecordsHold` are inductive with the types and `Paired`: both
spellings of the first son's slot are stored, or neither, without which a value
sent in one spelling could stay hidden behind the other. `TwinsAlike` follows.
Assumed: the special values differ from names and from one another
(`Parameters`).

### What is only model-checked

- `Answered` and `Copied` are liveness properties under fairness, out of the
  prover's reach.

## Divergences no run states

The models have the behaviours below, or exclude them by name. They are where
the repository says, or would lead one to expect, something else; lines are of
`src/app` unless a directory is named.

Group IDs and memberships:
- a counter row that lags behind the stored IDs makes every create answer 409,
  although "the counter row can never hand out a number that is already taken"
  (`services/group_id_service.py:24`, `:341`); with no counter row, first creates
  that overlap lose the INSERT (`:347`) where `tests/test_group_ids.py:365` has
  six of them succeed; two creates of one name both succeed (`groups.py:280`);
- a Group ID from before the counters is issued again if its group is deleted
  before the district's first create (`group_id_service.py:17`);
  `GROUP_SEQUENCE_WIDTH` is 2 where the comment and `tests/test_group_ids.py:346`
  have three digits; the hundredth group's members pass for members of the tenth,
  and once the tenth has a thousand, two members without accounts can carry one
  number in it, although "a member ID belongs to one group membership" (`:41`,
  `:526`);
- a counter of members is seeded with a count (`:400`), which repeats a number
  where somebody had left; a promotion shows the number the promoted membership
  had (`member_group_service.py:5`); a selection that names only groups that are
  gone leaves the member without any (`:199`); a member that joins while its
  group is deleted keeps the number (`group_repository.py:296`); a group admin's
  update can restore a membership elsewhere that was just removed
  (`member_group_service.py:51`, `:191`).

Photos and content:
- the links of both photos are one JSON attribute, so a change of one writes the
  other's back as it was loaded (`member_photo_service.py:176`); the old object
  goes before the commit although the comment there says it must not undo what
  was committed; a removed photo leaves its Drive link, and a later migration
  copies it again; a migrated member whose object vanished is never selected
  again; a run ends for all its members when the storage fails
  (`services/drive_photo_migration.py:366`, whose error nobody catches);
- "keep going until nothing is left" (`scripts/migrate_drive_photos.py:21`, and
  `:114`) stops short: a member with one photo (it has no key for the other slot),
  with a link entered again that was copied before ("already migrated", and the
  Drive link stays) or with a file that is not shared stays pending, so as many of
  them as a batch takes are taken by every batch, and nobody after them ever is
  (`services/drive_photo_migration.py:251`); with `--offset`, members that are
  finished move others to before the offset; a limit above `MAX_LIMIT` never
  reports that there is more (`:283`, `:285`), and the script then stops after a
  batch that migrated nobody;
- `DELETE /media/{id}` leaves the photo slot, the cover or the row of the gallery
  that refers to the object it deletes (`api/v1/media.py:343`), and answers it
  again for a row that is deleted already;
- a batch of images with a file that is no image is refused after the objects of
  those before it were stored (`services/event_image_service.py:99`), where its
  docstring (`:89`) has only the limit checked before anything is written; those
  objects, and what `POST /media/upload` filed for the event or tirth, stay when
  it is deleted, although "the stored objects go with the event"
  (`api/v1/events.py:383`);
- two batches of images can pass the limit together and take the same
  positions; a deletion takes as many images as one may hold;
- of two edits of an event that overlap, one of the date and one of the time, the
  later leaves an instant of neither; an advertisement
  keeps the URL of its first cover, can get images after its deletion, and is
  approved without a look at its group; two verifications of one payment can
  leave it failed with a time of payment; `expires_at` is never looked at.

Registration:
- after a failed row, rows of members indexed before it report "update" and lose
  what goes to the bag and the family (`registration_sync_service.py:1385`; the
  comment at `:1277` has one bad row abort nothing);
- an edit that commits while a run goes on loses what it put into the bag, or
  reverts what the run put there; a null number clears what is displayed and not
  the account's (`profile_service.py:289`, `members.py:462`); e-mails are matched as spelled and indexed in lower case; a deleted account
  still holds its number and address, and its row fails in every run; the lock
  is taken after the sheet is read;
- of two live accounts whose addresses differ only in case, a row finds the one
  the database returns last (`registration_sync_service.py:911`, a query without
  an order): a second import of the same sheet may create or link a record for
  the account the first did not find;
- a profile asked for by an account whose number another account's record
  carries is that other record (`profile_service.py:196`, `:218`): nothing is
  relinked, but an update then edits it;
- the appointment of a group's administrator, at the creation of the group or
  later, does relink such a record, and leaves the other account without one
  (`groups.py:170`, `:559`); `NeverRelinked` and `NoHalfImport` make this one
  exception.

Sessions:
- two refreshes with one token both succeed; tries of a code that overlap lose a
  count, or both log in; requests for codes that overlap leave two codes open
  and can pass the limit of the hour;
- an approval and a rejection that overlap can leave a rejected member with an
  active account; a deleted account keeps refreshing and logging in by code
  (`get_by_id` does not filter); a change of password revokes no token and asks
  for the current password only where it is sent; an imported member that is
  pending logs in by code and not by password; making a rejected member the
  admin of a group approves it.

Access:
- `PATCH /advertisements/{id}` takes any group (`advertisements.py:470`); `PATCH`
  of a seat takes a member of another group, which `POST` refuses;
- a MEMBER without a group searches the whole directory, and one without a
  member record also lists it, although `core/scope.py:33` says they see only
  themselves; news and seats are then filtered by nothing;
- lists of events and tirths do not look at the caller: rows are listed whose
  detail answers 404; private media are listed to members who cannot open them;
  `GET /media?group_id=` looks at no group for a SUPER_ADMIN;
- the deletion of a group leaves its administrators their role, and clears the
  group of their accounts: the scope then falls back on the group their member
  is moved to (`scope.py:113`, `group_repository.py:301`), so they administer a
  group nobody gave them, although `users.py:150` says that a GROUP_ADMIN is not
  left without a group, as it would be locked out, or its scope widen;
- celebrations look at memberships only, where `celebration_service.py:237` says
  the rules match the directory's; the cache of two minutes can serve a member
  that was deleted; the routes of family and professional records look at the
  primary group only and accept deleted members; deleted news and seats are
  listed.

Profiles:
- a second son entered first is taken for the first one, under one of the two
  spellings (`profile_service.py:83`), and a later update renames its record;
  a renamed second son leaves the old record; sent apart, the two spellings go
  one to the profile and one to the family;
- what the routes of family and professional records write stays hidden behind
  `profile_data`; a null name clears no record.

## Not modelled, and the plan

The components without a module, and what is left out of the others, are in
`PROJECT.json`. What is worth adding, in this order:

1. the endpoints that change the role and the group of an account, in `Access`;
2. the recognition of the sheet's headers and the dates of celebrations, as
   operators against reference definitions.

Out of reach or of little use to a model: the geo tables and their import (data),
the schema guard (the catalogue of PostgreSQL), presigned uploads and the
transport of bytes, notifications and translations (calls of other systems), and
the order and the pages of lists.
