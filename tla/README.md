# Task Manager API in TLA+

Specifications of the NestJS/PostgreSQL task manager of this repository: TLA+
modules of its stateful services, TLC configurations that check them on small
instances, and TLAPS proofs of what they keep on instances of any size. Line
numbers refer to the files under `src/src/`; `README.md:n` in a comment of a
module means the program's own README, not this one.

    tlc -workers 2 -config Members_concurrent.cfg MCMembers.tla   # one run
    tlapm MembersProofs.tla                                       # its proofs

## The system

The program is one Node.js process. Handlers run on one thread and give it up
at every `await`; they share a PostgreSQL database through one `pg.Pool`, and
nothing but the database holds state between requests, except the sockets and
rooms of socket.io and the jobs of the email queue. So concurrency is: any
number of requests, each a sequence of awaited queries, in any interleaving.
Almost no query runs in a transaction (`createWorkspace`, `changeOwner` and
part of `acceptInvitation` do), and no service uses a lock, a version column or
a conditional UPDATE: what a handler has read may be stale when it writes.

| component | state | operations | module |
|---|---|---|---|
| refresh tokens (`auth/`) | `refresh_tokens` rows: family, used, revoked_at, token_hash | login, refresh, logout | `RefreshTokens` |
| members (`workspace/member/`, `workspace/guards/`) | `members` rows | guard, add, remove, change role, change owner | `Members` |
| workspaces (`workspace/workspace.service.ts`) | `workspaces` rows | create, update, delete, list | `Members`, `Board`, `Realtime`, `Listing` |
| invitations (`invitations/`) | `invitations` rows, signed links, queued emails | invite, accept, decline | `Invitations` |
| transactions (`database/`) | leased connections, waiting requests | `TransactionService.run`, `pool.query` | `ConnectionPool`, `Members` |
| projects and tasks (`workspace/project/`, `workspace/task/`) | `projects`, `tasks` rows | create, update, delete, list | `Board`, `Listing` |
| realtime gateway (`realtime/`) | sockets, rooms | connect, join, disconnect, emit | `Realtime` |
| file storage (`storage/`) | `files` rows, objects in a bucket | sign, confirm, download | `Storage` |
| email worker (`email/`) | BullMQ jobs | add, process, send | `EmailQueue`, `Mail` |
| listing queries | none | `getWorkspaces`, `getProject`, `getTask` | `Listing` |
| users (`users/`) | `users` rows | register, read | not modelled |
| validation, wiring, access tokens | none | DTO decorators, modules, JWT strategy | not modelled |

How they interact: every workspace route passes `WorkspaceGuard`, which reads
`members`; invitations call `MemberService.addMember`, workspaces too, inside a
transaction; deletions of workspaces and projects cascade in the database;
workspace, project and task services emit events that the gateway sends to the
room of the workspace; the gateway reads `members` when a socket joins; an
invitation hands its email to the queue that the worker empties; the files rows
of a task go with the task, by the database's cascade.

What is hard about each, and what makes it correct:

- *Refresh tokens.* Reuse detection is a read, a bcrypt comparison, a second
  read and a write, with other requests of the family in between. Correct: a
  token is accepted once, a reused token ends its family, a logout does, an
  honest client is never thrown out, and no client holds a token the server
  cannot verify.
- *Members.* Roles are read, then acted on; two transfers may overlap, in
  opposite directions also deadlock; the owner leaves by a transfer and a
  deletion that are not one transaction. Correct: one owner, ownership handed
  over by owners only, ranks respected, removed users stay out.
- *Invitations.* A link signs an address and a workspace, and the row is looked
  up by them; accepting writes two tables over two connections. Correct: one
  membership per invitation, of the workspace of the link, and an answer that
  is not changed.
- *Connections.* A transaction that asks for a second connection can exhaust
  the pool. Correct: leases are returned on every path, and requests end.
- *Projects and tasks.* Tenants are kept apart by a SELECT before a write by
  id; events follow the write at some distance; what a request is working on may
  go with its project or its workspace in between. Correct: no request touches
  another workspace's rows, tasks have projects and projects workspaces, and the
  room is told what rows contain and what is gone.
- *Storage.* The client writes the object, the service looks at it and writes
  the row afterwards, in three systems without a transaction; the client may
  confirm twice, upload again, or never, and the task may go at any point.
  Correct: a row has its object and its task and tells the truth about both, an
  id once answered stays the file's id, a download link leads somewhere.
- *Email.* A process may die with a job in its hands, before or after the email
  has left; an answer of the provider may be lost. Correct: every job ends, an
  email is lost for a reason only, and doubled by a death only.
- *Lists.* A page is a query of its own, counted by OFFSET, while rows come, go
  and change. Correct: an undisturbed walk shows every row once, in order; an
  insertion hides nothing, a deletion repeats nothing.
- *Realtime.* Membership is read before the room is entered and never again.
  Correct: outsiders hear nothing, members hear what was committed.

`PROJECT.json` lists the hazards at their lines with the properties meant for
them.

## Modules

Each module models a component with one process per request in flight
(`Requests`); `pc[r]` names the query the request performs next, and each
action is what happens from one `await` to the next, early returns and
exceptions (`Finish`) included. Guards of the routes are part of `Arrive`,
`Invite` and so on. `Fail(r)` is a query that rejects or a process that stops,
anywhere: the request is gone, and what it had committed stays. Refusals that
happen before anything is read or written are left out, since they change
nothing. Operators marked "Mutant" are not part of a specification: they are
the plausible mistakes that each property has been seen to catch.

**`RefreshTokens`** — `rows`, `familyOf`, `used`, `revoked`, `hashed` are the
table; a boolean column is the set of ids for which it holds. A family is a
login (`randomUUID`). `issued` are the tokens clients may present: any of them,
any number of times, so lost answers and replays are included. `Login`,
`Refresh`, `Logout` begin requests; `GetTokenRow`, `CheckRevoked`,
`RevokeTokenFamily` and `MarkRefreshTokenAsUsed` are the four awaits of
`validateRefreshToken`; `ReserveTokenRow`, `SetTokenHash`, `SetCookie` those of
`createRefreshToken` and the controller; `Expire` is time. `isRevokedToken`
looks at `rows[0]` of an unordered SELECT, so `ReadsRevoked` and
`ReadsNotRevoked` may both hold of a family.

**`Members`** — one workspace, since every query names it. `role` is committed;
`writes[r]` is what the transaction of `r` has written and not committed (read
committed), and a write to a row another transaction holds waits. `Deadlocked`
and `AbortVictim` are PostgreSQL's deadlock detection. `Arrive` is the guard
with the branches of `removeMember`, `updateRole` and `deleteWorkspace`; then
one action per query of them and of `changeOwner`.

**`Invitations`** — an id is a row and the link made for it. `Matches` is
`getHashToken`; the bcrypt comparison is left out, because bcrypt reads 72
bytes, which do not reach the part in which two links for one address differ.
`AddMember` commits at once and `MarkAccepted` is the UPDATE with the COMMIT:
that is what passing no client to `addMember` does. A link may be followed as
soon as `EnqueueEmail` has queued its email, which is the earliest it can be in
anybody's hands; what becomes of the email is in `EmailQueue`.

**`ConnectionPool`** — only who holds and who waits for a connection.
`Accepting` are the requests that run `acceptInvitation`. The pool serves the
head of its queue and sets no timeout.

**`Board`** — projects and tasks as items, and the deletion of the workspaces
they are in. `Find` is the SELECT of the route's row, `Insert`, `Update`,
`Delete` write by id, `Emit` tells the room. `createProject` inserts and
`deleteWorkspace` deletes without a `Find`; the foreign keys refuse the one and
cascade the other. `told[w]` are the events the room of `w` was sent: as in the
code, one of a creation or an update says the kind of row and what RETURNING
gave of it, and no id. `text` stands for all columns but `assigned_to`. Members
come, go and change roles at any moment (`GetMemberRole` answers any role of a
workspace that is there); how they do is in `Members`.

**`Realtime`** — sockets and rooms. A join is two steps, `HandleJoinWorkspace`
(membership seen) and `EnterRoom`; a writer writes, then `Emit`s. A workspace
is `"inserted"` until its COMMIT, which follows the event, and `"aborted"` when
that fails.

**`Storage`** — a key is a task and a file id. `bucket` is what lies under a
key, `rowId` and `rowOf` the files row with its id and its metadata; objects
differ in what HEAD tells of them, and of the `Incomplete` ones it does not tell
enough. `CreateUploadUrl` and `SignUpload`, then `ConfirmUpload`, `HeadObject`,
`InsertFile` (with its ON CONFLICT), `SelectExisting` and `Answer`, then `GetFile`
and `SignDownload` are the awaits of the three operations. `Put` and `Expire` are
what a client does with a link and what time does to it; `DeleteTask` takes the
rows along and leaves the objects. `answers`, `seen` and `rewritten` are
histories: ids answered, keys HEAD has found something under, and those of them
uploaded to again.

**`EmailQueue`** — a job from `Add` (`emailQueue.add` with its options) through
`DelayOver`, `Take`, `SendOk` or `SendFails`, and `Complete`. `sendEmail` catches
what the provider throws, so `SendFails` returns as `SendOk` does, with or
without the email having left. A worker `Crash`es with a job in its hands, is
`Restart`ed, and BullMQ finds the job `Stalled`. What BullMQ does is external.

**`Listing`** — the table behind one list, and a client that walks through it
with one query. `GetTask`, `GetProject` and `GetWorkspaces` are the WHERE of the
three services, `Ordered` their ORDER BY, in which rows of one key come in any
order, another one each time; `Page` is LIMIT and OFFSET. `Insert`, `Edit` and
`Delete` are all other requests, users who join or leave a workspace included.

**`Roster`, `Sessions`, `Mail`** — abstract specifications. `Roster` is membership
without requests, transactions or locks: who may appear, leave, be given a role,
and hand ownership on to one other. `Sessions` is a login session without
queries: a chain of tokens, of which one at a time is worth something and the
next is made when the one before is spent; a spent one presented again revokes
them all, a logout ends them all, and neither is taken back. A session that is
contested is given up, and nothing is said of it any more. `RefreshTokens`
implements it (`ImplementsSessions`; `Standing`, `Current` and `Made` are the
mapping). `Mail` is email without a queue: what was asked
for may arrive. `Members` implements `Roster` (`ImplementsRoster`).
`EmailQueue` implements `Mail` (`ImplementsMail`): to who waits for an email, the
queue and the deaths of its workers are an email that arrives at some time after
it was asked for, or never.

The modules overlap where components meet: `Members` has `AddMember` for what
invitations do, `Invitations` has `RemoveMember` and `DeleteWorkspace`, `Board`
any role for a member and the deletion of a workspace, `Storage` has `DeleteTask`
for every deletion that takes a task along, `Realtime` has the writers. Each takes
of the others the changes that its own state can see, with no condition on when
they come, so what one module shows does not rest on what the others restrict.

`MC*` modules add the symmetry of the instance, `MCListing` its rows and queries.

### Conditional promises

Several promises of the documentation do not hold of the code when requests
overlap or fail at the wrong moment. Rather than drop the concurrency, the
modules record in history variables when that has happened, and state the
promise for the rest, while everything else goes on interleaving and failing:

| history | set when | promise for the others |
|---|---|---|
| `RefreshTokens.contested` | two requests worked on the family at one time | `UncontestedSingleUse`, `WholeFamilyRevoked`, `LogoutEndsFamily`, `ImplementsSessions` |
| `Members.shared` | the request was not alone | `LoneRemovalRespectsRank`, `LoneOwnerReplaced` |
| `Members.crossed` | two transfers were under way at one time | `UncrossedOneOwner` |
| `Invitations.contested` | two requests answered the invitation at one time | `OneMemberPerInvitation`, `DecisionIsFinal` |
| `Invitations.interrupted` | an accept of it failed between its two writes | `UninterruptedAcceptIsAtomic`, `OneMemberPerInvitation` |
| `Storage.rewritten` | the client uploaded again after HEAD had looked | `RowTellsObject` |
| `EmailQueue.stalls` | counts the deaths under a job | `MailsPerRun` |
| `Listing.changes`, `Listing.tied` | rows changed during the walk; two rows had one sort key | all of `Listing` |
| `Board.unsaid` | a request failed between its write and its event; what it had to tell | `NothingUnsaid` |

No action's guard reads a history variable; `EmailQueue.stalls` is BullMQ's own
counter and is one of its guards.

## Runs

All with TLC, breadth first, the passing ones complete. Sets of ids, users and so on are model
values; permuting them is a symmetry (ids are only compared). Symmetry is not
used where a liveness property is checked.

| run | instance | states | checks |
|---|---|---|---|
| `RefreshTokens_concurrent` | 3 tokens, 2 families, 2 requests | 3.3 M | `OncePerRequest`, `RevokedOnlyForReuse`, `IssuedIsVerifiable`, `UncontestedSingleUse`, `WholeFamilyRevoked`, `LogoutEndsFamily`, `RevocationIsFinal`, `LogoutIsFinal` |
| `Members_concurrent` | 3 users, 2 requests | 454 k | `UncrossedOneOwner`, `LoneRemovalRespectsRank`, `LoneOwnerReplaced`, `ImplementsRoster` |
| `Members_answered` | 2 users, 2 requests, fair | 150 k | `Answered` |
| `Invitations_concurrent` | 2 ids, 2 users, 2 workspaces, 1 address, 2 requests | 579 k | `AcceptedWasJoined`, `UninterruptedAcceptIsAtomic`, `OneMemberPerInvitation`, `JoinMatchesLink`, `DecisionIsFinal` |
| `ConnectionPool_fair` | 3 connections, 4 requests, 2 of them accepting, fair | 2.8 k | `LeasesFit`, `NeverStarved`, `Answered` |
| `Board_concurrent` | 2 workspaces, 1 project, 1 task, 2 texts, 2 requests | 6.4 M | `NoOrphans`, `NothingUnsaid`, `DeletionsAreTrue`, `StaysInWorkspace` |
| `Realtime_rooms` | 2 users, 2 workspaces, 2 sockets, 1 writer | 1.5 M | `HeardByInsiders`, `HeardAreCommitted` |
| `Storage_concurrent` | 2 tasks, 2 files, 3 objects, 2 requests | 2.1 M | `RowTellsObject`, `NoFileOutlivesTask`, `ConfirmsAgree`, `ConfirmationLasts` |
| `EmailQueue_worker` | 3 jobs, 2 processes, 1 stall, fair | 297 k | `MailsPerRun`, `LossHasCause`, `Settled`, `ImplementsMail` |
| `Listing_walks` | 3 lists, 3 rows, pages of 1, 9 queries | 1.9 M | `WalkExact`, `InsertionsNeverHide`, `DeletionsNeverRepeat` |
| `RefreshTokens_double_use` | as above, 1 family | | `SingleUse` violated |
| `ConnectionPool_exhausted` | 2 connections, 2 accepting requests of 3, fair | | `Answered` violated |

Some properties are proved and not run: `TypeOK` wherever there are proofs;
`DeletedIsEmpty`, `OwnershipGivenByOwners` and `RemovedStaysOut`, of which
`ImplementsRoster` says the same and more; `FiledIsStored` and `LinkFindsObject`,
which the others of `Storage` imply as long as nothing deletes an object; and
`ImplementsSessions`, which makes the longest run longer by half: TLC agreed with it on the instance of `RefreshTokens_concurrent` before it was proved, and
found it violated when the revocation check (`ReadsNotRevoked`) is dropped.

Why the bounds do. *Tokens*: a reuse needs one token rotated into a second one,
and its race a third; two families show that one does not touch the other.
*Members*: a transfer needs owner, heir and bystander, a crossing two requests;
opposite transfers and their deadlock need two users only, which is the bound
of the liveness run. *Invitations*: a link confused with another one needs two
rows for one address in two workspaces, a double answer two requests and two
users. *Board*: a row outside the route's workspace needs two workspaces, an
orphan a project and a task, an event that tells of an earlier text two texts;
with two requests anything may go while the other is between its steps. *Connections*: three
with two accepting requests is the first instance in which a nested lease waits
behind plain ones. *Storage*: a double
confirmation and a deletion between its steps need two requests and one task; a
second task and a second file show that keys do not touch each other, two
objects that a row may tell of the wrong one, the third that HEAD may not tell
enough. *Email*: a job that dies once and is put back, dies again and is given up
needs one stall; a second process runs another job meanwhile, and the third job
waits. *Lists*: with pages of one row a walk of three rows has four pages, so
that an insertion or a deletion falls before, at and behind the OFFSET; three
values of the clock make three rows of different keys and rows of the same one.
The only caps are the sizes of these sets and, in `Listing`, `MaxRows`, `MaxNow`
and `MaxChanges` (one edit or deletion in all). Ids are handed out once (SERIAL), so a run ends when they are spent,
which is why some configurations switch the deadlock check off; a workspace
that is deleted, or a pool that is exhausted, also stops for good.

The proofs below remove the bounds for all safety properties of the passing runs.

### Fairness

`Members!FairSpec` has strong fairness on `Proceed(r)`: a handler that can run
its next query does, and PostgreSQL serves the waiters of a row in turn, so a
query that is possible again and again is not passed over for ever. Nothing is
assumed of clients (`Arrive`), failures or the rest of the program.
`ConnectionPool!FairPoolSpec` has weak fairness on `Grant`, the pool's queue, and on
`Proceed(r)`: queries end. Weak is enough: nothing but `Grant` itself takes a
free connection or the head of the queue, and nothing but `Proceed(r)` moves a
request that holds one. `EmailQueue!FairSpec` has weak fairness on what BullMQ
does by itself (`DelayOver`, `Stalled`), on the awaits of a worker (`Take`,
`Send`, `Complete`), and on `Restart`, since the host starts the container again
(README.md:87). Nothing makes a process die, so `Settled` does not rest on
crashes, and none is excluded: a job outlives at most `MaxStalls` of them.
Nothing makes the provider accept.

## Proofs

Eight modules of theorems, for every value of the constants under the named
assumptions: sentinels are no elements of the sets they stand beside, kinds of
items are disjoint, the pool is finite, stalls are counted in Nat; for `Listing`
that pages have a row or more, titles are numbers (in the order of the texts),
and queries are those the DTOs let through. TLC checks the same assumptions.

Each component has an `IInv`, proved inductive with one lemma per action or per
part, and a theorem `Invariance == Spec => []IInv`; properties are consequences.

- `RefreshTokensProofs`. `OncePerRequest` is not inductive: one needs that the
  `used` column of the rows still there tells what was accepted
  (`AcceptedIsMarked`), and that what a request has read of it stays true of
  its own past (`UnusedAsRead`). `NoSpuriousRevocation` rests on the converse
  (`MarkedWasAccepted`, `UsedAsRead`): the request that revokes has read a mark
  that only an acceptance leaves. `FinalRevocation` and `FinalLogout` are
  action properties that follow from `IInv` alone. `UncontestedPromises`, from
  which `AcceptedOnce`, `RevokedAsAWhole` and `EndedByLogout` follow, uses a
  second invariant, `FamilyInv`: in a family nobody contests, what
  `validateRefreshToken` read and checked still holds when it acts
  (`ReadsHold`, `ChecksHold`), and one row at most is unused, none when the next
  is reserved (`ChainHolds`). With it `RefreshTokensImplementSessions` maps every
  query to a step of one session or to a stutter: `markRefreshTokenAsUsed` spends
  the token that is worth something, the INSERT opens or renews the session.
- `MembersProofs`. `RowsHeld`: a row with an uncommitted write exists and one
  transaction holds it, hence `NoResurrection` and `NoOrphans`.
  `OwnersRecorded`: whoever is transferring has been an owner. `LoneReads`: a
  request alone decides on the roles as they are. `TransferAlone`: until two
  transfers cross, at most one is under way, its actor is the only owner, and
  its writes make the heir one and the actor none. `SuccessionCoversDepartures`
  adds that a request alone finds the heir it has read still there.
  `MembersImplementRoster` maps every action to a step of `Roster` or to a
  stutter: only a COMMIT moves ownership, and `WritesFit` (a transaction has
  written to its heir's row and its actor's and to no third one) makes it a
  `HandOver`.
- `InvitationsProofs`. `StoredFit`: an id keeps its workspace and its row goes
  with that workspace only. `StillPending`: what a request alone with its
  invitation found pending is pending when it writes; with `AnswersNoted` this
  gives `OneMember` and `DecisionsAreFinal`.
- `QueuesProofs`, of `ConnectionPool` and of `EmailQueue`, the two components in
  which work waits in a queue. `HeldFit` and `HeldAlone` are the leases of the
  pool; `EnoughConnections` is a pigeonhole argument from the assumption
  `Cardinality(Accepting) < Cardinality(Connections)`. Of the emails, `Owned`: an
  active job is in the hands of at most one worker, and of none but an active
  one; `Counted`: a job that waits has had one email per stall at most, one in
  its last run has room for one more. Hence `OneMailPerRun`, `LossesHaveCauses`,
  and `QueueImplementsMail`, in which a second email for one job is a stutter.
- `BoardProofs`. `Located`: what the SELECT found stays true, since a row never
  changes its parent and an id is never used again: hence `WorkspacesIsolated`,
  although writes are by id, and `RowsHaveParents`. The same makes what a room is
  told lasting: `RoomsAreTold` and `DeletionsAreSo` come from `RoomInv`, in which
  `Truthful` adds that a deletion about to be told has been done.
- `RealtimeProofs`. `RoomsOfMembers` and `JoiningMembers`: who is in a room or
  on his way in has been a member; `MembersOfReal` and `OneCreator`: nobody has
  been one of a workspace that is not committed. With them every room of such a
  workspace is empty when its event goes out (`RoomContents`), hence
  `NothingUncommittedHeard`.
- `StorageProofs`. Nothing here is inductive alone. `Looked`: what a request past
  HEAD remembers was in the bucket under its key, and differs from what is there
  only if the key was rewritten since; `FoundFits`: the id it is about to answer
  is the row's as long as the task exists. With them the row, the object and the
  answer stay tied across the three systems.
- `ListingProofs`. What ties the pages of a walk together, though each is cut
  from another permutation of another set of rows, is a count: how many rows of
  the list come before the key of a given row (`Ahead`). `Position` says what
  the count tells of a row's place in any order the database may choose,
  `UntiedPosition` that it settles the place when no keys are the same;
  `MoreAhead` and `FewerAhead` say how an insertion and a deletion move it.
  `WalkFits`: the pages read so far were full, so that what was shown ends where
  the next OFFSET begins. `ReadSoFar`: without disturbance, what was shown is a
  beginning of an order of the list the walk began with, hence `WalksExact`.
  `StillAhead`: under insertions a row not yet shown has at least OFFSET rows
  before it, hence `InsertionsHideNothing`. `LeftBehind`: under deletions a row
  already shown has fewer, hence `DeletionsRepeatNothing`. TLC checked `IInv` on
  the instance of `Listing_walks`.

Only model-checked: the three liveness properties (`Answered`, twice, and
`Settled`), because temporal reasoning under fairness is beyond the prover.

## Where code and documents differ

Shown by a run: a token used twice (`auth/refresh-token.service.ts:153`) and a
pool exhausted by accepts (`invitations/invitation.service.ts:244`). Each finding in
`PROJECT.json` quotes the promise.

Met while modelling, visible in the models (several are why a promise above is
conditional) and without a run of their own. TLC has found those marked (T) in
the models when the promise was stated without its condition:

- (T) `auth/refresh-token.service.ts:158`: a refresh past its checks inserts a live
  row after the family was revoked (README.md:100).
- (T) `auth/refresh-token.service.ts:103`: a refresh under way revives a family that
  was logged out, since no row counts as not revoked (README.md:179).
- (T) `workspace/member/member.service.ts:83`: two overlapping transfers to two
  heirs both commit; there are two owners (README.md:198); the reason for `crossed`.
- (T) `workspace/member/member.service.ts:88`: an owner who names himself as the new
  owner is promoted, then demoted, and nobody owns the workspace (README.md:198);
  the reason why `HandOver` of `Roster` lets its `up` be empty.
- (T) `workspace/member/member.service.ts:129`: an owner leaves, and a role change
  that the guard had let him make comes after the transfer and turns his heir into
  a member; the workspace has no owner (README.md:106). The same when the heir
  leaves between the check of his row and its UPDATE (line 77).
- (T) `invitations/invitation.service.ts:244`: `addMember` is called without the
  transaction's client and commits on its own; when the UPDATE after it fails
  the membership stays and the invitation reads pending (README.md:33, "executes
  atomic multi-table transactions"); the reason for `interrupted`.
- (T) `email/email.service.ts:43`: `sendEmail` catches and logs what the provider
  throws, so no job ever fails and the "automatic retries (up to 5 attempts)" of
  README.md:119 never happen; one refusal loses the email (`LossHasCause`).
- (T) `realtime/realtime.gateway.ts:85`: membership is looked at when a socket joins
  and never again, so a removed member's socket goes on hearing the room
  (README.md:115, "without broadcast leaks"); the reason why `HeardByInsiders`
  speaks of those who have ever been members.
- (T) `workspace/workspace.service.ts:52`: `workspace.created` is emitted before the
  COMMIT, to a room nobody can be in: no client ever receives an event that
  README.md:268 lists. `HeardAreCommitted` says no more than that nobody hears of
  a workspace that may never be committed.
- (T) `workspace/task/task.service.ts:182`, `workspace/project/project.service.ts:60`:
  an update whose row was deleted meanwhile, by itself or with its project or
  workspace, is announced and answered without a row (README.md:263, 266).
- (T) `workspace/task/task.service.ts:203`: the rows of a deleted task's files go, the
  objects stay in the bucket, and links given before go on working
  (README.md:221).
- `storage/storage.service.ts:56`: an upload link works for 900 seconds, also after
  the upload was confirmed; what is in the row may then not be what is stored.
- `workspace/workspace.dto.ts:55`: `priority` and `title` are let through for lists
  of workspaces and projects, which have no column for them
  (`workspace.service.ts:108`, `project.service.ts:103`): ORDER BY undefined, a 500
  where README.md:188 and 208 promise sorting. `Listing` lets such a walk fail.
- `workspace/workspace.dto.ts:39-52`: `status`, `assignedTo` and `priority` are let
  through for the same lists and have no effect.
- `workspace/task/task.service.ts:128`: no update of a task writes `updated_at`, and
  `trigger_set_timestamp` (schema.sql:156) is attached to no table; sorting tasks
  by `updatedAt` sorts them by creation.
- `workspace/task/task.service.ts:238`: `priority` is a text, so its order is high,
  low, medium, urgent.
- `workspace/member/member.service.ts:129`: an admin's removal may remove
  somebody who was made an admin after the roles were read (line 115).
- `invitations/invitation.service.ts:84`: `existInvitation` selects by address
  alone, so an old invitation of any workspace and any status refuses a new
  one, against the messages of lines 118 ("in this workspace") and 225
  ("Please request a new invitation").
- `invitations/invitation.service.ts:138`: a failure after the row was stored (line
  121) and before the job was added leaves an invitation without an email, and
  for the same reason an address that cannot be invited again.
- `workspace/project/project.service.ts:29` and 58, `workspace/task/task.service.ts:68`
  and 178: the events of creations and updates carry what RETURNING gives, without
  an id: a client is not told which row changed (README.md:262-266 promise a
  TaskObject or a ProjectObject). `told` of `Board` holds them as they are.
- `workspace/task/task.service.ts:182`: two updates may be announced in the
  order opposite to their commits (README.md:115).
- `workspace/task/task.service.ts:106`: the assignee is read under a name the
  row does not have, so a member is refused his own task (README.md:220).
- `workspace/task/task.service.ts:122`: a user removed after the guard ran has
  no role, and no role passes the check meant for members (README.md:220).

## Not modelled

- Validation decorators, dependency injection, bootstrap, access tokens:
  stateless, or library configuration.
- Registration: one SELECT and one INSERT, and the unique constraint of
  `users.email` decides every race, at the price of a 500 where a 409 was meant
  (`users/user.service.ts:38`).
- Rows outside the path's ids in `Listing`: the JOINs leave none.
- The contents of passwords, names, texts and messages, and cryptography: a
  token is the row it was made for, and signatures are taken as unforgeable.
- Several server processes: requests of two processes interleave as those of
  one do, except for rooms, which each process has for itself.

## Plan

Done in this order, the riskiest protocols first: `RefreshTokens`, `Members`,
`Invitations`, `ConnectionPool`, `Board`, `Realtime`, each with its runs, then
its proofs; then `Roster` and its refinement, `Storage`, `EmailQueue` with `Mail`,
`Listing`, the proofs of `Listing`, and `Sessions` with its refinement. What could follow:

1. `BoardRoom`: `Board` composed with `Realtime`, so that an event has content
   and listeners; what a member's client shows.
2. `Registration`, and an `OFFSET`-free listing to compare `Listing` with.
