# TLA+ models of jira-be

jira-be is a NestJS backend for issue tracking: REST controllers over services
over PostgreSQL (Prisma), an S3 bucket, cron jobs, and in-process caches. Files
are named without their directory where the component makes it clear
(`sprints.service.ts` is `src/modules/sprints/sprints.service.ts`).

The hard part of such a backend is not one handler. It is two handlers, or a
handler and a cron job, that each await several database calls and act on what
they read before the last await. The models take the calls apart exactly there.

## 1. Inventory

| Component | State it keeps | Operations | Hard behaviour | What makes it correct |
|---|---|---|---|---|
| Boards, sprints, issues (`sprints`, `boards`, `issues`) | `Sprint.status`, `BoardColumn`, an issue's column, sprint, parent, epic and `completedAt` | sprint create, start, complete, delete; column add, update, delete; issue create, update, move, delete; bulk update and delete; charts, lists, dashboard | scope checks before the write; probe and update in one READ COMMITTED transaction; deletes that cascade as SET NULL | references stay inside the project; a sprint only moves forward; one ACTIVE sprint per board; no card without a column; charts add up |
| Resumable uploads (`attachments-large`) | `UploadSession` row, chunk objects, assembled files, `Attachment` | init, chunk, status, complete, abort, abortBeacon, sweep | retries, expiry, crash between bucket and database, background deletes | one request assembles; one attachment; its file is lost only with a commit whose answer was lost; no session is stuck |
| Membership (`workspaces`, `invite-links`, `projects`) | member rows, roles, `ownerId`, `leadId`, `usedCount` | transfer, add, update, remove, join, create and revoke links, project create and delete, project members | check-then-act on roles; row locks on `usedCount`; cascades and RESTRICT keys | an owner exists; links are not overused; the lead keeps LEAD |
| Account deletion (`gdpr`) | `User.deletionRequestedAt` | request, cancel, nightly hard delete, export | cancel racing the cron; foreign keys that refuse the delete | an account is deleted after the grace period and only then |
| Authentication (`auth`) | `User`, `OAuthAccount`, `RefreshToken`, one-time codes, the cookies of a browser | register, verify, login, OAuth, unlink, refresh, change password, revoke | rotation against revoke-all; register against OAuth; unlink twice; answers of tabs out of order | a revoked session stays revoked; a live session stays in the browser |
| Personal access tokens, share links (`personal-access-tokens`, `issues-share`) | hashed tokens, `views` | create, look up, touch, revoke | writes nobody waits for, after a revoke or a crash | uses are counted or known to be missed |
| Users, administration (`users`) | account and role flags | role and status changes, delete, lists, statistics | two admins who act on each other; a deactivated admin with a token; parallel reads | an administrator remains |
| Cache tags (`core/cache`) | cached values, the key list of each tag | wrap, set, invalidateTag, and every handler that invalidates | loader overlapping an invalidation; lost update of a tag's list | a stale view has a reason that is known |
| Settings, feature flags, throttle overrides, logging configuration | a row each and an in-process copy with a time to live | read-through, update, hourly refresh | load overlapping a change | a change arrives |
| Mail (`core/mail`) | the transporter it keeps | send | a save while a mail is under way | a mail uses the account it read |
| Webhooks | `Webhook`, `WebhookDelivery` rows | register, rotate, dispatch, test, retry, attempts with delays | timeout of a delivered attempt; restart between attempts | every delivery ends with the status its answer calls for |
| Recurring issues | `nextRunAt`, spawned issues | cron (once a year), edit | spawn and advance in different calls; a limit on what one run takes | one issue per due time; a rule moves on |
| Notifications, digest | rows, preferences | notify, mark, digest cron | mail sent, then marked | nothing is settled unseen, little is repeated |
| Push subscriptions | a row per endpoint | subscribe, unsubscribe, deliver, prune | pruning by rows read before | a working endpoint stays with who asked last |
| Keys and slugs (`core/utils/slug.util.ts`, `issues`) | project key, slug, issue counter | create with a retry loop | unique index as the arbiter; a board in a call of its own | numbers are not given twice |
| Comments, watchers, custom fields | rows under an issue or project | create, delete, values with an issue | work on another connection while the transaction is open | replies and values belong to their issue |
| Single-shot attachments | files and rows | upload, delete | no transaction spans bucket and database | a listed file exists |
| Quotas | a setting, what is there | read, count, insert | the insert comes later | overshot by overlap only |
| Logs, audit, mail log | a buffer, append-only rows | enqueue, flush, nightly deletion, lists | flush overlapping entries, shutdown | written once, or lost for a reason |
| Worklogs, labels, links, stars; templates, saved filters | rows under an issue, project or user | CRUD | single steps | access checks |
| Events | an in-process subject | emit, subscribe | none kept | filtering per subscriber |
| Health, debug, public pages | none | read-outs | none | none |
| HTTP layer | none | controllers, DTOs, guards, filters, interceptors | a guard's answer is used later | who is let in |

How they meet: handlers share tables and nothing else, so one handler sees
another only through committed rows. Foreign keys carry the rest: CASCADE from
workspace to members, links and projects and from project to board, sprints and
issues; SET NULL from sprint, column and parent issue to issues; RESTRICT from a
user to the projects they lead and the links, issues and comments they made.
Handlers emit events and invalidate caches after the commit, fire-and-forget.
Crons (uploads, recurring issues, digest, deletion, log retention) run in the
same process with no lock between instances.

## 2. What is modelled

| Module | Models | Checked in |
|---|---|---|
| `Board` | sprints, columns and issues of a few projects | `MCBoard` |
| `UploadSession`, `UploadWatched` | one upload session over its life; the same with a witness of overtaking | `MCUploadSession`, `Jobs` |
| `Membership` | one workspace, its links, one project, the accounts | `MCMembership` |
| `Accounts`, `AccountsWatched` | the accounts of one email address: users, codes, OAuth links, refresh tokens, deletion; the same with a witness | `MCAccounts` |
| `AtomicBoard` | the board as callers think of it: every operation checks and writes at once | (abstract) |
| `LoginSessions` | what the refresh tokens promise: a session is open, then ended for ever | (abstract) |
| `Deliveries` | what a webhook delivery promises: bounded, final, and shown as it ended | (abstract) |
| `Assembly` | what the completion of an upload promises: one assembler at a time, one attachment, nothing to assemble after it | (abstract) |
| `Webhooks`, `Recurring`, `Copies` | deliveries and their senders; rules and the job; flags, overrides and logging kept in memory | `Jobs` |
| `Jobs` | the composition of the jobs, and what is fair | `MCJobs` |
| `Notifications`, `Files`, `Quotas`, `Naming`, `Admins`, `Caches`, `MailSettings`, `Creation`, `Browser`, `Journal`, `Tokens`, `Pushes`, `Paging`, `Statistics`, `SprintCharts` | the services of the lower rows of the inventory, below | `Services` |
| `Services` | their composition | `MCServices` |
| `*_proofs` (8) | theorems about them | |

All have the same shape. A handler is a sequence of awaited calls. `req[r]`
(`upload[r]`, `claim[c]`, `sender[s]`, ...) is a request in flight: `pc` says
which call is next and the other fields hold what the handler has read and
still uses. `XxxRead` (or `Probe`, `Count`, `Begin`) is the part up to the first
write, with the code's checks as guards: a check that fails throws, so the
action is simply not enabled and the request never enters. `XxxWrite` is the
write. A write that the database refuses (missing row, unique index, foreign
key) is a disjunct that changes nothing and ends the request. Two kinds of reads
are merged with the next one: those of columns that never change, and those no
later step of the same handler uses. `ROLLBACK` and the lock wait of READ
COMMITTED appear where they decide something: `CompleteFinish` of `Board` (rows
updated in an open transaction are locked, `Unlocked`) and `JoinCommit` of
`Membership` (the increment takes the row lock and sees the last committed
`usedCount`).

### Board

`sprint[s]`, `column[c]` are the status and category of a row, or UNUSED before
and GONE after its life; ids are never reused. `issue[i]` has the columns that
refer to other rows and whether `completedAt` is set.

| Action | Code |
|---|---|
| `CreateSprint`, `StartProbe`/`StartClaim`, `CompleteRead`/`CompleteSweep`/`CompleteFinish`, `DeleteSprintRead`/`Unassign`/`Drop` | `SprintsService.create`, `start`, `complete`, `delete` |
| `AddColumn`, `UpdateColumn`, `DeleteColumnCount`/`Drop` | `BoardsService.addColumn`, `updateColumn`, `deleteColumn` |
| `CreateIssueRead`/`Insert`, `UpdateIssueRead`/`Write`, `MoveRead`/`Write`, `DeleteIssue` | `IssuesService.create`, `update`, `move`, `delete` |
| `BulkUpdateRead`/`Write`, `BulkDeleteRead`/`Write` | `IssuesBulkService` |

Positions are abstracted: any column of the board may be its first. Columns
start with the board's defaults (`DefaultCategory`), as `createDefaultBoard`
leaves them. Assignees, labels, titles and activity rows refer to nothing the
properties are about. `AtomicBoard` has the same tables and no requests: one
action per operation (two for `delete` of a sprint, which has no transaction), in
which no write is refused and no foreign key clears anything.

`Current(rec)` says that what a request has read still holds: it could read the same
again. `Overtaken(pcs)` is a step of another request that takes that away from one
which waits at a call in `pcs`; `Apart(pcs)` is the specification without such steps,
in which requests overlap in every other way, and `ApartSpec` is that for all calls.

### UploadSession

`status`, `received` are the row (`received[c]` counts how often chunk `c` stands
in `receivedChunks`); `stored`, `files` are the bucket; `cleanup`, `undo` are
`void`-ed background deletes. A store call may fail after it took effect
(`StoreChunk`), a stored chunk may be reported missing (`Download`), a
background delete may do nothing (`CleanUp`, `UndoFile`, `SweepClean`). The
transaction of `Persist` commits, is rolled back, or commits while its answer is lost:
the catch block then deletes the file of a recorded attachment and writes FAILED
(`attachments-large.service.ts:443-447`), which `unanswered` counts. `Restart`
loses every request and background call and keeps row and bucket; `CallFails`
and `ForgetFails` are a refused database call at a point where the code has no
handler, or has one. `complete()` on a row it cannot claim only reads.
`Assembly` is the abstract view: `worker` is who holds the claim, `claimable`
whether the row could be claimed, `made` the attachments; chunks, the bucket and
every read are stutters, an abort, an expiry or the sweep is its `Withdraw`.
`Overtaken` is a step that takes from another request what this one had read
(`StillSo`); `UploadWatched` remembers in `overtaken` that one happened.

### Membership

`role[u]` and `member[u]` are the roles of the workspace and project member rows,
or NULL. Handlers that address a member row by its *id* keep the row in
`req[r].who`; `ForgetRows` takes a deleted row away from them, because a user who
comes back gets another id. `DeleteAccount` is `user.delete` as the nightly job
and the administrator call it, with the RESTRICT keys that the model's tables
have. `Manager` names the requests that transfer ownership, change or remove
members, so that a run can say how many of those overlap.

### Accounts

`user[u]` is a row with its codes and OAuth accounts, `session[t]` a
`RefreshToken` row that also remembers which login its rotations started with.
The email is unique, so one row lives at a time, and a re-registration replaces
it by one with another id; a handler that still holds the old id then finds
nothing to update.

| Action | Code |
|---|---|
| `RegisterRead`/`Drop`/`Create`, `CreateCode`, `VerifyRead`/`Write`, `ForgotRead`/`Delete`, `ResetRead`/`Write` | `AuthService.register`, `verifyEmail`, `forgotPassword`, `resetPassword` |
| `Login`, `OAuthRead`/`Create`/`Link`, `CreateSession`, `UnlinkRead`/`Write` | `login`, `loginWithOAuth`, `generateTokens`, `unlinkOAuthAccount` |
| `RefreshRead`/`Commit`, `EndSession`, `RevokeRead`/`Write`, `ChangePasswordRead`/`Write` | `refresh`, `logout`, `revokeMySession`, `revokeOtherSessions`, `revokeAllMySessions`, `changePassword`, `UsersService.revokeSession`, `revokeAllSessions` |
| `Activate`, `Deactivate`/`DeactivateWipe`, `RemoveUser` | `UsersService.setActive`, `remove` |
| `RequestDeletion`, `CancelDeletion`, `HardDeleteRead`/`HardDelete` | `GdprService` |

A password or a code that is right is the caller's choice. When a token expires
and when the grace period is over are left open: any row may be found expired, any
requested deletion due. A `deleteMany` is two steps, the rows it sees and their
deletion, because a rotation that commits between the two inserts a row that the
statement does not see. `Overtaken` names three overlaps: a
verification between `register()`'s read and its delete, a cancellation between the
nightly job's, an unlink between the count and the delete of another.
`AccountsWatched` remembers in `overtaken` that one of them happened.
`LoginSessions` is the abstract view: `open` and `ended` are computed
from the rows, a rotation is a stutter.

### The jobs

- `Webhooks`. A `sender` is one call of `runDelivery`: `scheduled` by
  `setImmediate` with the hook's row as it was (`Dispatch`, `TestSend`,
  `RetryDelivery`), then `InsertRow`, attempts that arrive or not and are
  answered or not (`AttemptArrives`, `Answer`, `NoAnswer`), waits (`Wake`) and
  the last write (`Finish`, `FinishFails`). `SendersLost` is a restart.
  `arrived` and `heard` are what the subscriber received and what came back.
- `Recurring`. The clock runs in hours and starts again with every year
  (`HoursPerYear`). The cron of the code goes off at midnight on the first of January
  (`recurring-issues.service.ts:140-145` calls it disabled): `HourPasses` sets `tick`
  then, and a process that was down has no `JobRead`. The job takes at most `JobTake`
  of the due rules (200 in the code), whichever the query returns. Then for each it
  spawns (`JobSpawn`) and writes `nextRunAt` (`JobAdvance`), with its catch block
  (`JobRescue`), while managers create, change and delete rules. `slots` counts what
  was made and which advances were lost since the last write.
- `Copies`. `version[k]` counts the changes of a table, `copy[k]` is the version
  in memory. Flags and overrides are loaded on demand and dropped after a
  change; the logging configuration is refreshed after a change and every hour.
  `ChangeElsewhere` is a change through another process.

### The services

- `Notifications`: one user's rows, preferences and the digest
  (`DigestStart`/`Read`/`Preferences`/`Mail`/`Mark`).
- `Files`: an upload puts every file, then commits the rows; a commit may fail,
  or succeed and be reported as failed (`CommitUnanswered`).
- `Quotas`: read, count and insert for one of the three limits.
- `Naming`: candidates of `slug.util.ts` with the unique indexes, the counter in
  `CreateIssue`, the default board after the project.
- `Admins`: `Authorise` is the two guards. A session is let in by `JwtStrategy`,
  which asks that the account is active; a personal access token by
  `PatService.resolveBearerToken`, which does not; `RolesGuard` asks both for the role.
  `WritePerson` is the write that looks at the caller no more; `inactiveWrote`
  remembers that the caller was a deactivated admin with a token.
- `Caches`: `wrap()` call by call against the store, its tag lists, and every
  handler of the repository that changes what a cached view shows, with the tags
  it invalidates (`Changes`).
- `MailSettings`: the save of `app.email` with the password it keeps; the mail
  that reads the setting, then its status, then takes the kept transporter.
- `Creation`: the open transaction of `IssuesService.create` with the field
  values, the watches and the comments beside it.
- `Browser`: the cookies of one browser; `SendCall` carries those of the moment,
  `Receive` applies an answer, in any order, or `LoseCall`.
- `Journal`: the buffer of `LogsService`, batches in flight, the audit and mail
  logs, shutdown.
- `Tokens`, `Pushes`: rows with writes that nobody waits for.
- `Paging`: lists by cursor and by offset while rows come and go.
- `Statistics`: answers put together from reads of different states, each with its
  order and its limit (`FirstOf`: the newest `take` rows; `TopOf`: the routes with most
  rows), as the dashboard, the export, the counts and the metrics have them.
- `SprintCharts`: burndown and cumulative flow, with dates.

### The compositions

The components of `Jobs`, and those of `Services`, share no variable: what they
would share (that an issue exists, that an account is verified) is a
nondeterministic step of each of them. Interleaving them would multiply their
states and add no behaviour, so `part` says which one moves and a run visits the
sum of their states. That the composition is still each of its components is
proved: `JobsImplement`, `ServicesImplement` (section 4).

## 3. Runs

| Run | Question | Bounds | Result |
|---|---|---|---|
| `Board_scope` | Can overlapping checks, writes and deletes leave a reference out of scope, or take a sprint's status back? | 2 requests, 2 projects: 1 sprint, 1 column (added later) and 1 issue of one, 2 issues of the other | holds, 2,719,664 states |
| `Board_apart` | Is every handler atomic, and the board right, when no request overtakes another? | 2 requests, 2 sprints, 2 columns of which one is added later, 1 issue, 3 categories | holds, 1,603,628 states |
| `Board_two_starts` | Does `start()` keep one ACTIVE sprint under overlap? | 2 requests, 2 sprints | violated |
| `Upload_safety` | One assembler, one attachment, its file kept, progress honest? | 2 requests, 2 chunks, 2 claims, 2 faults | holds, 605,900 states |
| `Upload_final` | Is COMPLETED final? | 1 request, 1 claim | violated |
| `Membership_concurrent` | Owner, link uses and lead under overlap | 3 users, 1 link of 1 use, 2 requests, 1 of them a manager | holds, 2,003,269 states |
| `Membership_two_managers` | Does a workspace always have an owner? | the same, 2 managers | violated |
| `Accounts_sessions` | Do rotation and revocation give one session per login? Can an unverified account be entered? Who loses an account, or the way in? | 2 users, 2 providers, 3 tokens, 2 requests of any kind | holds, 1,956,715 states |
| `Accounts_due` | Is an account deleted whose owner asked for it? | 1 user, 1 request | violated |
| `Jobs_fair` | Does what goes on without a request come to its end, and right? | below | holds, 28,611 states |
| `Services` | Do overlapping requests of the smaller services keep what they promise? | below | holds, 1,620,624 states |
| `Create_fields` | Are valid custom field values stored with a new issue? | 1 issue, 1 field, 1 request | violated |

`CHECK_DEADLOCK FALSE` is set in every run: ids are finite and never reused, so
a model that has deleted everything (or a session that reached its end) really has
nothing more to do.

Why the bounds are enough. *Board*: two requests are what a stale read needs,
one to hold it and one to make it stale. In `Board_scope` the sprint, the column and
one issue are of one project and two issues of another, so that every scope check has
something to accept (the sprint and the column for the one issue, a parent and an epic
for the two) and something to refuse; issues that have both a sprint and a relative
are left to the theorem. *UploadSession*: two chunks give a first and a last, two
claims a completion after a retry, two faults a commit whose answer is lost and a
crash after it. *Membership*: three users are
an owner, a target and a bystander that takes the target's place; the link has a
single use so that two joins compete for it. `MaxMembers = 0` means no quota,
the laxest case. *Accounts*: two user ids are a row and its re-registration;
three tokens are one that two requests refresh at once and what each would get;
two providers give an unlink that is allowed.

*Jobs_fair*: for uploads 1 request, 2 chunks, 2 claims and no fault; 1 hook,
2 delivery rows (one and its manual retry), 1 sender, 3 attempts (a first, a
middle and a last one; the code makes 4), secrets 0 and 1; 1 rule of a period of one
day, days of two hours and years of two days, so that a rule becomes due before the
turn of the year, at it and after it, and one lapse of the job; flags (dropped) and
logging (refreshed), 2 loads at once, 2 changes. What one rule does, the others do
not touch: more of them matter to the limit only.

*Services*, with the states of each part:

| Part | States | Bounds |
|---|---|---|
| `Notifications` | 116,872 | 2 rows, 2 types, a digest of 1, 1 run that ends before its marks |
| `Files` | 17,786 | 3 files, 2 requests: one upload of two files beside another |
| `Quotas` | 59,285 | 2 requests of sizes 1 and 2, at most 4 in use |
| `Naming` | 21,195 | 2 projects or workspaces of the same name, 2 owners, 2 issues, 2 retries |
| `Admins` | 20,360 | 2 people, 2 requests |
| `Caches` | 33,021 | 1 view with its tags, 2 fillings, 2 writers, a time to live of 2 |
| `MailSettings` | 79,620 | 2 passwords, 1 save, 2 mails |
| `Creation` | 217,995 | 2 issues, 1 user, 1 field, 2 comments, 1 request |
| `Browser` | 183,764 | 2 tabs, 2 rows (a login and its rotation), no cookie domain |
| `Journal` | 5,520 | 3 entries, a flush at 2, a cap of 3 |
| `Tokens` | 62,464 | 1 token of each kind, 2 visits, 2 uses, 2 dates |
| `Pushes` | 29,556 | 2 users, 2 endpoints, 2 rows, 2 deliveries |
| `Paging` | 27,725 | 3 rows, pages of 1, a hard cap of 2, rows of one timestamp |
| `Statistics` | 379,731 | 2 log rows, each with a route of its own, 1 issue, lists of 1, days of 2 ticks, a window of 2 days |
| `SprintCharts` | 365,730 | 2 cards, one with points, 2 days of two halves |

Two of a kind are what every overlap here needs: one that holds what it read and
one that makes it stale. Where order matters there are three rows (a page
boundary has a row before, at and after it). The theorems of section 4 lift the
bounds for every safety property.

Bounds by name: `MaxClaims` (completions that get to assemble), `MaxFaults`
(crashes, refused calls and lost answers), `RetryDelays`, `LastSecret`, `RoomFor` (no more
senders than row ids), `HoursPerDay`, `DaysPerYear`, `JobTake`, `MaxLate` (a rule
due for longer counts as due that long), `MaxLapses` (lost advances in a row),
`MaxVersion`, `DigestSize`, `MaxUnmarked`, `MaxUse`, `MaxRetry`, `RandomTails`,
`Ttl`, `FlushThreshold`, `MaxBuffer`, `MaxUses`, `LastDate`, `Take`,
`LastStamp`, `HardCap`, `TicksPerDay`, `Window`, `LastTick`, `ListTake`,
`FlowDays`, `LastHalf`, and the sizes of the constant sets. Nothing else is cut.

### The properties

- `ReferencesInScope`: every reference of a live issue names a live row of its
  project. The scope check is made before the transaction; what protects the
  write is that a row never changes project and that the database checks the
  foreign key again. `RequestsInScope` says that what is remembered in between
  is still of the right project.
- `SprintLifecycle`: PLANNING, ACTIVE, COMPLETED, never back, though
  `complete()` writes COMPLETED blindly on an earlier read.
- `HandlersAtomic`: `Board` implements `AtomicBoard` while no request overtakes
  another. Requests do overlap: what a call read is true when it writes unless another
  has made it false, so this says that overlapping alone never hurts, that nothing is
  refused for a change in between, and that a dropped sprint or column is empty.
- `CardsKeepAColumn`, `CompletionSweepsBoard`, `StampMatchesColumn`, and
  `OneActivePerBoard`: what the count of `deleteColumn()`, the category filter of
  `complete()`, the lookup of `move()` and the probe of `start()` are for. Each is
  proved for all overlaps but the one that takes away what that handler has read, and
  the first three are checked in `Board_apart`. With that overlap none of the four
  holds; for `start()` the code's own comment claims otherwise (section 5).
- `AssemblyPromised`, `FilesKept`: `UploadSession` implements `Assembly`. The claim
  in `complete()` is a mutex in spite of abort, expiry and sweep, which write the
  status without looking; only who holds the claim hands it back, and not once the
  attachment is made; no retry, abort or crash makes a second one, and with one
  there is nothing left to assemble. An undo takes the file of an attachment only
  when the commit that made it was reported as failed.
- `HonestUnlessOvertaken`: what the client is told is in the bucket, and counted once,
  until a request takes from another what this one had read: two uploads of one chunk
  at a time count it twice.
- `UploadsSettle`: a completion ends, and an expired session is swept.
- `HasOwner`, `UsesBounded`, `LeadKeepsRole`: section 1's correctness of
  membership. The lead is safe under any overlap because no operation takes LEAD
  away and `leadId` is never changed; the owner is not, because `transfer` does
  change `ownerId`.
- `OneTokenPerLogin`, `SessionsPromised`: of two refreshes of one token one wins,
  because the second's delete throws and takes its new row with it; no handler
  opens what has ended.
- `OnlyVerified`: every path to a session or a provider link, over stale reads and
  re-registrations, finds the email verified.
- `NobodyLockedOut`: `register()` deletes only unverified accounts, the nightly job
  only those whose owner asked, and an unlink leaves a way to sign in, whatever
  overlaps, until one of the three overlaps of `Overtaken` happens. After each of them
  the account, or the last way into it, is lost (section 5).
- `DeliveriesPromised`: `Webhooks` implements `Deliveries`. A delivery says SUCCESS
  only when a 2xx came back and FAILED only when none did; after a final answer, or
  once the row says how it ended, nothing is sent again (repeats come from lost
  answers and from other statuses); what a restart or a failed write gave up is not
  taken up again. `DeliveryEnds`: it ends, unless its sender was lost with the
  process.
- `OncePerSlot`, `RuleMovesOn`: a rule makes one issue between two writes of its
  next run, one more for every lapse only; and a rule that is due moves on, be its
  template malformed or its assignee gone. That is at the turn of some year, not within
  the hour as the class comment has it (section 5), and it is checked for no more rules
  than one run takes: of more than `JobTake` due rules one can be passed over each time.
- `ChangesArrive`: a copy in memory that is older than its table does not stay so.
- `DigestKept`: no notification is marked that no mail carried, and none is
  mailed twice but after a run that ended between its mail and its marks. It is a
  property of what a run does: the digest's cron, too, is set to once a year
  (`digest.service.ts:31`), and `DigestStart` may happen at any time or never.
- `RowsHaveFiles`: a listed attachment has its file, unless a commit was reported
  as failed after it had taken effect.
- `RowsFit`: an issue number is not given twice in a project, a project has its
  board unless its creation was cut short, and a reply answers a comment of its
  own issue.
- `QuotaOvershoot`: a request that was let through ends above the limit it read
  by no more than what others inserted between its count and its insert.
- `AdminRemains`: somebody with the role of an admin remains, unless a request was
  written after its caller had been demoted, or the last one deleted his own account;
  and one who is active does, unless a deactivated admin used a token.
- `StaleExplained`: a cached view that no longer shows the database is about to be
  dropped, or one of four reasons holds.
- `MailUsesWhatItRead`: a mail logs in to the account of its own reading, whatever
  transporter the others left behind.
- `SessionsReachable`: a live session of this browser is in its cookies or in an
  answer under way, however refreshes, logins and logouts of tabs overlap, but for
  the exceptions the comment names.
- `EntriesAccounted`: a log entry is waiting, written once, or known to be lost.
- `SubscriptionsKept`: a working push endpoint has one row, of who asked last, and
  no delivery prunes it by what it read before.
- `ReadsAddUp`: a list read to its end shows each row that was there all the
  while; each read of an answer returns what was due to it, but for what its limit cuts
  off, and that is what its order puts behind the rows shown; a chart has a bucket for
  every row; burndown and flow agree with the board.

Several of these name their exceptions (`overlapped`, `overtaken`, `inactiveWrote`,
`excused`, `strayed`, `unanswered`, `missed`, `lapses`). Those are ghost variables that
only the steps which cause the exception set, so the property says that there is no
other cause; the exceptions that the code's comments deny are in section 5.

### Fairness

`FairSpec` of `Accounts`: a handler that has started ends, well or with an error
(weak fairness), and the deletion of a due account starts again and again (strong
fairness, because the cron fires every night and requests come and go in
between). Under it `DueDeleted` fails only because of the foreign keys: without
`Author` TLC finds no violation.

`JobsFairSpec` of `Jobs`, each condition for the behaviours that move its part:

- Uploads: weak fairness of each request's own next step (a handler that started
  runs on; the event loop does not starve it), of the half-hourly sweep, of each
  background delete and of the passing of time. No client is assumed to call
  anything, and there are no faults in that run: a process that dies while
  COMPLETING leaves a row that nothing takes up again (section 5), so
  `CompletionEnds` is false with faults, and is not claimed.
- Webhooks: weak fairness of a sender's next step. An attempt without an answer is
  ended by `AbortSignal.timeout`, a wait by its timer. `SendersLost` may happen,
  and is the exception of `DeliveryEnds`.
- Recurring: time passes (weak), and of the years that turn the process is up at
  some again and again, so that the job starts then (strong fairness of `JobRead`,
  enabled for the one hour only). It goes on (weak), and its writes may fail now and
  then, but not every time (strong fairness of `JobAdvance` and `JobRescue`): a database
  that refuses for ever leaves the rule due. `RuleMovesOn` says no more than that: the
  code's schedule is once a year, and this is what it comes to. The number of lapses in
  a row is bounded by `MaxLapses`.
- Copies: a load of a table that is tried again and again succeeds at some time
  (strong), the hourly refresh runs, and a time to live runs out (weak).

No other run needs fairness: their properties are safety properties.

## 4. Proofs

Every safety invariant and every action property that a passing run checks is a
theorem, proved by TLAPS for every value of the constants that satisfies the
named assumptions (one `XxxAssumption` per module; TLC evaluates them in the
runs). They ask that ids are disjoint from NULL and from each other's markers,
that functions have the right domain, that numbers are natural, that a set
something is chosen from is not empty, and, where rows are counted (`Paging`,
`SprintCharts`), that there are finitely many.

| Proofs of | Theorem | States |
|---|---|---|
| `Board_proofs`: `Board` | `TypeCorrect`, `BoardInvHolds`, `ScopeSafety`, `LifecycleSafety` | `[]TypeOK`, `[]BoardInv`, `[]ReferencesInScope`, `SprintLifecycle` |
| | `OneActiveUnlessOvertaken`, `ColumnsUnlessOvertaken`, `SweepUnlessOvertaken`, `StampUnlessOvertaken` | `[]OneActivePerBoard`, `CardsKeepAColumn`, `CompletionSweepsBoard`, `StampMatchesColumn`, for any number of overlapping requests, as long as none takes away what the handler in question has read (`Apart({"startClaim"})` and so on) |
| | `AtomicUnlessOvertaken` | `Board` implements `AtomicBoard`, as long as no request overtakes another (`ApartSpec`) |
| | `OverlapBoundsActive` | a board never has more ACTIVE sprints than there are requests in flight, if these are finitely many |
| `Accounts_proofs`: `Accounts` | `TypeCorrect`, `TokensPerLogin`, `VerifiedOnly` | `[]TypeOK`, `[]OneTokenPerLogin`, `[]OnlyVerified` |
| | `LockedOutByOvertaking` | `NobodyLockedOut` of `AccountsWatched`: the three overlaps are the only causes |
| | `SessionsImplemented` | `Accounts` implements `LoginSessions` |
| `Membership_proofs`: `Membership` | `TypeCorrect`, `UsesSafety`, `LeadSafety` | `[]TypeOK`, `[]UsesBounded`, `[]LeadKeepsRole` |
| | `OwnerLostByStaleRow` | `[]HasOwner` for any number of them, as long as ownership never passes to a member whose row another is about to write |
| `Jobs_proofs`: `UploadSession`, `Webhooks`, `Recurring`, `Copies`, `Jobs` | `UploadTypeCorrect`, `UploadInvHolds`, `CompleterMutex`, `AtMostOneAttachment`, `AssemblySafety`, `AttachmentKeepsFile` | `[]TypeOK`, `[]UploadInv`, `[]OneCompleter`, `[]OneAttachment`, `[]OneAssembly`, `[]FilesKept` |
| | `AssemblyImplemented` | `UploadSession` implements `Assembly` |
| | `CompletedLostByLate`, `CompletingIsHeld` | COMPLETED is lost only in an expired session, after a fault, or by an abort of another request that read before; COMPLETING has a holder unless there was a fault |
| | `HonestProgress` | `[]HonestUnlessOvertaken` of `UploadWatched` |
| | `DeliveriesImplemented` | `Webhooks` implements `Deliveries` |
| | `AnswersSafety`, `PendingSafety` | the status is what was answered, and no attempt follows a final answer; a PENDING row has a sender, or lost it |
| | `SlotsSafety` | `[]OncePerSlot` |
| | `JobsTyped`, `JobsImplement` | `[]JobsTypeOK`; `JobsSpec` implements its four components |
| `Records_proofs`: `Files`, `Naming`, `Creation`, `Journal` | `RowsSafety`, `OrphansSafety` | `[]RowsHaveFiles`; a stored file without a row has an owner or a failure behind it |
| | `JournalSafety` | `[]EntriesAccounted` |
| | `CreationStoresNothing` | when the transaction of a creation commits, no field of the issue has a value, in any schedule |
| `Clients_proofs`: `Browser`, `Caches` | `SessionsSafety`, `StaleSafety` | `[]SessionsReachable`, `[]StaleExplained` |
| | `LoginsImplemented` | `Browser` implements `LoginSessions`, as `Accounts` does |
| `Reads_proofs`: `Paging`, `Statistics`, `SprintCharts` | `PagesSafety`, `AnswersAddUp`, `ChartsSafety` | the three parts of `ReadsAddUp` |
| `Services_proofs`: `Admins`, `MailSettings`, `Quotas`, `Tokens`, `Pushes`, `Notifications`, `Services` | `AdminSafety`, `MailSafety`, `QuotaSafety`, `DigestSafety` | `[]AdminRemains`, `[]MailUsesWhatItRead`, `QuotaOvershoot`, `[]DigestKept`, each of its component |
| | `ServicesImplement`, `ServicesTyped` | `ServicesSpec` implements its fifteen components; `[]ServicesTypeOK` |
| | `SubscriptionsSafety`, `CountsSafety`, `RowsFitSafety`, `ReadsSafety` | `[]SubscriptionsKept`, `[]UsesCounted` (uses of tokens and share links are counted or known to be missed), `[]RowsFit`, `[]ReadsAddUp`, in the composition |

The inductive invariants, which TLC checked on the constants of the runs first:

- `BoardInv == TypeOK /\ ReferencesInScope /\ RequestsInScope /\ CompletingStarted`.
  `ReferencesInScope` alone is not inductive: a write uses references read in an
  earlier step, so the invariant must say they are of the issue's project
  (`RequestsInScope`). `CompletingStarted` is the same for the status that
  `complete()` read. Each is proved per service: one lemma per group of actions
  (`SprintStep`, `ColumnStep`, `IssueStep`, `BulkStep`), one step per action.
- `RowsInv` and `ReadsHold(pcs)` for the theorems about overtaking. The second says of
  every request at a call in `pcs` that what it read still holds (`Current`): a read
  establishes it, another request's step keeps it or overtakes, and the second steps of
  `complete()` and of `delete()` carry it on. `RowsInv` needs `DeadRowsEmpty` (an issue
  that is not there refers to nothing), or a column could seem used by a row that
  never was, and `Reserved` (two creations do not work for one row). For
  `AtomicUnlessOvertaken` a write that finds its read still true maps to one action of
  `AtomicBoard`; reads change no table (`SameTables`).
- `UploadInv`: type, the mutex, and an account of files against attachments, undo
  calls, the request about to persist and the commits whose answer was lost
  (`FilesInv`). `HonestInv` rests on it: beside the row's own honesty (`RowHonest`: a
  chunk counted once, the received ones in the bucket until the session ends, a sweep
  only after expiry) it says what a request that writes later may still rely on
  (`StillSo`), which a retry must set back. It holds until `overtaken`.
- `AssemblyImplemented` rests on `UploadInv`: the holder of the claim (`Holder`) is
  the request between its claim and its last write, so every step is sorted by what
  it does to the set of holders, to the status and to the attachments. `FinalInv`,
  for `CompletedLostByLate`, says what a request that is to write over a status it
  no longer looks at must have read: only an abort, which read before the completion,
  or a completion of its own, writes over COMPLETED before the session expires.
- `StartsInv` for `OverlapBoundsActive`: the ACTIVE sprints of a project and the
  requests about to make one more together never exceed the requests (`Room`). Each
  probe that passes saw no ACTIVE sprint, and each start ends the request that made
  it, so a further one needs a further request that had probed before.
- `ValuesInv` for `CreationStoresNothing`: a value needs the row of its issue, as
  others see it (`ValuesNeedIssue`), and one transaction only makes an issue
  (`MakersHold`); so nothing can have been stored when it commits.
- `LeadInv`, `OwnerInv`: no request holds the id of the lead's, or the owner's,
  member row. `LeadInv` also needs that one request at most creates the project.
  Only `TransferWrite` can break `OwnerInv`: another manager could hold the id of
  the row that becomes the owner's. `TransferApart` says that none does.
- `AccountInv`: a login is never the id of an unused row (else a new login could
  join an old one's tokens); a live session has a live, verified user; a request
  on its way to insert a session or a link holds a user that is verified as long
  as it exists. Nearly every step is `Quiet` (users are kept, made or dropped;
  sessions only end; no request gains such a claim), and `Quiet` preserves the
  invariant and closes sessions of the abstract specification; the two inserting
  steps are proved by themselves.
- `ApartInv` of `Accounts`: an account that a request is to delete is still
  unverified (`register()`) or still to be deleted (the cron), one that is to be
  unlinked keeps another way in, or the account has gone (`StillSo`). Steps of most
  kinds are `Steady`: they remove an account at once, or leave its verification,
  password, providers and request for deletion at least as they were; of the others
  only those that `Overtaken` names can take `StillSo` from another request.
- `FilesInv`: the files of an upload are its own until their rows are inserted
  (`UploadsApart`), and a file about to be removed has no row unless its
  transaction was wrongly taken for failed (`RemovalsApart`). Without the first, a
  clean-up of one upload could take a file that another is about to list.
- `NamingInv`: no issue has a number above its project's counter
  (`NumbersCounted`), so the next number is new also beside deleted issues, and two
  creations do not work for one row (`CreatesApart`). `CreationInv`: the parent that a
  request found is a comment of the request's issue for as long as it is there
  (`ParentsOfIssue`).
- `JournalInv`: two flushes never hold the same entry (`BatchesApart`), or one of
  them could write what the other has written.
- `BrowserInv`: a login has one live row (`OneLiveRow`), and the row in an answer on
  its way is in no request, no other answer and not in the cookies, so nobody rotates
  it before it arrives (`AnswersNewest`).
- `CachesInv`: a fresh entry is in the list of each of its tags or about to be
  (`KeysListed`), a list that was read names every such entry that is still there
  (`KeysRead`), so an invalidation at work drops what is stale (`StaleLeaves`).
- `PagingInv`: what is not older than the row of the cursor was shown, once
  (`CursorBetween`), and by offset a row with fewer newer ones than the pages before
  hold was shown (`PagesCounted`). The order of a list is a bijection onto `1 .. n` and
  a count a cardinality, so both rest on lemmas about finite sets.
- `StatisticsInv`: rows that were there when the answer began and still are
  (`SteadyLive`) are in each read already made, or were cut off by its limit behind
  the rows it returned (`CutOff`). `ChartsInv`: stamps lie
  in the past, and a completed sprint nobody changed since holds nothing that is open
  or was done later. A sum of points is a cardinality times `Points`, so the charts
  need no induction.
- `WebhooksInv`: two senders never work on one row (`SendersApart`); what a sender
  is about to do agrees with what was heard (`SenderKnows`: one that is to post or
  to sleep heard nothing final, one that is to write has the code it heard); an
  unused row has no history. Steps that keep a sender's row go through the lemma
  `SameRow`, which asks only about the sender that moved. For the refinement a
  delivery is being sent while a sender has its row: scheduling, waiting and waking
  stutter, a removed hook hides rows, a restart gives up whatever was being sent.
- `RecurringInv`: before the job comes to a rule it has made an issue for every
  lapse at most; it may be one ahead in the rule at hand, and in a rule deleted
  under it, to which it does not come back (`SlotsUsed`).
- `AdminsInv`: a request never targets its caller (`NotHimself`), so whoever is still
  an admin at the write remains one, and an active one if he was active when he was let
  in; that he is no longer sets `overlapped`. `MailInv`: the key of a transporter names
  the account it logs in to. `QuotasInv`: what is there and what an admitted request will
  add are within the limit it read and what came since. `TokensInv`, `PushesInv`: a
  trace is pending or counted for each use; an endpoint has one row at most, and a
  delivery prunes only what was given up. `NotificationsInv`: what the digest holds
  is settled only through its own mail.

Only model-checked: liveness (`UploadsSettle`, `DeliveryEnds`, `RuleMovesOn`,
`ChangesArrive`, `DueDeleted`), and the runs that end in a violation. Liveness
under fairness rests on ENABLED, which the provers do not reach, as they do not
reach induction over data and RECURSIVE operators; no module has one of those.
What the theorems about overtaking leave open is not a gap of the proof: each names
the overlap that it excludes, and with that overlap the property fails (sections 3
and 5). How far the violated ones fail is proved: `OverlapBoundsActive` and
`OneActiveUnlessOvertaken` for `Board_two_starts`, `CompletedLostByLate` for
`Upload_final`, `OwnerLostByStaleRow` for `Membership_two_managers`,
`CreationStoresNothing` for `Create_fields`. The safety half of
`UploadsSettle`, that a row is not left COMPLETING by anything but a fault, is
`CompletingIsHeld`.

## 5. Where the code and its comments disagree

1. `Board_two_starts`. `sprints.service.ts:193-198` says that the transaction
   keeps two concurrent `start` calls from both passing the probe. It runs at
   READ COMMITTED, and the conditional update guards the row it starts, not its
   siblings: both commit, and the board has two ACTIVE sprints. There can be as many
   as requests overlap, and no more (`OverlapBoundsActive`).
2. `Upload_final`. `prisma/upload-session.prisma:24-25` promises that a duplicate
   complete returns the original. `getActiveSession` looks at the expiry before
   the status and writes ABORTED over COMPLETED. Without expiry and faults only an
   abort that read before the completion does so (`CompletedLostByLate`).
3. `Membership_two_managers`. `workspaces.service.ts:214-216` says that a
   workspace never observes zero OWNERs. A removal that read its target before
   the target became the owner deletes the owner's row.
   Such a removal, or change of role, is the only cause (`OwnerLostByStaleRow`).
4. `Accounts_due`. `gdpr.service.ts:225-227` says that cascades drop every
   dependent row. Eight foreign keys to `User` have no `onDelete` and restrict, so
   the account of anyone who reported an issue, wrote a comment or logged work is
   never deleted.
5. `Create_fields`. `custom-fields.service.ts:24-26` and
   `issues.service.ts:169-171` say that the values of custom fields are written
   with their issue and that only wrong ones are dropped. They are written on
   another connection while the transaction of the issue is open, and the foreign
   key refuses them all, in every schedule (`CreationStoresNothing`).

Seen while modelling, and not runs of their own:

Uploads and files
- two uploads of one chunk at a time leave it twice in `receivedChunks`, against
  `attachments-large.service.ts:127-129` ("Atomically add the chunk ... if not already
  present"); `bytesReceived` drops by `chunkSize` also for a chunk that was never counted
  (`attachments-large.service.ts:382-389`);
- abort during a completion that then retries brings the session back to PENDING
  with its chunks deleted;
- a session left COMPLETING by a crash is never taken up; chunks of a lazily
  expired session are never swept;
- a failed lookup after the commit writes FAILED over COMPLETED (`:456`, `:230`);
- files of deleted issues and projects stay in storage; a commit whose answer is
  lost makes `uploadMany`, and `complete()` of a large upload
  (`attachments-large.service.ts:443-447`), delete the files of live rows.

Accounts, sessions and admins
- two unlinks at once that both counted the providers leave no way to sign in
  (`auth.service.ts:344-356`, cf. the comment at `:334-335`); a registration that
  read the account before it was verified deletes it (`:52-71`, cf. `:70`); a
  cancellation of the deletion that comes after the cron's read is ignored;
- `setActive(false)` wipes the sessions once: a login or a rotation that overlaps
  it leaves one; `refresh()` and personal access tokens do not look at `active`
  again;
- two admins who act on each other at once can leave none; and a deactivated admin who
  holds a personal access token is let in (`jwt-auth.guard.ts:32-42`,
  `pat.service.ts:98-118`), keeps the role for `RolesGuard`, and can deactivate or
  demote the last admin who is active, with no overlap at all (cf. the comment at
  `users.service.ts:145`: "so admins cannot lock themselves out");
- a logout that overlaps a refresh deletes nothing and leaves the rotated row
  live; a lost answer of a refresh ends the session for the browser; a login while
  signed in leaves the old row live;
- `revokeSession` clears cookies without the domain they were set with
  (`auth.controller.ts:537-538`, cf. `cookie.constant.ts:57-61`);
  revocations leave `is_authenticated` and `user_role` set (cf. `:209-213`).

Boards, issues and charts
- the cumulative flow replays activities of field `boardColumnId`, and a move
  writes field `status` (`sprints.service.ts:37-44`, `issues.service.ts:666-674`):
  past days show today's column;
- the velocity of a completed sprint leaves out what was committed and not finished,
  for `complete()` has moved that out (`sprints.service.ts:239-243` and `:354`); the
  comment at `:327-329` says "sum of all story points planned at completion time";
- an issue created on a column, or moved to it, between the count of `deleteColumn()`
  and its delete loses its column, which the refusal is there to prevent
  (`boards.service.ts:150-164`);
- the burndown counts an issue without points as 1, the velocity as 0; a move
  within DONE stamps `completedAt` anew; a card made in a DONE column, or whose
  column becomes one, has no stamp;
- `autoWatch`, notifications, webhooks and realtime events of `create` fire before
  its transaction ends, also when it rolls back (`issues.service.ts:160-164`); a
  creation with custom fields holds one connection while it waits for another.

Workspaces and names
- a removed workspace member keeps their project member rows;
- a project whose default board fails to be created stays without one
  (`projects.service.ts:94-98`);
- `Issue.key` is unique over all, project keys per workspace only: a second
  project of the same key cannot create an issue whose key is taken;
- `transferOwnership` ends in an uncaught unique error when the new owner has a
  workspace of that slug.

Jobs
- `webhooks.service.ts:21` and `:59` speak of 3 tries; the loop makes 4. A
  restart leaves a delivery PENDING, which `retryDelivery` refuses;
- the cron of the recurring job is set to midnight on the first of January
  (`recurring-issues.service.ts:145`, commented as disabled at `:140-144`), the class
  comment (`:50-51`) says "every hour the cron picks rules whose `nextRunAt <= now()`":
  a rule waits for the turn of the year. One run takes 200 due rules in no order, so of
  more than that any may wait again. The cron of the digest is disabled in the same
  way (`digest.service.ts:31`);
- the digest's comment (`:13-14`) says that running it again mails nothing again;
  after a stop between mail and marks it does. Its window of 24 hours can miss
  rows. `shouldNotify` (`notifications.service.ts:221-237`) is never called, so
  the in-app preference has no effect;
- a recurring rule is moved on from now: a run that is late skips the slot of the
  day, with the hour read before a change of the rule. An issue is made also when
  the rule was deleted meanwhile. A label that is gone aborts the transaction
  whose insert error is caught; labels are attached without the project check
  that `issues-labels.service.ts:22-25` speaks of.

Caches, settings, logs, lists
- the list of a tag can run out before an entry that was filled again, against
  `cache-tags.service.ts:54`; several writes invalidate nothing of what they change
  (workspace update and project create for the list of workspaces; bulk updates,
  comments, removed project members);
- two saves of a setting may lose one, and a kept password may be an older one;
  `send` reads the configuration twice;
- the logging configuration is refreshed hourly (`:88`), its comments say every
  five minutes (`:51`, `settings.service.ts:239`);
- the branch of `logs.service.ts` that drops the oldest entries is not reached;
  entries after the last flush of a shutdown are lost (no shutdown hooks are
  enabled in `main.ts`);
- a list by cursor ends early when the row of the cursor was deleted; rows of one
  `createdAt` may be skipped at a page boundary; the numbers of one answer are
  not of one state; the top workspaces are chosen among the 20 newest
  (`admin.service.ts:109-143`);
- a push payload may reach an endpoint that changed hands since the rows were read
  (`push.service.ts:102-119`).

## 6. Not modelled, and why

- Worklogs, labels, issue links, stars; templates and saved filters: each
  operation is one check and one write of one row, and no handler acts on an
  earlier read of one.
- Events: an in-process subject; nothing of it survives an event. Health, debug and
  public pages: read-outs.
- HTTP beyond the guards, the filter and the interceptor: decoding, validation and
  formatting. The models take their inputs after validation.
- The branch of `loginWithOAuth` for an unverified row without a password
  (`auth.service.ts:243-250`): `register()` always sets a password, so no row
  takes it. Access tokens live out their minutes whatever happens to the session.
- Positions and `reorderColumns`: an ordering of a list with no reference to it.
- How a name is turned into letters for a key or slug; templates of mails; which
  users a feature flag is rolled out to.
- A lost acknowledgement of a commit (the transaction commits and the caller sees
  an error) outside `Files` and `UploadSession`, where the catch block acts on it. The
  other models take a refused transaction as rolled back.
- The velocity chart: what `complete()` leaves in a sprint is in `Board`, and the
  sum of its points has no bearing on anything else.
- The effect of one service's rows on another's, where both are abstracted: see
  section 2, the compositions.

## 7. What is left

The components of the inventory are modelled, wholly or but for what
`PROJECT.json` names. What would add most:

1. `Board` with `SprintCharts`: one model in which the stamps that the charts read
   are written by overlapping moves.
2. `Accounts` with `Browser`: the cookies against handlers that are taken apart.
