# FishFeed backend: TLA+ models and proofs

FishFeed is a FastAPI service over PostgreSQL, Redis and S3 with an APScheduler
worker. Phones edit their data offline and synchronise it, RevenueCat tells the
server about purchases, families share aquariums, and jobs remind, clean and
repair. This directory models the parts in which several requests, jobs and
outside systems meet, checks them with TLC on small instances and proves the
most important facts with TLAPS for all instances.

Sections: 1 platform, 2 inventory, 3 modules, 4 runs with their bounds and
fairness, 5 proofs, 6 plan, 7 findings, 8 what is not modelled.

## 1. What every module assumes of the platform

* `app/database.py` `get_db` gives a request one transaction: it commits after
  the handler has returned and rolls back on any exception. PostgreSQL runs at
  READ COMMITTED: each statement sees what was committed before it, `FOR UPDATE`
  and writes lock rows until the end of the transaction, and two inserts of one
  unique key wait for each other.
* A handler yields at every `await`, and several processes run the same code:
  requests interleave between any two statements. An action is the code between
  two points where another process can be seen, or see this one.
* `updated_at` is `now()`, the start of the transaction (`models/base.py`).
* Redis commands and Lua scripts are atomic; keys may expire at any time after
  their TTL; a command may take effect and its reply be lost.
* Processes crash. A crash rolls the transaction back and leaves Redis and S3
  as they are.

## 2. Inventory

State, operations and what makes each component correct. **M** marks what is
modelled with all its operations, **m** what is modelled in part (section 8 and
the notes in `PROJECT.json` say what is missing), **-** what is left out.

| | Component (under `src/app/`) | State | Operations | Hard part | Correct when | Module |
|-|-|-|-|-|-|-|
| M | Subscription reconciliation (`services/purchase.py`) | subscription columns, `settings`, `subscription_verified_at` of `users`; Redis cooldown | read baseline, ask RevenueCat, compare and apply, 429 cooldown, downgrade marks | several readers of one customer apply answers in any order | a row never goes back to an older answer; client settings survive; no lock cycle | Reconcile, Entitlement |
| M | Answers of RevenueCat (`services/purchase.py`) | - | parse entitlements and purchases | an answer may be contradictory, in sandbox, refunded or expired | access if and only if a purchase holds it; clear answers are read | Evidence |
| M | Recovery pass (`jobs/subscription_jobs.py`) | the due accounts, notices | reconcile one by one, tell | errors end a pass; events never arrive, or come while the account is banned | the row tells the truth in the end; no notice without an end | Expiry |
| m | Webhook endpoint (`api/purchase.py`) | `purchase_transactions` audit rows, Redis lock `webhook_lock:*` | deduplicate, process, audit, acknowledge | lock expiry, crash, lost reply, duplicate deliveries | final audits are final; 200 only for processed events; every event is acknowledged in the end | Webhook |
| m | Image storage (`services/image_service.py`, `jobs/image_cleanup.py`) | `photo_key`, `avatar_key`, `orphaned_images`, the bucket | upload, put a key back by sync or profile update, delete, daily cleanup, weekly reconciliation | S3 is outside the transaction | shown photos stay, garbage goes | ImageStore |
| m | Sync: entities (`services/sync/changes.py`, `utils.py`, `process.py`, `validation.py`) | rows of aquariums, fish, schedules | validate and group a batch, create/update/delete with last-write-wins, cascades, moves | offline clocks, retries, order within a batch, rows read without a lock | no lost newer write; deletions are final; cascades leave no live child; a resent batch changes nothing | Sync |
| M | Sync: logs, plans, dead letters (same files, `dead_letter.py`) | logs under UNIQUE(schedule, time), `sync_dead_letters`, `synced_ids` | log, create, dead-letter, abort, answer | a failed change poisons the transaction; two devices log one feeding | what is told is true; the first log stays; a log is settled unless its device sends what the tables refuse | Feeding |
| M | Sync: delta and pages (`services/sync/state.py`, `api/sync.py`) | `last_sync_at`, cursor and copy of the client | full and delta state, pages, 304 | rows move between pages; a stamp is older than its commit | a client lacks only what its next delta brings | SyncDelta |
| M | Feeding schedules and logs (`services/feeding.py`) | schedules, logs | generate, edit, delete, log | unique keys and opposite inserts | as for sync | Feeding |
| m | Gamification and profile (`services/gamification.py`, `api/users.py`, sync handlers) | streak, progress, achievements, Redis statistics | edit offline, share, read through a cache | cache filled around a commit, concurrent writers | statistics are those of the rows; points are kept | Profile |
| M | Family sharing (`services/family.py`, erasure in `services/analytics.py`) | invites, members, the owner's badge | create, cancel, accept, remove, erase | limit counted before the insert | limit held but for overlap; an invite per member | Family |
| M | Aquariums and fish (`services/aquarium.py`, `services/fish.py`) and links to images | the rows sync writes | roles, CRUD, cascade, batch of links | several statements, each seeing other commits | only owners delete by REST, owners and members by sync; answers were visible | Access, Sync |
| M | Authentication (`services/auth.py`, `utils/jwt.py`) | `users.token_version`, Redis refresh and reset tokens | register, sign in, refresh, log out, reset, change, leave | Redis at once, rows at the commit | a session lives until ended; a changed password ends old tokens | Sessions |
| m | Push (`services/notification.py`, `fcm.py`, `apns.py`, `jobs/notification_jobs.py`, `notification_throttle.py`) | tokens, preferences, logs, daily counter | register, opt out, weekly and re-engagement passes | pushes at once, logs at the end of one transaction | logs are true, nobody is left out, a working token goes only when FCM calls its message an invalid argument | Push, Quotas |
| m | AI scan limits, request limits (`services/rate_limiter.py`, `middleware/rate_limit.py`) | Redis counters, `free_ai_scans_remaining` | check, work, count, reset | check and count are apart; windows meet | overshoot bounded by what runs at once | Quotas |
| M | Recognition of fish (`services/ai.py`) | scans | look up, ask, map labels, record, confirm | nothing is locked while the provider works | one call per photo; rank and correction kept | Scans |
| M | Species catalogue (`services/species.py`, `utils/cache.py`) | species, Redis entries | cached reads, administrators, back office | deletes of entries before the commit | stale entries have a reason and end | Catalogue |
| m | Analytics (`services/analytics.py`, `jobs/analytics_cleanup.py`) | events | anonymize, delete, erase | batches selected without locks; passes overlap | nothing goes too early; everything goes | Retention |
| M | Backups (`services/backup_service.py`, `jobs/backup_job.py`) | rows, files, bucket | dump, copy, clean up | four stores, crashes between them | something to restore | Backup |
| M | Scheduler start-up (`workers/feeding_worker.py`) | stored jobs, recorded version | check, register, record | two builds at once; crash half-way | the recorded version is that of the jobs | Worker |
| - | Premium cache, AI provider, object storage client, admin views, releases, e-mail, schemas, migrations | - | - | - | - | - |

How they meet: webhook, restore and recovery pass all reconcile; reconciliation
decides what the family limit, the scan limits and notices see; sync writes the
rows of aquariums, fish, schedules, logs, streaks and photos that the REST
services write too; deletions cascade through them; the worker starts the jobs of
images, subscriptions, notifications, analytics and backups; the erasure of an
account passes through family, images, push, scans and analytics. Where two
components write one row, the module of each has the other's writes among its
actions (ProfileSync in Reconcile, OtherCommit in Webhook, SyncWrite in
ImageStore, BeginREST in Sync, Move and Join in Access, Erase in five modules).

`PROJECT.json` lists every component with its sources, and under `hazards` the
lines where the hard parts bite with the properties that watch them.


## 3. Modules

Every module that runs beside others is a transition system of its own; the
environment of a component (clients, provider, time, crashes) are actions of the
same module. Histories, variables the code does not have, are named as such in
the modules. A bound named `Max...` caps what would be unbounded and appears in
guards only.

### Entitlement
The abstract ledger: RevenueCat's history per customer and, per user row, the
index into it that the row shows. A transaction may move a set of rows forward
together, the client may change its own settings, and nothing else happens.

### Reconcile
The concrete algorithm. A process (webhook request, restore request or one
account of the scheduled job) is a program counter over `ReadBaseline` (the
columns and `subscription_verified_at`, then the cooldown check),
`KnownCustomer` or `CreatedCustomer` (HTTP 200 and 201), `ApplyUser` (FOR UPDATE
and comparison), `Commit`; every step can end in `Fails`, `RateLimited` or
`Conflict`, which roll back. `CustomerChanges`, `ProfileSync`, `SetDeleted` and
`CooldownTicks` are the environment. The five subscription columns are one value
of `Plans`. `verified_at` is a microsecond clock per answer, so two answers about
one user do not share a stamp (`Fresh`). `ver` and `provider` are history.
A restore's own `POST /receipts` is `CustomerChanges` followed by `Begin`, and
its 429 is `RateLimited`; the user it loaded at authentication is refreshed
under the lock, and its older baseline is a long "asking". The scheduled job
opens one transaction per user.

### Evidence
`parse_revenuecat_subscriber` as operators on one answer: which purchases an
entitlement may claim, what is contradictory, and what remains of it. Time passes
and purchases are refunded. `AnswersRead` has two parts. `GrantsArePaid`: an answer
that is read grants premium, or Remove Ads, if and only if a purchase of its own
that holds pays for it, or a gift (a promotional Remove Ads, which needs no
entitlement). `ReadIffClear` compares the parser with a definition of a clear
answer that does not follow the code's order: what holds must belong to exactly
one entitlement, or be a gift that none but Remove Ads claims, while what is
refunded or over may be claimed by anybody or nobody. `NothingAppears` says that
without a purchase access only ends.

### Expiry
`check_expired_subscriptions_job`: `StartPass` selects the due accounts, the
longest unverified first, and takes them one transaction each: `Read` the
provider, `Apply`, `Tell`. `order` gives each account its place by the time of its
verification, and the list of a pass is the function from the accounts it still
has to do to the places they had when it began; the next one (`Head1`) has the
least. The failed reads are `Refused`, an error of this account after which the
pass goes on, and `Fatal` (429, 401, 403, no configuration), which ends the pass
whatever the account. A `Poisoned` account is never read. A soft-deleted account
(`Ban`, `Unban`) is not due, its events are skipped, and what a pass has read of it
is not applied. `Wait` lets an hour or a day go by and subscriptions come near
their end. A reconciliation is one read and one write that compares the baseline.

### Webhook
One action per awaited step of `handle_webhook`. What reconciliation does to a
row is reduced to the index of the provider state it shows and to the set of
baselines no commit has moved (`based`), which Reconcile justifies. `Expire`
may end a lock at any moment: the code does not bound a request by the
lock's 30 seconds. Failures are `Fails` (retryable error audit), `Aborts`
(no audit), `AcquireLost`, `Crash`, `ReplyLost`; others change rows by
`OtherCommit` and `SetDeleted`. Each takes one of `MaxTrouble`. Authorization,
bodies that do not parse and the legacy transaction key are left out.

### ImageStore
Uploads are `BeginUpload` (access check; the session keeps the user row it
loaded, so `FOR UPDATE` without `populate_existing` shows an avatar key that may
be stale; aquariums and fish are read anew under the lock), `Put` (S3),
`LockRow`, `Commit`. Sync writes a key that a device remembers (`BeginSync`,
`SyncWrite` for aquariums and fish, read without lock; `SyncAvatar` for the
profile, read under the lock); `PUT /users/me` (`PutProfile`) queues nothing.
`image_cleanup_job` is `CleanupStart`, `FetchBatch`, one `DeleteObject` or
`DeleteFails` per object, `EndBatch`; `s3_reconciliation_job` is `ReadPhotos`,
`ReadOrphans`, `ListObjects`, `Flush`. Time is counted in ticks up to the grace
period; both jobs end on the tick they begin and run at most once in it, which
the seven days of grace against jobs of minutes justify. Duplicate queue rows of
a key are merged into the oldest, which is the one whose age matters, and the
listing of a bucket is one step. `doubtful` is history: the keys lost by the two
races of section 7.

### Sync
Devices of one family collect edits (`Edit`, with the stamp of a clock that may
be `Drift` ahead) and send all of them as one batch. `BeginSync` is
the validation of the batch (one that fails it stays pending), `BeginREST` the
access check of an online update or deletion. The handlers run change by change:
`todo` holds the places that are still to come, each the number of a change in
the batch and the change, and `Upcoming` is the next one in the order of
`group_changes` (`Before`: by entity type and operation, then as sent).
`Decide` reads the row and chooses the winner, `Write` is the flush, with the
cascade's statements, and locks what it writes (`Free`); `Commit` ends the
request, the answer arriving or not; `Fail` rolls back. `View` is what a
transaction sees at READ COMMITTED. All columns of a row but its home, its
`deleted_at`, `updated_at` and a schedule's `active` are one value, the stamp of
the edit it shows (`val`).
What the devices do is an assumption about the application: they edit what they
show, they drop their edits when an answer arrives and never otherwise, a device
sends one request at a time, identifiers are not reused (`SyncAssumption` says
that no identifier names two kinds), and an update of a
schedule sends `active: true`, since a device edits schedules it shows. Every
device has access to every aquarium; a schedule keeps its fish.

`SyncAlone` is Sync with `alone`, chosen at the start: nobody is alone, and all devices
act, or one of them acts alone, the usual owner of one telephone, its clock not ahead,
an edit sent (and sent again) before the next one is made, and no online deletions
(`OneEdit`). What several devices, long batches and online deletions break is listed in
section 7; alone, it has to hold.

### Feeding
Schedules and logs with their two unique keys, written by REST requests and by
the feeding handlers of sync. A batch is `BeginSync`, `Handle` and `Flush` per
change (an insert may wait for, or collide with, another transaction's row),
`CommitSync` with the dead letters, and the answer; a REST request inserts,
looks up and commits. A form that the handler refuses (`"bad"`, `"badid"`) goes
the way of `dead_letter.py`; a flush that fails poisons the transaction.
`AnswersTrue` is about `synced_ids`. `LogsSettle` excepts a device that sends what the
tables refuse whenever it is sent (`Refusable`): a log of a schedule that is not
there, or a schedule for a time that is taken. Such a change ends every batch of
its device (section 7).

### SyncDelta
A client's copy against rows whose `updated_at` is older than their commit:
full and delta answers, pages by cursor, the 304, tombstones that leave the
tables. `sound` and `purged` are history: no transaction was stamped before a
client's delta and committed after it, and the schedules that were deleted for
good.

### Profile
One row per kind (streak, progress, badge), read without a lock and written at
the next flush, by two devices and by readers that fill the Redis cache.
`excused` is history: the cache was filled around a commit; `raced` that points
were written over a value that was not read; `told` what devices were answered.

### Family
`accept_invite` statement by statement (limit, membership, flush, the owner's
badge, commit), `create`, `cancel`, `remove_member`, and the erasure of an
account with its order of deletions. An "alien" is an achievement whose type
the code does not know. Logs and schedules of members are reduced to their
authors. `freely` is history: the members whom the limit of the free plan let in.
Members who came while the owner paid may stay when the subscription ends, so
`LimitNearlyHeld` bounds all members by the premium limit and these by the free one.

### Access
`check_access` and the CRUD of aquariums and fish, statement by statement, with
the two ways of deciding who may see a photo: one by one, and by joins for a
batch of links (`BatchAgreesWithSingle`). An account that is soft-deleted begins
no request (`Begins`), but one that has begun goes on. An answer is a function on
the places of the request, so that what is asked twice is answered twice.

Sync decides in another way who deletes: `AskSync` is its validation, which reads
the aquariums its user owns or is a member of; `FindFish` and `FindAquarium` look
the row up, and the deletion of an aquarium (`"sweep"`) cascades to its fish as the
owner's does, while that of a fish (`"drop"`) does not. A sync request carries one
change here, and the row that validation and handler read is read once. What else
sync does to these rows is `Move` here and in Sync. Histories are `housed`, which
fish lived where while a request ran, and `joined`, the aquariums that the user of a
sync owned or was in while it ran. `DeletedByRight` cannot ask more: another deletion
may come, and the member may go, between the check and the commit.

### Sessions
One account: register, sign in (with a password or by OAuth), refresh, log out,
reset, change of password, leave, one await at a time. Redis
changes at once, the row at the commit. History are `cut` (devices whose refresh
was interrupted between the deletion of the old token and the new one),
`crossed` (a version of tokens was written over one that was not read) and
`fresh` (no password change since a device got its access token).

### Push
Tokens, preferences and a pass over all users: `Choose` the next user and their
tokens, `SendApple` and `SendGoogle`, `LogResults` with the removal of tokens
the provider refused, `Commit` at the end of all. A provider answers for each token:
`"ok"`, `"unknown"` (the token is dead), `"failed"` (the push may have arrived all the
same) or, from FCM, `"argument"`: its INVALID_ARGUMENT, for one token or for the message
that the whole batch shares. `remove_invalid_tokens` drops the tokens of `"unknown"` and
of `"argument"`, working ones too. Crashes, and days on which a provider answers
anything but `"ok"` to a working token, are mishaps.

### Quotas
The limits of one user. A request goes through `Pass` (per address, then per
user), `Authenticate` (loads the user row, and with it `free_ai_scans_remaining`),
and then `Upload`, or for a scan `Check`, `Work` (the AI provider, an image that
was scanned before, or no free scan left), `Record` (the flush, which locks the
row), `Count`, `Commit`. A push is `Check`, `Work`, `Count`. `Fail` is an error,
timeout or crash anywhere: the transaction is gone, Redis is not. `Reset` is the
administrator's or the expiry job's. Redis keys named after the minute, hour or
day are one counter that `Tick` empties; their TTL only cleans up. Premium users
bypass the hour and the free scans and are left out, as are the limits of single
endpoints, which are one more counter of the same kind. The histories count what
was let through by age, what was done in a window, and what failed uncounted;
`apart` says that no scan overlapped another one or a reset.

### Scans
A request looks its photo up, asks the provider, maps the labels to species
(exact name, Latin name, part of a name), records, and may be confirmed later.
Labels and species are related by three constants; an answer is a sequence of
labels.

### Catalogue
One page of the list, one search, the popular species and the details as cache
entries; readers fill them, an administrator's request deletes them before its
commit, the back office deletes none. `excused` says which entries may be stale,
and until when.

### Retention
The anonymization and deletion passes in batches (selected without locks), by
the daily job and by administrators at once, and the erasure of a user. What
becomes of an event's properties is left out (section 8).

### Backup
Dump, copy to the bucket, record, clean-up; the rows, the files of the
directory and the objects of the bucket are three stores between which a crash
may fall.

### Worker
Start-up of two builds: `Check` reads the recorded version, `Register` stores
one job at a time, `Record` writes the version. `torn` is history: a start-up
that overlapped another one or stopped half-way.

### Sums, and modules for TLC
`Subscriptions` (Reconcile, Evidence), `Recognition` (Quotas, Scans, Catalogue),
`Services` (Feeding, SyncDelta, Family, Profile twice, Access, Retention) and
`Accounts` (Push, Sessions, Backup, Worker, Expiry) are sums: `component`, chosen at the start, says which one runs, the
others stay in their initial state, and each conjunct of a property speaks of
its own. States therefore add up; nothing is lost by it, since the components of
one sum share no variable but the number of mishaps. Their constants are still
parameters, with one named assumption each, and the theorems are about them.
`MCSubscriptions`, `MCQuotas`, `MCServices` and `MCAccounts` give the constants values
and fix what a component that does not run starts with; `MCSubscriptions` also takes
Reconcile in two shapes, one account or a pair of them. `MCSync` gives SyncAlone its
constants and a device that is alone more aquariums and time than a family.

`MCLiveness` (the smaller instances of the components with fairness) is a sum for
TLC alone. `MCWebhook`, `MCReconcile`, `MCImageStore`, `MCFamily` and `MCPush` give
constants to one module.


## 4. Runs

| Run | Instance | Shows |
|-|-|-|
| `reconcile_safety` | "account": 1 user, 2 processes, 4 stamps, 3 provider states; "pair": 2 users with transfers; "evidence": 10 thousand answers over 2 ticks | `RowsShowHistory`, `ProposalsCurrent`, `NoLockCycle`, `PremiumHasNoDowngradeMarks`, `CooldownHeld`, `ImplementsLedger` (refinement of Entitlement), `AnswersRead`, `AccessOnlyEnds` |
| `reconcile_created` | 1 user, 1 process | violation (finding) |
| `webhook_safety` | 2 workers, a purchase and a transfer that share a user, 2 disturbances | `SuccessMeansReconciled`, `AckMeansAudited`, `TerminalAuditFinal`, `LockOwned` |
| `image_live` | a user or a fish, 1 request, 2 avatar keys or 1 fish key, 1 failure, grace of 1 tick | `ImageInv`, `RowsOutliveObjects`, `GarbageCollected` |
| `sync_safety` | "alone": 1 of 2 devices, REST updates, 2 aquariums, 3 ticks; "family": 2 devices, one ahead of the tolerance, answers to one lost, REST deletions, 1 aquarium, 2 ticks; 1 fish, 1 schedule, single changes | `TypeOK` (in `RowsConsistent`), `TombstonesStay`; alone: `NoOrphans`, `SchedulesFollowFish` (in `RowsConsistent`), `NewerEditShows`, `ResendHarmless` (in `EditsKept`) |
| `sync_own` | 1 device, 1 aquarium, batches of 2 | violation (finding) |
| `quotas_limits` | 2 requests or pushes, two hours of 2 ticks, 1 per user and minute, 2 per address, 1 scan, 1 push, 1 upload, 1 free scan, 2 failures or resets; a species under a reader and a writer; a photo scanned and confirmed twice | `LimitsHeld`, `RankKept`, `CatalogueInv`, `ScansInv` |
| `services` | 2 devices and 2 schedules; 1 client and 3 rows on pages of one; 3 people, 2 invites, 2 requests; 2 phones; 2 people, 2 aquariums and 1 fish; 3 events, an administrator and the job | `FeedingInv`, `DeltaInv`, `FamilyInv`, `ProfileInv`, `AccessInv`, `DeletedByRight`, `NothingTooEarly` |
| `family_erase` | 2 people, 2 invites, 2 requests | violation (finding) |
| `accounts` | 2 users with 3 tokens; 2 devices and 1 reset; 3 backups; 2 workers of 2 builds with 2 jobs; 2 accounts and 3 changes or bans | `PushInv`, `SessionInv`, `BackupInv`, `RecordTrue`, `ExpiryInv` |
| `push_optout` | 2 users | violation (finding) |
| `liveness` | 1 event, 2 workers and 1 disturbance; 2 devices and the logs of 2 schedules, one of which may be deleted; 2 accounts, one of which is never readable, and 2 changes or bans; 1 species that fish name; 2 events | `EventuallyAcked`, `LogsSettle`, `TruthReached`, `EventuallyFresh`, `OldEventsGo` |

A name in `...Inv` that stands for a component is the conjunction of its types
and of named parts: `FeedingInv` `AnswersTrue`; `DeltaInv` `NothingMissed`,
`PagesAreSlices`; `FamilyInv` `LimitNearlyHeld`, `JoinsBacked`, `FamilyFirst`;
`ProfileInv` `StatsFollowRows`, `PointsKept`; `AccessInv` `BatchAgreesWithSingle`,
`AnswersHeld`, `FishFollowAquarium`; `PushInv` `LogsTrue`, `ValidTokensStay`,
`PassReachesAll`, `DeliveredIsLogged`; `SessionInv` `SessionLives`,
`OldAccessRefused`; `BackupInv` `SomethingToRestore`; `ExpiryInv` `NoticesTrue`;
`ScansInv` `OneCallEnough`, `CorrectionTrue`; `CatalogueInv` `StaleExplained`;
`ImageInv` `PhotosKept`; `LimitsHeld` `Overshoot`, `UploadsPerMinute`,
`TwiceTheMinute`, `ChargedOnce`. The types of Reconcile, Webhook, Worker and
Retention are proved (section 5) and not run.

Why the bounds are enough. The algorithms compare one row with one baseline or
one key with one queue, so two actors around one row show every race the code
can have; a third actor repeats one of them. Four stamps let both processes
restart with a row that went there and back (the ABA case the mutant
`ApplyUnstamped` loses); three provider states separate older, current and
newer. Two users are needed for lock order only. Two disturbances allow a crash
and a late failure of the second worker. Two keys are one photo and its
replacement. In Sync, one entity of each type has every cascade, a second
aquarium is needed for moves only, and stamps are compared with one another
only, so three ticks hold an earlier, an equal and a later one; the writes of
a family fall into its last tick or before it, against rows written in the first.
In Quotas two ticks make a minute, so a minute may begin in the middle of a
counter's; the hour is as long, the day has two of them and time ends as the
second day begins, which crosses every boundary; in the last tick only pushes
arrive, and `MaxRefused` bounds the requests that are turned away at the
address. In Feeding the second schedule wants the time of the first, so both
unique keys are contended. In SyncDelta a page holds one row, so every row is at
a boundary. In Family the owner counts (`FreeLimit` 2, `PremiumLimit` 3), so one
place is left on the free plan and two on the premium one, and the third person
and the second request are what may come too many on either; `StoreAlien` happens
only while no other badge is there or on its way, where it makes a difference. In
Access the batch of links asks for a fish twice; as it changes nothing, one batch
runs at a time, and accounts leave for good only while they ask for one. In Push
one user has two Android devices, which share a batch and may fail together or
apart, and another one, with an Apple device, changes the preferences. Three calls of Backup in three ticks
let the second one delete the first. Where a component runs twice (liveness and
safety), the liveness instance is the smaller one. Every property has a mutant
in `PROJECT.json`, a plausible bug that TLC finds within the same bounds.

Symmetry is used on stamps, workers, requests, devices and people of
safety runs (in `services`, of two of the three people and of the two requests to
accept), never in the two liveness runs.

Fairness. Only `image_live` and `liveness` assume any, each component that of its
own module, and disturbances end, since `MaxTrouble` or `MaxMishaps` bounds
them: what fails at every attempt is not finished by any design.

* Webhook: a request that runs is scheduled (weak), Redis expires a lock
  (weak), and RevenueCat redelivers an event until it gets 200, again and again
  whenever a worker is free (strong).
* ImageStore: requests end (they have HTTP timeouts), time passes, and the
  scheduler starts both jobs again and again (weak).
* Feeding: a device that can send, or whose request can be served, again and again
  does so (strong): an insert that waits for another transaction is woken when
  that one ends, before the other device sends the same again.
* Expiry: time passes, and the scheduler starts passes that go on (weak, whatever
  comes of each account). An account whose turn comes again and again is answered
  in the end, read if it can be and refused if it is poisoned (strong): neither an
  outage nor a 429 lasts, and no account ends every pass that comes to it. The
  code does not see to the last (section 7).
* Catalogue: Redis expires every entry (weak).
* Retention: time passes and the daily job runs (weak).

Deadlock is checked in Reconcile, Webhook, ImageStore and Quotas, which never stop
(Evidence and Scans, which come to an end, may stutter there).
CHECK_DEADLOCK FALSE stands in `sync_*`, whose instances end when time is used up
and every entity is deleted, in `services`, `accounts`, `liveness`, `family_erase`
and `push_optout`, whose components come to an end with their mishaps, edits
and ticks.


## 5. Proofs

Eight modules hold theorems; tlapm checks them to the last leaf. They speak of
sets of any size and of bounds that are any natural numbers. What they assume of
the constants are the named ASSUMEs of Reconcile, Subscriptions, Webhook, ImageStore,
Sync, SyncAlone, Quotas, Recognition, Services and Accounts, each of which TLC evaluates on a
run, and `RetentionConstants`, a hypothesis of the theorem on Retention (times
and limits are integers). The
assumptions are what the code gives: limits and pages are positive constants of
`config.py`, `family.py` and `sync/state.py`, a backup is kept for a day at least
(`backup_service.py:88`), tables and the requests of a moment are finite sets,
entities of different kinds have different names, a token or an aquarium has an
owner, an answer of RevenueCat is a finite list of records whose times are numbers. Worker needs none.

An invariant that a run checks is seldom inductive. For each module: what is
proved, and what had to be added to the invariant and why.

**ReconcileProofs.** The invariant is `TypeOK`, `RowsShowHistory`,
`ProposalsCurrent`, `StampsDistinct` and `LocksHold`. `RowsShowHistory` alone is not
inductive: a commit keeps it because the proposal is a real provider state
(`ProposalsCurrent`), which stays current only because equal stamps mean an
unmoved row (`StampsDistinct`), and because nobody writes a row between the
comparison and the commit (`LocksHold`). From it: `TypeCorrect`, `RowsFaithful`
(`RowsShowHistory`), `ProposalsNeverStale` (`ProposalsCurrent`) and `Refinement`
(`ImplementsLedger`: a commit is `Verify` of the process's users, `ProfileSync` is
`Prefer`, `CustomerChanges` and a customer created by a read are
`CustomerChanges`, everything else stutters). `NoDeadlock` (`NoLockCycle`) needs that
every row a process holds is smaller than those it has yet to lock
(`LockedInOrder`), which is what `sorted` in the code buys: of two processes that
wait for each other, each would hold a row smaller than the one the other holds.
`PremiumUnmarked` and `CooldownKept` are `PremiumHasNoDowngradeMarks` and
`CooldownHeld`.

Of Evidence, for every finite answer: `ClearIsRead` (`AnswersRead`) and
`NothingAppearsUnpaid` (`AccessOnlyEnds`). An answer need only be well typed for the
first: that a clear one is read goes through every reason the parser has to refuse
(`ClearIsTold`), that one which is read is clear through every part of `Clear`, and
what is granted is matched with what pays purchase by purchase. For the second, `ComesOf` relates an answer to an earlier one, each
of whose purchases it has or has refunded (`Follows`), and both kinds of step give
it. Then what the later answer claims the earlier one claimed (`PromotionsWere`),
and a reason to refuse the later one was there before, or was a purchase that has
ended since and is not looked at (`StillTold`). That the promotion which lasts
longest exists is an induction over a finite set: the smallest set without one,
which strict inclusion being well-founded provides, cannot be (`LongestLasts`).

**WebhookProofs.** `TypeOK`; `BusInv` (events are emitted before they are handled,
due versions are not in the future); `HoldsApart` (two uncommitted transactions
hold disjoint rows); `RequestsInv` (what each stage of a request has established
about versions, baselines and the audit row). From them `SuccessReconciled`,
`AcksAudited`, and the action properties `AuditsFinal` (whoever holds the audit row
saw its committed value and keeps it if terminal) and `LocksOwned` (a step
releases a lock only if it is the worker's own, although it may have expired
and been taken by another one in the meantime).

**ImageStoreProofs.** `PhotosAlwaysKept` (`ImageInv`) and `ObjectsGoFirst`
(`RowsOutliveObjects`). `PhotosKept` says that a shown photo is in the bucket unless one
of the two races of section 7 lost it. That it survives the cleanup job needs
the state of the jobs and of every request. Of all keys: they are generated
before anything knows them, and what a cleanup has fetched stays queued until its
object is gone (`KeysUsed`); a request works for a row that stays until its
transaction ends (`Requested`); an erased row shows nothing (`GoneBare`); the
weekly job never queues what a row showed when the job began (`ReconSound`). Of the
keys the races did not touch: what a row shows is not queued (`QueuedUnused`); one
row shows a key, and only requests for that row replace it (`Owned`); an object
that is uploaded and not shown yet is in the bucket and not queued (`Shipped`).

**SyncProofs.** `TypeCorrect`, which contains that no two open transactions
have written one row, and `Tombstones` (`TombstonesStay`). What a transaction has
written but not committed is the obstacle: a commit replaces rows, so a
deletion stays only if no uncommitted write would undo one that was committed
before (`WritesOK`). That holds since a write happens under the lock and looks at
the row that is committed then, and nobody else writes it until the commit.
One lemma per handler says what a change does to the rows (`CreatedOK`, `MovedOK`,
`UpdatedOK`, `DeletedOK`, `AppliedOK`); `OneRequest` carries over what a step of one
request leaves alone.

Of SyncAlone: `CascadesComplete` (`RowsConsistent`) and `EditsSurvive` (`EditsKept`), for
any number of aquariums, fish and schedules and for time without end. The invariant `AloneInv`
has the rows in order (`Sound`: also, a schedule that is on is there, a live fish is
in an aquarium that is, and no value is newer than its row), and says of the edit that
waits that it still has the parents it was made under, should it win (`Fits`), and
of one whose answer was lost that it does not win any more. That needs that every
row is older than a request that runs, and that an edit that is applied, or lost,
never wins again (`Done`, `Settled`); `Won` is the winner without the clock, which
nobody is ahead of. `CreatedDone`, `UpdatedDone` and `DeletedDone` say for each
kind of change that it leaves the rows in order; the last is where the cascade has
to reach everything that `Sound` speaks of.

**QuotasProofs** (Quotas, Catalogue, Scans). `TypeCorrect` says that concurrent
scans never write a negative number of free scans, and needs that a request that
owes a scan saw one (`Loaded`). `OvershootBounded` (`Overshoot`) follows from two
facts: `HitsBound` (the counter and the requests that have passed the gate
together stay below the limit and all requests, because a request passes only
while a slot is left, and counting moves it from one side to the other) and
`DoneBound` (what was done is counted, owed by a request, or written off by a
failure). A new window sets the counters to zero and keeps the requests inside,
so the first cannot speak of the counter alone. `LimitsAlwaysHeld` (`LimitsHeld`)
counts the requests of a minute too: `MinuteInv` gives what one counter let
through numbers up to the limit, and a minute touches two counters; `ChargeInv`
says that, as long as scans do not overlap, the scan under way has read what
remains, and what remains and what was recorded add up to the full allowance.
`StalenessExplained` (`CatalogueInv`): a reader that no commit has overtaken holds
what is committed now (`ReadsNow`), and a writer past its statement has deleted,
has yet to delete, or knows that it leaves behind, each entry that shows its
species (`Covers`); so at the commit no entry turns stale without being excused.
`ScansAreSound` (`ScansInv`): unless scans of a photo overlapped or failed, one
request at most works on it, and a call is owed to a request under way or to a
scan (`CallsSound`); an answer and a scan belong to a request that is over
(`AskSound`, `RowSound`); and what a confirmation has loaded is still there
unless another one, or a deletion, blurred it (`ConfirmSound`).

**ServicesProofs** (Retention, Family, Feeding, Access). `NothingGoesEarly`
(`NothingTooEarly`): a pass holds a batch that
it selected before, and `PassInv` says that what is in it is older than its
cutoff, however much later it is applied. `FamilyInOrder` (`FamilyInv`): the
members and the requests that have been counted are together bounded, all of them
by the premium limit and those who came freely by the free one (`Fits`);
requests that have flushed hold different invites and people (`HoldingApart`),
so that nothing a membership rests on goes before its commit; and whoever commits
a first member brings the badge, unless it is there (`BadgeComes`). `FeedingTrue`
(`FeedingInv`): while a batch runs everything it was sent is still to come, in the
buffer, flushed, dead or a conflict (`UnderWay`), and when it is answered each
change has become what the answer says (`Answered`); the flushed logs of two
transactions have different keys (`Apart`), and a log rests on its schedule
(`LogsRest`), which needs that a device keeps one log of a feeding (`OneLog`).
`AccessSound` (`AccessInv`) and `OnlyInsidersDelete` (`DeletedByRight`): of each request
what it is for (`TaskTyped`), that its user made the aquarium, or was in it if it is
a sync, and that its fish lived there, while it ran (`TaskOwns`), and what its
queries have found and not found (`TaskLinks`). They survive the steps of
others since no step unmakes a row or puts a fish quietly where a deletion has
already looked (`Steady`).

**ClientsProofs** (SyncDelta, Profile). `DeltaSafe` (`DeltaInv`): between two pages, what
a client's copy lacks is on the pages to come or has changed since the sync
began (`RestComes`), which needs the position of a row in the list to be the
number of rows before it, and rows to leave a list only by being changed;
and that windows computed from counts are the pages of the concatenated lists
(`PagesAreSlices`) is a lemma about those positions. `EarnedIsKept` (`ProfileInv`),
for the statistics and for the points: a reader that is not late has read what
is there (`Read`), a writer about to commit has dropped the cache unless it was
filled again (`Dropped`); the points a request has flushed, or has yet to write,
are not below those that are stored (`Above`), since the row is locked from the
flush (`Locked`) and a value is written over the value that was read, but for
`raced`.

**AccountsProofs** (Worker, Backup, Push, Sessions, Expiry). `RecordCorrect`
(`RecordTrue`) and `WorkerTypes`: unless start-ups were torn, one worker at most
registers (`OneRegisters`), the jobs it is done with are stored as its build has
them (`DoneAreIts`), and while nobody registers the record is true (`RecordHolds`).
`DumpStays` (`BackupInv`): what a call is about to delete belongs to older calls
that have ended (`OldOnes`), and from its upload on a call's object is whole
(`OwnCopies`), as long as names differ. `PassAccounted` (`PushInv`): a token that was
there throughout is ahead of the pass, or has its push, or the log of an outage
(`NobodyLeftOut`); nothing is known yet of the tokens ahead (`AheadIsNew`); a batch
belongs to one user (`OneUser`); what is removed is not valid, or is an Android token
with the log of an invalid argument (`TokensSound`). `SessionsEndRightly` (`SessionInv`): no two devices hold, or are about
to receive, one token, and what a request is about to hand out is in Redis
(`TokensOK`), while between the deletion of the old token and the answer nothing
is promised; no version in use is in the future, and whoever is about to write
one has read the last one (`VersionsOK`), which holds under the row lock unless
the row was read before it (`crossed`). `NobodyToldInVain` (`ExpiryInv`): what a pass has
read of its first account stands, unless an event has verified the row, and
when it is about to tell, an end was counted that nobody was told (`ReadStands`);
places remain a permutation when somebody goes to the end (`BehindIsOrder`).

Model-checked only:

* `EventuallyAcked`, `LogsSettle`, `TruthReached`, `EventuallyFresh`, `OldEventsGo`,
  `GarbageCollected`: liveness under fairness, with ENABLED, is out of the prover's
  reach.
* `RankKept` (Scans): what the loop over an answer collects, a fold, is an induction
  over data.

## 6. Plan

Done: all modules of section 3 with their runs, and the proofs of section 5.
Every safety property that a run checks is stated by a theorem, but for `RankKept`.
Eight modules with theorems are as many as are kept; proofs about a new component whose
constants a run shares go into the module that is there.


## 7. Findings

Each violation run contradicts a sentence of the repository, which
`PROJECT.json` quotes.

* `reconcile_created`: asking RevenueCat about an unknown customer creates it,
  the first answer is refused for a user who has access, and the retry finds an
  ordinary empty customer and revokes the access.
* `sync_own`: the second change of a row in one batch loses to the first, whose
  `updated_at` is the start of the transaction.
* `family_erase`: a member who fed, or planned a feeding, in somebody else's
  aquarium cannot be erased: the foreign keys of those rows refuse it.
* `push_optout`: the first PUT of the preferences drops `global_opt_out`, and
  neither pass looks at it: the user is sent the next summary.

The models show more, which the passing runs leave out by name, by history
variable or by instance:

* Sync, two devices: two batches read a row before either writes, and the older
  edit may stay; a creation that is sent again after another device removed the
  schedule brings it back. `SyncAlone` therefore has one device.
* Sync, batches: a fish added and an aquarium deleted afterwards, in one batch:
  the deletion is applied first (`utils.py:226`) and the fish survives it
  (`changes.py:242`). `NoOrphans` is checked with single changes.
* Sync, REST deletions: `remove_fish` and `delete_aquarium` leave schedules
  active (`RESTOps` is `{"update"}` where `NoOrphans` is checked).
* Sync: one late edit of a deleted aquarium turns away the whole batch, at every
  retry (`Allowed`); a creation may carry any stamp (`Wins`).
  `_safe_apply` (`changes.py:1138`) promises to isolate failures, but a foreign key or
  unique key that fails aborts the batch.
* Feeding: an offline log of a schedule that was deleted meanwhile breaks its foreign
  key at every retry, and so does one sent with its own new schedule, since logs are
  applied first. The batch ends with a `SyncError`, and the device keeps its
  whole outbox for ever (`Refusable` in `LogsSettle`).
* Access: any member deletes an aquarium or its fish by sync, where validation asks
  for membership only (`validation.py:83-117`; `changes.py:219-252`, `431-464`), although
  the REST endpoints say "Only aquarium owner can delete fish" (`fish.py:235`) and the
  same of aquariums (`aquarium.py:281`).
* Expiry: a fatal error ends the pass whichever account it came of
  (`subscription_jobs.py:172-180`), and an account that is never verified stays at the
  head: one whose read ends so in every pass starves all behind it.
* SyncDelta: a transaction stamped before a delta and committed after it is
  never delivered (`sound`); a schedule deleted for good leaves no tombstone
  (`purged`); the 304 ignores schedules and the user's row (`api/sync.py:169-178`).
* ImageStore: nothing takes a key out of the queue when a row shows it again
  (`doubtful` in `PhotosKept`); and the weekly job reads the rows before it lists
  the bucket, so it queues photos whose upload commits in between, although
  `image_cleanup.py:190` says it finds unreferenced objects.
* Quotas: from 23:00 to 24:00 UTC every scan is answered with a 500, premium or
  not, since `_get_window_reset_time` builds hour 24 (`rate_limiter.py:82`;
  `NoNextHour`). Scans that overlap write the same number of free scans back, so
  two of them may cost one, and a reset may be lost (`apart` in `ChargedOnce`).
  The request limit is a fixed window, not the "sliding window" of
  `config.py:119` (`TwiceTheMinute`). Each upload attempt renews the 60 seconds of
  the counter: a client that uploads steadily at any interval below a minute is
  refused after `RATE_LIMIT_IMAGE_UPLOAD_PER_MIN` uploads until it pauses.
* Profile: reading `me/stats` creates a default streak stamped now, which beats
  an older offline edit; two first syncs collide on the primary key and abort a
  batch; an unknown type of achievement fails every statistics request from then on;
  "XP can only go up" (`changes.py:1010`) does not hold for concurrent updates
  (`raced`), and a higher value with an older stamp is refused.
* Push: FCM's INVALID_ARGUMENT may be about the message, which the whole batch shares,
  and `remove_invalid_tokens` then drops every working Android token of the user
  (`fcm.py:238-242`, `277`; `"argument"` in `ValidTokensStay`); an outage in the middle of a batch logs pushes that were delivered as
  failed; a database error of one user poisons the rest of the pass; a crash
  loses all logs of a pass; feeding and family pushes are sent before their
  request commits.
* Sessions: two password changes that read the same version write the same one,
  and tokens between them stay valid (`crossed`); a refresh that is interrupted
  after the old token was deleted signs the device out (`cut`).
* Scans: a label that fits two species fails with a 500 after each provider call;
  two confirmations that overlap mix their columns; alternatives may repeat the
  primary species.
* Catalogue: an update leaves search results stale for up to 30 minutes, and after
  a race a deleted species is served for up to a day; the back office clears nothing.
* Access: `add_fish` beside `delete_aquarium` leaves a live fish in a deleted
  aquarium; `get_aquarium_with_fish` fails when the aquarium goes between its two
  queries.
* Retention: of an event's properties, strings inside lists, and whatever is inside a
  list within a list, keep personal data (`analytics_cleanup.py:77-82`), although the
  docstring says that it is removed; an event that is deleted while a pass updates it fails the
  pass, and the deletion of that day is skipped.
* Backup: a clean-up that fails marks the good backup as failed and unlinks its
  file; a failed delete in the bucket drops the row all the same; two runs in one
  second share a name (`twins`).
* Worker: a removed job stays in the store, since start-up only adds and replaces, although
  `feeding_worker.py:53` counts removed jobs among the reasons for a new version; two builds that start at once leave a
  mixture behind (`torn`).

## 8. Not modelled, and why

* Parsing of HTTP bodies, image validation, presigned URLs, S3 listing pages and
  wording are data that no property distinguishes. Schemas, configuration,
  logging and migrations are declarations.
* Analytics ingestion and forwarding are called by no endpoint, nor are
  `require_premium`, `update_streak` and `use_freeze`. `export_user_data`, reports and
  listings only read. Admin views are generated CRUD; releases and the web
  pages read one table.
* The AI provider, the object store, FCM, APNs and SMTP are calls whose effect on
  state is to succeed or fail, which the modules that call them model.
* Within components: Webhook's authorization, bodies that do not parse and the
  legacy transaction key; in Push the log of a disabled preference; in Access the
  check of the species, a batch of more than one change, and an aquarium that the same
  batch claims to create, which validation counts as the user's
  (`validation.py:75-83`); in Retention the properties of events; in Profile
  `total_feedings` and `fish_count` of the statistics; in Scans the photo's copy in the object store; in Quotas premium users and the limits of single
  endpoints; in Backup the width of `size_bytes`.
