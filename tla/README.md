# Melbourne Sphere: TLA+ specification and proofs

Melbourne Sphere is a business directory and magazine: a public web site, an
administration interface, an API (NestJS, MySQL, Redis) and a worker (BullMQ).
The modules here specify the parts of it where several processes act on the same
rows, jobs and locks. TLC checks them on small instances. TLAPS proves the most
important properties for instances of every size. Every definition is translated
from the code; paths below are relative to the repository.

## Contents

| Module | What it is |
| --- | --- |
| `Handoff` | What the outbox promises: the fate of each event |
| `Outbox` | The outbox and its dispatchers, await by await; implements `Handoff` |
| `EnquiryDelivery` | An enquiry from the form to the mail provider; extends `Handoff` |
| `EnquiryDeliveryProofs` | Proofs about `EnquiryDelivery` |
| `ScheduledTask` | One non-overlapping scheduled task under its Redis lock |
| `QueueProofs` | Proofs about `Outbox`, the refinement included, and about `ScheduledTask` |
| `Publication` | Articles from draft to archive: editors, the scheduled publisher, redirects |
| `PublicationProofs` | Proofs about `Publication` |
| `Access` | Accounts, roles and grants of administrators, and the permission cache |
| `AccessProofs` | Proofs about `Access` |
| `Contributions` | Reviews with their rating, comments, reports, idempotency keys; submission and moderation |
| `ContributionsProofs` | Proofs about `Contributions` |
| `EmailLog` | The delivery log of email: senders, provider events, resending, retention |
| `EmailLogProofs` | Proofs about `EmailLog` |
| `MediaLibrary` | Media between database and object storage: upload, processing, use, removal |
| `MediaLibraryProofs` | Proofs about `MediaLibrary` |
| `Pages` | Information pages: editors, the scheduled publisher, revisions, addresses that change hands |
| `PagesProofs` | Proofs about `Pages` |
| `MCOutbox`, `MCEnquiryDelivery`, `MCScheduledTask`, `MCPublication`, `MCAccess`, `MCContributions`, `MCEmailLog`, `MCMediaLibrary`, `MCPages` | Instances for TLC |

`EnquiryDelivery` does not contain the dispatchers of `Outbox`. It is built on
`Handoff`, and `Outbox` is shown to implement `Handoff`, by proof for its steps
(`OutboxIsAHandoff`) and by TLC for its fairness (`NoneWaitsForEver`). That
`EnquiryDelivery` in turn does to its events only what `Handoff` allows is proved too
(`DeliveriesKeepTheHandoff`).

The other modules stand alone: what a module needs of a neighbour is a free choice in
it. Any attempt to send may begin at any time in `EmailLog`, since `EnquiryDelivery`
shows that attempts of one enquiry can overlap; a requested job of `MediaLibrary` may
be taken by any worker at any time.

To check one run: `tlc -config OutboxKept.cfg MCOutbox`. To check the proofs of
a module: `tlapm QueueProofs.tla`. `PROJECT.json` lists the runs, and which source
lines each definition stands for.

## Inventory

### How the parts interact

A request to the API changes rows in MySQL. When the change needs work
elsewhere, the same transaction writes an outbox row. A dispatcher in every API
replica polls the outbox and enqueues a BullMQ job whose id is the row's id. The
job slots of the worker processes carry the jobs out and write the outcome back
to MySQL. The worker also owns the schedules of the periodic tasks, which run as
jobs of the same queue. Administrators act on rows through the API (under a
version check), on jobs through the Queue Monitor, on tasks through the Schedules
screen. Nothing is shared but MySQL, Redis and the queue. Every `await` is a
point where another process may act, and a process may die.

### Components

| Component | State | Operations | What is hard | What makes it correct | Status |
| --- | --- | --- | --- | --- | --- |
| Outbox (`apps/api/src/outbox`) | rows with status, attempts, availableAt; one pass per replica | write, claim, enqueue, markDispatched, markAttemptFailed | replicas racing, crash between enqueue and mark, late outcomes, outage | at most one enqueue per attempt, truthful outcomes, nothing lost | modelled |
| Enquiries (`apps/api/src/enquiries`) | delivery and handling status, version | submit, updateHandling, retryDelivery | status read outside the transaction, two administrators | allowed transitions only, retries only of failed deliveries | modelled |
| Delivery (`apps/worker/src/enquiry-delivery.ts`, `main.ts`) | the same row; job state; the `failed` callback | deliverEnquiry, markDeliveryFailed | crash or failed query at any await, ambiguous send, repeated jobs, lost job locks | no silent loss, no false acceptance, no duplicate without a cause | modelled, without the email log |
| Queue Monitor (`apps/api/src/queues`) | jobs | retry, remove, clean, pause | racing the worker and the dispatchers | operators lose nothing silently | partly: pause is left out |
| Scheduled tasks (`schedule-runner.ts`, `scheduled-tasks.ts`) | lock, run records, jobs | run, lock, record, time out, release; sync | one lock for several slots, crashes with the lock, slow runs | runs exclude each other, the lock comes free, runs are recorded | modelled for one task; sync is planned |
| Schedules API (`apps/api/src/schedules`) | enabled flag per task | runNow, setEnabled | stale reads by the replicas | a task switched off stays off | partly: runNow |
| Articles (`apps/api/src/blog`) | article rows with status, version, dates, slug, place among the featured; active authors and categories | create, save, restore a revision, change slug, publish, schedule, unpublish, archive, restore, feature; deactivate | each handler decides on a row it loaded before its transaction | no lost update, every visible change announced, places within the limit | modelled, without autosaves, tags and the list of revisions |
| Scheduled publication (`scheduled-tasks.ts:87`) | the batch of due rows a pass read | publish, return to draft | editors and other publishers, stale author and category | only an unchanged, complete article or page is published; due articles are settled | modelled |
| Information pages (`settings/static-pages.service.ts`) | pages with version and address, revisions | create, save, restore a revision, publish, unpublish, schedule, move, remove | some writes go by id and some by address, and addresses change hands | no lost update, every replaced text kept, old addresses lead to the page | modelled, without autosaves and preview links |
| Settings (`settings/settings-store.service.ts`) | groups of values with a version | change | stale forms | no lost update | planned |
| Media (`media`, `media-processing.ts`) | assets, variants, two buckets | request, complete, process, reject, show, remove, retain | storage and database change separately, repeated jobs, removal against new usage | what is ready is whole, a file to be processed is kept | modelled, without metadata edits and reading |
| Email log (`apps/api/src/email`) | delivery rows, provider events | record, markSent, markFailed, applyProviderEvent, resend, purge | events repeated, out of order, before the message id; lost answers | the most meaningful status shows, the log tells the truth | modelled, without templates and lists |
| Idempotency (`common/idempotency.service.ts`) | remembered receipts | lookup, run, remember | two requests with one key at once, a receipt never stored | a second row has a cause | modelled |
| Sessions (`auth`) | sessions, reset tokens, challenges, counters | sign in, validate, revoke, reset | limits checked before the insert, concurrent use of one token | a token is used once, revoked sessions stay revoked | partly: sessions as far as `Access` needs them |
| Authorization, administrators (`authorization`, `admins`) | status, roles, grants, versions, cached permissions | create, change roles and grants, disable, enable, change a role, resolve a caller | stale cache, decisions on rows read before the transaction, the last super administrator | a change takes effect at the next request, one super administrator remains | modelled, without invitations' mail, profiles and permission groups |
| Comments (`blog/comments.service.ts`), reviews and reports (`reviews`) | moderation states, versions, ratings, threads | submit, approve, reject, redact, reply, investigate, resolve | two moderators, the rating beside its rows, the first rating | nothing decided unseen, ratings exact, two levels | modelled |
| Redirects (`apps/api/src/seo`) | the redirects table | record a slug change, administer, resolve | sequences of slug changes, addresses used again | an old address leads to its article in one hop | modelled for address changes of articles and pages |
| Menus, alerts, partners, FAQs | drafts | change, publish | stale drafts | no lost update | planned |
| Cache invalidation (`cache`, web revalidation) | tags | invalidate, revalidate | lost and repeated invalidations | a change is eventually seen | planned |
| Heartbeat (`heartbeat.ts`, `worker-liveness.service.ts`) | a key with a lifetime | beat, read | a late beat after a stop | a dead worker is seen | planned |
| Directory, search, hours, taxonomy | listings, calendars | edit, query | mostly version-checked edits and pure queries | - | later; hours as an algorithm |
| Mail transports, database access, configuration, metrics, audit, dashboards | - | I/O, counters, read views | - | - | not modelled |
| Web and admin interfaces, shared components, contracts, command-line tools | - | rendering, generated code, one-off scripts | - | - | not modelled |

`PROJECT.json` lists every component with its sources, and every hazard with its
line and the properties aimed at it.

## Plan

Done, in this order: `Handoff` and `Outbox` with their proofs, since everything
asynchronous goes through them; `EnquiryDelivery` on top of `Handoff`, the product's
promise to a visitor; `ScheduledTask`, the lock every periodic task depends on;
`Publication`, the main task under that lock, against the editors; `Access`, on which
every administrative request rests; `Contributions`, where totals are kept beside the
rows they count; `EmailLog` and `MediaLibrary`, the two places where the database and
a service outside it must agree; `Pages`, where addresses stand for rows and change
hands.

Next, most important first:

1. `TaskSwitch`: enable and disable against `sync` of several replicas and `runNow`.
2. Redirects: the administrators' own (temporary, gone, switched off) beside the address
   changes of `Publication` and `Pages`.
3. `Sessions`: the limit, revocation, single use of reset tokens and challenges.
4. Menus, settings, cache invalidation, heartbeat; opening hours as an algorithm.

Runs stay at two actors that can touch a row and one or two rows, since the races in
this code are between two holders of one row. Theorems then cover every number of them.
Modules that will be proved about declare no RECURSIVE operators.

## The models

### Handoff

`fate` gives each event one of `unwritten`, `waiting`, `handed`, `abandoned`. A
row is written with the change it describes (`Accept`), handed to the queue
(`HandOver`) or given up in view of the operators (`Abandon`). `Reprieve` is a
step the code forces upon the specification: outcomes are recorded by row id alone,
so a dispatcher slower than the others can still hand over, or put back, an
event they gave up on. Nothing is ever taken back from the queue.

### Outbox

One row per event (`status`, `attempts`, `due`) and one pass per dispatcher
(`stage`, `cands`, `batch`, `cur`). The actions follow the awaits:

| Action | Code |
| --- | --- |
| `Write` | `OutboxService.write` in the caller's transaction |
| `Scan` | the query of `claim`; the guard is the `running` flag |
| `ClaimRow`, `LoseRow` | the conditional update of `claim`, taken or not |
| `ReadBack` | the second query of `claim`, which may read a later attempt count |
| `PassOver`, `Enqueue`, `Refuse` | the loop of `runOnce`; a refusal may come after the queue took the job |
| `MarkDispatched`, `MarkAttemptFailed` | updates by id alone |
| `MarkThrows` | `markDispatched` throws inside the inner `try` |
| `PassLost` | the replica dies, or a query outside the inner `try` throws |

Abstractions: a `markDispatched` that throws has had no effect (one whose answer alone is
lost would be followed by `markAttemptFailed` in the same way); `availableAt` is the flag
`due`, cleared by a claim and set again by
`BackoffElapses` at any time, so that a claimer may be slower than its own backoff;
a batch is processed in any order; the queue is the set of events it took. Two
history variables, `handed` and `calls`, record what the queue was told.

### EnquiryDelivery

The enquiry's row (`delivery`, `handling`, `version`), whether its listing can
receive it (`routable`), the job of each outbox event (`job`, `made`, `stalled`), job
slots (`run`), callbacks not yet carried out (`reports`) and administrators
(`desk`). Actions: `CheckSubmission` and `CommitSubmission` (submit reads the listing
outside its transaction); `OpenRetry`, `OpenHandling`, `CommitRetry`,
`CommitHandling`, `RefuseStale` (read, then conditional update); `Dispatch`,
`DispatchLate`, `GiveUp` (`Handoff`), `DispatchAgain`; the queue's own `Take`,
`BackoffOver`, `Expire`, `Recover`; `Rerun` and `Remove` of the Queue Monitor; and
`deliverEnquiry` await by await, from `Load` to `RecordAccepted`, `RecordBounced` or
`RecordDeferred`, then `Complete` or `Fail` and `MarkDeliveryFailed`.

What may go wrong is named by the constant `Disturbances`: worker crash, lost job
lock (`stall`), failing query, failing callback, an ambiguous answer of the
provider, an event given up, a repeated enqueue, an operator's retry or removal.
Each run says which it admits and how many.

Abstractions: names, messages and addresses are left out. `delivered` is a status
nothing writes to an enquiry, so it is not in the model. The best-effort email log
row is left out. `Crash` applies to one slot; each slot stands for a process of
its own. BullMQ is outside the repository and is modelled as the code relies on
it: a job id is unique while the job exists, a failed attempt comes back after
a backoff, the attempt count survives an operator's retry, an active job without a
living lock is put back once and fails the second time, and a worker that lost its
lock can no longer complete the job. The `failed` callback for such a job is not
modelled: with five attempts it does not write the row.

### ScheduledTask

Jobs that name the task, processes (`Runner`), job slots and the process each
belongs to (`Home`), the lock and the slot that took it (`taker`, history), the
record of each job's latest run, and `loose`, the work of runs that timed out and
go on. Names that `Outbox` has too carry the word Task (`TaskInit`, `TaskNext`,
`TaskTypeOK`), because `QueueProofs` extends both modules. A run is `Take`, `Acquire` or
`Locked` and `Skip`, `OpenRow`, `Finish` or
`TimeOut`, `CloseRow`, `Compare`, `Delete` or `NotMine`. The lock holds the identity
of the process, as in `schedule-runner.ts:84`, so two slots of one process are not
told apart; releasing it is a GET and a DEL.

`Expire` frees the lock, either after its run has ended or under a run that takes
longer than its timeout and 30 seconds (disturbance `slow`); the history variable
`overran` notes the latter, and exclusion is stated up to that point.
`QueryThrows` and `LockThrows` end a run with the lock in hand; a lock command may
have had its effect although it threw. Jobs of `runNow` carry the API queue's
default options and are retried by the queue; jobs of the schedule and of the
start-up dispatch have one attempt (`Manual` tells them apart). The remaining
attempts of a manual job are a free choice of the model. A job whose worker lives is not
given to another slot, as BullMQ would when the job's own lock is lost.

### Publication

One row per article, and what each editor has open or has submitted (`desk`). A
request is three steps: `View` (the form carries the version), one of `CheckCreate`,
`CheckSave`, `CheckMove`, `CheckTransition`, `CheckFeature`, `CheckUnfeature` (the
handler loads the row, compares the version and applies its rules), and `Commit` or
`CommitCreate`, the transaction, whose `updateMany` compares the version again;
`Refuse` stands for the answers 409. What is written (`Written`), whether an
invalidation is recorded (`Announces`) and whether a redirect is left (`Redirected`)
are one operator each, decided, as in the code, on the row that was loaded.

The publisher reads its batch (`ReadDue`), then treats each article of it in a
transaction of its own: `PublishDue`, `ReturnToDraft`, `SkipDue`. `StopPass` is the
death of the process or a query that throws. Author and category are read with the
batch (`credited`). `CountLive` and `Deactivate` are the two halves of `setAuthorActive`
and `setTermActive`.

`redirect` is the table of redirects between addresses of articles. `announced` is what
visitors were to see as of the last invalidation event of each article, `known` the
article an address was last given to among those that had been published; both are
history. `OldAddressesLead` is about the addresses an article has left; that nothing leads
away from the one it is at is `LiveArticleIsServed`, which the code does not keep.

Abstractions: a text is one value that is long enough or not (title, summary and
body are checked alike); author and category are one `Term`, since every rule asks for
both in the same way; a save carries text, slug and author together; dates other than
`scheduledAt` are kept as set or not; a batch is not cut at 200 articles; the row
locks of `setFeatured` make its count and its update one step.

### Pages

One row per page, editors with a form or a request (`desk`), the publisher's batch
(`pass`), the revisions kept, the redirects of addresses. A form is opened at an address
(`View`) and carries a version. The check loads the row at that address and compares the
version (`CheckSave`, `CheckPublish`, `CheckUnpublish`, `CheckSchedule`,
`CheckUnschedule`, `CheckMove`, `CheckRemove`, `CheckCreate`). The transaction then finds
its row by one of three conditions (`Target`, `CommitRemove`): `update` and `setStatus` by
address and version, `schedule`, `unschedule` and `changeAddress` by id and version,
`remove` by address alone. Since pages move and go, and their addresses are given to other
pages whose versions begin at 1, the first and the last may find another page than the one
that was loaded. `confused` notes that an address has been given to a page while an editor
had a form or a request for the page that had it before; the properties are stated until
then, and fail without that condition, all but where addresses lead (the second half of
`VisitorsFindPages`), which does without it. That half has an exception of its own:
`shadowed` has the pages that were given their address while a redirect led away from it.
`create` asks for no redirect and `changeAddress` asks before its transaction; the redirects
are answered before the pages, so such a page is hidden when it is published. The property says
that this is the only way: no other step puts a redirect over a page, and the published
move of a page clears the one at its new address.

`Kept` is the upsert of the revision and the deletion of the oldest, `Redirected` is
`writeRedirect`, and the publisher's steps are those of `Publication` on pages. `announced`
is what visitors were to see as of the last invalidation of a page, `known` the page last
published at an address, as long as it stays published; with `confused` and `shadowed`
they are history.

Abstractions: a text is one value that meets the publication rules or not; duplicating a
page is a creation and restoring a revision a save, with any text; a system page's first
save creates it; product routes, layout, search settings, references to media, autosaves,
preview links, the cache's namespace and audit records are left out. `Gone` is a removed
page; ids are not used again.

### Access

Accounts (`status`, `version`, `authz`, `roles`, `direct`), roles (`standing`,
`roleVersion`, `carries`), the entries of the permission cache under the version in
their key (`cache`), whether an administrator has an open session (`signedIn`), row locks
(`lock`), and the requests under way. A request is resolved first, as every guarded
route does it: `Arrive` reads session and authorization version, `Hit` or `ReadGrants`
and `ReadCarried` (two queries) find the permissions, `Store` writes the entry. It may
then be answered, or decide on a change:

| Action | Code |
| --- | --- |
| `Decide`, `DecideRole` | what the handlers check before their transaction, including whether a super administrator would be lost |
| `LockSuper` | `assertNotLastSuperAdminTx`: `FOR UPDATE` on the protected role, then the count |
| `Create`, `Update`, `Disable`, `Enable` | `AdminsService`; the sessions are revoked afterwards (`Revoke`) |
| `ReplaceRoles`, `ReplaceDirect` | `AuthorizationService`, which revokes inside the transaction |
| `LockRole`, `ReadHolders`, `CommitRole` | `updateRole` and `setRoleActive`: the holders are listed on another connection while the row of the role is locked |
| `CreateRole`, `DeleteRole` | the same service; a foreign key guards the deletion |
| `BeginSetup`, `FinishSetup` | `acceptSetup`, which makes the account active by id |
| `Refuse`, `Abandon` | a conflict; a process that dies or a connection that breaks |

Abstractions: one permission stands for those that the routes ask for; a failing
Redis is a miss (a failing `Store` an entry nobody finds); entries do not expire, which
allows more stale hits, not fewer; an insert into `admin_roles` waits for the lock of
its role, as InnoDB makes it through the foreign key.

### Contributions

One kind of row with a form (`review`, `comment`, `report`), status and version,
`rating` of each business (which exists only from its first approved review on), the
receipts of idempotency keys (`memo`), the forms under way (`submission`) and the
pages moderators have open (`work`). A form goes through `Begin` (lookup),
`DropExpired`, `Check`, `Create` and `Remember`; `Forget` is a process that dies
before the receipt is stored; `Expire` is the passing of a day. A moderator does `Open`,
`Load` (the service reads the row and checks version and decision), then `Decide` (one
conditional update), or `Enter` and `Commit` when the rating changes as well:
`Commit` creates the rating when `Enter` found none, and is undone as a whole when
another transaction has created it since. `StaffReply` answers in a thread.

Abstractions: spam is a rejection; the neutral receipt for a report on a comment of an
unpublished post is left out, as it makes no row; the texts, the flag for repeated reviewers and the
human check of a form are left out; the page a moderator sees is the row as it was,
so that a decision on a row that changed in between can be told from one that did not.

### EmailLog

`entry` is a row of `email_deliveries` (its status, the times it holds as the set
`said`, the provider's message id), `sender` the attempt it stands for, `taken` and
`reports` what the provider has and says, `applied` the events recorded, `handler` the
requests of the webhook under way. `Record`, `Take`, `Reject`, `Misread`, `Note` and
`Die` are an attempt of the API's `RecordingMailer` or of the worker; `Emit`,
`Receive`, `Apply` and `Drop` an event, of which the provider may repeat and reorder
any; `Ask`, `Replace` and `Purge` the resend and the retention task. `Rank` is
`STATUS_RANK`; `Moved` compares, as the code does, with the status read before the
transaction.

Three histories say where the log may be wrong: `posted` (the provider took the
letter), `excused` (an answer or a write was lost, or another row had the message) and
`mixed` (two events of one delivery were handled at once).

### MediaLibrary

`rec` is an asset with the keys of its copies, `original` the private bucket, `public`
the public one, `job` the processing each image has been asked for, `run` the jobs
under way, `desk` the requests of administrators and the retention task, `shown` what a
page refers to. Every statement and every call to storage is a step of its own:
`BeginComplete`, then `Accept`, `Copy` and `PublishDocument`, or `Decline`, and
`DropOriginal`; `Load`, `Read`, `Put`, `Publish`, or `ReadCopies`, `DeleteCopies`,
`Clear`, `Mark` (the rejection); `BeginShow` and `Show`; `BeginRemove`,
`DeleteObjects`, `DeleteOriginal`, `DeleteRow`; `GiveUp` ends a request that a check
refuses or whose process dies. Storage that fails, a process that dies,
a query that fails and a finished job that is run again are disturbances.

Two histories name what the code leaves open. `contested` has the assets of which two
operations overlapped: two completions, two jobs, a removal and a page that takes the
image. `halfway` has those whose removal broke off after it had begun to delete, with one
operation alone. `ReadyIsWhole` says nothing of contested assets; of the halfway ones it
still says that the row has copies and that what is shown is ready, but not that the
objects are there. `SubmittedIsKept` holds of contested assets too; a submitted image that
is being removed may have lost its file, but then the row goes in the next step, unless the
removal breaks off (`halfway`). That the upload may have been submitted after retention
had listed it as abandoned is part of the model (`BeginRemove` and `Accept` in either
order).

Abstractions: sizes, checksums' values, focal points and formats are left out; keys
are random, so a new object gets one nobody knows; what the database does to a
reference is modelled for those that restrict deletion. References that are set to
null by a deletion, and the ids kept in settings and in page texts, are not. An upload is
put once while it is not submitted; the signed address could be used again until it expires
(`media.service.ts:141`).

## Runs

Passing runs. Bounds are constants of the cfg, never constraints.

| Run | Instance | Shows |
| --- | --- | --- |
| `OutboxKept` | 2 replicas, 2 events (one without a consumer), batches of 1, 2 attempts, 1 fault, fairness | `AttemptEnqueuedOnce`, `ClaimedOnlyWhenDue`, `KeepsHandoff`, `Settles`, `NoneWaitsForEver` |
| `DeliveryKept` | 2 slots, an enquiry and one retry of it, 2 attempts, any 2 disturbances but a stall, fairness | `NoSilentLoss`, `EventuallyAccountedFor` |
| `DeliveryHonest` | 2 administrators, 2 slots, an enquiry and one retry of it, 1 attempt, any 2 of crash, stall, failing query, lost answer, repeated enqueue, rerun job | `AcceptedIsHonest`, `NoUnexplainedDuplicate`, `HandlingIsAsAudited` |
| `TaskKept` | 2 processes with 3 slots, a manual job and one of the schedule, any 2 disturbances, slow runs among them, fairness | `OneRunAtATime`, `OnlyHolderClears`, `EveryJobEnds` |
| `PublicationKept` | 1 editor, 1 publisher, 2 articles, 3 addresses, 1 author, 1 featured place, a clock of 2 instants, at most 4 and 2 versions by editors, fairness | `NothingOverwrittenUnseen`, `PublishedAsApproved`, `EveryChangeIsAnnounced`, `OldAddressesLead`, `DueIsSettled` |
| `AccessKept` | 2 administrators (one a super administrator, the other anything an account can be), 1 role besides the protected one, 1 permission, 2 requests, none begun to decide after 1 change | `SuperAdminRemains`, `CacheIsCurrent`, `ChangeIsSeen` |
| `ContributionsKept` | 3 rows, 1 business, 1 article, 2 moderators, 2 visitors with 1 key, 2 forms, no page opened after 2 decisions | `RatingIsExact`, `DuplicatesExplained`, `NothingDecidedUnseen` |
| `EmailKept` | 2 rows, an enquiry and an invitation, 2 messages, 3 events with 4 verdicts, 2 webhook requests | `StatusIsMostMeaningful`, `LogIsTrue` |
| `MediaKept` | an image of 1 rendition and a document, 2 objects, 2 workers, 2 requests, any 1 disturbance | `ReadyIsWhole`, `SubmittedIsKept` |
| `PagesKept` | 2 editors, 1 publisher, 2 pages, 2 addresses and a system page's, 2 texts, 1 revision kept, a clock of 2 instants, at most 3 and 2 versions by editors | `VisitorsFindPages`, `NothingOverwrittenUnseen`, `EarlierVersionsAreKept` |

`TypeOK` is checked in each module's `...Kept` run. `DeliveryHonest`,
`AccessKept`, `ContributionsKept`, `EmailKept`, `MediaKept` and `PagesKept` use the symmetry
of their actors, rows, objects or addresses, which is sound because they check no liveness. Deadlock
is not checked: with nothing due, nothing to deliver or nothing to run these systems
rest.

Why the bounds are enough to meet the interesting cases: two replicas or slots are
what a race over one row takes; two attempts let a row or a job fail, come back and
be exhausted (in `DeliveryHonest` a job comes back by a crash, a stall or an operator
and one attempt is enough); two events of one enquiry are a delivery and its retry side by side;
two disturbances include a crash during the recovery from a crash, and the second
stall that makes a job fail without an attempt; three slots of which two share
a process are what it takes for the lock's owner to be ambiguous. In `OutboxKept`
one fault is enough for every order of a lost pass and a late outcome; batches of one
lose nothing there, since a row's handling does not depend on the rest of its batch.
One enquiry suffices because enquiries share only slots. `MaxVersion` bounds what
administrators do and nothing else. `PublicationKept` has the two actors that race
for a scheduled article, an editor and the publisher; three changes after its creation are
enough to publish an article and move it twice, to publish, feature and withdraw it, or
to schedule it, save it and schedule it again while the publisher holds a copy; three addresses let an article move
twice and another take an address it left. Two editors at once exceed what TLC can do
with all requests; that case is covered by the theorems, which hold for every number of
editors and publishers. In `AccessKept` `MaxChanges` stops new decisions once one
change is made, but not those already decided: both requests can be between their check
and their write, which is where one can undo what the other counted on. In
`ContributionsKept` three rows are two reviews and a third, or a comment, its reply and a
reply to that; two decisions let one moderator reject what another is about to approve,
and two first approvals meet at the missing rating. `EmailKept` has two events to
arrive out of order and a third to repeat, and two attempts to claim one message.
In `MediaKept` two objects are what two jobs of one image make of it, or an image and a
document published side by side. In `PagesKept` two editors and two pages are what it takes
for an address to change hands under an open form; a page can be written, published and
moved, or scheduled, saved and scheduled again while the publisher holds a copy, and with
one revision kept the second save already makes the first give way. Every property has a mutant in `PROJECT.json`,
a plausible mistake in the code under which the same run finds it violated.

`NoUnexplainedDuplicate` is about enquiries on which two slots never work at once. Two
jobs of one enquiry do overlap when a job is run again beside a retry, or when a
worker outlives its lock, and then the later write hides the earlier one (see below); such an enquiry can be sent more often than it was asked for.

Fairness. `Outbox`: the timer fires every two seconds and every await settles, so a
replica that can work eventually does (`Work`), and backoffs elapse. Weak fairness is
enough, since a replica's work stays enabled until it takes a step or crashes.
`EnquiryDelivery`: dispatchers, the queue and the slots go on for the same reasons;
visitors, administrators and disturbances owe nothing. `ScheduledTask`: the queue
delivers, slots go on, the lock's lifetime ends. A run that never settles is not
assumed away: it times out, and timing out is a step of the run. `Publication`: the
task runs every minute, so a publisher with due articles reads them (weak fairness of
`ReadDue`), and an article whose treatment is possible again and again is treated in
the end (strong fairness of `Treat`, since a pass that stops takes the chance away: it
says that one article does not break every pass for ever). Editors owe nothing. Only
`OutboxOutage` assumes more (`OutageSpec`: a queue that is called again and again
accepts again and again), which makes its counterexample stronger.

### Where the code disagrees with what is said of it

Two of these are runs that TLC finds violated; `PROJECT.json` quotes the lines.

| Run | Property | What happens |
| --- | --- | --- |
| `OutboxOutage` | `OutageOnlyDelays` | five refused enqueues, under a minute or so of outage, make a row `failed` for good; the dispatcher's comment says an outage only delays |
| `PublicationShadow` | `LiveArticleIsServed` | an article published at an address another article has left is unreachable: nothing but a slug change of a published article removes the redirect, and the web middleware asks redirects first |

The modules admit the following as well, and their properties are stated so as to hold
all the same; each is a step, a guard or a history variable of the module named.

- `EnquiryDelivery`: of two jobs of one enquiry, the slower overwrites
  `providerAccepted` with `retrying` and sends again, although the delivery calls an
  accepted enquiry a no-op (`RecordDeferred` writes by id). `retryDelivery` checks
  that a delivery failed before its transaction and updates under a version that the
  worker does not move, so that one accepted in between is queued again (`CommitRetry`).
- `ScheduledTask`: a run that outlasts its lock deletes the lock of a later run, since
  the lock names the process and not the run (`Compare`, `Delete`, `overran`); and a run that
  timed out is recorded and releases the lock, but its work goes on beside the next
  (`loose`), although the requirements say that a task is never run twice at once.
- `Pages`: a save or a change of status that was checked against one page is written to
  another that has got the address since and is at the same version, and the revision it
  keeps is of the first page (`Target`, `confused`). `remove` checks the status
  before its transaction and deletes by address alone, so that a page published in
  between goes without an invalidation (`CommitRemove`), although a test says that a
  page that is still published is not deleted (`static-pages.integration-spec.ts:147`).
  `create` does not ask whether a redirect leads away from the address, and `changeAddress`
  asks before its transaction (`CheckCreate`, `CheckMove`, `shadowed`): a page made and
  published at an address that another published page has left is not served there, although
  the comment of `changeAddress` says that "a rule already sending that address elsewhere
  would hide the page from the moment it moved; that decision belongs to whoever made the
  rule" (`static-pages.service.ts:489-490`).
- `EmailLog`: two events of one delivery handled at once can lower its status
  (`mixed`), which the comments of `email-delivery.service.ts` and
  `docs/operations/email-deliverability.md` exclude; an event that arrives before the
  message id is recorded is acknowledged and lost (`Receive`); the replacement that a
  resend writes is never sent by anybody (`Replace`, `unsent`), though the comment
  leaves it to the caller.
- `MediaLibrary`: a job that fails after its first renditions leaves them in the public
  bucket with no row that names them (`Put`, `Spoil`), although `media-processing.ts`
  says that nothing is written before every variant succeeds; two overlapping
  completions, jobs, or a removal and a use can leave an asset ready without
  its objects (`contested`), and so can a removal that breaks off between the objects and
  the row (`media.service.ts:283-286`, `halfway`). `media.retention` lists abandoned uploads,
  then deletes file and row of each by id: one that is submitted in between is deleted
  all the same (`BeginRemove`, `Accept`, `DeleteRow`), although its comment says that
  completed uploads "are kept" (`scheduled-tasks.ts:217-221`).
- `Contributions`: two submissions with one key that overlap make two rows
  (`excused`), which the comment of `idempotency.service.ts` excludes.
- `Access`: an account disabled while its setup form is being answered becomes active
  again (`FinishSetup`).

## Proofs

All theorems hold for every value of the constants that satisfies the modules' named
assumptions (finite bounds are natural numbers, budgets at least one, `Home` and
`About` are functions, rows are finitely many where they are counted, the null values
are fresh). `NothingIsLostSilently` assumes in addition that workers do not outlive
their job locks (`NoStall`): a worker that did can write `retrying` over the final state
when no job is left. `RunsExcludeEachOther` and `HolderClears` need no such assumption,
as their properties speak of the time until a run outlasts its lock. `DispatchedIsTrue`,
`BudgetIsSpent`, `CompletionsAreRecorded`, `FeaturedWithinLimit` and `TwoLevelsAlways` state
properties that no run lists: they are proved, and not model-checked as well.

| Theorem | Property |
| --- | --- |
| `QueueProofs!InductiveInvariant`, `TypeCorrect` | `OInv`, `TypeOK` |
| `QueueProofs!AttemptsAreEnqueuedOnce` | `AttemptEnqueuedOnce` |
| `QueueProofs!DispatchedIsTrue` | `DispatchedWasHanded` |
| `QueueProofs!BudgetIsSpent` | `GivenUpAfterBudget` |
| `QueueProofs!BackoffIsRespected` | `ClaimedOnlyWhenDue` |
| `QueueProofs!OutboxIsAHandoff` | `KeepsHandoff` (safety refinement) |
| `EnquiryDeliveryProofs!TypeCorrect` | `TypeOK` |
| `EnquiryDeliveryProofs!AcceptancesAreHonest` | `AcceptedIsHonest` |
| `EnquiryDeliveryProofs!HandlingIsAudited` | `HandlingIsAsAudited` |
| `EnquiryDeliveryProofs!NothingIsLostSilently` | `NoSilentLoss` |
| `EnquiryDeliveryProofs!NoDuplicateUnexplained` | `NoUnexplainedDuplicate` |
| `EnquiryDeliveryProofs!DeliveriesKeepTheHandoff` | `HandoffSafety` (safety refinement) |
| `QueueProofs!TaskTypeCorrect` | `TaskTypeOK` |
| `QueueProofs!RunsExcludeEachOther` | `OneRunAtATime` |
| `QueueProofs!HolderClears` | `OnlyHolderClears` |
| `QueueProofs!CompletionsAreRecorded` | `CompletedIsRecorded` |
| `PublicationProofs!InductiveInvariant`, `TypeCorrect` | `PInv`, `TypeOK` |
| `PublicationProofs!NoLostUpdate` | `NothingOverwrittenUnseen` |
| `PublicationProofs!OnlyTheApproved` | `PublishedAsApproved` |
| `PublicationProofs!EverythingAnnounced` | `EveryChangeIsAnnounced` |
| `PublicationProofs!AddressesLead` | `OldAddressesLead` |
| `PublicationProofs!FeaturedWithinLimit` | `FeaturedArePublished` |
| `PagesProofs!InductiveInvariant`, `TypeCorrect` | `PageInv`, `TypeOK` |
| `PagesProofs!VisitorsFind` | `VisitorsFindPages` |
| `PagesProofs!NoLostUpdate` | `NothingOverwrittenUnseen` |
| `PagesProofs!EarlierVersions` | `EarlierVersionsAreKept` |
| `AccessProofs!TypeCorrect` | `TypeOK` |
| `AccessProofs!OneSuperAdminAlways` | `SuperAdminRemains` |
| `AccessProofs!CacheNeverLies` | `CacheIsCurrent` |
| `AccessProofs!EveryChangeIsSeen` | `ChangeIsSeen` |
| `ContributionsProofs!InductiveInvariant`, `TypeCorrect` | `IInv`, `TypeOK` |
| `ContributionsProofs!RatingAlwaysExact` | `RatingIsExact` |
| `ContributionsProofs!KeysExplained` | `DuplicatesExplained` |
| `ContributionsProofs!TwoLevelsAlways` | `ThreadsStayTwoLevels` |
| `ContributionsProofs!DecidedAsSeen` | `NothingDecidedUnseen` |
| `EmailLogProofs!InductiveInvariant`, `TypeCorrect` | `IInv`, `TypeOK` |
| `EmailLogProofs!StatusShowsTheMost` | `StatusIsMostMeaningful` |
| `EmailLogProofs!LogTellsTheTruth` | `LogIsTrue` |
| `MediaLibraryProofs!InductiveInvariant`, `TypeCorrect` | `IInv`, `TypeOK` |
| `MediaLibraryProofs!ReadyHasItsObjects` | `ReadyIsWhole` |
| `MediaLibraryProofs!JobFindsItsFile` | `SubmittedIsKept` |

The arguments, in short.

*Outbox.* None of the properties is inductive. `OInv` adds that the row has counted
every attempt somebody holds (`TicketsAreCounted`), that two claims never hold the
same one (`TicketsAreUnique`) and that one that has not reached the queue has not
been used (`UnsentIsUnused`): a conditional update that finds the attempts it read
creates an attempt number nobody had. The backoff is respected although the update
does not look at the time, because a candidate whose attempts still agree with the
row was due when it was read and only a claim clears that
(`ScansAreStaleOrDue`). For the refinement, each step moves the fate of at
most one event, and along an edge of `Handoff`.

*Delivery.* Honesty needs that a slot about to record an acceptance has a message
to show for it, and that messages are never taken back. That handling
changes as audited needs that a request whose version is still the row's has read
the row's present handling status (`DeskInv`), although deliveries change the row
under the same version. No silent loss needs that each busy slot holds the lock of its
own active job and no two slots the same event (`SlotsHold`, `OneSlotEach`): a slot
then vouches for its job until it ends it. `Witnessed` says that every pending enquiry
has an event for which something will still be done or that operators can see.
No duplicate is a matter of accounts: `Counted` says that the messages of an enquiry are
covered by its accepted events and its hidden acceptances, with one to spare while
the enquiry owes a message (`Owing`: its outcome is open and no slot is about to record an
acceptance). A slot that may send finds it owing (`SenderOwes`), because it read the
outcome before (`StillOpen`) and nobody else has worked on the enquiry since
(`AloneUnlessNoted`); and an enquiry begins to owe only with a new event or a hidden
acceptance (`WhoOwes`). This needs no assumption on stalls: two slots on one enquiry
are noted in `overlapped` in the step that brings them there.

*Scheduled task.* A run between taking and releasing the lock is the lock's taker
(`SectionHolds`), because the lock expires only after its taker has left that
section; two such runs are hence one. A run that outlasts its lock is noted in `overran`
in the very step in which the lock expires, which ends the claim. That no run clears another's lock follows from
this and not from the comparison in `releaseLock`. Records need that a job in hand is
active and in one slot's hand only (`JobsInHand`).

*Publication.* Every write raises the version, so whoever holds a copy of a row holds the
row itself if the versions agree (`DesksHoldCopies`, `PassesHoldCopies`); a
transaction that passes its guard therefore acts on the row its handler decided on.
What was checked of the loaded row (`RequestsAreReady`) is then true of the row that
is written, from which follow that nothing unseen is overwritten, that only
approved articles go public and that deciding about an announcement early does no
harm. An article being created is nobody else's (`CreationsAreNew`). For the limit,
`WithinLimit` adds that the featured articles are finitely many; only `setFeatured`
adds one, under the count. For the addresses, `AddressInv` says that a published article
is the last that was given its address (`PublishedAreKnown`) and moves by
`changeSlug` alone (`RequestsKeepAddresses`), whose redirect carries the older addresses
along and clears the one it moves to.

*Pages.* As with articles, a copy with the row's version is the row (`CopyOf`,
`CopiesStayCopies`). That settles what is written by id. What is written by address may
find another page with the same version; it does not as long as every desk's address
still leads to its page or to none (`Finds`), which only giving an address away can
break, and that is what `confused` notes. `CommitFinds` brings the two together: what a
transaction finds and leaves, for every operation. Removal goes by address too and may take a
page that has since been published; `KnownInv` holds nevertheless, since the addresses of
a page are forgotten with it. That no redirect covers a page but those noted in `shadowed`
(`ShadowInv`) rests on the unique index: a published move redirects the address it leaves,
which no other page has, and carries along only what led to that one. The limit on revisions is a counting argument: numbering the
latest revisions of a page by how many are newer tells them apart (`LatestAreFew`), so no
more than `MaxRevisions` stay, and if one is dropped from a set that was one too large, all
newer ones have stayed (`DroppedHasLater`).

*Access.* Every change of what an account may do moves its `authz` in the same step
(`RightsMove`). So a request that still has the present version has read grants that
have not changed since, in whichever of its queries (`Resolving`), and what it stores
under that version is true and stays true until the version moves (`EntriesSound`).
The step that could break this is a change of a role, which retires the holders it has
listed before: its row lock keeps new holders out (`Altering`, `Spares`). For the super
administrator, whoever takes one away has either seen that the row does not hold the
protected role and finds it under the same version, or holds the lock of that role
since before it counted another (`Changing`, `Guarding`); nobody else takes a holder
away meanwhile.

*Contributions.* A moderator in the transaction holds a row that is still as it was
read (`WorkSound`), alone (`OneHolder`), so the sign of what it adds to the rating is
right for the row it writes; a rating it found is there, one it did not find and does
not meet is empty (`RatingSound`), so that it is right to begin with the first review's
own stars. Counting a set of approved reviews with one more or one less element is done
with the cardinality theorems of the library (`StarsJoin`, `CountsUp`, `CountsDown`).
Threads keep two levels because a parent once fit to be answered stays fit
(`ParentsFit`): nothing moves a comment. For the keys, `Tokens` says that while nothing
excuses a key it has at most one request in flight, no row before that request makes
one, and a fresh receipt from its answer on.

*Email log.* A delivery is as its sender recorded it until the sender notes the outcome
(`SendersFit`): the handler of an event finds a delivery by a message only after that.
The handler of a delivery whose events were not handled at once is alone with it and has
read the status the row still has (`HandlersFit`, `OneHandler`), so the rank it compares
with is the present one. What a delivery names was posted before it was noted.

*Media library.* The invariant speaks of one asset at a time. A step works on one asset;
that it leaves the others alone (`OthersKept`) needs that the objects a row, a job or a
request knows of are known to those of one asset only (`Disjoint`), which holds because
keys are fresh. Of its own asset a step shows that a job, or a completion, is alone while
the status is still `quarantined` (`Alone`), that what it has made is in the bucket
(`Made`), and hence that the asset it makes ready is whole (`Whole`). A completion and a
job exclude each other by the checksum: a job has set it, a completion of an image begins
only without it. What is shown, or about to be, is ready and not being removed
(`Visible`): the overlap of the two is just what `contested` notes. A removal that
breaks off takes an asset out of the claim on its objects (`halfway` in `Whole`) and out of
nothing else. That a submitted image has its file needs none of this and is shown without
the exception for overlaps (`KeptInv`): of an image in quarantine that was submitted, or
whose completion has checked it, only a removal deletes the file, and whoever has deleted
it has the row to delete or broke off (`Lost`); the row then goes, because what is in
quarantine is not shown (`Unshown`).

Only model-checked is liveness: `Settles`, `NoneWaitsForEver`,
`EventuallyAccountedFor`, `EveryJobEnds`, `DueIsSettled`. The prover has no support for
fairness and ENABLED. Every invariant and every action property of a run is
proved as well.

## Not modelled

Within the modelled components: pausing a queue, audit records, metrics, the text of
job ids and errors, `sync` of the schedules; of the tasks' own work all but the
publication of articles and pages and the retention of media and email; of pages the
autosaves, preview links and references to media; of articles the autosaves,
the list of revisions, `publishFailure`, tags, media and the featured order; of media
the metadata, references that a deletion sets to null or that settings name, and when
a job is delivered again; of the email log the templates; of administrators the mail of
an invitation, profiles and the listing of permissions. That media are processed in the
end is not stated: what the queue promises is stated for enquiries.

The components that are planned or left out are in the inventory above, with the
reasons in `PROJECT.json`. By size most of the repository is presentation (the web
site, the administration interface, shared components, generated clients and seed
content): it keeps no state that several processes share, and no definition here stands
for it.
