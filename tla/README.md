# SubmitSnap Core in TLA+

SubmitSnap Core is a self-hosted form backend: an HTTP API and a worker over
PostgreSQL, Redis and an S3 bucket. It accepts form submissions with files,
tells the owner by mail and webhook, and manages accounts, sessions and
organizations. Almost every operation is a few SQL statements with awaits
between them, several API processes and several workers run at once, and any of
them may stop at any await. That is what these modules model: **one action per
statement or per transaction step, everything else interleaved**.

TLC checks twelve component models on small instances, one of them against an
abstract specification of what it promises; TLAPS proves every safety property of
the passing runs, and the refinement, for every instance. Where a claim of the
documentation fails, a configuration of its own reproduces the counterexample, and a
property next to it says what holds instead.

## 1. The system

| Component | State | Operations | Interacts with |
| --- | --- | --- | --- |
| Outbox and dispatcher (`shared/outbox.rs`, `dispatcher/`) | `outbox_events` | claim by lease, dispatch, mark, reschedule | reads forms and submissions, writes `webhook_deliveries`, pushes on the mail queue |
| Webhook deliveries (`modules/webhook`) | `webhook_endpoints`, `webhook_deliveries` | create, update, delete, rotate, redeliver; claim, send, record | written by the dispatcher, sent to receivers |
| Uploads (`form/service.rs`, `shared/storage.rs`) | `file_uploads`, the bucket | upload, claim, reap | claimed in the transaction of a submission |
| Forms and submissions (`modules/form`) | `forms`, `submissions` | update, publish, close, rotate, delete, submit, set status | a submission writes the outbox row |
| Form validation (`form/validation.rs`) | none | check a definition, check a payload | called by every edit, publication and submission |
| Export (`form/export.rs`) | a task per export | read columns, stream pages | reads `forms` and `submissions` while they change |
| Organizations (`modules/organization`) | `organizations`, `organization_members` | create, rename, add, set role, remove, delete | every form and webhook operation asks it for access |
| Accounts (`modules/identity`) | `users` | sign in, lock, reset, change, disable | revokes sessions, enqueues mail |
| Administration (`identity/administration.rs`, `rbac`) | `users.status`, `user_roles` | set status, set roles, delete | revokes sessions; account deletion cascades to memberships |
| Sessions (`modules/session`, `modules/auth`) | `sessions`, `session_tokens` | open, refresh, sign out | opened by sign-in |
| One-time links (`identity/tokens.rs`) | `one_time_tokens` | issue, consume | reset and verification |
| Email queue (`shared/queue.rs`, `bin/worker.rs`) | two Redis lists | push, pop, send, dead-letter | filled by the dispatcher and the identity service |

What is hard in it: operations that read, decide and write with no transaction
around them; leases that run out under a slow worker; two stores (database and
bucket, database and Redis) that no transaction joins; at-least-once retries of
steps that already took effect; rules about the *last* owner or administrator
that two requests may break together. `PROJECT.json` lists these hazards line by
line with the properties that would catch them.

## 2. Modules

| Module | Models | Concurrency and faults |
| --- | --- | --- |
| `Dispatcher` | the insert of a submission with its outbox event; the dispatcher's pass | workers and API requests; failed statements and pushes, crashes, expired leases |
| `Notification` | what the outbox promises, with no workers, rows or retries: abstract | |
| `DispatcherRefinement` | the mapping under which `Dispatcher` implements `Notification` | |
| `WebhookDelivery` | the delivery worker and the API operations on deliveries | as above, and receivers that refuse, or accept and lose the answer |
| `Uploads` | upload, claim, deletion, reaper | failures of database and bucket separately, crashes of the API process and of the reaper |
| `Organizations` | renaming and deletion, membership changes under the organization's row lock; account deletion with its trigger | concurrent requests, rollbacks |
| `Administration` | administrator requests, authenticated and authorized in three reads and executed later | concurrent requests |
| `Sessions` | refresh as a transaction that locks its rows, reuse, revocation, time | concurrent refreshes and revocations, requests that break off |
| `Accounts` | sign-in statement by statement, reset/change/disable in two statements | concurrent sign-ins and writers, writers that break off between their statements |
| `OneTimeTokens` | issuing under READ COMMITTED, redemption in two statements, an administrator's status changes | concurrent issuers and redemptions, rollbacks, redemptions that break off |
| `Forms` | read-then-write editing, submission | concurrent editors and submitters |
| `Export` | extends `Forms`: the export, step by step | rows inserted, deleted and edited while it pages; queries that fail, clients that leave |
| `Validation` | the two validators and the path of a definition through them | none: pure functions |
| `EmailQueue` | push with retries, pop, send, dead letter | commands that fail with or without effect, crashes |
| `DispatcherProofs`, `WebhookDeliveryProofs`, `UploadsProofs`, `FormsProofs` (`Forms`, `Export` and `Validation`), `OrganizationsProofs`, `AccountsProofs` (`Accounts` and `Administration`), `SessionsProofs`, `OneTimeTokensProofs` (`OneTimeTokens` and `EmailQueue`) | theorems, section 4 | |

Each component has an `MC` module and a `.cfg` (`Export` and `Forms` share one). Except
for `Export`, which extends `Forms`, the modules share no state: each stands for
the tables of its component and takes from the others only what it reads or is
called with. `Dispatcher` ends where a delivery row or a mail job exists;
`WebhookDelivery` and `EmailQueue` begin there. `Administration`, `EmailQueue` and
`Validation` are proved in the module of a neighbour and therefore prefix the usual
names (`AdminSpec`, `QueueSpec`, `ValidationSpec`).

### Conventions

- A definition named like a Rust function (`claim_due`, `record_login_failure`,
  `lock_for_claim`) is that statement or function; a CamelCase action is a step of
  the loop or handler that calls it, with its error path.
- A failed SQL statement, Redis command or bucket request may have taken effect
  or not; both are allowed wherever the code only sees an error.
- *Observers* are variables that no guard reads. They record history a property
  speaks about (`watching`, `listed`, `accepted`, `newest`, ...) or one
  interleaving the property excepts (`late`, `raced`, `spared`, `stale`,
  `overlapped`, `vouched`). Every exception has a configuration of its own in which
  the property without it is violated, or is explained in section 3.
- `Max...` constants are bounds of the model and nothing else. Faults are counted
  against them; where one is used up the fault no longer occurs.
- Operators `X_something` placed before `X` are faulty variants of `X`. They are
  used by no specification; substituting one for `X` must break the property
  `PROJECT.json` names under "mutants".

### Correspondence, component by component

**Dispatcher.** An event is identified with its submission: one `INSERT` writes
both. `outbox[s]` keeps `queued`, `dispatched`, `attempts` and `due`; `due`
abstracts `available_at <= NOW()`, so the back-off table and the lease length
become "some time later". `pc` walks `run_once`: idle, read the source, fan out,
one address after the other, mark or reschedule; `?` on a failed mark or
reschedule abandons the batch (`EndPass`). `notify_emails` is a list in which
nothing removes duplicates; it is represented by its entries `<<place, address>>`, and
a worker takes the entries in any order, since none depends on another.
`listed[s]` and `watching[s]` shrink when an address or endpoint stops
qualifying, so the properties speak of those that qualified all along. The
branch for an unreadable payload is unreachable, as only the insert writes
payloads. A row that is gone is kept at
one fixed value. Deleting the whole organization is not an action. Submissions taken
for spam are notified like others, as in the code.

**WebhookDelivery.** `claimed[w]` is the `ClaimedDelivery` copied at the claim, so
a worker signs with the secret of that moment, and `attempts` is counted at the
claim: crashes spend attempts. The claim does not look at `enabled`, as in the
code. The receiver is external: it refuses, accepts, or accepts and the answer is
lost; a signature by an old secret is refused. `asked` holds the deliveries that
were redelivered while no worker had them in hand and were not sent since.

**Uploads.** `bucket` holds complete objects; aborted multipart uploads leave
none. `old` stands for `created_at < cutoff`. The claim is two steps,
`LockForClaim` and `CommitClaim`, with the rows locked in between; the reaper's
`forget` waits for the lock, its bucket request cannot. Deleting a form cascades
to the ledger and leaves the objects.

**Organizations.** The name is reduced to whether it was changed; renaming and
deleting are authorized by a read without the lock. `LockAndCheck` takes the row lock and decides, `WriteMembership`
writes and commits or rolls back. `CheckDeleteAccount` is the trigger,
`DeleteAccount` the cascade. PostgreSQL locks the `users` row before the trigger
runs and a foreign key makes a new membership of that account wait, hence
`BeingDeleted`; a deadlock is resolved by aborting one transaction, which is the
rollback branch.

**Administration.** A request reads the caller's session (`Authenticate`), then the
account with its status (`session_user`), then its roles (`require_role`); the
handler's statements follow as separate steps and nothing repeats a check.
`RequireVerification` is the setting of the deployment. Logins are one step here.

**Sessions.** `Create` takes two readings of the clock, one for the session and a
later one for its first token, so the token may end after the session. A refresh is
`Begin`, whose time is the `NOW()` of the transaction, `Lookup`, the locking read, and
`Rotate`, the rest and the commit; `RevokeFamily` is the revocation after reuse was
detected, in a statement of its own. `BreakOff` ends the handler before any of these:
a transaction is rolled back, and nobody takes up a revocation that was not made.

**Accounts.** The row a sign-in read is reflected in the branch it took; each
later statement finds the row as it is then. Passwords are numbers. `BreakOff` is
a failed statement or a stopped process: what was written stays, and the sessions
that were to be revoked are marked as `"left"`; one opened by a sign-in that had
proved the older password, or whose account was disabled meanwhile, is `"overtaken"`.
Audit rows are left out.

**OneTimeTokens.** `Outstanding` takes the snapshot of the `UPDATE`,
`invalidate_outstanding` applies it, waiting for rows another transaction holds
and rechecking those alone; `issue` inserts and commits; `Rollback` undoes.
`reset_password` and `verify_email` end with the link used up; `update_password` and
`mark_email_verified` are the statements that follow, and `BreakOff` takes their
place when hashing or the statement fails. `superseded` records the unused links
that a request had seen when its replacement was committed.

**Forms.** `Decide` is the read with its checks, and `replace_definition`,
`set_status`, `set_public_id`, `DeleteRow` the unconditional write. Storage is not
configured, which is when file fields matter. Other fields of the definition
follow the same path as the schema. Ids of submissions are never used again.

**Export.** `OpenExport` loads the form, `AddColumns` reads the keys ever answered,
each `SendPage` is one `page_after` query, and the task ends in `EndExport` at any
moment. A page is described, not computed: `FirstPage` says which sequences
`ORDER BY ... LIMIT` may return, and there is one. One of the editors' slots runs it, one export at a time. An id is the place
of a row in the random order of ids, `CreatedAt` gives rows the same or different
times, and rows are inserted in any order of them, since `created_at` is the start
of a transaction. `due` is the set of rows that were stored when the columns were
read and have not been deleted.

**Validation.** A definition keeps every attribute a rule looks at; help texts and
the wording of problems are left out, and so is the order of problems, since both
validators collect them all. A text is `[len, blank, form]`: `form` is what the
address and date parsers would say, both external. Keys are classified by
`ValidKeys` and `ReservedKeys`. Numbers are natural numbers. A media type is the pair
around its slash; nothing checks the one a client declares, so even `*/*` can be
matched, by a client that declares the same. A body is admitted up to `BODY_LIMIT`, the limit of the
submission route (`form/mod.rs:94`, 64 KiB unless configured); `ValueBytes` and
`BodyBytes` are the lengths of JSON encodings, which are external.

**Notification and its refinement.** The abstract state is per submission: its life,
whether work is owed, who has been interested since acceptance, who has been told.
A party is an endpoint or an address. `DispatcherRefinement` maps an outbox row to
`none`, `owed` or `settled`, `watching` and `listed` to interest, and a delivery row
or a pushed job to having been told. Claims, leases, attempts, retries and crashes
are stutters; `Settle` may only happen when everyone still interested has been told.

**EmailQueue.** The list is a sequence; `attempt[j]` counts pushes of
`enqueue_email`. A popped job exists only in the worker's hands. The provider is
`smtp`: with `disabled`, `send` reports success and sends nothing
(`shared/email/mod.rs:72`), by design.

## 3. Runs

All passing runs explore the complete state graph of their instance.

| Run | Instance | States | Shows |
| --- | --- | --- | --- |
| `dispatcher` | 2 workers, 1 submission, 1 endpoint, 1 address, a list that may name it twice; any two faults | 161k | `NoInterestIsDropped`, `WatchersHaveDeliveries`, `ListedAreMailed`: nobody is forgotten. `OneJobPerClaim`: duplicates are bounded, per entry of the list. `SettledIsFinal`, `OwedIsDispatched`; `ImplementsNotification`: the refinement |
| `webhook_delivery` | 2 workers, 1 delivery, `MAX_ATTEMPTS = 2`, one of every fault, two refusals, two redeliveries | 304k | `GivenUpOnlyWhenSpent`, `DuplicatesHaveACause`, `PendingIsSettled`, `RedeliveryIsSent` |
| `uploads` | 2 uploads, 2 submissions, 1 reaper, one of every fault | 73k | `NoFileIsShared`, `FreshClaimsKeepTheirFiles`, `ObjectIsFindable`, `RowOutlivesObject`, `AbandonedIsCollected` |
| `organizations` | 3 accounts, 2 requests, two account deletions | 2.5M | `OwnerRemains`, `ReachIsCurrent` |
| `administration` | 2 accounts, 2 requests, addresses to be verified | 199k | `AdministratorRemains` |
| `sessions` | 2 sessions, 4 tokens, 2 refreshes, clock to 2 | 47k | `OneLiveToken`, `RedeemedInTime`, `RevokedIsFinal` |
| `accounts` | 2 sign-ins, 2 writers, 2 sessions, 2 new passwords | 2.2M | `OldSessionsEnd`, `LockedAtThreshold` |
| `one_time_tokens` | 3 links, 2 issuers | 212k | `RedeemedOnce`, `OneLiveLink`, `SupersededStaysDead`, `DisabledStaysDisabled` |
| `forms` | 3 schemas, 2 editors of which one may export, 1 submitter, 2 submissions, 2 versions, pages of 1 row | 2.9M | `StampTellsSchema`, `PublishedIsSubmittable`, `ExportIsComplete`, `ExportCarriesAnswers` |
| `validation` | 1903 definitions of up to 3 fields, 743 payloads | 475k | `RequiredFieldsDecide`, `StoredAnswersRevalidate`, `HelpersChangeNothing` |
| `email_queue` | 2 messages, 2 loops, 2 push attempts, one losing fault | 16k | `LossHasACause`, `DuplicatesHaveACause`, `QueuedIsSettled` |
| `accounts_upgrade` | 1 sign-in, 1 reset | | **violation** of `NewestPasswordRules` |

`dispatcher` checks `TypeOK` too. The type invariants of the other modules hold on
the same instances; they are kept for proofs and left out of the runs.

**Bounds.** Each race here needs two actors, so every run has two of them (in
`uploads` the two are submissions and reaper); each needs one fault of a
kind to begin, and the recovery that follows is explored without bound. In `dispatcher`
the faults share one bound, so any two of a failed statement, a crash and an expired
lease meet; its batches hold one event: the safety properties are proved for any
`BatchSize`, and that the rest of an abandoned batch is dispatched has not been checked. Limits
of the code that are large numbers (`MAX_ATTEMPTS`, `EMAIL_ENQUEUE_ATTEMPTS`,
failed sign-ins) are 2, which keeps "below", "at" and "past" the limit apart.
Three accounts in `organizations` let two requests act on each other while a third
account is neither; in `administration` two are enough for two requests to remove each
other, and the proof covers more. `MaxVersion = 2` lets a form change
once and a stale update collide with it. Two submissions in pages of one row let a
row appear before and after the cursor, share a time with it and vanish. In
`validation` the limits are scaled down (`MAX_TEXT_LENGTH = 4`, `MAX_OPTIONS = 2`,
`MAX_FIELDS = 2`) and texts lie on both sides of each; addresses have 2 or 3
characters, so a bound can be too small or too large for any; `BODY_LIMIT` is 7, so that
two required texts fit or not depending on their least lengths; the payloads hold every
choice of values for the required fields of a definition that passes. Symmetry is used only in runs without
liveness, over sets whose members the specification does not tell apart.

**Deadlock** is checked where the system never stops, and switched off where it
legitimately may: everything settled and bounds used up.

### Fairness

`FairSpec` (`FairQueueSpec`) adds to `Spec`:

- weak fairness of a worker's own steps: `bin/worker.rs` drives each loop for ever
  and each await ends by a timeout or an error; a supervisor restarts the process;
- weak fairness of the passage of time (`TimePasses`, `GrowOld`);
- strong fairness of claiming a *given* row: claims are ordered by `available_at`
  (`created_at` for uploads), so a due row is not passed over for ever, but other
  workers' claims and leases disable the claim in between;
- in `Uploads`, that a claim transaction ends; in `EmailQueue`, that pop, send and
  dead-letter steps go on, `dequeue` serving the list in order.

API requests, crashes, failures and receivers' answers have no fairness: whatever an
API handler still has to do may never come (`MCAccountsBreakOff.cfg`,
`MCSessionsReplay.cfg`).

### What the violations show

The run `accounts_upgrade` checks what the README and a test say, quoted under
"findings" in `PROJECT.json`, and ends in a counterexample: a sign-in whose hash
needs re-encoding writes the new encoding of the *old* password with an unconditional
`UPDATE` (`identity/service.rs:488`, `identity/repository.rs:272`). A reset in between
is lost: the old password works again. A condition on the hash that was verified would
close it.

Beside the runs, further configurations each violate one property, a claim of the
repository without the exception that the passing property next to it makes. They
reproduce the interleaving (`tlc -config MCFormsRace.cfg MCForms`):

| Configuration | Violated | Counterexample |
| --- | --- | --- |
| `MCAccountsOverlap` | `SignedOutEverywhere` | a sign-in that proved the old password before a reset, or was under way when the account was disabled, opens its session after the revocation |
| `MCAccountsBreakOff` | `NobodyIsLeftBehind` | the password is replaced and the revocation never comes: they are separate statements of one request |
| `MCAccountsWindow` | `AlwaysLockedAtThreshold` | two sign-ins read the same expired lock, and the second clears what the first has counted since |
| `MCSessionsReplay` | `ReplayEndsFamily` | a token comes back, the handler that noticed breaks off before its revocation (`auth/service.rs:129`), and the family stays open |
| `MCOneTimeTokensOverlap` | `AtMostOneLiveLink` | two requests for a link see none of each other's rows, and both links are live |
| `MCAdministrationUnverified` | `AlwaysAnAdministrator` | an administrator enables a pending account, makes it an administrator and steps down; the check counts by status, and the account cannot sign in where addresses must be verified |
| `MCAdministrationRace` | `AlwaysAnAdministrator` | two administrators remove each other at the same time |
| `MCOrganizationsRace` | `OwnerAlwaysRemains` | an owner's account passes the trigger while there is another owner, who leaves or is demoted before the cascade |
| `MCUploadsLate` | `StoredFilesAreKept` | an upload past the cutoff is claimed after the reaper listed it; the stored submission names a file that is gone |
| `MCFormsRace` | `NoFileFieldIsPublished` | an update that adds a file field and a publication overtake each other, and the form is published without storage |
| `MCValidationClaim` | `AcceptedIsSubmittable` | a definition passes `validate_schema`, "always submittable", and no payload can be submitted to it |

### Exceptions the properties name

The passing properties state the rule with that one interleaving excepted by an
observer, and hold for everything else:

| Observer | Interleaving | Statement | Shown by |
| --- | --- | --- | --- |
| `late` (`Uploads`) | an upload already past the cutoff is claimed after the reaper listed it | README, "An upload that no submission claims" | `MCUploadsLate` |
| `overlapped` (`Organizations`) | a membership changes, or another account is deleted, between the trigger's check and the cascade of an account deletion | README, "An organization always keeps at least one owner" | `MCOrganizationsRace` |
| `overlapped` (`Administration`) | a removal is written while another is past its check | `administration.rs:3` | `MCAdministrationRace` |
| `vouched` (`Administration`) | an account is made active without the verified address the deployment requires | `rbac/repository.rs:87` | `MCAdministrationUnverified` |
| `spared` (`Accounts`) | a sign-in past its check opens its session after the revocation; or the request breaks off before the revocation | `identity/service.rs:309` | `MCAccountsOverlap`, `MCAccountsBreakOff` |
| `stale` (`Accounts`) | a sign-in that read an expired lock clears a newer failure window | `identity/repository.rs:209` | `MCAccountsWindow` |
| `overlapped` (`OneTimeTokens`) | two requests for a link see none of each other's rows | `identity/tokens.rs:22` | `MCOneTimeTokensOverlap` |
| `raced` (`Forms`) | two updates, or an update and a publication, overtake each other | migration 0013, `storage.rs:3` | `MCFormsRace` |
| `asked` (`WebhookDelivery`) | a redelivery made while a worker has the delivery in hand, which then records the outcome of the attempt before over it | `webhook/service.rs:251` | |
| `due` (`Export`) | a row stored after the columns were read: it may be missing, or a CSV may lack its cells | `form/service.rs:801` | |

`RequiredFieldsDecide` says what is true of the comment at `form/validation.rs:140`,
"always renderable and always submittable": a published definition can be submitted
exactly if it has no required field of the kinds `Unanswerable` names (`max_length` 0, a
`min_length` over `MAX_TEXT_LENGTH` and no `max_length`, an address bounded away from
the lengths addresses have, a select whose options are all blank, a file field whose
`accept` list matches no media type a client can declare) and the shortest answers to
its required fields fit in one body. With the limits of the code, seven required texts
of at least 10,000 characters do not.

`ReachIsCurrent` covers changes of membership, which are checked under the row lock.
Renaming and deleting an organization act on a read without it.

`redeliver` leaves `attempts` alone so that a receiver is not "given up on instantly"
(`webhook/service.rs:253`), but the count of a failed delivery is at its maximum
already: `RedeliveryIsSent` holds, and the first failure after it gives up again
(`webhook/repository.rs:253`), which is why `GivenUpOnlyWhenSpent` counts the
attempts of the row and not those since the redelivery.

In the same way `DuplicatesHaveACause` of `WebhookDelivery` counts one duplicate
per expired lease (a batch of twenty is sent in turn under one lease), and
`LossHasACause` one lost message per crash after the pop.

## 4. Proofs

Every theorem holds for any sets of actors and rows, any limits and any bounds that
satisfy the module's `ASSUME`, and cites nothing else. The assumptions are what the
code justifies: special values (`NoEvent`, `Nobody`, `NoSession`) are not members of
the sets they stand apart from, limits are positive, functions that place rows
(`FormOf`, `EndpointOf`, `CreatedAt`) have their types, and where a proof counts or
needs a witness, `Workers` and `Users` are finite and `Sessions` and `Users` not empty.
`Validation` assumes more, since whether a form *can* be submitted depends on what can
be written: the attributes of a field have their types (`DefinitionsAssumption`);
addresses have every length between their shortest and their longest, all below
`MAX_TEXT_LENGTH` (the validator takes a local part of up to 64 and a domain of up to
255 characters, the limit is 10,000), dates exist, and so do texts and numbers at the
bounds of each field (`ValuesAssumption`); and any choice of values for the required
fields can be written as a body, which gets no longer when answers are left out or
others are given that are no longer (`PayloadsAssumption`). Whether it is admitted is a
guard of `Submit`. TLC evaluates all of them on the instance of its run.

| Module | Theorem | States |
| --- | --- | --- |
| `DispatcherProofs` | `TypeCorrect` | `Spec => []TypeOK` |
| | `InterestIsKept` | `Spec => []NoInterestIsDropped` |
| | `WebhooksAreFannedOut` | `Spec => []WatchersHaveDeliveries` |
| | `MailIsEnqueued` | `Spec => []ListedAreMailed` |
| | `DispatchIsFinal` | `Spec => SettledIsFinal` |
| | `JobsAreClaimed` | `Spec => []OneJobPerClaim` |
| | `DispatcherKeepsThePromise` | `Spec => ImplementsNotification`: the refinement |
| `WebhookDeliveryProofs` | `GivenUpWhenSpent` | `Spec => []GivenUpOnlyWhenSpent` |
| | `DuplicatesAreCaused` | `Spec => []DuplicatesHaveACause` |
| `UploadsProofs` | `FilesAreNotShared` | `Spec => []NoFileIsShared` |
| | `FreshClaimsAreSafe` | `Spec => []FreshClaimsKeepTheirFiles` |
| | `ObjectsAreFindable` | `Spec => []ObjectIsFindable` |
| | `RowsOutliveObjects` | `Spec => RowOutlivesObject` |
| `FormsProofs` | `StampsTellSchemas` | `ExportSpec => []StampTellsSchema` |
| | `PublishedFormsWork` | `ExportSpec => []PublishedIsSubmittable` |
| | `ExportsAreComplete` | `ExportSpec => []ExportIsComplete` |
| | `ExportsCarryAnswers` | `ExportSpec => []ExportCarriesAnswers` |
| | `StoredAnswersStayValid` | `ValidationSpec => []StoredAnswersRevalidate` |
| | `HelpersAreInvisible` | `ValidationSpec => []HelpersChangeNothing` |
| | `RequiredFieldsDecideIt` | `ValidationSpec => []RequiredFieldsDecide` |
| `OrganizationsProofs` | `AnOwnerRemains` | `Spec => []OwnerRemains` |
| | `NobodyActsBeyondReach` | `Spec => ReachIsCurrent` |
| `AccountsProofs` | `OldSessionsAreEnded` | `Spec => []OldSessionsEnd` |
| | `LockedOnceSpent` | `Spec => []LockedAtThreshold` |
| | `AnAdministratorRemains` | `AdminSpec => []AdministratorRemains` |
| `SessionsProofs` | `RotationNeverForks` | `Spec => []OneLiveToken` |
| | `RotationNeverExtends` | `Spec => []RedeemedInTime` |
| | `RevocationIsFinal` | `Spec => RevokedIsFinal` |
| `OneTimeTokensProofs` | `LinksAreRedeemedOnce` | `Spec => []RedeemedOnce` |
| | `OneLinkIsLive` | `Spec => []OneLiveLink` |
| | `SupersededLinksStayDead` | `Spec => []SupersededStaysDead` |
| | `LinksNeverEnable` | `Spec => DisabledStaysDisabled` |
| | `MailIsLostForACause` | `QueueSpec => []LossHasACause` |
| | `MailIsDoubledForACause` | `QueueSpec => []DuplicatesHaveACause` |

The other proof modules have a `TypeCorrect` or a type conjunct in their invariant
as well. Each proof has the same shape: an inductive invariant `IInv`, which TLC
checked on the run's instance before it was proved; lemmas on what a statement does
to a row; one lemma per conjunct, or per action, that a step keeps it; and the
theorems from `IInv`. None of the properties is inductive as it stands. What `IInv`
adds, and why:

**Dispatcher.** "When an event is marked, everybody has been told" relies on what
*this* worker did several steps earlier, while others edited the form.

- `LocalsOK`, `WorkerInv`: a worker's batch holds queued events, it has one in
  hand past the read, and at `mark` no address is left;
- `RowInv`: only a stored, or since deleted, submission has a queued row, and only
  a queued row is dispatched;
- `WatchInv`: watching endpoints match now, a stored submission without a queued
  row has none, and past the fan-out each has its delivery row; kept because an
  update that ends a match ends the watch, and a delivery goes only with its
  endpoint or its submission;
- `ListInv`: listed addresses are on the form now, a stored submission without a
  queued row has none, and from the read of the source on each has an entry in `todo`
  or one already enqueued;
- `ClaimInv`, for `OneJobPerClaim`: the jobs of an entry, plus the workers that
  may still push one (`Unsent`), are at most the claims. A claim adds one to both
  sides, a push moves a worker from the second summand to the first.

`SettledIsFinal` follows from `OutboxStep`: a claim skips dispatched rows, and
`reschedule` does not touch `dispatched_at`. The refinement is one lemma with a step
per action, each a step of `Notification` or a stutter; at `mark`, `WatchInv` and
`ListInv` are the guard of `Settle`.

**WebhookDelivery.** `ClaimInv` (the attempts a worker carries are not ahead of the
row's) gives `GivenUpOnlyWhenSpent`. `CountInv` is the ledger behind
`DuplicatesHaveACause`: acceptances, plus workers that may still send, plus one if
the row itself awaits a claim, are at most one plus the excuses. A claim turns the
row's unit into the worker's; every event that restores one is an excuse.

**Uploads.** `ClaimInv` and `SharingInv`: what a transaction has locked stays as it
found it until it commits, and a row that is left names its claimer. `ReaperInv` and
`FreshInv`: reapers hold only what was past the cutoff, so a claim made in time is in
nobody's hands. `LedgerInv` ties request, object and row.

**Forms and Export.** `StampInv` speaks of every bearer of a version (the form,
stored submissions and those between read and insert): none is ahead of the form
and a version has one schema. `UpdateInv`: what an update decided on (`changed`) is
still so if it has missed no other. `PublishInv` is the same for publication.
`PageInv`: the rows sent ascend and end at the cursor, no row owed is left behind
it, none is ahead of it at the end. `DueInv`: the rows owed have their columns.

**Organizations.** `LockInv`: who is past its check holds the row lock. `CheckInv`:
what was checked still holds at the write, unless `overlapped`. `ReachInv` is the
part of it that survives even an account deletion. The attempt to prove
`OwnerRemains` showed that two account deletions, each past its trigger while both
owners were there, leave none. A bound of one deletion had hidden it from TLC; the
observer covers it now, and the run allows two.

**Accounts.** `WindowInv`: the row counts every failure of the window, unless a
window was cleared by mistake, and is locked, or was, just when the count says so.
`SessionInv`: a live session that proved an older password, or whose account has been
disabled, has a writer at its heels that is about to revoke it and does not keep it,
unless it is `spared`.

**Sessions.** `RequestInv`: a refresh about to rotate holds the lock of an open
session, presents an unused token and began before the session's end, whatever time it
waited; `FamilyInv`: a used token was used before that end; `RotationInv`: two unused
tokens never share a session.

**OneTimeTokens.** `SnapshotInv`: unless requests overlapped, a request for a link
has seen, and later holds, every outstanding link of its purpose; `LiveInv` follows.
`HeldInv` needs no such condition: past its `UPDATE` a request holds every link it has
seen and nobody has used up, even one it had to wait for. So its commit uses them up,
and `SupersededInv` says that no redemption has and, with `UseInv` and `RequestInv`, that
none ever will.

**Administration.** `RemovalInv`: a request that will disable, delete or demote without
another check leaves an active administrator besides its target. For the first two
that is the caller, who had a session and was not disabled when it was read, and so
active by `StandingInv`; `CallerInv` keeps this up to the read of the roles. For the
last it is the one `ensure_an_admin_remains` found. A write by another request takes this
away only by overlapping. `VerifiedInv`: an active account may sign in, unless one was
vouched for.

**EmailQueue.** `CopiesInv` is a ledger again: copies received, in hands that have not
tried to send them (`Untried`), on the list, and the first one while it is still to be
pushed (`Due`), are at most one plus the unclear pushes; `FailedInv` says that a worker
whose send failed has the job in hand. `LossHasACause` is inductive with these. Copies on the
list are counted as places of the sequence, so that a push adds a place and a pop is a
bijection of the places that remain; no induction over the list is needed.

**Validation.** The machine is simple (`OutcomeInv`: the outcome is what the verdict on
the payload makes of it, under a definition that was checked); the work is in the
lemmas on the operators. `AnswersRevalidate` and `VerdictOfBared`: dropping nulls and
reserved keys changes neither what is missing nor what is wrong, as no checked field has
a reserved key. `NothingFits` and `SomethingFits` go through the field types: a required
field is answered by some value exactly unless `Unanswerable` names it. By
`ShortestExists` there is then a shortest answer, and `TerseBodyAnswers` and
`TerseBodyIsShortest` put a payload of these together field by field and show that no
payload the definition accepts has a shorter body.

**Only model-checked.** All liveness properties (`OwedIsDispatched`,
`PendingIsSettled`, `RedeliveryIsSent`, `AbandonedIsCollected`,
`QueuedIsSettled`): they need fairness, which the prover does not handle. Every
invariant and every action property of the passing runs is proved.

## 5. Not modelled

File signatures, listings and their pages, rendering of mail and payloads, JWT,
cookies and hashing, audit rows, rate limiting, configuration, logging and the
OpenAPI surface; `PROJECT.json` gives the reason for each. `check_url`, the rule
for the targets of a webhook, is a guard of `CreateEndpoint` and `UpdateEndpoint`
that the models take to have passed. Deleting a whole organization is modelled in
`Organizations` and not in the components whose rows cascade with it.

## 6. Plan

In order; all six are done.

1. The path of a submission: `Dispatcher` with proofs, `WebhookDelivery`,
   `EmailQueue`, `Uploads`, `Forms`.
2. Accounts and access: `Sessions`, `Accounts`, `OneTimeTokens`, `Administration`,
   `Organizations`.
3. The abstract specification `Notification` and the refinement; faults between the
   statements of a request in `Accounts` and `OneTimeTokens`; redelivery.
4. `Export` next to `Forms`, and `Validation`.
5. Proofs of the safety properties of `Dispatcher`, `Sessions`, `OneTimeTokens`,
   `Organizations`, `Uploads`, `WebhookDelivery`, `Accounts`, `Forms` and `Export`,
   and of the refinement.
6. Proofs of the safety properties of `Administration`, `EmailQueue` and `Validation`.
