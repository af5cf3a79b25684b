# OrderRun backend: TLA+ models, model checking and proofs

OrderRun-BE is the server of a marketplace for errands. An *orderer* publishes a
proposal, *runners* offer to do it, the orderer accepts one of them, both confirm
that they met, or one of them files a dispute that an administrator resolves. It
is a FastAPI application over MySQL (InnoDB) with SQLAlchemy; notifications go
through an outbox table to Firebase Cloud Messaging (FCM).

This directory specifies what the server does to its tables and to its outbox,
and what its Alembic migrations do to the schema, checks it with TLC on small
instances and proves with TLAPS, for instances of any size, what can be proved of
it: every safety property of the runs but three about the migrations. Paths below are relative to `src/app/`
unless they start with `docs/`, `alembic/` or `scripts/`.

## 1. Inventory

| Component | State | Operations that change it | Talks to |
|---|---|---|---|
| Proposals (`services/proposal/proposal_service.py`) | `proposals` | create, update, cancel, confirm_payment (admin), confirm_received, raise_dispute | offers, evidence, event bus |
| Offers (`services/offer/offer_service.py`) | `offers` | create, cancel, accept, complete_delivery, raise_dispute, resolve (admin) | proposals, evidence, event bus |
| Reports (`services/proposal/proposal_report_service.py`) | `proposal_reports` | create, accept (admin), reject (admin) | proposals, offers |
| Disputes (`services/dispute/`) | `dispute_evidences`, survey questions | rows are added by the two raise_dispute | |
| Withdrawal (`services/user_auth/user_withdrawal_service.py`) | `users`, everything of one user | withdraw_user | proposals, offers, tokens, notifications, settlement |
| Event bus and listener (`events/`, `listeners/`) | none | publish: adds PENDING `notifications` in the request's own transaction | users (alarm switch) |
| Outbox worker (`services/notification_worker.py`) | `notifications` | flush_pending (background task), retry_failed (scheduler) | FCM, tokens |
| FCM service (`services/fcm_service.py`) | `notifications` | send_to_user | FCM |
| Notification API (`services/notification/`) | `notifications` | mark read, test send | |
| Profile (`services/user_auth/user_profile_service.py`) | `users`, `user_fcm_tokens` | alarm switch, name, token | |
| Phone verification, signup, login | `auth_phone_verifications`, `users` | send, verify, confirm_signup, confirm_login | SMS |
| Settlement accounts, terms | one row per user | save, agree | |
| Sessions (`core/database.py`, `core/security.py`) | open transactions, the pool | get_db, get_current_user | every endpoint |
| Scheduler and process (`main.py`) | the retry job | every five minutes | worker |
| Migrations and deployment (`alembic/versions/`, `scripts/deploy.sh`) | the schema, `alembic_version`, rows that are copied | upgrade and downgrade of 18 revisions, two of them parallel branches | every table |

What is hard here:

* **Concurrency.** Endpoints are synchronous functions that FastAPI runs in a
  thread pool, each in a session of its own. The isolation is REPEATABLE READ, no
  query takes a lock (`with_for_update` does not occur), no row has a version. So a
  request decides on a snapshot and writes, by id, to whatever the rows have
  become. This is where most of what can go wrong goes wrong.
* **Two records of one execution.** The state of an execution is the status of
  the proposal together with the status of one offer; five services move them.
* **The outbox.** Notifications are committed with the request and sent later, by
  tasks that overlap, that can be lost in a crash and that hold what they read
  over external calls.
* **Withdrawal.** It touches every table, and tests before it writes.
* **Codes.** A verification code is compared, counted and marked by requests that
  may overlap each other, the next code and the withdrawal of the phone; its text
  is sent by a task that can fail without anybody noticing.
* **Migrations.** MySQL commits with every statement on the schema. A script that
  is cut short or refused leaves its first statements behind and is run again from
  the start, so each script has to test what it finds.

What makes the components correct is listed with the runs in section 4; every
hazard, with its line and the properties aimed at it, is in `PROJECT.json`.

## 2. Modules

| Module | What it is |
|---|---|
| `Marketplace` | The tables of users, proposals, offers, reports, evidence and notifications, and all the requests that change them, each in one atomic step. |
| `MarketplaceProperties` | What those requests keep true, and one statement of the documents that they do not. |
| `RequestSessions` | The same requests in overlapping database sessions: EXTENDS `MarketplaceProperties`. |
| `SessionProperties` | What survives the overlap, of two requests or of any number, what does not, and that one thread implements `Marketplace`. |
| `NotificationOutbox` | The delivery of the notifications that requests have stored. |
| `OutboxProperties` | Its safety and liveness. |
| `ExecutionLife` | The abstract specification of one errand: its stage, its runner, the confirmations, what was earned. |
| `MarketplaceRefinement` | The refinement mapping: the tables of `Marketplace` implement `ExecutionLife`. |
| `NotificationLife` | The abstract specification of one notification: its stage, the pushes that were taken, the failures that were counted. |
| `OutboxRefinement` | The refinement mapping: the rows of `NotificationOutbox` implement `NotificationLife`. |
| `Accounts` | Verification codes, signup, login, profile, device token, settlement, terms and the personal side of withdrawal, in overlapping sessions. |
| `AccountProperties` | What accounts and codes keep true. |
| `Schema` | A MySQL schema with rows as a value: statements, what they do, when they are refused, which commit. |
| `Migrations` | The revisions 0001 to 0017 as scripts of such statements, and Alembic running them: EXTENDS `Schema`. |
| `MigrationProperties` | What deployments reach and preserve. |
| `MarketplaceProofs` | Types and the execution core of `Marketplace`. |
| `TransitionProofs` | Its action properties: EXTENDS `MarketplaceProofs`. |
| `TableProofs` | The invariants that relate its tables: EXTENDS `TransitionProofs`. |
| `ExecutionProofs` | Confirmations, levels, notifications, and the step-by-step refinement of `ExecutionLife`: EXTENDS `TableProofs` and `MarketplaceRefinement`. |
| `SessionProofs` | The overlapping sessions: EXTENDS `SessionProperties` and `ExecutionProofs`. |
| `OutboxProofs`, `AccountProofs`, `MigrationProofs` | The delivery and the step-by-step refinement of `NotificationLife`, the accounts and codes, the order of the revisions. |
| `MCMarketplace`, `MCSessions`, `MCOutbox`, `MCAccounts`, `MCMigrations` | Instances for TLC; one `.cfg` per run. |

### Marketplace

Each request is split in three, and the names of the parts recur: `CanX` is what
the service checks, `XWrites` what it stores, `OnX` the notifications that the
listener adds. In `Marketplace` the three happen together, in action `X`.
`XWrites` takes as arguments the values the service had read (`seenStatus`), so that
`RequestSessions` can give it older ones.

| Variables | Columns |
|---|---|
| `deleted`, `level`, `alarmEnabled` | `users` |
| `orderer`, `proposalStatus`, `errandFee`, `proposalStamps` | `proposals` (`"ABSENT"`: no row) |
| `offerStatus`, `offerStamps` | `offers`, by proposal and runner: the pair is unique in the schema |
| `evidences`, `reports`, `notifications` | the tables of these names |
| `paidFee` | history: the fee shown when the payment was confirmed |

Abstractions: a time stamp is the name of the request whose instant it holds; a
notification row is its type, recipient, proposal and runner; texts, deadlines, chat
links and survey questions are left out. `AlarmUsers` and `Reporters` bound who
uses the switch and who reports. `UpdateProposalWrites` follows the ORM: a column
is written only if it differs from what was read.

### RequestSessions

`request[t]` is the request that thread `t` serves. `Begin...` is everything up to
the writes: the first SELECT (of `get_current_user`) fixes the snapshot, the later
ones read the same snapshot, so guard, values and notifications are those of one
moment. `Commit` is the writes: InnoDB holds the row locks of an UPDATE until the
commit, so the writes of one request take effect together; an UPDATE finds the
rows as they are by then. Three kinds of writes behave differently and all three
are modelled: an ORM write sets columns by id and checks nothing; a bulk UPDATE
(`WaitingOffersBecome`, the level) evaluates its WHERE or its expression on the
current rows; an INSERT is subject to the unique keys. `Abort` is a deadlock, a
unique key, a lost connection or a crash. `Impatient` users send a request before
the last one was answered (a double tap, a retry of the client, a second device).

### NotificationOutbox

A row goes from PENDING over SENT or FAILED to READ. `Store` is the commit of a
request with its notification, `flushDue` counts the background tasks scheduled by
answered requests, `batch[j]` is what a thread holds in memory between the query
of a batch and its commit: the rows left to push (`todo`, a set of positions in
`created`, the order of the commits, in which `Oldest` takes the limit and `IsNext` the
next row), `retry_count` and tokens as read. `PushAnswered` is one call of FCM whose
outcome `send_notification` returns, or a row without a token. `PushRaises` is any other
call: `firebase_admin.messaging` has no `InvalidArgumentError`, which the second except
clause of `fcm_service.py:94` names, so every exception but `UnregisteredError` leaves
`send_notification` as an AttributeError, and `_send_batch` has no try. Whether FCM has
accepted the push or not, the batch ends without its commit and its rows stay as they
were. (With a `firebase_admin` whose `AndroidNotification` knows no `notification_priority`,
`fcm_service.py:72` raises in every call; the model allows that and does not presume it.)
`CommitBatch` stores all the outcomes, or none when one of the rows was deleted
meanwhile (SQLAlchemy raises StaleDataError). `Crash` loses batches and tasks.
`send_to_user` is one step: its row is not visible to anybody before its commit, and a
call that raises rolls it back. `shared` is history: the rows that two batches have
held at once.

### ExecutionLife and MarketplaceRefinement

`ExecutionLife` says what the marketplace promises about an errand without its
tables: it is asked, paid, matched with one runner, confirmed by each side once,
completed by the second confirmation and by nothing else, at which moment the
runner earns a level; a dispute ends the confirming and is settled. The mapping
reads the stage from `proposalStatus`, the runner from the one engaged offer, the
confirmations from the stamps of the proposal and `earned` from `level`. Requests
on offers that are merely waiting, on reports that are not accepted, on
notifications and on users stutter; a withdrawal closes several errands at once.
The mapping is defined where `SingleExecution` and `StatusesAgree` hold, so it is
checked of `Marketplace`, not of overlapping sessions, which break both.

### NotificationLife and OutboxRefinement

`NotificationLife` says what the delivery promises about a notification without
tasks and batches: it is announced, or sent at once by `send_to_user`; it is pushed
while it is due, has failed, was read or was deleted meanwhile, and not once it shows
as delivered; the outcomes of a batch are stored together, a failure only while fewer
than the limit have been counted, a delivery only after a push was taken; a deletion
is final. The mapping reads the stage from `status` (an `"ABSENT"` row is deleted if
its id was given out, and not stored yet if not), the pushes from `pushes` and the
failures from `retryCount`. Starting a batch, a crash, the switches and tokens stutter.
A row that two batches hold at once is `"contested"` from then on and nothing is promised
of it: the second batch pushes a row that the first has stored as SENT, and may store
FAILED over it. Starting such a batch is the abstract action `Contest`. The refinement
holds for any number of flushers.

### Accounts

| Variable | What it is |
|---|---|
| `accounts` | the rows of `users`, in the order of their commits; `rows` has the device token, the settlement account and the agreement to the terms, each unique by `user_id` |
| `codes` | the rows of `auth_phone_verifications`, in the order of `sent_at`; `live`: `expires_at` is ahead; `text`: where the text message is |
| `session` | the request of each database session, with what it has read |
| `impatient` | the phones whose requests may overlap each other, chosen at the start and constant |

`Begin...` is everything a request decides, on its snapshot; `Commit` is what it
writes, to the rows as they are by then; `Abort` is a conflict, a deadlock or a
lost connection; `Crash` loses requests and texts that are not sent. A code takes
its place in the sequence when its row is built (`sent_at` is set by the
application) and is `"ABSENT"` until it is committed, and again after it is
deleted. `Conflicts` has what the database refuses: the second account for a
phone, the second row for a user, the UPDATE of a row that is gone. Codes are
right or wrong: a right one is entered only where the text arrived in time, a wrong
one any time; the configured test code logs in without a row. Lifetimes end in the
order of the codes, since `VERIFICATION_CODE_TTL` is one constant. The Bearer token
is stateless: `GetCurrentUser` is all the server knows. Every query of these
services is by one phone or one user, so one phone and its successive accounts
show what there is to show.

### Schema, Migrations

A database is a function from tables to columns, indexes and rows; a column is the
set of the values it refuses (`Nullable`, `Required`, or an ENUM without a status
that a later revision adds). `Upgrade(r, db)` and `Downgrade(r, db)` are the script of a
revision: the guards (`inspector.has_table`, `get_columns`, `get_indexes`) look at
the database at the start of the script as in the code, and what is left is a
sequence of statements. `Send` executes the next one and commits when it is a
statement on the schema; `Refuse` is a statement MySQL rejects (a table that
exists, a value a narrowed column cannot hold, an index that is not there), which
ends the run; `Stamp` writes `alembic_version`; `Crash` cuts the run short, before
or after the implicit commit of the next statement. `Serve` is the application
writing at the head. `cut`, `undone`, `found` and `served` are history. Revision 18
stands for `0007_remove_settlement_bank_code_and_holder`, the second branch.
`Models` has every index that the ORM declares, those of `index=True` by the name that
SQLAlchemy gives them; 0001, 0010 and 0015 create what the models declare, the other
scripts the indexes they name. Values, types other than nullability and ENUM members, unique
constraints (they are part of CREATE TABLE) and tables no script depends on for its
guards are abstracted.

## 3. Assumptions

* The isolation described above, and a single server process (one uvicorn
  worker), so the retry job runs at most once at a time.
* A user's requests come from the account they name; the administrator is not
  limited in the number of requests.
* MySQL commits implicitly before and after every statement on the schema, and such
  a statement is atomic. The tables that the first deployment finds are those that
  the guards of 0001, 0003 and 0006 are written for (`Legacy`), or none.
* Fairness in `Migrations`: `WF_vars(Deploy)`, as `scripts/deploy.sh` runs `alembic
  upgrade head` with every deployment and a script's statements are sent one after
  the other. Nothing obliges anybody to downgrade.
* Fairness in `NotificationOutbox`: a background task that is due is started
  (the pool serves tasks in order), the scheduler starts the retry job (interval
  trigger), a batch goes on (the FCM client has a timeout, which raises). Nothing is
  assumed of users, of FCM's answers or of crashes beyond the bounds `MaxCrashes` and
  `MaxPushes`; calls may raise for ever.

## 4. Runs

Passing runs:

| Run | Instance | What it shows |
|---|---|---|
| `competition` | `Marketplace`; 1 proposal, 3 users, all report and use the switch | Types; one accepted offer; proposal and offer at matching stages; no offer waits under a closed proposal; withdrawal leaves nothing behind; each dispute has one evidence row; REPORTED exactly by an accepted report; confirmations agree; every execution can finish; notifications other than the completion notice are true and stay so; a match is final; statuses follow the documented tables; the tables implement `ExecutionLife`. |
| `sessions_serial` | `RequestSessions` with 1 thread; 2 proposals, 2 users, 2 fees | It implements `Marketplace!Spec`; types; `level` = number of completions; the public fee is the paid fee. Both users are orderer and runner at once. |
| `sessions_overlap` | 2 threads, 1 proposal, 3 users, two of them impatient | What any overlap leaves intact: no completed execution without both confirmations or without its level, no dispute without evidence, nothing public unpaid; and, with two requests at a time, a patient orderer never has two running executions on a proposal. |
| `outbox_overlap` | 2 rows of two users, 2 flushers and the retry, 2 retries, batches of 2, a crash, a withdrawal, calls that raise | Types; at most `MaxRetry` counted failures; SENT only after FCM accepted; a SENT row is pushed again only if two batches held it at once; every failed row comes to an end unless calls raise for ever (liveness); the rows implement `NotificationLife`. |
| `accounts` | `Accounts`; 1 phone, 2 sessions, 2 attempts, 2 accounts one after the other, 3 codes (2 if impatient), 1 crash | Types; one account per phone; a withdrawn account holds no name, token or settlement; each refused try of a patient phone counts; the live code is the one compared; verified codes and accounts correspond. |
| `migrations` | `Migrations`; an empty database, a settled and a refunded mission; 1 crash anywhere, 1 write of the application, any downgrades | Types; the head has the tables, the columns and every created index of the models; what the missions recorded survives; only known scripts are refused; deployments reach the head (liveness). |

Violation runs: each shows one statement of the repository's documents that the
code does not keep. The findings in `PROJECT.json` quote the statements.

| Run | Statement | What happens |
|---|---|---|
| `completion_notice` | the completion notice follows both confirmations | it is stored when the orderer confirms, also when the runner has not; and not when the runner confirms last |
| `double_accept` | no acceptance beside an active one | two accepts of one orderer overlap and both are granted |
| `both_confirmed` | both confirmations complete the execution | they overlap: nobody completes it, and only a dispute leads out |
| `withdraw_while_matched` | no withdrawal with a running execution | the withdrawal overlaps the acceptance |
| `outbox_pending` | sent right after the answer | `confirm_received` schedules no flush |
| `guesses` | at most five failed verifications | wrong codes sent at the same time count once; a sixth one is compared |

Why the bounds are enough to meet the interesting cases: three users are an orderer
and two competing runners, the smallest number in which an acceptance rejects
somebody; two fees tell a paid one from an edited one; two threads are enough for
every hazard of section 1 that is a pair of requests, which all but one are (the
exception takes three and is described below); two rows let a batch be
rolled back by the deletion of the other row, and a call that raises keep the other row
from its outcome; `MaxPushes` bounds only how many accepted pushes a row may have had
when a call raises, and calls that raise without an accepted push are not bounded
(outside the runs, `outbox_overlap` also passes with batches of one row, where the
rows compete for a place: 292,754 states); two successive accounts of a phone let a late request meet the
one that was withdrawn, three codes are a signup, a login and a signup after the
withdrawal, and two attempts are the least at which a counter can be set back (`guesses` has the
real limit of five); one crash
at every statement of every script in either direction meets each script half
done (the run has 962,904 states and is 395 steps deep), and one write is enough for
every downgrade that a row can refuse. Symmetry (users of one kind, proposals, fees, threads) is used in safety
runs only. `sessions_serial` follows an execution to its end while the alarms are
off and up to one notification when they are on (the constraint
`FewNotifications`); `competition` has no such bound. `CHECK_DEADLOCK FALSE` is there because the system may really stop:
everything closed, everybody withdrawn.

What the passing properties do *not* say is worth knowing as well, since the models
contain it:

* `SingleExecution` fails even for patient users, because a slow offer on a
  proposal whose dispute has been resolved opens it again, and RESOLVED is not
  among `ACTIVE_OFFER_STATUSES`; what accept guarantees is the weaker
  `SingleActiveExecution`, and this only while at most two requests are under way. With
  three, a confirmation that was sent before the dispute waits until the dispute is
  raised and resolved, a slow offer opens the proposal again, the orderer accepts it,
  and the confirmation revives the first execution beside the second. Without a
  resolved dispute any number of requests leave one execution among the runners who
  wait for their answers (section 5); a runner who does not wait can confirm and cancel
  one offer at the same time, and with a third request there are two again.
* `LevelAtLeastCompletions` is an inequality: a confirmation that is sent twice
  raises the level twice (`level = level + 1` under a stale condition).
* `PublicMeansPaid` speaks of some payment: an edit of the fee that overlaps the
  confirmation of the payment leaves an unpaid fee public.
* `OnlyDocumentedTransitions` holds of serial requests only, and its table has one
  entry that `docs/domain.md` lacks: an edit takes POSTED back to HOLDING.
* `ConfirmationsAgree` compares which sides have confirmed and not when: the
  runner who confirms last overwrites the orderer's time on the offer.
* `SentIsNotPushedAgain` and `ImplementsNotificationLife` leave out the rows that two
  batches have held at once: those are pushed twice, and the later outcome stands.
* `FailureIsSettled` has a second alternative, that calls raise again and again. A row
  whose call always raises ends every batch that contains it, so its failure is never
  counted, it stays among the oldest, and the rows behind it are neither sent nor
  given up; if no row is poisoned in this way, each comes to an end.
* No property says that a row which *is* flushed leaves PENDING: a call that raises
  in its batch leaves it, and a flush takes the hundred oldest PENDING rows, which
  may be rows of `confirm_received` that nothing else has flushed.
* `ProgressNoticesTruthful` leaves the completion notice to the run `completion_notice`.
* `PatientGuessesBounded` is about phones that wait for their answers. Where requests
  overlap, `attempt_count` is written from the snapshot and a slow one sets it back:
  with two at a time and the limit of five up to sixteen wrong codes are compared, with
  more of them more.
* `WithdrawnLeavesNothing`, `LiveCodeIsTried` and `CodesMatchAccounts` are about
  patient phones. With overlaps a late write of the profile, the token or the
  settlement account returns to an account that was withdrawn, two sends leave two
  live codes of which the older is never compared, and a code may turn from
  VERIFIED to EXPIRED. Logout changes nothing: the token stays registered.
* A code whose text was lost blocks the next send until its lifetime ends.
* `HeadServesTheModels` leaves out three indexes that the models declare and no migration
  creates (`NeverCreated`): `ix_terms_agreements_user_id`, `ix_notifications_id` and
  `ix_dispute_evidences_id`; a database that came from the migrations has none of them.
  It does not ask for the indexes and rows of a table whose creation was cut short in
  0001, 0005 or 0015, which test for the table and create its indexes and rows in later
  statements: there they are missing for good. And it excepts interrupted
  downgrades: `alembic_version` still names the revision, and nothing restores what
  the downgrade has dropped. On an empty database 0017 leaves
  `delivery_reported_at` beside `runner_confirmed_at`; it is nullable and harmless.
* `MissionFactsSurvive` excepts downgrades past 0006 and 0001, and allows a proof to
  be copied twice if 0006 was cut short after the copy. `account_holder` is dropped by
  one branch and comes back in 0013 as "Unknown".
* `OnlyKnownScriptsStop` names what is refused: 0010 creates its table without a
  test, so that a first attempt cut short after it is refused for ever; 0014 and
  0015 narrow columns under withdrawn users and REPORTED proposals; and after a
  downgrade past an interrupted upgrade (0016 for example) an earlier script meets
  columns it does not expect.

## 5. Proofs

The theorems hold for every value of the constants. They assume the named ASSUMEs of
the modules (sentinels are not users or fees, bounds are subsets and numbers, users
and proposals are finite), which TLC evaluates on every run, and four of them a
hypothesis of their own, given below. Nothing else is assumed.

| Module | Theorem | States |
|---|---|---|
| `MarketplaceProofs` | `TypeCorrect`, `CoreCorrect` | `TypeOK`; `SingleExecution`, `StatusesAgree` and `OffersWaitOnlyWhenOffered` together |
| `TransitionProofs` | `TransitionsDocumented`, `MatchFinal` | the action properties `OnlyDocumentedTransitions`, `MatchIsFinal` |
| `TableProofs` | `ReportsCorrect`, `PaymentCorrect`, `EvidenceCorrect`, `StagesCorrect`, `WaitingCorrect`, `WithdrawalCorrect` | `ReportedIffAccepted`, `PaidAsPosted`, `EvidencePerDispute`, `StatusesAgree`, `OffersWaitOnlyWhenOffered`, `WithdrawnIsInert` |
| `ExecutionProofs` | `ConfirmationsCorrect`, `ExecutionNeverStranded`, `LevelCorrect`, `ProgressNoticesCorrect`, `LifeImplemented` | `ConfirmationsAgree`, `ExecutionCanFinish`, `LevelCountsCompletions`, `ProgressNoticesTruthful`, the refinement `ImplementsExecutionLife` |
| `SessionProofs` | `SessionTypeCorrect`, `SessionLevelCorrect`, `SessionCompletionCorrect`, `SessionDisputeCorrect`, `SessionPaymentCorrect` | `SessionTypeOK`, `LevelAtLeastCompletions`, `CompletedMeansBothConfirmed`, `DisputeHasEvidence`, `PublicMeansPaid`, for any number of threads |
| | `NothingTakenBack` | `[][Grows]`: no step takes back a row, a payment, a confirmation or evidence, for any number of threads |
| | `SingleActiveCorrect` | `SingleActiveExecution`, for two threads |
| | `SingleUntilResolved`, `SingleBeforeDisputeCorrect` | `OneAmongPatient`, `SingleBeforeDispute`: one execution for a patient orderer among patient runners, for any number of threads, until a dispute of the proposal is resolved; and, as a state invariant, before one is filed |
| | `OneThreadIsSerial`, `OneThreadKeepsPolicies` | the refinement `SerialSpec`; `BothConfirmedCompletes` and `WithdrawnHasNoExecution`; for one thread |
| `OutboxProofs` | `OutboxTypeCorrect`, `RetriesCorrect`, `SentCorrect` | `TypeOK`, `RetriesBounded`, `SentWasPushed` |
| | `NoRepeatedDelivery`, `DeliveryImplementsLife` | the action property `SentIsNotPushedAgain`, the refinement `ImplementsNotificationLife`, for any number of flushers |
| `AccountProofs` | `AccountTypeCorrect`, `OneAccountCorrect`, `WithdrawnCorrect`, `LiveCodeCorrect`, `CodesMatchCorrect` | `TypeOK`, `OneAccountPerPhone`, `WithdrawnLeavesNothing`, `LiveCodeIsTried`, `CodesMatchAccounts`, for any number of sessions |
| | `PatientGuesses` | `PatientGuessesBounded`, for any number of sessions |
| `MigrationProofs` | `MigrationTypeCorrect` | `TypeOK`: among its parts, no revision without its parents |

**The execution core.** `SingleExecution`, `StatusesAgree` and
`OffersWaitOnlyWhenOffered` are inductive only together with `TypeOK` (`CoreInv`).
`SingleExecution` needs `StatusesAgree` (an engaged offer puts the proposal past
OFFERED, so accept's guard on the status excludes it; this also covers the RESOLVED
offers that accept's query does not look for) and `StatusesAgree` needs
`OffersWaitOnlyWhenOffered` (the requests that close the recruitment meet no engaged
offer). For each request a lemma derives what it does to the statuses of one proposal,
and the invariants follow from those equations row by row.

**The other tables.** `TransitionProofs` turns those equations into `ProposalMoves` and
`OfferMoves`: which statuses one step may change into which. Most later proofs use the
moves and no longer the requests: an invariant about reports, evidence, levels or
notifications is disturbed only by the requests that write those tables, the others
are disposed of by one lemma on what a move can do. `ConfirmationsAgree` is inductive
only with the time stamps of both rows (`StampsInv`), since `confirm_received` decides
on one record and writes both. `WithdrawnIsInert` and `ExecutionCanFinish` rest on the
core: who could withdraw had no engaged offer.

**The refinement of `ExecutionLife`.** `LifeImplemented` has one step for each request:
a request on offers that are merely waiting stutters, accept engages the runner of the
one engaged offer, the second of two confirmations is the one completion and the level
in the same step. The mapping uses CHOOSE and Cardinality; lemmas say what they are
before and after each request under `CoreInv` and `StampsInv`.

**Overlapping sessions.** A request commits on tables that are no longer the ones it
has read, so its guard is useless as an invariant. `SessionInv` keeps for each request
under way what nobody can take back (`StillKnown`): a row stays, a payment was made, a
time stamp once set stays set, evidence stays. `Grows` says that no commit takes such a
thing back (`NothingTakenBack`), hence what every request knows survives the commits of
the others, however many threads there are. `OneThreadIsSerial` is the opposite case: with one
thread a request is `Fresh`, everything it read is still so at its commit, which is
therefore a step of `Marketplace`. So every theorem about `Marketplace` holds of one
thread, and with it the two policies that the violation runs refute with two
(`OneThreadKeepsPolicies`): they fail by the overlap and by nothing else.

`SingleActiveExecution` needs an invariant about pairs of requests (`PairInv`). While an
accept is under way there is no execution, and the other request neither accepts nor
confirms (`AcceptAlone`; the patience of the orderer excludes the second accept). While
a confirmation or a dispute is under way, either its execution stands and the other
request does not end it, or the recruitment is over, the other request does not begin
it again and nobody else executes (`ConfirmHarmless`). The alternatives are not kept
when a third request commits, and the property fails then. TLC checked `PairInv` on the
instance of `sessions_overlap` before it was proved.

For any number of requests the alternatives of `PairInv` are too weak, but with
patient runners and no resolution a simpler invariant is enough (`CrowdInv`). Every
request came from whom it must come from (`AllAuthorized`), and of one patient user there
is one (`OneEach`); while a runner's confirmation is under way his execution stands, and
while the orderer's acceptance or her confirmation of another runner is under way it does
not (`Compatible`). Only the runner, the orderer's withdrawal and a resolution end an
execution, and the first two wait for their answers; so the resolution is the one
step that can break `Compatible`. `SingleUntilResolved` assumes of a behaviour that it
has none; `SingleBeforeDisputeCorrect` needs no such assumption, since a resolved offer
has evidence (`SessionDisputeCorrect`) and evidence stays. TLC checked the
property beforehand, on instances that are not among the runs: four requests at a time of
three patient users and the administrator without a resolution (327,134 states), and the
second form with three (883,289 states). Both hypotheses are needed: TLC finds two executions with three requests when a dispute is resolved or when a
runner is impatient.

**Delivery.** `DeliveryInv` says what a batch may rely on while rows change under it:
its rows exist, none had used up its retries when it was read, what it will store as
SENT was pushed. `retry_count` is written from what the batch has read, so overlapping
batches can lose counts and never exceed the limit. `NoRepeatedDelivery` adds
`BatchesApart`: a row that is not in `shared` is in one batch at most, and until that batch
commits only its user changes it, because a row leaves PENDING only by a flush and FAILED
only by the retry. That is no hypothesis on the flushers: the rows that two batches do
hold are the ones the property leaves out. `DeliveryImplementsLife` needs
one thing more, `TriesCurrent`: the count a batch has read is still the count of its
unshared rows, so that what it stores is one failure more. Each commit of a batch is then a
`Settle` of its rows with three witnesses: the delivered ones, the ones that show their
failure and the ones read meanwhile; the start of a batch on rows of another one is a
`Contest` of them.

**Accounts.** `AccountInv` separates what any request knows (`Knows`) from what the only
request of a patient phone knows besides (`StillReads`: its rows are as they were).
`PhoneKept` relates the codes of a patient phone to its account: one verified SIGNUP
code exactly when there is a live account, no LOGIN code without one. A step of one
phone leaves the rows of the others alone (`OnlyPhone`), which reduces every step to one
phone. For an impatient phone no such relation holds and the unique key alone gives
`OneAccountPerPhone`. `PatientGuesses` is `CodesCount`: a stored code of a patient
phone has as many counted attempts as refusals.

**Migrations.** The script under way was begun when its turn had come, and still is in
turn (`TurnKept`). The contents of the scripts play no part.

Model-checked only:

* Liveness (`FailureIsSettled`, `DeploymentsReachTheHead`): beyond the
  prover.
* `HeadServesTheModels`, `MissionFactsSurvive` and `OnlyKnownScriptsStop`: they are about
  what eighteen scripts of concrete statements compute from a schema. `Migrations` has no
  parameter that would make a proof say more than the run, and the scripts use
  SelectSeq and folds, of which the prover has no theory.
* The violation runs: a counterexample is its own proof.

## 6. Not modelled

* Queries and response building; validation, errors, OpenAPI, logging and
  configuration (`schemas/`, `core/errors.py`, `core/openapi.py`): they keep no state.
* The payment deadline checker: its service method returns 0 and nothing schedules
  it. `send_to_topic` and the dispatcher's unused methods: no caller.
* Errors inside an event handler, which the bus swallows (`events/base.py:33`): a handler
  fails only where the database does, and then the request does too.
* The connection pool: 15 connections, of which `get_current_user`, run on the event
  loop, may wait for one that only requests behind the loop would release. That is
  a matter of the driver's waiting and of the framework's scheduling, which no module
  here has.
* The switch of containers in `scripts/deploy.sh` and the proxy: the new version is
  started before the migration and serves requests on the old schema meanwhile;
  `Migrations` has the application at the head only.
* Tokens are stateless; refresh and logout change no row. Terms documents and the
  SMS provider's own behaviour are data or external.

## 7. Plan

1. A bound on the guesses of overlapping requests, for any number of sessions.
2. `ConnectionPool`, if the waiting of the driver is to be specified.
