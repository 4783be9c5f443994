# Keen VPN backend: TLA+ specifications

TLA+ modules for the NestJS backend in `src/`, the TLC configurations that check
them on small instances, and theorems that TLAPS proves for every instance. Module
directories such as `payment/` are those of the server under its `src/`.

The server keeps all its state in PostgreSQL (through Prisma, at the default
isolation level READ COMMITTED) and in services it does not own: Stripe, Apple, Slack
and the daemons on the VPN nodes. It runs as many processes: serverless invocations
(`netlify/functions/api.ts`) or a long-lived server (`src/main.ts`). So the rule in all
modules is:

* one SQL statement, or the writes of a transaction with its commit, is one step;
* every read whose result is used later is a step of its own;
* every call to another service is a step, whose answer may be lost;
* steps of different requests, webhook deliveries and jobs interleave freely, and a
  process may die between any two.

## 1. The system

| Part | State it keeps | Operations | What is hard | What makes it correct |
|---|---|---|---|---|
| Stripe checkout (`payment/stripe/stripe.service.ts` 65-268) | `users.stripe_customer_id`, `stripe_trial_used_at`, `stripe_trial_subscription_id` | `createCheckoutSession`: guard, customer, trial reservation, session, rollback, retry after a missing customer | concurrent checkouts of one user, failure between reservation and session, a webhook writing the same columns | at most one session with a trial; a failed checkout gives the trial back; nobody releases another's reservation |
| Stripe webhook (same file, 282 on) | subscription rows per billing period, mappings, the columns above | create or update, delete, customer events | Stripe delivers late, twice, at once and out of order; a delivery dies half-way | what was answered is stored and owned, unless its handler returned early; the webhook catches up with Stripe |
| Paid conversion notice (`notification/paid-conversion-slack.service.ts`) | one row per dedupe key | claim the key, send, give it back | deaths, lost answers, repeated deliveries between claim and send | no two tellings of a purchase at a time, none after the one Slack has acknowledged |
| Sessions (`vpn/vpn-session.service.ts`, `connection/connection.service.ts`) | `connection_sessions` | `upsertSession`, `recordSession`, cron `closeStaleExtensionSessions`, statistics and history | read-merge-write under READ COMMITTED, two endpoints, a cron job, durations computed twice | an end agrees with its event, counters never regress, silent sessions close, the owner is kept, the reports agree |
| VPN configuration (`config/vpn-config.service.ts`) | `node_clients`; peers of the node daemons | `processVpnConnection`, with timeout and retry of the daemon call | allocation by counting, lost answers, late posts | the row names what the daemon routes; addresses are usable and not shared |
| Trials (`subscription/trial.service.ts`, `verifySession` in `auth/auth.service.ts`) | `trial_grants`, `device_trial_fingerprints`, `users.trial_*` | `grantIfEligible`, `status`, `expireIfNeeded`, expiry by a session, start notice | check-then-create, columns written by four services, one notice per cluster of accounts | the columns follow the grant, a taken device hash is that of a grant, who sends a notice holds its claim |
| Apple purchases (`payment/apple/`, `googleSignIn`) | `apple_iap_purchases`, subscriptions, owner mappings | capture, link, bulk link, renewal, refund, link by e-mail address | a purchase found free before the transaction that links it; a unique violation caught inside an aborted transaction; a sign-in that writes back what it read | who has the purchase has its subscription; access comes from a link |
| Accounts and links (`auth/auth.service.ts`, `account/`) | users, `linked_accounts`, `subscription_users` | sign in, link, unlink, delete, the views of access | look-ups long before writes, no transactions; two deletions that are not atomic | one person per account; access stays within accounts that links connected and goes with the link; the views agree |
| Nodes (`nodes/`) | nodes, geolocation cache | register, heartbeat, queries | ageing status | not modelled |
| Small and stateless parts | | Apple key lookup, cold start, push tokens, blind signatures, e-mails, plans, validation, logging | | not modelled |

They meet in the database: checkout, webhook, trials and sessions write columns of
one user row; both payment sides and the links write `subscription_users`; sessions and
`node_clients` are written by clients, cron job and account deletion. `PROJECT.json` lists the
components with their status and all the hazards, each at its line.

## 2. Modules

| Module | Models | Checked by | Proved in |
|---|---|---|---|
| `StripeCheckout` | checkouts of one user, Stripe, and the webhook's part of the shared columns | `MCStripeCheckout` | `StripeCheckoutProofs` |
| `StripeEvents` | Stripe, its deliveries, subscription rows and mappings, the cancel request; embeds `PaidConversion` | `MCStripeEvents` | `StripeEventsProofs` |
| `PaidConversion` | the dedupe protocol of the paid conversion notice | embedded | `PaidConversionProofs` |
| `OneTimeTrial` | abstract: a trial is reserved by one request, and given once | as `TrialGivenOnce` of `StripeCheckout` | `StripeCheckoutProofs` |
| `NoticeLog` | abstract: of a purchase, or the start of a trial, one telling at a time and none after an acknowledgement | as `ConversionLogged`, and as `StartLogged` of `Trials` (`TrialStarts.cfg`) | `PaidConversionProofs`, `TrialsProofs` |
| `ApplePurchases` | one Apple purchase, its row, subscriptions and owners; embeds `PaidConversion` | `MCApplePurchases` | `ApplePurchasesProofs` |
| `AccountLinks` | links between accounts, the access they share, purchases that move | `MCAccountLinks` | `AccountLinksProofs` |
| `AccountViews` | what users are shown of that access (extends `AccountLinks`) | `MCAccountLinks` | `AccountLinksProofs` |
| `SignIns` | how accounts are found, made and changed by tokens | `MCSignIns` | `AccountLinksProofs` |
| `ConnectionSessions` | one session row, both endpoints, cron job, account deletion | `MCConnectionSessions` | `ConnectionSessionsProofs` |
| `SessionReports` | statistics and history of that row (extends `ConnectionSessions`) | `MCConnectionSessions` | `ConnectionSessionsProofs` |
| `NodePeers` | client addresses on nodes, the daemons and the HTTP calls to them | `MCNodePeers` | `NodePeersProofs` |
| `Trials` | grants, fingerprints, status and session requests, start notices of a cluster of accounts | `MCTrials` | `TrialsProofs` |

Each module composes its handlers with their environment (Stripe, Apple, daemons, clients,
cron job). What one module takes from another's component is an unconstrained
choice, as in `Trials`, where whether a user has an active subscription is decided by
billing, or is left out and named in its header, as the trial columns in `StripeEvents`.
The operators named `Bug...` beside a definition are wrong variants of it, used by no
specification: replacing the definition by one must make the listed property fail
(`mutants` in `PROJECT.json`).

### StripeCheckout

Variables are the three columns of the user row, the state of the subscription row of
every Stripe subscription, the locals of every request (`pc`, `snapshot`, `customerId`,
`eligible`, `error`, `session`), and of Stripe its customers, subscriptions and
events. Every `await` of `createCheckoutSession` is an action: `ReadUser`, `GuardActive`,
`CreateCustomer`, `SaveCustomer`, `LookupSubscription`, `ReserveTrial`, `CreateSession`
(or `CreateSessionFails`), `ReleaseTrial` (or `ReleaseFails`), `ClearCustomer`, `RetrySession`.
`NoPriceForPlan` is the throw that runs after the reservation and outside the `try`;
`Crash` kills the request anywhere. Events stay in `events` once published, so they are
delivered in any order and any number of times.

Points where the code surprises, and the model follows it:

* `ensureCustomer()` (94-97) returns the local `customerId` if there is one, so the
  recovery from "no such customer" retries with the customer that is missing: the retry
  always fails. A variant that creates a new customer there hands out a second trial,
  since the retry uses the stale `eligible` after the release (the mutant of
  `TrialSessionIsRecorded`).
* Stripe reports a price that does not exist as it reports a missing customer (215-221), and the
  code takes it for one: it releases the trial, forgets a customer that is there, and retries with it. The retry
  fails for the price again.
* A request that throws for a missing price id, dies, or cannot run the release keeps the
  reservation for ever (`stranded` records these).
* Two first checkouts create two Stripe customers; the later one is saved.

`OneTimeTrial` is what all this must amount to, with three variables and four actions: the trial is
unused, reserved by one request, or used; its holder gives it or gives it back, or the
webhook records it as taken elsewhere. `TrialGivenOnce` says that the checkouts and the
webhook implement it when `trial` is read off the columns and the sessions (`TrialStage`), `holder` is who holds a trial in the
sense of the proof (`Holds`) and `given` whose session has the trial period.

### StripeEvents, PaidConversion, NoticeLog

`stripe` is Stripe's own state of each subscription, `events` what it has published: a
snapshot taken at the change, or an event whose handler retrieves the subscription when
it runs (`retrieve`: checkout completed, invoice paid). `Deliver` hands an unanswered
event to a free worker, in any order and to two at once; answered events come again
within the bound. The worker then goes through the awaits of `handleWebhookEvent`:
`FindPeriod`, `WriteRow` (or `WriteFails`: the status has no place in the enum, or the
unique key of `stripe_subscription_id` and period start refuses a second row), `EnsureOwner`,
`NotifyPaid` with `Tell`, `Answer`; for a deletion `FindRow` and `CancelRow`. `PassOver` is the handler that
returns before it stores anything: the session or invoice does not give its subscription by its id, the customer is deleted or
has no e-mail address, no user is found, or the period has no dates. The event is then answered with 200
and never delivered again; `passed` records it, and `AnsweredStored` speaks of all others. `Dies` ends a
delivery unanswered anywhere. `CancelRead` and `CancelWrite` are `SubscriptionService.cancel`.

`PaidConversion` is `PaidConversionSlackService` alone: insert the key, which is unique, send,
delete the row when Slack refuses (`Refused`) or its answer is lost after the message went out
(`AnswerLost`), which look alike to the code. `posted` counts the messages that reached Slack. `StripeEvents` and `ApplePurchases` carry its
variables and take its actions as parts of theirs (`Conversion == INSTANCE PaidConversion
WITH ...`), so a delivery that dies takes its notice with it. `NoticeLog` is what the code keeps: each notice is
open, taken or told, every message belongs to a telling of its own, and told (acknowledged by Slack) is
final. It does not promise one message: a telling whose answer is lost puts the notice back to open (`Lose`). `ImplementsLog`
says that the notices implement the log under the mapping `LogEntry`; the runs check it of both services as
`ConversionLogged`, and the proofs show it step by step. That a conversion is posted once (`NotifiedOnce`) is what a
comment of the code says, and false (`StripeNotice.cfg`, below).

What the model shows about the code: an answer lost by Slack counts as "not sent" and
releases the key, so a message may reach the channel twice. A process that dies with the key leaves it claimed, and the conversion is never told. Only
the create branch of the webhook grants a trial, so a death just after it loses the grant. A
deletion cancels any one row of the subscription (`FindRow`), not always the last.

### ApplePurchases

`ledger` is the row of `apple_iap_purchases` of one original transaction id, whose renewals are
the numbered transactions `1..term`; `row` are the subscriptions made from it (one
for each transaction at most, `Taken`: only `apple_transaction_id` is unique), `owners` their OWNER mappings. Linking is split as the
code is: `linkPurchase` verifies the receipt (`LinkBegin`), reads account and purchase
inside the transaction (`LinkRead`) and writes (`LinkCommit`), `linkWithTransactionIds` reads before its
transaction (`BulkBegin`, `BulkCommit`). `StoreLink` is the shared body. A mapping that exists already
violates the unique key; the code catches the error, but PostgreSQL has aborted the
transaction, so nothing is stored (`Aborted`) while the request goes on to its answer. `ReceiptBegin`,
`ReceiptFind` and `ReceiptUpdate` or `ReceiptInsert` are a renewal (its transaction locks nothing when it reads), `RefundFind` and
`RefundWrite` a refund. `googleSignIn` looks for a running purchase of the account or of its e-mail address (`SignInSeek`), then for
the account's subscription made from it (`SignInMatch`), and writes or creates it in
a later statement (`SignInRenew`, `SignInCreate`, `SignInOwn`). `SignInRenew` writes the account it read by
the id of the row: when the purchase was linked to another account in between, the sign-in takes the
subscription back while the purchase names the other account. `overrun` records that until the next link, and
`LinkedHasSubscription` sets it apart. Deleting an
account cascades to its subscriptions and mappings, but leaves the purchase its address.

### AccountLinks, AccountViews

`links` are the rows of `linked_accounts`, `owning` and `shared` the OWNER and LINKED rows of
`subscription_users`, of which the unique key allows one per subscription and user; `owner` is who a subscription is of. `linkProvider` is `LinkBegin` to `LinkShare`, one action for every
await (`LinkSeek` reads the second account, `LinkLook` asks later whether it is linked); `unlinkProvider` is `UnlinkBegin`, `UnlinkDelete` (the link), `UnlinkRead`, `UnlinkDrop` (the
shared rows); a payment stores the subscription and its OWNER row, reads the links and grants row after row (`Pay`, `PayOwner`,
`PayLinks`, `PayGrant`). `LinkPurchase` is what `linkPurchase` and `linkWithTransactionIds` do to a subscription that
is there: it becomes the caller's, with an OWNER row, and all other rows stay, those of the former account and of the accounts
linked with it. When it may be linked is in `ApplePurchases`; here it may at any time. `Restore` is the stale write of
`googleSignIn`.

History variables: `circle` connects accounts that a link ever joined; `had` holds the accounts a
subscription was ever of; `stray` holds the rows an unlink cannot be expected to take: a process died after the link
was gone, the row was written from a link, or a subscription found, before it went, or the
subscription moved to an account that is not linked with the one of the row.
So a subscription that moves is still shared with strangers to its present account: `SharersConnected` says no
more than that they are connected with an account it is or was of.

`AccountViews` adds no variables: every view (`History`, `EventDetails`, `Invoices`, `Payments`,
`Profile`, `ShownProviders`) is the query of its method in a state of `AccountLinks`, so that `ViewsAgree`
compares what six methods find with queries of their own.

### SignIns

A token is the set of identities it shows: Firebase uid, e-mail address, Apple id. For an Apple token without
an address `appleSignIn` goes by the one in the body of the request (`Mail`), which no token shows: the accounts
it finds or gives an address by it are `unproven`, and nothing is claimed of them. `login` and
`googleSignIn` are `Firebase...`, `appleSignIn` is `Apple...`, the account search of `linkProvider` is
`Link...`; every look-up and every write is a step, and the unique keys of `users` decide
the races. `known` groups the identities into persons: a token connects what it shows.
`OnePersonPerAccount` says of all other accounts that no look-up that is stale when it is used, and no made-up
address, puts two persons on one.

Seen on the way: an account that `linkProvider` makes for Google from the caller's own Firebase token gets
no uid (the caller keeps it), and a sign-in with that token finds the caller by it first, so nobody signs in to the new
account. The guard by which `login` would keep an address never applies, since nothing writes the `google_user_id` it
asks for.

### ConnectionSessions, SessionReports

One row, identified by its `clientSessionId`; `seen` is the heartbeat timestamp.
`upsertSession` reads and merges in `UploadRead`, then writes the merge back in `UploadWrite`
(upsert and commit): the gap is real, since the transaction locks nothing.
`recordSession` has no transaction: `RecordUpsert` and `RecordCounters` are two
statements, and `RecordFails` may come between them. `CloseStale` is the single UPDATE of
the cron job, `DeleteUser` the `ON DELETE SET NULL` of the foreign key. `silent` marks the
moment after which no client uploads any more.

`SessionReports` adds `getConnectionStats`, which computes a session's duration in SQL and rounds it,
and `getConnectionSessions`, which computes it in TypeScript and floors it. Here a unit of time is
a second, and `half` says whether the last instant lies half a second later.

### NodePeers

`rows` is `node_clients`, `peers` what every daemon routes. A request finds the client's row (`Find`),
counts the node's rows (`Count`), posts the peer to the daemon (`Acknowledged`, `AttemptFails`) and
saves the row (`Save`). A failed attempt was applied by the daemon or not, or its post is
still on its way (`late`) and arrives after the request went on (`Arrives`, kept in `strays`).
Neither rows nor peers are ever deleted; a client that moves leaves its peer on the old daemon.

`disturbed` is history: the nodes on which a client gave up an address (it moved away, or an overlapping
call of its own changed its row), or on which a request counted the rows while another carried an address not yet
saved. `AddressScoped` is false of the code (`PeersMove`); `ScopedUnlessDisturbed` says that nothing
else makes it false: not retries, crashes, late posts nor the order of saves.

### Trials

`trial` is `trial_active` and `trial_ends_at` of the users, `grant` and `fingerprint` are the two tables.
The transaction of `grantIfEligible` is split at its reads (`GrantRead`, `GrantDevice`); the writes are
one step with the commit (`GrantCreate`, `GrantRestore`), and the unique key on `user_id` makes a second
insert fail (`GrantFails`). The notice follows the commit: `NoticeCluster`, `NoticeClaim`, then
`NoticeSent`, or `NoticeRefused` or `NoticeLost` (posted, but the answer is lost) and `NoticeRelease`. A status request expires the trial twice, as
`getStatusWithSession` calls `expireIfNeeded` and then `status`, which calls it again. `SessionRead` and
`SessionExpire` are the expiry in `verifySession`, by the user id alone. `ProviderMark` is the
guarded update of the same columns by the Stripe webhook and by Apple's renewals and links, which
is one statement in both services.

`FingerprintHasGrant` says that a device hash is taken by trials only: a call that takes it and then
fails, or meets one of the same user without a hash, leaves none behind. `StartLogged` says that the notices of a coordinator
implement `NoticeLog`: taken while a call may send, and told once Slack has acknowledged (`announced`). That a cluster of accounts is told once does not
follow (`OneNoticePerCluster`, below).

The feature flag is on, the accounts of the model form one cluster and none is deleted.
`touchDeviceFingerprint` is left out: no code of the repository calls it.

## 3. Runs

| Run | Checks | Instance | Result |
|---|---|---|---|
| `StripeCheckout` | `TypeOK`, `OneTrialSession`, `TrialSessionIsRecorded`, `FailedCheckoutReleases`, `MarkedTogether`, `OnlyHolderReleases`, `TrialGivenOnce` | 2 requests, 1 earlier customer, 1 manual subscription | holds; 2.0 million states |
| `StripeEvents` | `TypeOK`, `AnsweredStored`, `ConversionLogged` | 1 subscription, 2 deliveries at once, 2 periods, 2 changes, 2 faults, 1 event passed over, 1 lost answer | holds; 4.0 million |
| `StripeCatchUp` | `RowsGetOwner`, `EventsAnswered` | the same with 1 period, 1 fault, 1 cancel request, nothing passed over or lost, under fairness | holds; 0.6 million |
| `StripeCancel` | `CancellationStands` | 2 periods, 1 fault, 1 cancel request | violated |
| `ApplePurchases` | `TypeOK`, `LinkedHasSubscription`, `AccessComesFromLink`, `OnlyOvertakenTake`, `ConversionLogged` | 3 accounts, two of them of one address, 2 workers, 2 subscription ids, 1 transaction, 1 lost answer | holds; 2.7 million |
| `AccountLinks` | `TypeOK`, `SharersConnected`, `SharingNeedsLink`, `ViewsAgree` | 3 accounts, 2 workers, 3 calls, 2 subscriptions (1 of a purchase) | holds; 0.7 million |
| `SignIns` | `SignInTypeOK`, `OnePersonPerAccount` | 2 account ids, 2 workers, 4 requests, 3 Firebase and 2 Apple tokens, a body with or without an address | holds; 4.2 million |
| `SessionUploads` | `EndEventMatchesEnd`, `DurationCoversSpan`, `SilentSessionsClose`, `ReportsAgree` | 2 overlapping uploads, cron, deletion | holds; 0.4 million |
| `SessionMixed` | `TypeOK`, `DurationNeverRegresses`, `OwnerIsKept` | 1 upload and 1 record, 2 users | holds; 4.4 million |
| `PeersRouted` | `TypeOK`, `UsableAddress`, `RowRouted`, `ScopedUnlessDisturbed`, `CallsEnd` | 2 nodes, 2 clients, a request each, 1 late post | holds; 0.6 million |
| `PeersMove` | `AddressScoped` | 2 nodes, 3 clients, one request at a time | violated |
| `Trials` | `TypeOK`, `TrialFollowsGrant`, `FingerprintHasGrant`, `SenderHoldsClaim` | 2 users, 1 device, 2 grants, 1 status or session request, 1 lost answer | holds; 8.9 million |

Bounds. Races in this code are between two callers, one of which overtakes the other between
a read and a write, or between a caller and a job; two workers show them, and a worker
may start again as soon as its call has ended, so sequences of any length are
covered where no clock or bound limits them. Checkout requests run once each (two suffice for
"at most one"). Time only matters by order, with one threshold (`Stale`, `Duration`), so a clock of one or
two units past it has an instant before, at and after. `Octet = 2` makes the carry
between the address octets happen with two clients. `LatePosts = 1` allows one post in flight after its
timeout. `MaxPeriod = 2` gives a subscription an older row that late events and deletions may
hit; `MaxChanges = 2` lets one event overtake another, `MaxFaults = 2` a death and a repetition after the
answer, `MaxPassed = 1` one handler return early beside others that do not, and `MaxLost` bounds the messages of a notice after
which an answer may still be lost: one is enough for a second message.
`MaxCancels` bounds the cancel requests, which only `StripeCatchUp` and `StripeCancel` have. `MaxTerm = 1` is one transaction that runs out; a renewal, and with it a
second subscription of the purchase, is covered by the proofs. Three
accounts are the least in which a circle has members that are not linked to each other;
`MaxRequests = 3` calls (payments, links, unlinks, moves) suffice to
pay, link, and unlink or move, or to let two of them race; a deletion, a lapse and the stale write of
`googleSignIn` are no calls. Longer sequences are covered by the proofs. `MaxCalls = 4` sign-ins
suffice to make the two accounts, and to let two more calls race over them. The proofs below remove
these bounds for the properties they cover.

Symmetry permutes users, workers, requests, ids or devices that no constant tells apart (in `ApplePurchases`
the two accounts of one address); it is used by runs without liveness properties only.

`CHECK_DEADLOCK FALSE` is set where the system may really stop: all checkouts or events
answered, all accounts deleted, or the clock or a bound of the model at its end.

Fairness. Safety is checked without any. `SilentSessionsClose` needs that the cron
job keeps running (`ScheduleModule` in the long-lived server; a serverless process
lives only as long as its requests, and nothing is claimed of it), that time passes, and that an open transaction commits
or aborts, which its timeout in Prisma guarantees. Nothing is assumed of the clients.
`CallsEnd` needs that every await of a request resolves, for which the daemon
call has a timeout and the database its own; the retry loop is bounded by the code.
`RowsGetOwner` and `EventsAnswered` need that a delivery which is not killed runs on (the function answers or is
killed), and that Stripe delivers an unanswered event again (its documented
retries, on which the code relies by answering 500); the event must be one the webhook can store, since it
may otherwise be passed over for one that always fails. Deaths are finitely many (`MaxFaults`).

### Findings

The violated runs state what the documentation or an answer of the code says:

* `AddressScoped`: an `allowedIps` block "strictly scoped to them" (`README.md:89`); counting the rows of a node
  reuses an address as soon as a client has moved away, without any concurrency.
* `CancellationStands`: "Subscription will be cancelled at the end of the current period"
  (`subscription.service.ts:253`); `cancel` writes the local row and does not tell Stripe, and the next event
  of the subscription writes the column back.

Further configurations keep counterexamples to stronger statements; they are no runs of the
project, and TLC refutes each when started by hand:

* `StripeNotice.cfg`, `NotifiedOnce`: "Deduped per Stripe subscription id so webhooks cannot double-notify"
  (`paid-conversion-slack.service.ts:16`); a message that reached Slack and whose answer was lost counts as not sent, its key is
  deleted, and the next active event posts it again.
* `StripeCheckoutActive.cfg`, `NoCheckoutWhileActive`: "never allow checkout when an active subscription exists"
  (`stripe.service.ts:79`); the check is several awaits old when the session is created.
* `SessionLastSeen.cfg`, `LastSeenMovesForward`: "lastSeenAt only moves forward" (`vpn-session.service.ts:27`); of two
  overlapping uploads the later commit may store the smaller value.
* `SessionReopen.cfg`, `EndNeverCleared`: "never cleared back to open" (`vpn-session.service.ts:28`); an upload that read
  an open row writes the null back over the end that the cron job stored (`SilentSessionsClose`: the job closes it again).
* `TrialNotice.cfg`, `OneNoticePerCluster`: "One Slack message per linked identity cluster" (`trial.service.ts:230`); two calls
  that see different grants pick different coordinators and both claim.
* `TrialDevice.cfg`, `OneTrialPerDevice`: "Device hash already used by another user" blocks a trial (`trial.service.ts:167`), but
  not when the transactions overlap.
* `TrialDrift.cfg`, `StatusReconciles`: "Reconcile from source-of-truth trial grant when user fields drift"
  (`trial.service.ts:348`); a blind expiry can hide a running grant, and status repairs only a row
  without an end date.
* `AppleShared.cfg`, `OneAccountPerPurchase`: "Each purchase can only be linked to one account" (`apple.service.ts:981`);
  of two links that overlap both get their mapping.

`TrialStarts.cfg` is the one that holds (0.3 million states): it checks `StartLogged`, which is proved, with two lost answers; in the run
`Trials` the refinement would take too long.

## 4. Proofs

Theorems hold for any number of users, requests, deliveries, nodes and workers, and any bounds.
All of them follow one pattern: an inductive invariant, preserved by every action, one lemma or step of the proof
each, from which the property follows.

* `StripeCheckoutProofs`. Nothing is assumed but that the constants are distinct. `OneTrialSession` is not
  inductive: it needs that at most one request *holds* the trial (its key is stored, or its session
  was handed out), that a held trial is marked used, that a request before its reservation has
  left no trace, and that a retry after a missing customer finds it dead (one after a missing price fails for the price). Only then does the
  stale `eligible` flag of a retry do no harm. The same invariant gives the refinement: every step is a step of
  `OneTimeTrial` or leaves its three variables alone (`TrialGivenOnceHolds`).
* `PaidConversionProofs`. `NoticeInv`: whoever holds a key is alone with it, its row is there and Slack has not acknowledged it; what was
  acknowledged keeps its row. Under it every step is a step of `NoticeLog` or a stutter, lost answers included, which is `NoticesImplementLog`. Assumed
  is `ConversionConstants`: the value for "no key" is not a key.
* `StripeEventsProofs`. `AnsweredStored` needs what a delivery has done when it is at its step (`StepKept`: the
  row is there once written, owned once given to its user), that rows are never removed, that an event exists only of a
  subscription that does, and that a delivery about to answer without a row is in `passed`. `ConversionsLogged` embeds the refinement: every step of the webhook is a step of
  `PaidConversion` or leaves its variables alone, so `NoticesImplementLog` applies.
* `ApplePurchasesProofs`. `LinkedHasSubscription` and `AccessComesFromLink` need what a call that has read an account
  still knows at its commit (`CallKept`), that whom the ledger names was linked to it (`LedgerFromLink`), that a row written back by a sign-in is
  recorded in `overrun` until a link stores the purchase and its row together again, and, for
  `OnlyOvertakenTake`, that a request about to commit may link the purchase unless it was overtaken since its read
  (`LinkersMay`). The embedding of the notices is as above.
* `AccountLinksProofs`. `SharersConnected` needs that `circle` is an equivalence that holds the links
  (`CircleOK`), that `had` knows every account a subscription is of or has an OWNER row for, and that the
  subscription a call carries was of an account connected with one of its two (`Reach`, `CallKept`). `SharingNeedsLink` is inductive with these. `ViewsAgree` follows from the foreign
  key: a mapping goes with its subscription.
* The second part of `AccountLinksProofs` proves `SignIns`; the two modules share no name, so one module
  extends both. Assumed is `TokensOK`: every token has an id, and no id reads like an
  address. `OnePersonPerAccount` needs that the persons in `known` are disjoint and hold every
  identity, that a made-up address is of its id's person, that an account given an address by a request's body alone is `unproven`, and of a request (`CallOK`) that what its tokens show is of one
  person and that, once it holds an account that is not `unproven`, so are these together with the row as it was read, and together with
  the row as it is now. Persons only grow together, which is why a stale row does no harm, and an account
  of one person that shares an identity with a request's tokens is of the same person.
* `ConnectionSessionsProofs`. `DurationNeverRegresses` and `OwnerIsKept` hold of all traffic.
  `EndEventMatchesEnd`, `DurationCoversSpan` and `ReportsAgree` are proved for `Records = {}`: a `recordSession` HEARTBEAT
  after the end breaks the first. They need the same agreement of what open
  transactions are *about to* write (`WillMatch`), as their merge may be stale.
* `NodePeersProofs`. `UsableAddress` assumes that a node can number its clients within the
  subnet, `Cardinality(Keys) + 2 < Octet * Octet` (the code does not check it), and uses
  that the rows on a node are no more than the clients. `RowRouted` assumes `CallsDoNotOverlap`, as each
  client waits for its answer; two overlapping calls of one client do part row and daemon.
  `ScopedUnlessDisturbed` needs no assumption. Its invariant (`Orderly`) is that the clients of an undisturbed node have distinct
  addresses among 2 to their number plus one, and that at most one request carries a new address there, the next one; a saved
  address is then new whatever else ran since the count.
* `TrialsProofs`. `TrialFollowsGrant` and `SenderHoldsClaim` need what a call knows of its grant
  (`SawGrant`) and that a claim lasts until its holder releases it (`ClaimsHeld`); the
  coordinator exists because a non-empty set of user ids has a least one. `FingerprintHasGrant` holds since hash and grant are written
  by one commit and no later one changes a grant. `StartLoggedHolds` is the refinement: under `ClaimsHeld` a claim is taken from nobody, sent by
  its holder and released by its holder only, so the `WHERE notifiedAt = claimAt` of the release always finds its claim.

Only model-checked: the liveness properties (`SilentSessionsClose`, `CallsEnd`, `RowsGetOwner`, `EventsAnswered`), as
liveness under fairness is outside what the proof system does, and everything the violated configurations show.

## 5. Not modelled, and why

* Stripe webhook: plan and price columns, e-mails, signature check and event log, which no decision reads.
* Apple: `DID_CHANGE_RENEWAL_STATUS` (it writes `cancelAtPeriodEnd` from the notification and nothing else), price columns, the HTTP
  calls to Apple beyond their outcome; the key cache of the token verifier.
* Nodes: registration and heartbeat are single upserts, the rest is queries and a geolocation cache.
* Serverless entry point: wiring; an invocation handles one request at a time.
* Blind signatures, e-mail and Slack formatting, plans, PDF layout, validation, logging: pure functions or I/O.
* Push tokens, preferences, sales contacts: single statements, or one check and one insert.
* Longest session and product events: one atomic statement, or append-only. Daily and location statistics: sums
  over the same rows, read only.
* `trialStartsAt` and `trialTier`, session columns that no merge reads (protocol, version,
  reasons): written together with modelled ones.
* The backfill script: run by hand, once.

## 6. Plan

Done: all modules above with their proofs. What is left, most important first:

1. The trial columns in one composition of `StripeCheckout`, `StripeEvents` and `Trials`: so far each takes the others' writes
   as a free choice.
2. `DID_CHANGE_RENEWAL_STATUS` beside the cancel request, and renewals of a second transaction in the runs of `ApplePurchases`.
3. `Nodes`: heartbeats against the age filter.
