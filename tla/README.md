# A verification model of dajda

dajda sells subscriptions and single tickets of betting analysts. A buyer pays
at a payment gateway; the gateway reports back through signed callbacks; the
analyst earns a share, publishes predictions, and readers are told about them.
What can go wrong here goes wrong between processes: two callbacks for one
order, a checkout in two tabs, a cron run that meets a renewal, a prediction
settled by two administrators, a reset link used while a login is under way, a
request that dies half way. This directory models those paths in TLA+, checks
them with TLC on small instances, and proves the central ones with TLAPS for
every instance.

## 1. Inventory

The application is one Next.js server (any number of instances) over one
Postgres database. Requests, server actions and two daily crons share rows;
there is no in-memory state that matters and almost no row is ever locked.
Transactions run READ COMMITTED, so what protects a row is the `where` of an
update, a unique index, or nothing.

| Component | State it keeps | Operations | What is hard | What makes it correct |
|---|---|---|---|---|
| Payment webhook (`lib/payments/webhook.ts`, `prisma-port.ts`, `balance/ledger.ts`) | `Payment.status`, `UserSubscription`, `PredictionPurchase`, `BalanceTransaction`, `User.earningsMinor`, `WebhookEvent` | claim an event, move the payment, open / fold / close a subscription, grant / revoke a ticket, credit / reverse a share, record and apply a renewal | ten port calls, each its own transaction; overlapping, repeated, reordered, lost callbacks; crashes | statuses follow the lifecycle; nothing for an unpaid order; exactly one credit; at most one running row per plan; paid money is settled |
| Gateway (`flitt.ts`, external) | the truth about each order, its calendar | approve, decline, expire, refund, dispute, charge a calendar, answer a status question | asynchronous, repeats, may refuse | – |
| Subscription checkout and cancellation (`lib/subscriptions/service.ts`) | the rows above | check for a running month, create rows, ask the gateway, abandon; stop the calendar, write the cancellation | gateway call outside the transaction, reads that are stale when used | no charge after a cancellation; no row waits for nothing; re-buying is refused only while a month runs |
| Expiry (`expiry.ts`, `expiry-rules.ts`) | `status`, `currentPeriodEnd` | find lapsed rows, close them | read and write are apart | never closes a renewed row |
| Sweep and abandonment (`sweep.ts`, `sweep-rules.ts`, `abandon.ts`) | `Payment.status` | ask about orders older than a day, apply the answer as a delivery | the answer competes with the callback | no checkout waits for ever |
| Renewals (`renewal-declined.ts`, `renewal-unwanted.ts`, `calendar-sweep.ts`) | calendar fields, audit rows | stop a calendar, refund a charge nobody wants | either gateway call may fail | a renewal's money buys its period or is put up for refund |
| Account closing (`actions/account.ts`) | `User.status`, and the rows above | cancel what runs, one after the other, then mark the account | the gateway between any two of them | nothing it found running is charged for a closed account |
| Ticket purchase (`lib/tickets`) | `Payment`, `PredictionPurchase` | check, create, ask the gateway | two payments for one ticket | a standing payment opens the ticket |
| Payouts (`lib/payouts`) | `AnalystPayout`, `earningsMinor` | request, refuse, mark as paid, override the window | two requests at once; a refusal in two transactions | no tetri is lost or paid twice |
| Outbox and broadcasts (`lib/notifications`) | `Notification`, `AnalystBroadcast` | enqueue, drain, retry, expire, allow a broadcast | concurrent drains, unguarded updates by id | sent once, or eventually given up; the day's allowance |
| Predictions (`lib/predictions`, `actions/analyst.ts`) | `Prediction`, `PredictionResult` | post, publish, finish, settle | read, then update by id | one result; one announcement; one record |
| Entitlements and slips (`lib/auth/entitlements.ts`, `uploads/[name]`) | none of their own | who may read and see what | the rows change under what was served | a paid pick opens by its key only |
| Accounts, sessions, links (`lib/auth`, `actions/auth.ts`, `telegram-link.ts`) | `User`, `Session`, `AuthToken` | sign in and up, confirm, reset, bind and unbind a chat, decide about an analyst, close | one-use checks and owners read outside the transaction | one redemption; one owner; old sessions die |
| Statistics (`lib/stats`), dates (`time.ts`, `payouts/rules.ts`, `charge-schedule.ts`), rate limit | none, or one counter | pure functions | boundaries of months, weeks, windows, odds; rounding | agree with a plain definition |
| Queries and pages of tickets (`lib/queries`, `app/(site)`, `app/analyst`, `app/admin/predictions`) | none | list, filter, gate, offer a button or a form | each surface decides for itself, by a query of its own, at a moment of its own | they name a pick to those alone who may read it; they lead nobody into a refusal, and lose nobody's way |
| Doors and menus (`proxy.ts`, layouts, menus, `app/(auth)`, `app/account`, `app/admin`) | none | redirect, offer a way in, a form, a decision | role and profile are tested again in every place | every redirect ends, no menu leads to a refusal, nobody is locked out |
| Other pages, file storage, mail and HTTP, texts, scripts | – | rendering, files | – | not modelled |

`PROJECT.json` lists every component with its source files and how far it is
modelled, and every hazard at its line with the properties that cover it.

Interactions. The checkout and the cron only write rows and ask the gateway;
everything the gateway says, callbacks and sweep answers alike, goes through
`processPaymentWebhook`. The webhook route acts on two of its outcomes (a
declined and an unwanted renewal) by calling the gateway again, whose answer (a
refund) comes back as a callback. A settled or published prediction and an
approved analyst write rows into the outbox in the transaction or the request
that decides them; the request that wrote rows drains them itself, and the
notification cron drains what is left. Entitlements read what the webhook wrote.
A closing account runs the cancellation of the subscription service.

## 2. Modules

| Module | Stands for |
|---|---|
| `PaymentStatus` | the payment and subscription vocabularies and `ALLOWED_TRANSITIONS` |
| `PaymentLifecycle` | abstract specification: every payment is a token moving along the allowed edges, one at a time |
| `PaymentStore` | the rows, and each statement of `prisma-port.ts` on them: a guarded `updateMany` is an `IF` whose `ELSE` leaves the row; a unique index is a condition on the write |
| `PaymentWebhook` | the request handlers, the gateway, and their interleaving; the invariants that are proved |
| `PaymentProperties` | what the webhook guarantees once requests have been answered; fairness and liveness |
| `PaymentWebhook_proofs` | the TLAPS proofs about the webhook: types, lifecycle, unique rows, refunds, and the books, access and paid time at rest |
| `Subscriptions` | composes `PaymentWebhook` with the checkout, cancellation, expiry, sweep, abandonment and calendar code |
| `Subscriptions_proofs` | the TLAPS proofs about the composite: what the webhook keeps is kept beside all of this, and the promises about checkouts, cancellations and renewals; at its end those about a closing, from these |
| `EarningsAccount` | abstract specification: an amount leaves the account when it is asked for, and is then paid out or comes back, once |
| `Payouts` | withdrawal forms, administrators' decisions, the window and its override; composed with payments only through the analyst's total |
| `PayoutPages` | `Payouts` as it is shown: the earnings page with its form, the administrators' queue and windows, and the account number as it is typed, checked, masked and copied |
| `Payouts_proofs` | the TLAPS proofs about withdrawals and their pages |
| `SumTheorems` | lemmas about sums over finite sets, and induction by sets, for the totals of the two books and the records of the analysts |
| `AccountClosing` | `Subscriptions` with the closing of its owner's account on top |
| `Accounts` | users, sessions and one-use links: every way in and out, resets, chats, decisions about analysts, closing |
| `AccountPages` | `Accounts` as it is shown: where a request for a page ends, what the menus lead to, the ways in that the sign-in pages offer, the forms of an account and the desks of the administrators |
| `Accounts_proofs` | the TLAPS proofs about accounts and their pages |
| `Outbox` | notification rows, the drains that send them, and the broadcasts of a day |
| `Outbox_proofs` | the TLAPS proofs about rows, drains and the allowance |
| `Predictions` | a prediction from the form to its settlement, who may read it, and the purchase of a ticket on the way |
| `Pages` | `Predictions` as it is shown: each query, page, API answer, link preview and message as what it says of a ticket, and offers to do with it, to a viewer |
| `Predictions_proofs` | the TLAPS proofs about predictions and, for all bets and viewers, their pages |
| `Statistics` | performance, streaks and ranges of odds as operators, with the plain definitions they are held to |
| `Statistics_proofs` | the TLAPS proofs about these, for records of any length |
| `Calendar` | the Tbilisi clock, withdrawal windows and months, weeks of delivery, charge dates, and the rate limiter's verdicts, as operators with their plain definitions |
| `MCPayments`, `MCSubscriptions` | instances for TLC: one table of orders from which each configuration takes its scenario |
| `MCPayouts` | instance for TLC: one analyst with several forms, and the dates and account numbers on which the arithmetic is checked |
| `MCClosing`, `MCAccounts`, `MCOutbox`, `MCPredictions` | instances for TLC; `MCPredictions` also lists the records on which `Statistics` is checked |

Definitions with a trailing comment `faulty:` are plausible bugs of the
definition that follows them; no specification uses them. They show that a
property can fail.

### State and code

A *plan* stands for one (user, plan) pair, a *ticket* for one (user, prediction)
pair, an *order* for one `providerOrderId`. A renewal is an order with a parent:
the checkout whose calendar charges it. `payments[o] = "NONE"` is an order
without a row, as renewals are until they are recorded. A subscription row keeps
its status, who cancelled it, `cancelAtPeriodEnd`, the end of the period and
whether `renewalOrderId` and `cardToken` are set.

`PaymentWebhook` gives every request a program counter `pc[h]`. One step is one
transaction of the port, so any two requests interleave between transactions;
`activateSubscription` is split in two (`ReadRunning`, then `Open` or `Fold`)
because READ COMMITTED lets another commit in between its read and its write.
`ReceiveDelivery` is `recordEvent`, with the unique `(provider, eventId)` as its
guard; `Decide` is everything the handler computes from its one read of the
payment; then follow the port calls in the order of the code, up to `Mark`,
which is `markProcessed` and the answer. `Throw` is a write the unique index
refuses: the request answers 500 and what it had committed stays. `Crash` loses
the request at any point. The clock moves only between requests, in days.

The gateway is external and modelled by what `flitt.ts` accepts from it: it has
its own state per order, numbers its attempts, and puts callbacks into `sent`, a
set from which each may be delivered never, once or many times, in any order.
`Noise` adds posts which are not its callbacks: unsigned, mispriced, with an
unknown status, or about an order of the same merchant account that is not ours.

`Subscriptions` adds the form a checkout is (`form`), its creation day, the rows
a closer has read as lapsed, with the end it read (`lapsed`), a cancellation
under way, the calendars the gateway was told to stop, the reports the route has
acted on, and the audit rows that keep the calendar sweep from asking twice.
Actions have the names of the functions: `StartSubscriptionCheckout`,
`AbandonRefusedCheckout`, `SettleUnwantedRenewal` and so on.
`CalendarsKeepDates` restricts the gateway of `PaymentWebhook` to charges that
are due on a calendar nobody has stopped.

`Payouts` names a withdrawal after the form it was asked from. A form goes
through three steps, as `requestWithdrawal` does: the clock and the profile,
then the earnings and the open requests, then the transaction with the
conditional decrement. An administrator's request (`Desks`) reads the row,
claims it with an update guarded by its status, and, when it refuses, gives the
money back in a second transaction; it may die between any two of these.
`income` is what payments credited less what chargebacks took, and exists only
to be compared with `earningsMinor`.

`AccountClosing` adds the account's status and what the request that closes it
has still to cancel. It calls the cancellation of `Subscriptions` for one row
after the other (`CancelNext`, `CancelFound`), stops at the first that fails,
and marks the account only at the end (`MarkDeleted`).

`Outbox` has one row per event, reader and channel, as `enqueue` writes them. A
drain (`Drain`) selects a batch once, with the age and the attempts it read;
`HandOver` gives one row to the provider, which takes it, fails it or refuses it
for good. A call that fails may have been taken first: `fetch` throws on a lost
answer as on a refused connection, and both are retried
(`telegram-sender.ts:44-51`); that is `AnswerLost`. `Record` writes that answer
by the row's id. These are three steps, and drains of the writer's request and
of overlapping cron runs interleave between them. A broadcast is allowed in one
step (`CheckAllowance`) and written in another (`RecordBroadcast`). `delivered`,
`doubled` (selections of a row that another drain still held), `lost`
(acceptances nobody wrote down) and `crowded` are history.

`Predictions` gives every request the row it has read (`request[r]`):
`StartPost` and `CreateRow`, `StartPublish` and `WritePublished`, `StartFinish`
and `WriteFinished`, `StartSettle` and `WriteSettled` are the two halves of the
functions in `predictions/service.ts`, whose updates name the id alone; only the
result has a unique row. `Announce` and `TellSettled` are the notices that
follow, and may be lost (`Die`). `IsTicketLocked` and `SlipAccess` are evaluated
in every state, for a stranger, a reader, the author and an administrator. What
the payments do is reduced to what a reader's access sees of it: a row of the
subscription (`ChangeSubscription`; `LAPSED` is a row that is over and not yet
closed) and the purchases (`TicketPaid`, `TicketRefunded`). `DecideAnalyst` takes
the author off the site.

`Pages` has no variables. A page is an operator: the bets it lists, and for each
what stands where the pick would be (`"pick"`, the gate, or `"masked"`), with
the buttons and forms beside it. `ListTicketFeed`, `ListOpenTickets`,
`AnalystFeed`, `AdminQueue` and the rest are the `where` clauses of the queries;
`TicketRow`, `TicketPage`, `BetEntry`, `PublishButtons` are the conditions in
the components. All of them are evaluated in every state that `Predictions`
reaches.

`Accounts` has one entry of `requests` per request under way, which carries what
the request has read: a link, an owner, a profile. Reading a link and using it
are two steps (`ReadReset`, `ResetPassword`; `ReadTelegramLink`,
`RedeemTelegramLink`; `ReadVerification`, `VerifyEmail`), and so are writing a
password and revoking the sessions that stand. An *era* of an account ends
whenever its passwords or status make older sessions untrustworthy; a session
remembers the era in which it was opened. The unique columns (mail, chat, Google
id) are conditions on the write (`Free`).
A reset that has read its link carries, as history, how many resets its account
had seen then (`read`).

`AccountPages` and `PayoutPages` have no variables either. In the first, a
visitor is a role and a profile (`Everybody`); `Proxy` is one request, with the
cookie that is looked for and not into; the menus are sets of pages, and the
forms are sets of accounts, or of ways in, in the current state of `Accounts`.
In the second, `Refusal` is the answer to a request made now, and `WithdrawCard`
what the page shows instead of the button.

`Statistics` and `Calendar` have no variables. Their facts are checked in the
initial state of a run, over all records up to a length and over a table of
dates; those of `Statistics` are proved for every length besides.

## 3. Runs

Every configuration is checked by TLC to the end. Bounds are constants with
names: `Declines` and `Repeats` (how often the gateway may decline an order, or
repeat its approval under a second event id), `MaxCrashes`, `MaxTime`,
`Reported` (the statuses the gateway uses), `Leavers`, `Refusals`; for
withdrawals `Sizes`, `Windows`, `MaxPayments` and `MaxCrashes`; `MaxDay`,
`Limit` and `MaxAge` for the outbox; `MaxStarts`, `MaxLinks` and `MaxCrashes`
for accounts. The larger runs visit between a third of a million and two million
states each.

| Run | Instance | Checks |
|---|---|---|
| `pay_race` | two checkouts of one plan and the renewal of one, two requests at once, a declined attempt of the renewal and of its checkout, their approvals repeated, one crash | `TypeOK`, `OneActivePerPlan`, `EarningsMatchLedger`, `UnwantedReportedOnce`, and the payment table implements `PaymentLifecycle` (`PaymentsFollowLifecycle`) |
| `pay_settled` | two checkouts of one plan and two of one ticket, one request at a time, a declined attempt of one of them, approvals and refunds of all in any order, one day passing | `LedgerMatchesStatus`, `AccessMatchesPayments`, `PaidTimeExact` |
| `pay_live` | one checkout, a foreign order and noise, under fairness | `NothingUnpaid`, `ApprovedIsSettled` |
| `closing` | one subscription with a calendar from checkout to cancellation or to the closing of the account, five days, a declined renewal; the gateway may refuse a checkout, a stop, a refund, and processes may die | `RenewalHonoured`, `NoStuckPending`, `CancelStopsCharges`, `ClosingStopsCharges`, `ExpiryTakesOnlyRenewed` |
| `sub_rebuy` | two checkouts of one plan and a renewal that may come late, four days | `ConflictOnlyWhileRunning`, `ShutRowsStayShut` |
| `sub_live` | one checkout whose callbacks may all be lost, which the gateway may never have heard of, and whose owner may cancel; the cron fair | `StaleResolved` |
| `payouts` | one analyst with two tabs, two administrators, three payments or chargebacks, two sizes, every override of the window, one crash; a winter of dates, the mistypings of an account number | `PayoutsTypeOK`, `PayoutPagesAgree`, `EarningsAccountedFor`, `OnlyCrashesKeepEarnings`, `ArithmeticAgrees`, and the withdrawals implement `EarningsAccount` (`WithdrawalsKeepAccount`) |
| `outbox` | two broadcasts of one analyst to two readers, each request's drain and the cron's over a batch of one row, rows that grow too old, one crash or lost answer | `OutboxTypeOK`, `RepeatsAccounted`, `AllowanceKept` |
| `outbox_live` | a bet and its result, the request's drain and the cron fair, the provider free | `QueueSettles` |
| `predictions` | one bet of any kind, two requests, every kind of viewer, first and last kickoff a day apart, a reader whose subscription and purchase come and go, an author who may be suspended; all short records | `RecordsAgree`, `AnnouncedOnce`, `RecordCorrect`, `PagesAgree`, `OffersLead`, `OutcomeFinal`, `AccessChangesBySale` |
| `identity` | an unproved mail account, one made by Telegram and a newcomer, who compete for one mailbox and one chat; two requests, five starts, two links of a kind, one crash | `WaysLead`, `SessionsDie`, `LinksDieUnlessRead`, `OneHolder`, `ApprovedOnce` |
| `bug_crash_loses_payment` | one checkout, callbacks retried and the daily cron fair, two days, one crash | violates `CapturedIsSettled` |

Why the bounds are enough to be interesting. A race needs two requests, and a
repeat or a late decline needs one of each: every pair of port calls that an
approval, a decline or a renewal makes meets in `pay_race`. Refunds and disputes
are in `pay_settled`, where requests do not overlap; all its checkouts are
recurring, which nothing it checks depends on. `Period` is two days
against a `Grace`, `AccessGrace` and `StaleAfter` of one (30, 3, 1 and 1 days in
the code), so that a period is longer than every grace, a row can be inside its
period, in its grace and past it, and four days reach past the first renewal's
grace. The shares of two orders of one analyst differ, so that one movement
cannot stand in for another. Handlers are interchangeable and are a symmetry set
wherever no liveness is checked. Deadlock is not checked: the gateway and the
buyers may stop, and bounded clocks do.

`pay_settled` has one request at a time on purpose: with two, a stale decline
(below) breaks its properties. What survives overlapping requests is the
question of `pay_race`. The theorems about these three properties (section 4)
draw the line more finely: requests may overlap as long as no two are about the
same order, the same plan of a user or the same ticket.

In the outbox a request's drain and the cron's are enough for an overlap, since
a drain never looks at how many others there are; one channel suffices, as
channels share nothing; a batch of one row leaves others behind. `MAX_ATTEMPTS`
and `MaxAge` are smaller than in the code so that a row can reach either. A
prediction's row depends on no other, so one bet is enough; two requests cover
every pair of operations on it; its first kickoff is at 1 and its last at 2 of a
clock that runs to 2, so that every operation can come before the one, between
them and after both. What a page shows of a ticket depends on that ticket and its
author alone. Accounts meet in pairs only over a
unique column, and three of them leave one free for somebody new; five starts
are enough for two resets beside a login and the requests they wait for. Dates
are taken on both sides of the UTC and the Tbilisi midnight, around each end of
a month, from December 2023 to the end of March 2024: a new year, a leap day, a
month that begins on a Monday.

`AccountsTypeOK` and `PredictionsTypeOK` type the variables of their modules for
the proofs; no run lists them.

Properties that begin with `AllIdle =>` speak of the moments when every request
has been answered. Between two port calls of one request the rows disagree by
design.

### What the violation shows

* `bug_crash_loses_payment` – the event id is claimed before the effects
  (`webhook.ts:305`) and never released. A request that dies, or that throws and
  answers 500 to be retried (`route.ts:112`), after it has moved the payment
  (`webhook.ts:389`) and before it has opened the row leaves a payment that is
  `SUCCEEDED` and buys nothing. The gateway's retry is a duplicate, and the daily
  sweep asks about `CREATED` and `PROCESSING` only (`sweep.ts:40`), although both
  are fair in the run. A request that dies earlier, right after the claim, is
  repaired: the sweep finds the payment still `CREATED` and settles it under an
  event id of its own. With `MaxCrashes = 0` the same run finds nothing.

### Disagreements met while modelling, without a run

Each of these is a claim of a comment or a document that the models, and the
code they translate, do not bear out. The properties that are checked leave the
case out and say so in their comments. Six of the claims are formulas of their
modules (`RenewalWins`, `OtherLinksDie`, `RevokedWithItsPayment`,
`DoubleFiringIsHarmless`, `ClosedNeverBilled`, `ClosedKeepsNoChannel`): put into
the configurations of the properties beside them, TLC finds each violated.

* A late decline of an earlier attempt that is handled beside the approval can
  leave an active subscription on a `FAILED` payment: the handler goes on after
  a guarded update that matched nothing (`webhook.ts:389`; "a subscription
  becomes ACTIVE only on a verified transition to SUCCEEDED", `webhook.ts:19`).
* A renewal that lands while the cron holds the row as lapsed is overwritten by
  an update guarded by the status alone (`expiry.ts:53`; `expiry.ts:51` says the
  renewal wins: `RenewalWins` of `Subscriptions`). `ExpiryTakesOnlyRenewed` says
  that a row with days left is taken in this way and no other.
* A reset link that a request has read sets the password even after another link
  has, or after the same link has in another request: it is looked up as unused
  first and marked by its id alone later (`auth.ts:620-669`; `auth.ts:648-650`
  says every other link dies with this one: `OtherLinksDie` of `Accounts`).
  `LinksDieUnlessRead` says that a link read after the reset is dead.
* The return of a ticket's payment revokes the buyer's purchase whichever payment
  it stands on (`prisma-port.ts:409`, by user and prediction; `schema.prisma:901`
  says "the underlying payment": `RevokedWithItsPayment` of
  `PaymentProperties`). Somebody who paid for one ticket from two checkouts and
  gets the first back loses what the second bought.
* A renewal of a row into which another payment was folded sets an end the row
  already had (`prisma-port.ts:559`; `webhook.ts:20-22` says it extends). Two
  folds at the same time lose a period; it takes three checkouts.
* A refused withdrawal whose process dies before the second transaction keeps
  the money (`payouts/service.ts:265`; "A refusal puts the earnings straight
  back", `:31-32`). That it is the only way is `OnlyCrashesKeepEarnings`.
* A checkout that is open when the account is closed may be paid afterwards and
  start a calendar: `ClosedNeverBilled` of `AccountClosing` does not hold
  (`account.ts:121-124`).
* A chat link made before the closing and redeemed after it binds a chat to a
  closed account, an in-flight Google link likewise: `ClosedKeepsNoChannel` of
  `Accounts` (`account.ts:127-128`).
* A ticket can be bought after kickoff: `startTicketPurchase` does not ask what
  `tickets/active.ts:5-8` says (its guard is `ForSaleTo` of `Predictions`).
* The page of a settled paid ticket still offers to sell it
  (`free/[id]/page.tsx:245`), and the checkout refuses. A bet goes on ringing in
  the bell after its kickoff, although the profile the bell leads to no longer
  lists it (`notification-bell.tsx:35-39` says it clears). `OffersLead` states
  both exceptions and that there are no others.
* The site map lists open free tickets and those of suspended authors, which a
  signed-out visitor cannot read or finds in no list (`sitemap.ts` says it takes
  the filter of the free feed).
* The profile shows a subscription that has lapsed and is not yet closed as
  owned, so paying again on the day it ends has no button
  (`subscriptions/service.ts:59-61` says it works); it also keeps feeding the
  reader's timeline (`queries/feed.ts:108-113` says it stops).
* A Telegram account is told that a letter with a code went to its placeholder
  address and may ask for another one, which never arrives; the list of ways in
  says it answers "which of these opens my account" (`sign-in-methods.tsx:9-12`)
  and lists Telegram by the chat of the bot, not by the identity that signs in.
* Closing leaves an application in the administrators' queue and an approved
  author on the site; the users' page offers to restore a closed account, which
  is then active without an address or an identity, and keeps an unused code.
  `WaysLead` leaves such accounts out where it says so.
* A refused applicant may change the name on the document and then be approved
  from the list that does not show the document. Every row of that list links
  to a public page (`admin/analysts/page.tsx:229`; the comment at `:284` says
  approved authors only).
* The administrators' line on a window says that the author may withdraw now
  (`admin/payouts/page.tsx:302`: "what the author sees right now"); the author
  may see that a request is waiting, or that the balance is too small.
* Two drains at once can send one message twice
  (`cron/notifications/route.ts:34-37` says they cannot: `DoubleFiringIsHarmless`
  of `Outbox`), and a single drain can when the provider's answer is lost.
  `RepeatsAccounted` counts both and shows there is no other way. Unlinking a
  chat stops new rows only: the destination of a row is fixed when it is
  written.
* Two administrators who approve one analyst at the same moment notify twice
  (`admin.ts:99-100`). A login that checked the old password before a reset may
  open its session after the revocation (`auth.ts:672`). Two administrators can
  each create a working Telegram link.
* The ranking's accuracy gate (`ranking.ts:49-53`) and `rankingScore` are used
  by no sort; the supersession of `immutability.ts` has no code path outside its
  tests.
* A month after January 31 is March 3 (`webhook.ts:249`, a JavaScript month that
  runs over): the next charge date drifts.

### Fairness

`FairSpec` (`pay_live`): a request that was let in runs to its end (weak
fairness of each handler), and a true callback cannot be turned away for ever
(strong fairness of its delivery): the gateway repeats a callback until it is
answered with 200. A crash is not a step of the handler.

`FairAppSpec` (`sub_live`): the days pass, requests and cron passes end, and the
scheduler fires the cron (`vercel.json` has it daily) on every day on which
there is something to do (strong fairness, since a day may end first). Nothing
is asked of the callbacks. The clock is bounded, so `StaleResolved` leaves out
checkouts opened so late that the run ends before their day is over. A day does
not end while a form, a cancellation or a cron run is under way, nor before a
sweep's answer has been applied (`AppIdle`): these take seconds.

`FairSystemSpec` (`bug_crash_loses_payment`) is both: the cron as in
`FairAppSpec` and true callbacks as in `FairSpec`.

`FairSpec` of `Outbox` (`outbox_live`): a drain that has begun goes on, a
request that wrote rows drains them, and the cron comes while rows wait. No day
needs to pass and the provider owes no good answer: the queue empties because
attempts are bounded.

## 4. Proofs

Everything here holds for every value of the constants that the named `ASSUME`s
allow: any number of orders, rows, requests, administrators, drains and crashes.
The runs show the same formulas on small instances.

`PaymentWebhook_proofs`:

| Theorem | States |
|---|---|
| `Typing` | `Spec => []TypeOK` |
| `OneActive` | `Spec => []OneActivePerPlan` |
| `ShutRows` | `Spec => ShutRowsStayShut`: a row closed by its owner or folded by the system is never reopened |
| `NothingForUnpaid` | `Spec => []NothingUnpaid`: no captured status, ledger row, ticket or running row without an approval at the gateway |
| `LifecycleRefined` | `Spec => PaymentsFollowLifecycle`: the refinement to `PaymentLifecycle` |
| `RefundsOnce` | `Spec => []UnwantedReportedOnce` |
| `LedgerAddsUp` | `Spec => []EarningsMatchLedger`: every total is the sum of its ledger rows, always |
| `LedgerSettled` | `Spec /\ []OneAtATime => [](crashes = 0 => LedgerMatchesStatus)` |
| `AccessSettled` | the same of `AccessMatchesPayments`, where `OwnRows` |
| `PaidTimeSettled` | the same of `PaidTimeExact`, where `OwnRows` |

`Subscriptions_proofs`:

| Theorem | States |
|---|---|
| `AppTyping` | `AppSpec => [](TypeOK /\ AppTypeOK)` |
| `AppOneActive`, `AppShutRows`, `AppNothingForUnpaid` | what `OneActive`, `ShutRows` and `NothingForUnpaid` say, beside checkouts, cancellations, expiry, sweeps and calendars |
| `AppLedgerAddsUp` | `AppSpec => []EarningsMatchLedger` |
| `AppLedgerSettled` | `AppSpec /\ []OneAtATime => [](crashes = 0 => LedgerMatchesStatus)` |
| `ConflictsAreReal` | `AppSpec => ConflictOnlyWhileRunning` |
| `NothingStuck` | `AppSpec => [](crashes = 0 => NoStuckPending)` |
| `CancellationsStopCharges` | `AppSpec => CancelStopsCharges` |
| `RenewalsHonoured` | `AppSpec => [](crashes = 0 => RenewalHonoured)` |
| `ClosingsStopCharges` | `ClosingSpec => ClosingStopsCharges` |
| `ExpiriesAreRenewals` | `AppSpec => ExpiryTakesOnlyRenewed`: a month that is not over ends only where it was prolonged after its end had been read |
| `ClosingExpiries` | the same for `ClosingSpec` |
| `ClosingCancellations`, `ClosingRenewals` | the promises of `CancellationsStopCharges`, `RenewalsHonoured` and `NothingStuck`, while accounts close and die closing |

`Payouts_proofs`:

| Theorem | States |
|---|---|
| `PayoutsTyping` | `Spec => []PayoutsTypeOK` |
| `AccountImplemented` | `Spec => WithdrawalsKeepAccount`: a withdrawal takes only money that is there, and is paid out or given back, never both and never twice |
| `OnlyCrashesKeep` | `Spec => []OnlyCrashesKeepEarnings` |
| `EveryTetriAccounted` | `Spec => []EarningsAccountedFor`: what was earned is what is there plus what is held or paid out |
| `PagesTellTheSame` | `Spec => []PayoutPagesAgree` |

`SumTheorems` holds no property of the program. `SumAdd` (one element more adds
its summand), `SumSame`, `SumChange` and `SumParts` (a sum is the sum over the
parts of its set) are what the totals rest on; `Climb` and `Grow` are induction
over the numbers to a bound and over the subsets of a finite set, for a *set* of
cases instead of a predicate.

`Outbox_proofs`:

| Theorem | States |
|---|---|
| `OutboxTyping` | `Spec => []OutboxTypeOK`, with the bound on the attempts of a row |
| `SentOnce` | `Spec => []RepeatsAccounted` |
| `DaysHaveRoom` | `Spec => []AllowanceKept` |

`Predictions_proofs`:

| Theorem | States |
|---|---|
| `PredictionsTyping` | `Spec => []PredictionsTypeOK` |
| `RecordsCountTheSame` | `Spec => []RecordsAgree` |
| `SettlementIsFinal` | `Spec => OutcomeFinal` |
| `AccessIsSold` | `Spec => AccessChangesBySale` |
| `NoticesGoOnce` | `Spec => []AnnouncedOnce` |
| `PagesAgreeAlways` | `Spec => []PagesAgree` |
| `OffersLeadAlways` | `Spec => []OffersLead` |

`Statistics_proofs`, where a history is any sequence of records (`IsHistory`):

| Theorem | States |
|---|---|
| `StreaksAreLongest` | of every history, `StreaksAgree`: what one pass over it finds is the longest stretch of either side |
| `PartsAlwaysAddUp` | of every history, `PartsAddUp`: the chart, the months and the ranges of odds add up to the summary |
| `RecordsTellTheSame` | `RecordCorrect`, as an instance |

`Accounts_proofs`:

| Theorem | States |
|---|---|
| `AccountsTyping` | `Spec => []AccountsTypeOK` |
| `SessionsEnd` | `Spec => []SessionsDie` |
| `LinksWorkOnce` | `Spec => []LinksDieUnlessRead` |
| `ColumnsHaveOneHolder` | `Spec => []OneHolder` |
| `ApprovalsHeardOnce` | `Spec => []ApprovedOnce` |
| `WaysLeadAlways` | `Spec => []WaysLead` |

### Assumptions

They are the named `ASSUME`s of the modules, and TLC evaluates them in every run.
An order pays for a subscription or a ticket and not both; a renewal belongs to
its parent's subscription; nobody but the gateway signs a post about an order of
ours, and what it signs besides its true callbacks carries another amount, or is a
success without one (`NoiseAssumption`); a checkout has a row of its own
(`CheckoutAssumption`, as `startSubscriptionCheckout` creates one with every
order); forms have owners and amounts are positive (`PayoutsAssumption`); a
bet's first kickoff is not after its last (`PredictionsAssumption`); the accounts
that exist at the start respect the unique columns, and an unused row holds
nothing (`AccountsAssumption`); an event has one kind and one audience, and
events and cron runs have different names (`OutboxAssumption`); and the marker
for "no row" is none of the rows (`ClosingAssumption` and the first conjuncts of
the others).

### The arguments

*Webhook.* `TypeOK` is not inductive: a handler may write the status of a
delivery into the payment table, and that this is a status of the vocabulary
follows from what the handler has checked. The inductive invariant is `TypeOK /\
Control`. `Control` says what a request in flight has in hand: at a step that
gives something away the gateway has approved its order; at `transition` the
edge from the status it *read* is an allowed one; at a subscription step the
order has a subscription, at a renewal step a parent (`Holds`). This holds
because signed deliveries are true (`SignedIsTrue`) and foreign orders are
unknown (`ForeignUnknown`). It says nothing about the payment row itself, which
other requests move freely: the guarded update repeats the status that was read,
so an allowed edge is taken or none (`LifecycleRefined`), and the unique index
refuses the second running row (`OneActive`). `NothingUnpaid` then rests on
`Holds`: every write of access or money happens at one of `PaidSteps`. For
`RefundsOnce`, `OneRefund` adds that only the request that recorded a renewal's
payment carries the verdict "unwanted", and that once it has reported nobody
else does.

*Books, access and paid time.* These three speak of the moments at which every
request has been answered, and are not true of all behaviours: a request that
dies keeps what it still owed, and where two requests about one matter overlap,
a stale decline or a repeated approval goes on after a guarded update that
matched nothing (section 3). So the theorems have two hypotheses on the
behaviour, and no bound on anything: no request has died (`crashes = 0`), and no
two requests under way are about the same order, the same plan of a user, or the
same ticket (`OneAtATime`). Requests about different matters overlap freely.
`pay_settled` is an instance of this. Between two port calls the tables
disagree, so the invariants say what the request in the middle still owes:
`BooksKept` that an order's ledger rows match its status unless some request is
in the middle of crediting or reversing it, with what that request relies on
(`InStep`), and `ReadsFresh` that a guarded update of a payment matches;
`AccessHolds` that a row is fresh until its payment has been captured and handed
over, and that what runs stands on a payment, or on one whose row is about to be
closed; `TicketsHold` the same of tickets, and that a purchase is revoked only
where a payment of that ticket was returned; `PeriodsHold` that the running row
of a plan ends after exactly one period for each payment that has been
*delivered*, that is captured and no longer in the hand of a request. Each port
call keeps, moves, opens, folds or shuts (`AccessCases`), and each of the five
is one step of the proof. The last two theorems also need `OwnRows`: no two
orders share a row. It leaves out the renewals of a calendar, whose promise is
`RenewalsHonoured`; the books are proved with them.

*Totals.* `EarningsMatchLedger` and `EarningsAccountedFor` compare a column that
is moved by increments with a sum over rows. A fold is a recursive function
chosen by its equation, so `SumTheorems` shows first that such a function exists
and does not depend on the order in which it takes the elements. The induction
over sets in it is by a smallest counterexample: the subsets of a finite set are
well founded, and a family of them that is not empty has a smallest member, which
the equation refutes. From there, `SumAdd` is the whole argument of a step. In
the webhook, `AllBooked` says that an analyst's total is the sum of the
movements whose rows are in the ledger; one transaction adds one row and its
amount (`MovementBooks`), the unique key refuses the second row, and no other
step touches either (`StepBooked`). That a request relies on rows that another
may write does not matter, so there is no hypothesis about overlaps or crashes.
In the payouts, `BooksBalanced` is the same with a row that appears when it is
held and disappears when it is given back; it needs `DeskHasRow`, that an
administrator who is about to return money has a row that holds some.

*The composite.* A step of `AppSpec` is one of the webhook or one of the
application's own, which never makes a row `ACTIVE` and never captures a
payment. `Sound` adds to the webhook's invariant where a form is when the
gateway knows its order (`Forms`) and that what the route acts on is about a
charge of a calendar (`ReportsOfCalendars`). On it stand `RunningCounted` (a
checkout that is told "already subscribed" has closed the lapsed rows it read),
`ClosingInHand` (a closed payment whose row still waits is in the hand of a
request), `Stopping` and `DeclinesClaimed` (a row marked as cancelled has only
stopped calendars, or one that a decline has struck), and `RenewalsInHand` (a
recorded renewal has bought its period, is up for refund, or is in the hand of
the request that will do either; the gateway charges no earlier than the day it
is due). `ClosedSafely` says of a closing that what it has worked through is
safe, so an account marked as closed leaves no running calendar of those it
found. `BooksKept` holds here too (`BooksBeside`): a refused checkout may take
the payment from under a decline or a sweep's answer, so `ReadsFresh` does not,
but never from under an approval, since what the gateway knows of is out of the
checkout's hands (`KnownKept`).

*The expiry.* The cron and a checkout read which rows are lapsed and close them
one by one, each by its status alone; in between a callback may move a row's end.
`ReadLapses` says of each row on a closer's list that the end that was read is
over, and that the row has it still and is lapsed, or has been given days since.
It is inductive because an end, once set, is only replaced by a later day
(`EndWrites`: the opening of a row, a fold and a renewal all write a day that is
still to come), and because the days of grace can only be lost: the calendar that
gives them is struck from a row that keeps its end, never set. No
hypothesis about crashes or overlapping requests is needed: whether the payment
behind the prolonging was captured is another question (`RenewalHonoured`).

*Withdrawals.* `PayoutsTypeOK` is strengthened by `Claims`: a form that is not
done has no row, so `HoldEarnings` always starts a new withdrawal; and only a
row with status `REJECTED` has been given back, so the claim of
`markPayoutPaid`, guarded by `REQUESTED`, never meets returned money. Each
program step is then one abstract step (`HoldEarnings` a `Hold`,
`ReturnEarnings` a `GiveBack`, `MarkPayoutPaid` a `PayOut`, payments `Earn` and
`TakeBack`) or leaves the account alone. A refusal that is claimed is still
*held* in the account until its money is back, which is why a crash does not
break the refinement: it is a `GiveBack` that never comes. `FewOrphans` counts
these: the refused rows that are not returned and that no administrator has in
hand are never more than the requests that died.

*Outbox.* `Counted` adds to what was delivered of a row what is still to come of
it if nothing goes wrong: one if it waits in the table, and one for each drain
that has it and no word that the provider took it (`Unsent`). A second selection
raises this sum and `doubled` alike, a lost answer or a crash raises it and
`lost`, and everything else leaves it or lowers it; in particular what one drain
writes over another's answer does not count while somebody still holds the row.
`Single` says that a drain has a row once, and `Fresh` that nothing holds a row
whose event has not been written. `Room` counts the broadcasts of a day together
with the one composer that has been allowed and not yet written, over those that
were alone when they counted.

*Predictions and pages.* `RowsHold` and `ReadHolds` say what a request has read
and what of it cannot be undone: a kickoff is fixed when a row is created, a
published row stays published, a settled one settled. `OnePost` keeps two posts
from one row, `NoticesOf` counts the notices sent and those still in hand.
`MarketHolds` is what the pages need on top: what is bought was for sale. Given
it, `PagesAgree` and `OffersLead` follow in each single state, by a case on the
bet's visibility, its times and the viewer.

*Statistics.* `ComputeStreaks` and `CumulativeUnits` are loops, that is functions
of a counter defined by an equation; `Climb` shows that they exist (`LoopExists`).
The invariant of the first is `RunHolds`: after n records the loop has the length
of the stretch that ends there (`Latest`) and, for either side, the largest count
in any stretch up to there (`Longest`); a void or a push changes neither, which
is what the code relies on when it filters them out. The months and the ranges
of odds split the settled predictions (every odds are in one range, `OneRange`),
so a table adds up to the sum it was split from (`TableAddsUp`); they split what
is *settled* while the summary counts what is *decided*, and agree because an
undecided record has no profit, which `IsRecord` assumes as settling writes it.

*Accounts.* `IInv` types the rows and says what each request still holds of them
(`AccountsSound`, `RequestsSound`, with the links, sessions and eras); of a reset
under way, that its link was new when it was read.
`UniqueHolders` is kept because every write of a unique column is conditional on
it (`KeepsColumns`); `Doors` says that an account in use can be told by an
address or a person at Telegram; `Heard` counts the notices sent and those about
to be.

### Only model-checked

* Liveness: `ApprovedIsSettled`, `StaleResolved`, `QueueSettles` (out of the
  prover's reach, as is everything with `ENABLED`).
* The arithmetic of `Calendar` (`ArithmeticAgrees`): a table of dates, account
  numbers and clocks, each with an equation of its own. That it holds for all of
  them would be an induction over the days of a calendar or the digits of a
  number for each, about functions that say nothing to one another.

## 5. Abstractions, and what they leave out

* Amounts are `match`, `wrong` or `absent`; shares are numbers.
* Check and row creation of a checkout are one step: the new row is `PENDING`,
  which no other check looks at.
* The passes of the cron run in any order and interleave with everything. The
  code runs them one after the other; the model allows more.
* What the route does after an outcome (`ActOnReport`) may be delayed or never
  happen, which covers a crash after the answer.
* A calendar charges once per run (`ChargeOf`); later charges repeat the step.
* `CancelStopsCharges` leaves out rows whose calendar a decline has already
  struck (`Declined`, an event of the gateway that the webhook has claimed): the
  cancellation then has no calendar to stop, and the route's stop or the calendar
  sweep has to.
* `AccessMatchesPayments` and `PaidTimeExact` leave out plans with a returned
  payment: the code ends the whole row. `AccessMatchesPayments` also leaves out
  whether a purchase is revoked when some payment of the ticket was returned,
  and neither speaks of requests about one matter that overlap.
* `DieBeforeGateway` is a process that dies between a checkout's rows and the
  gateway. The status call of an order nobody knows is answered without a
  status, which the adapter reads as `PROCESSING`; that the call itself fails is
  not modelled.
* One person owns all subscriptions of `AccountClosing`, and does not cancel in
  another tab while the closing runs.
* Outbox: expiring old rows and selecting a batch are one step; each transaction
  is one; of the kinds of message the runs use broadcasts, bets and results.
  Texts and destinations are left out.
* Predictions: outcomes are won and lost in the run (a void and a push settle as
  they do, with another profit); the author's form arrives as a prediction whose
  kickoff is fixed; slips are who may see them.
* Pages: one author, whose tickets are all his own (no community ticket); no
  sorting, paging or search (the workspace shows the latest 60 tickets, a queue
  its first few); no cache, where the code keeps an author's record for up to a
  minute; a reader's row to the one plan is at most one.
* Accounts: two sessions of one account and era are one; expired links and
  exceeded limits are requests that are refused, and take no step; forgetting a
  password and unlinking a chat read and write in one step; an account made by
  Telegram receives no mail; a sign-up link is sealed and leaves no row.
* Account pages: pages are compared by their address; query strings, messages and
  the texts of letters are left out, and a Google mailbox carries the address of
  its identity.
* Payout pages: what is read off them in one state; a page that is left open is
  a form of `Payouts`, which is checked again. The ceiling of 100000 GEL on one
  request is above all amounts. Reasons for an override are their lengths.
* Calendar: instants are whole hours; the limiter's counters are taken one at a
  time, without the switch between them or a reset.
* A withdrawal is refused for its window, its amount, an open request, or for
  anything at all (`CheckWithdrawal`), which stands for the account number.
* Two requests of one analyst can stand open beside each other: both tabs read
  before either writes. The model allows it, as the code does.

### Not modelled

Free plans and the consent and legal checks of the forms (they refuse before
anything is written); mails and their texts; hashing, OAuth and signatures; the
sealing of a payout account; storing files,
decoding images and detecting logos; single updates that touch nothing else
(reports, prices of single tickets, notification switches); the order of the
ranking; the pages of payments and reports; layout; configuration,
labels, legal texts; seeding and scripts.

Nearly half of the implementation is pages and components, and much of the rest
is validation, texts and generated documents. Those that decide what somebody may
see or do are in `Pages`, `AccountPages` and `PayoutPages`. The others print rows
and hold no condition a property could speak of.

## 6. Plan

1. `PaymentStore`, `PaymentWebhook`, `PaymentLifecycle`, their properties and
   proofs – done.
2. `Subscriptions`, with a process that dies before the gateway, and
   `AccountClosing` – done.
3. `Payouts` with the abstract `EarningsAccount`, and the proof that it
   implements it – done.
4. `Outbox`: rows, drains, retries, expiry, allowance, and its liveness – done.
5. `Predictions`, `Pages`, `Accounts`, `AccountPages`, `PayoutPages` – done.
6. `Statistics`, `Calendar` – done.
7. Proofs: every safety property of the runs but those named under "Only
   model-checked" – done, in eight modules.
8. Left: in `PaymentWebhook_proofs`, paid time with the renewals of a calendar
   (without `OwnRows`), which needs the due dates of `Subscriptions`; and for the
   composite a form of `AccessMatchesPayments` and `PaidTimeExact` that knows of
   expiry and cancellation, which end a row while its payment stands.
