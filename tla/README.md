# VolunteerReady, specified

TLA+ models of the server of VolunteerReady (`src/src/server`), the configurations
that model-check them on small instances, and TLAPS proofs of what matters most for
every instance. Services and domain modules are named relative to `src/src/server`.

1. [The system](#1-the-system)
2. [How the models read the code](#2-how-the-models-read-the-code)
3. [Shift booking: ShiftSignups, SeatLedger](#3-shift-booking-shiftsignups-seatledger)
4. [Background checks: BackgroundChecks, FcraLifecycle](#4-background-checks-backgroundchecks-fcralifecycle)
5. [Credential sharing: ShareTokens, SingleUseLinks](#5-credential-sharing-sharetokens-singleuselinks)
6. [Roster and applications: OrgRoster](#6-roster-and-applications-orgroster)
7. [Billing: Billing, PlanMirror](#7-billing-billing-planmirror)
8. [Notices and the digest: ExpiryNotices](#8-notices-and-the-digest-expirynotices)
9. [Runs](#9-runs)
10. [Proofs](#10-proofs)
11. [Disagreements between the code and its documentation](#11-disagreements-between-the-code-and-its-documentation)
12. [Not modelled, and the plan](#12-not-modelled-and-the-plan)

## 1. The system

A Next.js application on Vercel: tRPC procedures, webhook routes and hourly or
daily cron routes, each a short-lived serverless invocation. All state is in one
Postgres database, reached through Prisma. Invocations share nothing else, run at
the same time, and may be cut short anywhere. Nothing raises the isolation level,
so every transaction runs at READ COMMITTED.

| Component (source) | State | Operations | What makes it correct | Status |
|---|---|---|---|---|
| Shift booking (`services/shiftSignupService.ts`, `domain/shift.ts`) | `ShiftSignup` rows, `Shift.status` | sign up, assign, cancel with promotion, join and leave the waitlist, mark attendance, check in | seats, status and waitlist agree; promotion in order; attendance from a held seat; no deadlock | ShiftSignups |
| Shift administration (`services/shiftService.ts`) | `Shift` | create, edit, cancel, complete, remove | a finished shift stays finished; times are valid | ShiftSignups, partly |
| Auto-close job (`services/shift-auto-close-service.ts`) | none | scan, complete one by one | a shift that is over is closed in the end | ShiftSignups |
| Roster (`services/staffVolunteerService.ts`, `services/appliedRosterService.ts`, `repositories/orgVolunteerRepo.ts`) | `OrgVolunteer`, `OrgVolunteerBlock` | add, import, remove, restore, leave, lift the block | a volunteer who left is not scheduled or re-added; one live row | OrgRoster, partly |
| Background checks (`services/backgroundCheckService.ts`, `domain/background-check.ts`) | `BackgroundCheckRequest` | initiate, cancel, result, notice, finalize, resolve, approve | no adverse decision before the waiting period; one decision; results are not lost | BackgroundChecks, partly |
| Webhook routes of the providers (`app/api/{checkr,sterling}/webhook`) | `CheckrWebhookEvent` | deliver | every event is taken once and answered | BackgroundChecks |
| Credentials (`services/volunteerCredentialService.ts`) | `VolunteerCredential` | issue, revoke, remove, expire | a status reflects the last decision | BackgroundChecks and ShareTokens, partly |
| Credential sharing (`services/credentialShareService.ts`) | `CredentialShareToken` | create, claim, revoke, share on apply | a token is claimed once; a revoked one never | ShareTokens, SingleUseLinks |
| Credential expiry jobs (`services/credential-expiry-service.ts`, `services/credential-expiry-notice-service.ts`, `services/share-token-expiry-service.ts`) | status, `notifiedAt` | nightly scans, notices | nothing lapses unannounced; one notice per expiry | ShareTokens and ExpiryNotices, partly |
| Applications (`services/volunteerApplicationService.ts`, `services/my-applications.ts`, `services/screener-queries.ts`) | `VolunteerApplication` | apply, claim, decline, withdraw, move in the pipeline | an approved and bound application leads to the roster, a declined one is never bound | OrgRoster, partly |
| Billing (`services/billingService.ts`, `repositories/webhookRepo.ts`) | plan and Stripe customer of `Organization`, `StripeWebhookEvent`; Stripe | checkout, webhook, reconciliation | the plan follows Stripe, whatever the order of events; nobody pays twice | Billing and PlanMirror, partly |
| Notifications and email jobs (`services/notificationService.ts`, `services/digest-service.ts`, `services/shift-reminder-service.ts`, ...) | `Notification.emailSentAt`, cursors | notify, send, stamp | what counts as mailed was mailed, and once | ExpiryNotices, partly |
| Members, invitations, companies (`services/memberService.ts`, `services/companyService.ts`) | `Membership`, `Invite` | invite, accept, change role, remove | an invitation is used once; an owner remains | plan |
| Impersonation (`services/impersonationService.ts`) | `ImpersonationSession` | start, end, expire | one live session per admin, never of an admin | plan |
| Rate limiting, feature flags, profiles, matching, templates, analytics, web client | single rows, or none | | no protocol of several steps | no |

How they interact. Handlers call services directly; services meet in the database.
Cancelling a signup promotes another volunteer's row; signing up lifts the block
the roster put up; leaving an organization puts one up; the auto-close job and the
coordinator's edits write the `Shift` rows that bookings read; a background check
issues a credential, and credentials are what sharing copies between organizations; an
expiring one becomes notifications, which the digest mails if nothing else has. An
approved application puts its volunteer on the roster that shifts are assigned from.
Outside the system are the providers of checks (Checkr, Sterling), Stripe, Resend
and the scheduler of Vercel: they call in at any time, more than once, in any order.

What is hard here is always the same thing. A handler reads, validates and only
then opens its transaction, and the transaction rarely looks again. What the
transaction does guarantee rests on row locks, unique indexes, `updateMany` with a
condition, and (billing, invitations) advisory locks. Every hazard in `PROJECT.json` is a place
where that matters, with the line at which it bites.

## 2. How the models read the code

* A **request in flight** is a record `req[r]`: phase `"read"` holds the view its
  reads produced, phase `"tx"` (or `"sent"`, once an email or a provider has been
  called) is a point in the middle of it. `Requests` is the number of requests at
  once, not a bound on how many there ever are.
* **Read, then write.** The reads of a handler up to its transaction are one step;
  so is a transaction, except where the model splits it because something another
  request does in the middle matters. Reads that a handler makes one after the other
  could themselves be interleaved; every view the model allows is one the code can
  have, but not the other way round.
* **Refusal.** A handler that refuses changes nothing, so it is no action: a guard
  of the read step stands for the exceptions the code throws there. A write that the
  database refuses (a unique index, a row that is gone) is `Rollback`, which may
  also happen for no reason: a crash, a timeout, a lost connection.
* **Locks.** A row written in an open transaction stays locked until it ends;
  `RowFree` guards every write. An insert locks the entry of its unique key.
* **Data** is reduced to what guards compare. Names, notes, emails, audit log and
  notifications are left out, and a definition marked *a mutant* is not part of any
  specification: it is the plausible mistake that shows a property can fail.

## 3. Shift booking: ShiftSignups, SeatLedger

One organization, its shifts and its volunteers.

| Variable | In the code |
|---|---|
| `status`, `capacity`, `slot` | `Shift.status`, `.capacity`, `.startTime`/`.endTime`; `"ABSENT"`/`"DELETED"` before and after the row |
| `signup` | `ShiftSignup.status`, `"NONE"` without a row |
| `createdAt` | `ShiftSignup.createdAt`, kept for rows created by joining the waitlist, the only ones `getNextWaitlistEntry` compares |
| `visibleAt` | history: when such a row was committed |
| `rostered`, `blocked` | the user has a live `OrgVolunteer`, an `OrgVolunteerBlock` |
| `now`, `cron` | the clock; the batch of the running auto-close job |

| Action | In the code |
|---|---|
| `SignUpRead`, `SignUpCommit` | `signUpForShift`, which also lifts the block of the organization |
| `AssignRead`, `AssignCommit` | `assignVolunteerToShift` with `allowOverCapacity` |
| `CancelRead`, `CancelBegin`, `CancelCommit` | `cancelSignup`: read; update of the own row and selection of the waitlist; promotion or reopening |
| `JoinWaitlistRead/Begin/Commit`, `LeaveWaitlistRead/Commit` | `joinWaitlist` (its insert stamps `createdAt` before anyone can see the row), `leaveWaitlist` |
| `StaffMark`, `CheckinRead`, `CheckinLock`, `MarkCommit` | `markAttendance` from staff, and from `checkinByQr`/`selfCheckin`, which look at the shift first |
| `AddVolunteerRead/Commit`, `RemoveVolunteer`, `LeaveOrg` | the roster as bookings see it |
| `CreateShift`, `UpdateShift`, `CancelShift`, `CompleteShift`, `RemoveShift` | `shiftService.ts` |
| `Tick`, `CronScan`, `CronClose`, `CronSkip` | `autoCloseExpiredShifts`; a visit may fail and the job may be cut short |

Three transactions are split: `cancelSignup` holds its own row while it selects
whom to promote and waits for that row; `markAttendance` holds `SELECT ... FOR
UPDATE`; `joinWaitlist` has a timestamp older than its visibility.

What is claimed, and why it could be wrong:

* `PromotionIsFifo`: a cancellation never promotes somebody past a volunteer who was on
  the list before the promoted one joined. The list is read without a lock; in
  between the chosen volunteer may leave, sign up, be promoted by somebody else, or
  a join stamped earlier may become visible. The property compares the stamp of the one
  promoted with the *visibility* of those passed over, because overlapping joins have
  no order.
* `AttendanceNeedsConfirmedSeat`: a row that becomes ATTENDED was CONFIRMED in the very
  state before, whatever cancellation or promotion ran between check and write.
* `NoLockCycle`: a cancellation that holds one signup row and waits for another never
  closes a circle, so Postgres never has to kill one. It depends on a promoted row
  never being the own row of a cancellation that promotes in turn (`LockInv`).
* `SeatsAgree`, `NobodyWaitsBesideFreeSeat`, `CancelledSeatIsPassedOn`: the denormalized
  status, the number of confirmed rows and the waitlist agree. True only while requests
  about one shift do not overlap; section 11 says how concurrent requests break each, and
  section 10 by how many seats at most.
* `LedgerRefinement`: seats are handed out as by `SeatLedger`, whose seven operations are one
  step each: take a free seat, join the end of the queue when there is none, leave it, give
  a seat up when nobody waits, pass it on to one who has waited longest. `holders` is the set
  of CONFIRMED rows, `queue` the WAITLISTED rows with their `createdAt`, `offered` the shifts
  whose row exists. Reads, staff actions on the status and the job are stutters.
* `NoDoubleBooking`: no volunteer is confirmed on two overlapping active shifts; true
  without the waitlist and without edits of times, and refuted with the waitlist.
* `EndedShiftsClose`: a shift that is active past its end does not stay so, although
  a sign-up or a cancellation in flight may reopen it after it was closed, unless *other*
  shifts are reopened for ever: the job takes the 200 that ended first, and shifts that
  come back each time can fill every batch. Without that excuse TLC refutes it.

Abstractions specific to this module: `createShift` gives each id once; whether a
check-in token is valid is left out (it only refuses); `leaveOrgRoster`'s tie through
an application is left to OrgRoster; the locks a transaction takes on `Shift` rows are
not modelled, so a deadlock of `removeShift` (shift, then its signups) with a booking
(signup, then its shift) is outside `NoLockCycle`.

## 4. Background checks: BackgroundChecks, FcraLifecycle

One organization with one provider, the constant `Provider`: the two webhook routes
differ in what they answer when a unique index refuses a delivery (Checkr's route
answers 200 "duplicate", Sterling's 500).

A check is named by the provider's report, which exists (`subject`) from the call
to the provider on, while its row (`status`) appears with the commit, if it does.
`fcra`, `noticeAt` and `cites` are `fcraStatus`, `preAdverseNoticeSentAt` and whether
`credentialId` is set; a credential is a volunteer's one `BACKGROUND_CHECK` row, so
which credential is cited needs no name. `event`, `processed` and `answered` are what
the provider sent, the `CheckrWebhookEvent` rows, and what the provider knows to be
answered; an answer can get lost after the commit. Three variables are history: `askedAt`,
when the mail service was first asked to send a pre-adverse letter; `letterAt`, when one
first went out; `adverse`, the checks of which an adverse letter did. They differ because
`sendFcraEmails.ts:34` and its sibling await Resend and look at nothing it returns: a
rejected send resolves with an `error` and does not throw (`lib/email.ts:92`), so the
handler goes on as if the letter were out. `PreAdverseLetter` and `FinalizeSend` therefore
have both outcomes, and `Rollback` is only the send that throws.

| Action | In the code |
|---|---|
| `InitiateRead/Call/Commit` | `initiateProviderCheck`: guards, the provider's API, the row |
| `CancelRead/Commit` | `cancelBackgroundCheck` |
| `ProviderSends` | the provider creates an event, for any report it has opened |
| `WebhookReceive`, `WebhookRecord`, `WebhookApply`, `WebhookDuplicate`, `WebhookRefused` | `handleProviderWebhookEvent` and its route: an unknown report is answered 500 and changes nothing; terminal checks only record the event; both unique indexes |
| `NoticeRead/Send/Commit`, `FinalizeRead/Send/Commit` | `sendPreAdverseNotice`, `finalizeAdverseAction`: the letter goes out, or is refused unnoticed, before the compare-and-swap |
| `ResolveRead/Commit`, `ApproveRead/Commit` | `resolveFcra`, `issueCredentialAndResolveFcra` |
| `IssueCredential`, `RevokeCredential`, `RemoveCredential` | `volunteerCredentialService.ts` |

`FcraLifecycle` is the abstract promise: for each check one notice, after the mail service
was asked for a letter, then one decision, and neither an adverse one nor an adverse letter
before `WaitingPeriod` days after that. Its refinement mapping is `phase <- fcra`; the rest
has the same names. It promises no letter, because the code does not: `NoticeMeansLetter`,
which says what `sendFcraEmails.ts:25` asks for, is refuted (section 11).

* `AdverseLetterWaits`: no adverse letter goes out before the period has passed since the
  first attempt to write, and since the letter itself if that attempt got one out. Three
  requests are involved: the one that wrote first, the one whose stamp won the
  compare-and-swap, and the one that read the stamp and finalizes later.
* `FcraRefinement`: `FcraLifecycle!Spec`. The swap on `fcraStatus` is what keeps two
  decisions from both counting, whatever became of `status`.
* `ResultReachesCheck`: when the provider was told 200 for a result, the check is no
  longer PENDING: an event is committed as processed with what it did, a check never goes
  back to PENDING, and a conflict is answered so that the event comes again. (With
  Sterling's route; section 11 says how Checkr's loses one.)
* `EventsAnswered`: an event about a check with a row is answered 200 in the end, unless it is
  a clear result for a volunteer whose credential another check cites (`Uncitable`): that
  violates the unique `credentialId`, and Sterling's route answers it 500 until somebody
  removes the credential. `EveryEventAnswered`, without the excuse, is refuted (section 11).
* `OneActiveCheck`, `TerminalFinal`: true with one request at a time, and more widely as
  long as no check is closed on two grounds at once and no volunteer is checked twice at
  once (section 10).

Abstractions: connecting a provider account, the identity and relationship guards of
initiation, and the emails' contents are left out; a stamp is any time between its
letter and its commit; rows are not deleted; expiry of a credential is one of the
values `IssueCredential` may write. Two racing notices may send two letters: sending
first is the order the code documents.

## 5. Credential sharing: ShareTokens, SingleUseLinks

One volunteer and one credential type, so that a credential is named by its row and the
unique index (user, organization, type) says that an organization has at most one
(`Held`). Several organizations verify it; links and applications copy it.

| Variable | In the code |
|---|---|
| `status`, `org`, `expires`, `source` | `VolunteerCredential.status`, `.orgId`, `.expiresAt` (`Forever` for null), `.sharedFromCredentialId` |
| `token`, `of`, `lapses`, `claimedBy` | `CredentialShareToken.status`, `.credentialId`, `.expiresAt`, `.claimedByOrgId` |
| `overdue`, `stale` | the credentials and links the running nightly job has found and not yet visited |
| `copies`, `revoked` | history: who got a copy through a link; links whose revocation was answered "revoked" |

| Action | In the code |
|---|---|
| `IssueNew`, `IssueAgain`, `RemoveCredential` | the two branches of `upsertCredential` (`issueCredential`, `revokeCredential`, a clear background check) and `removeCredential`, whose cascade takes the links |
| `GenerateRead/Commit`, `RevokeRead/Commit` | `generateShareToken`, `revokeShareToken` |
| `ClaimRead/Commit` | `claimShareToken`: all guards, then `markTokenClaimedTx` and the copy |
| `ShareAllRead/Commit/Refused` | `shareAllOnApply`, and `screener.ts`, which swallows its failure |
| `CredentialScan/Visit`, `TokenScan/Visit`, `Skip` | `expireStaleCredentialsAndTokens`: batches in no order, writes by id, a failed visit or a row that is gone skipped |

`SingleUseLinks` is the abstract promise: a link is made, used once by one organization or
closed, and a closed one never opens again; a withdrawal may come at any time, and takes
nothing back. `open` is mapped to the links that are ACTIVE, `listed` to `claimedBy`,
`given` to `copies`.

What is claimed, and why it could be wrong: claims, revocations, bringing everything
along and the job write the same rows from stale reads, and only the claim has a
condition in its UPDATE.

* `ShareListExact`: a link hands out one copy at most and its row names the organization
  that has it, although a revocation or the job may overwrite a CLAIMED link's status. That
  is why a volunteer's list, which shows `claimedByOrg`, can be believed.
* `NoCopyAfterRevoke`: after the answer "revoked" nobody gets a copy through the link, not
  even a claim that was validated before: the transaction that writes later loses.
* `LinkRefinement`: `SingleUseLinks!Spec`. The status is overwritten by id by whoever
  has read the link long ago; none of these writes opens a link, and only an open one is used.

Abstractions: which of the reads of a claim (link, then credential of the claiming
organization) is older is not distinguished, both guards being decided again by the
commit; the two halves of the job may overlap, as those of two invocations can; a collision
of token hashes, previews, emails, notices and `requestCredentialSharing` are left out;
organizations and users are not deleted (which would null `claimedByOrgId`).

## 6. Roster and applications: OrgRoster

One volunteer and one organization. What a volunteer has said (leaving puts up a block;
signing up, applying or claiming lifts it) meets what staff do (add, import, remove, undo
a removal, approve, assign), and everything is checked before it commits.

| Variable | In the code |
|---|---|
| `row` | `OrgVolunteer` of the volunteer at the organization: not there yet, live, or removed (`deletedAt`) |
| `block` | whether the `OrgVolunteerBlock` row is there |
| `app` | `VolunteerApplication`: `status`, `submittedByUserId` set (`bound`), declined |
| `lock` | the request whose open transaction has updated the application |
| `signup` | `ShiftSignup` of the volunteer, and whether staff made it |
| `req[r].row`, `.inserts` | the roster row a claim or an approval has found or is inserting, before it commits |
| `late`, `inert` | history: requests whose checks a departure has overtaken; rows that went live by one of them, or during a departure |

| Action | In the code |
|---|---|
| `AddRead/Commit` | `addVolunteer`; also a row of `importRoster` |
| `RemoveVolunteer`, `RestoreRead/Commit` | `removeVolunteer`, `restoreVolunteer` (the undo): the partial unique index refuses a second live row |
| `LeaveRead/Commit` | `leaveOrgRoster`: removes the row it has read, puts up the block |
| `SubmitOwn`, `SubmitAnonymous` | `submitVolunteerApplication` by the volunteer (lifts the block), and by the public form or an import under the volunteer's address |
| `ClaimUpdate/Check/Commit`, `Decline` | `claimApplication`: the conditional update, the look for a block, the commit; `declineApplication` |
| `StatusRead/Update/Commit` | `updateOrgApplicationStatus` |
| `EnsureRosterRow` | `ensureAppliedRosterRow` in either transaction: `INSERT ... ON CONFLICT DO NOTHING`, which passes over a live row without locking it, or inserts one that goes live with the commit; meanwhile every other insert and undo waits for it (`NobodyInserts`) |
| `WithdrawRead/Commit` | `withdrawVolunteerApplication`, which updates by id |
| `SignUp`, `AssignRead/Commit` | `signUpForShift` and `assignVolunteerToShift`, as far as block and roster see them |
| `Rollback` | a conflict, a failure, the end of the invocation |

* `RefusedIsOffRoster`: while there is a block the volunteer is not on the roster, unless
  by a row that a request overtaken by the departure made. Five ways lead onto the roster
  (an addition, an import, an undo, an approval, a claim); each has its own check, none of
  them in the statement that writes.
* `RefusedIsNotScheduled`: staff schedule nobody who refuses, not even through such a row,
  except by an assignment whose checks the departure overtook.
* `ApprovedIsRostered`: approval and claim each add the volunteer if they see the other
  half done. When they race it must not happen that each sees the other half missing. The
  row lock of the application prevents it: the second update waits for the first. What it
  does not prevent is that the roster row found by the insert is removed before the commit:
  the one excuse that is not a refusal, and only for a row that was passed over (section 11).
* `DeclinedIsNotBound`: claim and decline in two tabs. Both updates are conditional.

The exceptions in the first two (`late`, `inert`) are what the code permits (section 11),
and no more: an addition that started after the departure has no excuse.

Abstractions: SUBMITTED stands for REVIEW and REJECTED for WITHDRAWN, which nothing here
tells apart; answers and screening, volunteers without an account, display names, emails,
audit rows and the relationship guard of other services are left out; `SignUp` and `Submit`
are one step, since what they lift they lift for themselves.

## 7. Billing: Billing, PlanMirror

One organization, the customers Stripe has for it, and Stripe's sessions, subscriptions and
events. Checkout and webhook handling both take an advisory lock of the customer at
the start of a transaction, and call Stripe inside it. The transaction may time out
(30 s): the lock is then free while the handler still lists, expires and creates at Stripe.

| Variable | In the code |
|---|---|
| `customerId`, `plan` | `Organization.stripeCustomerId`; `.planTier` with `.stripeSubscriptionId` |
| `processed` | `StripeWebhookEvent` |
| `lock` | `pg_advisory_xact_lock` of a customer |
| `customer`, `session`, `of`, `price`, `item`, `sub`, `event` | at Stripe: customers, checkout sessions, subscriptions (one of a paid session has its name), their customer and tier, whether they have a price that `PRICE_MAP` knows, one it does not, or none, and whom an event is about |
| `known` | sessions whose URL a browser has got |
| `entitled`, `synced` | history: every tier the subscriptions amounted to, and which of them the plan was written from |

| Action | In the code |
|---|---|
| `CheckoutRead`, `CreateCustomer`, `ClaimCustomer`, `LoseClaim` | `createCheckoutSession` up to the customer: the conditional update that stores it, and the deletion of one that lost |
| `Lock` | `lockStripeCustomerTx`, in both transactions |
| `ListOpenSessions`, `ExpireSession`, `CheckSubscriptions`, `CreateSession`, `ReturnUrl` | the rest of `createCheckoutSession`; the URL goes out after the commit |
| `Pay`, `ChangeSubscription` | Stripe: somebody pays at a URL; subscriptions start, fail, recover, change, lose their price and end, each announced by an event |
| `Receive`, `RecordUnknown`, `ListSubscriptions`, `WritePlan` | `processStripeEvent`, for a delivery of Stripe or a replay of `reconcileStripeEvents`; at an unknown price `mapPriceIdToTier` throws, and there is only `Rollback` |
| `SkipUnpriced`, `RecordUnpriced` | its path `skipped_no_price`: the transaction commits with nothing written, and the event is recorded after it |
| `TimeOut`, `Rollback` | the transaction ends without the handler; the handler ends |

`PlanMirror` is the abstract promise: a history of entitlements, and a plan that is always
one of them and never goes back. Its refinement mapping is `at <- synced`,
`tier <- plan.tier`.

* `NoDoubleBilling`: no payment starts a subscription beside one that could still bill.
  A checkout that timed out in the middle may have created a session; only because its URL
  is returned after a commit that then fails does nobody pay at it, and only because
  sessions are expired *before* subscriptions are listed is no payment missed in between.
* `PaymentsReachOrg`: first checkouts race to create a customer; every session belongs to
  the one that is stored, and that one is not deleted.
* `SettledPlanIsExact`: once all events about the stored customer are processed, in
  whatever order and however often, the plan is what the subscriptions amount to. It
  depends on listing inside the lock: the event is only the occasion. While a paying
  subscription has no price that can be mapped (`Unmapped`) the plan stays what it was,
  events are recorded that have written nothing, and what makes up for them is the event
  that says it has a price again, which must not have been skipped too.
* `MirrorSpec`: an older list never commits after a newer one.
* `PlanCatchesUp`: if subscriptions stay, and none of those that pay lacks a known price, the
  plan becomes theirs and stays it.

Abstractions: active stands for trialing and past_due, unpaid for paused and incomplete,
canceled for incomplete_expired (nothing here tells them apart); among subscriptions of
equal rank any may be picked; a replay is one more delivery, so the window and the cursor
of the reconciliation are left out, as are events of other types,
emails, the portal session, what a plan permits, and companies, which take the same path.

## 8. Notices and the digest: ExpiryNotices

Every night a job looks for credentials that expire within the window and have not been
announced in this cycle, writes a notification to each owner and admin, mails it, and stamps
the credentials. A digest mails each day what no mail has said. Both send first and
record afterwards; a mail may fail, a run may be cut short anywhere, runs may overlap, and so
may digests, since neither the service nor its route keeps two invocations apart; and
credentials are renewed in place without resetting the stamp.

| Variable | In the code |
|---|---|
| `expires`, `notified` | `VolunteerCredential.expiresAt` in days from today (0: past, or not VERIFIED); the age of `.notifiedAt` |
| `wants` | `NotificationPreference`: in the app, by mail, both, none |
| `to`, `stamped` | `Notification.userId`; `.emailSentAt` is set |
| `run`, `digest` | the nightly runs and the invocations of the digest in progress |
| `warned`, `announced`, `renewed` | history: the age of the last mail about a credential to each; whom a mail has told of the expiry the credential has *now*; credentials whose stamp is about an expiry they no longer have |
| `covered`, `excused`, `fault` | history: credentials a clean run has looked at today; whoever a stamp counts although `notify` threw; credentials whose last warning failed, was cut short or doubled |
| `mailed`, `echoed`, `doubtful` | history: rows whose message went out, went out twice, or may, because their stamp failed or came late or two jobs mail them at once |

| Action | In the code |
|---|---|
| `Issue`, `Revoke`, `Remove` | `upsertCredential`, `revokeCredential`, `removeCredential` |
| `Scan` | `notifyStaffOfExpiringCredentials` selects what is due (`noticeDueWhere`) |
| `Create`, `NotifyThrows`, `Send`, `DoNotSend`, `MarkRow` | `notify`, `tryNotify`, `sendEmail`, `markNotificationEmailSent`, recipient by recipient |
| `Stamp`, `EndUnstamped` | `shouldStampNotifiedAt` and `markCredentialsNotifiedTx`; a failed or interrupted run |
| `DigestRead/Send/Mark/Fails` | `sendDigestEmails` for one recipient, in one of several invocations (`Digests`) |
| `Tick` | midnight |

* `LapseIsAnnounced`: renewed or not, a credential whose last night before the end had no
  failure was announced to everybody who takes mail, with the expiry it then has: what they
  were told of an expiry it no longer has does not count. The cycle is computed from the
  clock (`credentialNoticeCycleStart`), because a stamp of the last cycle stays on the row; so
  a credential renewed to end within a window of that stamp is silenced by it. That is the
  excuse, and what the code says to the contrary is refuted (`RenewalIsAnnounced`, section 11).
* `ToldOncePerCycle`: and nobody is told twice within a window, without a fault to explain it.
* `StampedWasMailed`: a digest stamps what it mailed, not what arrived meanwhile.
* `NoEcho`: a notification goes out twice only after a failed or late stamp, or when a digest
  read it while `notify` or another digest was mailing it.

Abstractions: whether a digest is due is left open (so it may run at any time); the cap per
organization, suspension, recipients without an address and the pacing of mails are left
out; staff do not change; a run cannot see the next day (`maxDuration` is 300 s); the only
notifications are CREDENTIAL_EXPIRY.

## 9. Runs

`tlc -config X.cfg M` with the module of the run. Safety runs take volunteers, shifts,
checks, organizations, credentials, links, rows, applications, customers, sessions, events,
staff and requests up to permutation (no definition tells two apart; `CHOOSE` occurs only
over capacities, times and expiries in `Init`, and over picks that all have one tier). The
runs with liveness use no symmetry.
`CHECK_DEADLOCK FALSE` everywhere: clients may stop asking, clocks and ids are bounded.

| Run | Bounds | Shows |
|---|---|---|
| `shift_races` | 3 volunteers, 1 shift of capacity 1, 2 requests, clock 0..1 | `BookingInv`, `NoLockCycle`, `AttendanceNeedsConfirmedSeat`, `PromotionIsFifo` under every interleaving of two requests: sign-up, cancellation, waitlist, attendance, check-in, removal of the shift (not assignment, edits, cancelling and completing it, which the theorems cover) |
| `shift_serial` | 4 volunteers, capacity 1 or 2, 1 request, clock 0..1 | `SeatsAgree`, `NobodyWaitsBesideFreeSeat`, `CancelledSeatIsPassedOn`, `LedgerRefinement` one request at a time, with shifts that are cancelled, completed and removed |
| `shift_schedule` | 2 volunteers, 2 shifts at times in 0..2, 1 request | `TypeOK`, `NoDoubleBooking` with sign-up, assignment, roster changes |
| `shift_closing` | 1 volunteer, 2 shifts, batch of 1, clock 0..2, fairness | `EndedShiftsClose` with edits, sign-ups, cancellations and closings |
| `check_review` | 1 check, 1 event, 3 requests, waiting period 2, clock 0..3, letters that may be refused | `TypeOK`, `NoticeInv`, `AdverseLetterWaits`, `FcraRefinement` |
| `check_deliveries` | 2 checks of 1 volunteer, 2 events, 2 requests, Sterling, fairness | `ResultReachesCheck`, `EventsAnswered` |
| `check_serial` | 2 checks, 2 events, 1 request, every operation | `OneActiveCheck`, `TerminalFinal` |
| `share_links` | 3 organizations, 3 credentials, 1 link, 2 requests, days 0..2, batch of 1, every operation | `TypeOK`, `ShareListExact`, `NoCopyAfterRevoke`, `LinkRefinement` |
| `roster` | 2 roster rows, 2 applications for one opportunity, 1 shift, 2 requests, every operation | `TypeOK`, `RosterInv`, `RefusedIsOffRoster`, `DeclinedIsNotBound`, `RefusedIsNotScheduled`, `ApprovedIsRostered` |
| `billing_checkout` | 2 customers, 2 sessions, 2 events, 2 requests, every operation | `TypeOK`, `PaymentsReachOrg`, `NoDoubleBilling`, `MirrorSpec` |
| `billing_plan` | 1 customer with 1 subscription that may lose its price, 2 events, 2 requests, fairness | `SettledPlanIsExact`, `PlanCatchesUp` |
| `notices` | 1 credential, 2 staff, 1 run, 2 digests, 2 notifications, window of 1 day, terms of 2 | `TypeOK`, `StampedWasMailed`, `NoEcho`, `LapseIsAnnounced`, `ToldOncePerCycle` |

Why the bounds suffice. A lost seat, a wrong promotion or a lock circle takes the row
that is cancelled, the row that is promoted and one that is passed over, hence three
volunteers; two requests are all the pairs that can conflict, and a third only repeats
them, because a step is refused or enabled by one other lock holder (the proofs of
section 10 remove the bounds altogether). The clock needs one tick for a join to straddle.
Overlap takes two shifts and three end points. A letter, a race for its stamp and a
finalization are three requests; the waiting period of two days tells "after" from
"at once". A duplicate delivery takes two requests, a conflict of two results two events
and, when it is about the credential they would both cite, two checks. A shift that starves
another takes a batch of one and two shifts.
A second copy through one link takes an organization that issues and two that claim, the
source and two copies, and two requests at once; credentials and links end on day 1 and
are overdue on day 2.
A departure that overtakes something takes two requests; a removal that is undone beside a
new row takes two rows, and the unique index of applications two applications. Two first
checkouts need two customers and two sessions; a list that is older than what has happened
since needs two events. (An instance of `billing_checkout` with one session and a subscription
of an earlier customer, and one of `roster` with one application and three requests, pass as
well.) One failed recipient among those who are reached takes two staff, a row mailed twice two
digests; a renewal starts the second cycle when the term is longer than the window. Instances
of `notices` with one digest, one notification and two staff, and with two overlapping runs or
with a window of two days and terms of 1 and 4, pass as well; the theorems cover all of them.

Fairness. `ShiftSignups!Fairness` is weak fairness of the job's scan, which
`vercel.json` schedules every hour, and strong fairness of visiting each scanned shift
(a run can be cut short, but not every run at the same shift). Requests are not fair:
clients need not do anything. Strong fairness of the visit to a shift that is scanned
again and again is enough for "does not stay active past its end"; that it is scanned needs
a batch with room for it, hence the excuse of other shifts that are reopened for ever.
`BackgroundChecks!Fairness`: the provider repeats a delivery until it is answered 200
and not every attempt fails (strong fairness of receiving and handling each event; the
routes document the retries), and invocations end (weak fairness of `Rollback`). Staff
need not do anything.
`Billing!Fairness`: invocations end, Stripe delivers an event again until it is processed
(the route answers 500 otherwise, and `reconcileStripeEvents` replays what is missing),
and not every delivery of one event is cut short at the same point (strong fairness of
receiving, locking, listing and writing, for each event). Checkouts and customers need not
do anything; the subscriptions stop changing because `Events` is finite. An event
that is skipped for want of a price counts as done, in the code and here.

## 10. Proofs

For all sets of volunteers, shifts, checks, organizations, credentials, links,
applications, customers, sessions, events, staff, runs and requests, any capacity, waiting
period, window, expiry and clock bound. The assumptions are those named in the modules (finite
sets of volunteers and requests, positive capacities, at least one valid slot, expiries are
days or `Forever`, the window is positive, and `NoOne`, `Nobody`, `None`, `NoRow` are none
of the things they stand beside).

| Theorem | States |
|---|---|
| `ShiftSignupsProofs!TypeCorrect` | `Spec => []TypeOK` |
| `BookingInvariant`, `LockInvariant` | `Spec => []BookingInv`, `Spec => []LockInv` |
| `FifoPromotion` | `Spec => PromotionIsFifo` |
| `AttendanceFromSeat` | `Spec => AttendanceNeedsConfirmedSeat` |
| `NoDeadlock` | `Spec => []NoLockCycle` |
| `ShiftSerialProofs!SeatsOfShift` | `Ops` within `SeatOps`, and requests about shift `s` do not overlap: the invariant of `s` |
| `ApartSeatsAgree`, `ApartNobodyWaits`, `ApartSeatPassedOn` | if that is so for every shift (`Apart`): `[]SeatsAgree`, `[]NobodyWaitsBesideFreeSeat`, `CancelledSeatIsPassedOn` |
| `ApartImplementsLedger` | likewise: `Spec /\ []Apart => LedgerRefinement` |
| `PromiseNotOverbooked`, `PromiseNobodyWaits` | `LedgerRefinement` implies that no shift has more volunteers than seats, and `[]NobodyWaitsBesideFreeSeat` |
| `OverbookingBounded` | `Ops` within `BoundOps`, at most `n` sign-ups and no two requests of one volunteer about shift `s` in flight: never more than `capacity[s] + n - 1` are confirmed on it |
| `ScheduleOfVolunteer`, `ApartNoDoubleBooking` | `Ops` within `ScheduleOps`, requests of one volunteer do not overlap, no shift ends under a request that may reopen it: the invariant of a volunteer, `[]NoDoubleBooking` |
| `SerialSchedules`, `SerialNoDoubleBooking` | with one request at a time and `Ops` within `ScheduleOps`, shifts ending at any moment: the invariant, `[]NoDoubleBooking` |
| `BackgroundChecksProofs!TypeCorrect` | `Spec => []TypeOK` |
| `NoticeInvariant`, `RowsInvariant` | `Spec => []NoticeInv`, `Spec => []RowsFollowReports` |
| `LettersWait` | `Spec => AdverseLetterWaits` |
| `FcraImplemented` | `Spec => FcraRefinement` |
| `ResultsReachChecks` | with Sterling's route: `Spec => []ResultReachesCheck` |
| `OneGroundSeen` | requests that close check `c` do so on one ground at a time: what they have seen of it holds |
| `OneGroundTerminal` | `Spec /\ []OneGroundEach => TerminalFinal` |
| `ApartOneActive` | `Spec /\ []OneInitiationEach /\ []OneGroundEach => []OneActiveCheck` |
| `ShareTokensProofs!TypeCorrect` | `Spec => []TypeOK` |
| `ShareInvariant` | `Spec => []ShareInv` |
| `ShareListCorrect` | `Spec => []ShareListExact` |
| `RevokedStaysRevoked` | `Spec => NoCopyAfterRevoke` |
| `LinksImplemented` | `Spec => LinkRefinement` |
| `PromiseListExact`, `PromiseNoCopyAfterRevoke` | `LinkRefinement => []ShareListExact`, `LinkRefinement => NoCopyAfterRevoke` |
| `OrgRosterProofs!TypeCorrect`, `RosterInvariant` | `Spec => []TypeOK`, `Spec => []RosterInv` |
| `RefusedOffRoster`, `DeclinedNeverBound` | `Spec => []RefusedIsOffRoster`, `Spec => []DeclinedIsNotBound` |
| `RefusedNotScheduled`, `ApprovedRostered` | `Spec => RefusedIsNotScheduled`, `Spec => ApprovedIsRostered` |
| `BillingProofs!TypeCorrect`, `BillingInvariant` | `Spec => []TypeOK`, `Spec => []BillingInv` |
| `PaymentsMatched`, `SettledPlanCorrect` | `Spec => []PaymentsReachOrg`, `Spec => []SettledPlanIsExact` |
| `NobodyBilledTwice`, `PlanImplementsMirror` | `Spec => NoDoubleBilling`, `Spec => MirrorSpec` |
| `ExpiryNoticesProofs!NoticeInvariant`, `TypeCorrect` | the invariant below, `Spec => []TypeOK` |
| `StampedMailed`, `NoEchoes` | `Spec => []StampedWasMailed`, `Spec => []NoEcho` |
| `LapsesAnnounced`, `ToldOnce` | `Spec => LapseIsAnnounced`, `Spec => ToldOncePerCycle` |

**Booking.** FIFO is not inductive: nothing in it speaks of the choice made when the
waitlist was read. `BookingInv` adds that an open transaction holds its row alone
(`LocksExclusive`), that the row is there (`LockedRowsExist`), that one about to write
ATTENDED still sees CONFIRMED (`MarksConfirmedSeat`: nobody else can write a locked
row), that stamps lie in the past (`StampsPast`), and the heart, `PromotesOldest`: the
chosen row is as old as the property asks *now*. Joins preserve it because a row that
becomes visible now is no older than any stamp. Steps are grouped: those that only
start or read (`QuietStep`), those that write one row (`WriteStep`), one lemma for each
remaining transaction.

**Deadlock.** `LockInv` strengthens `NoLockCycle`: a seat seen CONFIRMED by a
cancellation never waits again (`SeenSeatsNeverWait`, since no operation takes a row
back to WAITLISTED), so a cancellation that promotes somebody holds a row no other can
be waiting to promote (`PromotersHeldSeats`). A new lock therefore closes no circle
(`LockClosesNoCycle`): whoever is in one has to be waited for as well as wait.

**Requests apart.** The reads and the write of a request are separate, so what must be shown
is that nothing disturbs in between what it has read. For the seats of shift `s` it is enough
that requests *about `s`* do not overlap (`ApartOn(s)`): beside such a request act the coordinators,
the auto-close job and any number of requests about other shifts. With a single request
(the run `shift_serial`) the hypothesis holds of itself (`OneRequestIsApart`).
`SeesSeats` says that the shift is gone, or is as it was read but for a status that may have
become final; that the view agrees with itself and permits what is in progress; and that the
entry a cancellation selected would be selected again. Then each commit keeps `SeatsRight` of
its shift: a seat taken, given up or passed on changes the number of confirmed rows by one,
minus one or nothing (`SeatTaken`, `RowGivenUp`, `SeatPassedOn`), and the status follows.
A shift that has ended may be reopened by a commit that has read it before, so the argument
must not depend on its being final.

**Ledger.** `ApartImplementsLedger` maps each step of the code: starts and reads leave
`holders` and `queue` alone, a commit is the one operation its request is about
(`SignUpIsLedger`, `JoinIsLedger`, `LeaveIsLedger`, `CancelIsLedger`), and creating and removing a
shift are `Offer` and `Withdraw`. That the view is current turns the guard of the read into the
guard of the ledger. One thing is not in it: that who joins joins at the end. The stamp of a
join is taken when its insert starts, so `JoinsLast` adds that no row of the shift is younger than the
stamp of a join in progress.

**Overbooking.** Where sign-ups do overlap, each may take a seat it saw free. `SeatBound` counts
confirmed seats and sign-ups in flight together: a commit moves one from the second number to
the first, a read adds to the second only when a seat is free. Promotions would break
it if a cancellation could pass on a seat that is no longer its own: `CancelsHoldSeat` says it holds
what it read, since nobody else writes the rows of its volunteer. TLC finds the bound reached.

**Schedules.** For overlaps the unit is the volunteer: `ScheduleHolds(u)` says that the seats of `u`
are compatible and that a booking for `u` in flight still clashes with none, whatever is done for
others. A commit puts the status it has read back, so a shift that ended in between would
be active again beside a seat taken meanwhile: TLC finds that, and
`EndsQuietly` is the hypothesis that excludes it. With one request at a time it is
not needed, for nobody else can take a seat in between (`SerialSchedules`: while a view shows the shift active nobody
confirmed there clashes). Overlap is symmetric, so one new seat is examined from both shifts.

The theorems exclude exactly the operations with each of which TLC finds the property
violated: edits, attendance and over-capacity assignments for seats, edits and over-capacity
assignments for the bound, edits and the waitlist for schedules.

**Adverse action.** `NoticeInv` relates the places a time is kept: a stamp and a letter are
never older than the first attempt to write, the notice phases imply an attempt and a stamp,
and a request that passed the waiting-period check still satisfies it (time only grows, the
first attempt is never replaced). Nothing in it says that a letter went out, since a refused
one takes the same steps. `LettersWait` is immediate from it, and `FcraImplemented` maps each
step to one of `FcraLifecycle` or to a stutter.

**What the promises promise.** Two of the abstract specifications are themselves the subject
of theorems, from `Init` and the actions of the abstract module alone: `SeatLedger` rules out
overbooking and idle waiting, `SingleUseLinks` inexact lists and copies after a revocation
(`Kept` is the invariant of each). So a refinement says at least what the separate properties
say, and any other implementation of the same promise would have them too.

**Results.** `RowsFollowReports`: a report has no row before the provider has opened it, a
single request opens it, and what staff or a result work on keeps its row. With it, a
check never becomes PENDING again, what is answered has been processed (Sterling's route
answers a conflict 500), and what is processed has taken its check past PENDING.

**Final states.** A check is closed by staff who cancel it, by staff who finish its review
(finalize, approve), or by a result. `OneGround(c)` says that the requests that would close
`c` and are in flight are of one of these kinds, and if results, deliveries of one event; on
one ground any number may overlap. Then each of them, when it commits, finds the check as it
read it, finds it closed as it would close it itself, or is refused by what the commit looks
at again: `fcraStatus` is decided, the event is processed (`SeesCheck`). `FewChecks` adds
that nobody who is being checked anew has a check under way. One request at a time is a
special case (`OneRequestIsOneGround`). The hypothesis is not stronger than it has to be: with any
two of the grounds allowed to meet (a cancellation and a decision, a cancellation and a
result, a result and a decision, two different results) TLC finds a final status overwritten.

**Sharing.** `ShareListExact` alone is not inductive: a claim could add a second copy to a
link whose history it knows nothing of. `ShareInv` adds that an unclaimed link has no
claimant, has handed out nothing and was not revoked, so the condition `status = 'ACTIVE'`
in the claim's UPDATE implies both properties; and that a link's credential exists,
without which not even the types hold (a claim reads that row), so the two invariants are
proved together. `LinksImplemented` maps each step to one of `SingleUseLinks`: reads and what
is done to credentials alone are stutters, a removal closes the open links of its credential
at once, and that an open link has handed out nothing is what makes a claim its only use.

**Roster.** `RosterInv` adds what a request in flight can rely on (`RequestsHold`: an
application it has updated is locked, so the row is as it left it, and what it has found or
inserted on the roster is what it has decided on; `InsertsAlone`: nothing is live, and nobody
else inserts, beside a row being inserted) and what a departure
knows: a departure removes the row it has read, any other went live during it
(`DeparturesKnow`), and while there is a block every request that has checked without
seeing it is known as overtaken (`ChecksOvertaken`). Then each way onto the roster has
seen the block, or its row is `inert`. For `ApprovedIsRostered` the lock is the argument:
the commit that makes the second half true has read the first after its own update. It
then inserts a row, which is live when it commits, or has found one, which was live then: if
it is not any more it has been removed, the last excuse of the property.

**Billing.** `BillingInv` has a conjunct per place. `LocksHold`: a lock is held by a request
of that customer, which for a checkout is the one on file, so one holder at a time. `StripeHolds`
and `PaymentsHold`: between the list of open sessions and the return of the URL, the lock
holder's customer has no other session that could be paid and, once checked, no subscription
that could still bill; a session whose checkout lost its lock is known to nobody.
`MirrorHolds`: a handler that has listed holds an entitlement no older than the plan's as
long as it has the lock, and whenever the plan is behind, an event says so that is not
processed and that nobody is about to record unwritten, or a paying subscription has no known price, and the event that
gives it one is still to come (`Pending`). A skipped event (`Unskipped`) takes nothing away:
as long as the price is missing the plan is excused, and when it comes an event comes with it.
A lock lost to a timeout takes its premise away, which is why each commit asks for it.

**Notices.** `NoticeInv` follows three things through a run. A row that was mailed and not
stamped is in the hands of a run or of a digest that has mailed it, or doubtful, and two
digests share no row but a doubtful one (`RowsHold`, `DigestHolds`). Of the expiry a
credential now has, a stamp says who was told or threw unless the stamp is about a former one
(`renewed`), and so does a run that has not failed, for those it is done with and what has
not changed under it (`StampsHold`, `RunsWarn`). And a credential that no run works on and that has no
fault has been stamped since its last warning, while one a run works on was last warned a
window ago (`QuietSince`, `DueSince`, `NoOverlap`). `Tick` keeps them because ages stop at a
value past the window.

Only model-checked: liveness (`EndedShiftsClose`, `EventsAnswered`, `PlanCatchesUp`), which
is out of the prover's reach. Every other property of the runs is a theorem. `PlanMirror`,
`FcraLifecycle`, `SeatLedger` and `SingleUseLinks` are safety specifications: that the plan
catches up is the separate `PlanCatchesUp`.

## 11. Disagreements between the code and its documentation

Each is a behaviour of the models. The first eight have a definition in the module named,
which TLC refutes when it is put in a configuration:

* Joining a waitlist and being promoted do not look at the volunteer's other shifts, so a
  promotion double-books, without any race (`ShiftSignups!NoDoubleBooking` once
  `joinWaitlist` is among the operations).
* Raising the capacity of a FULL shift leaves it refusing sign-ups ("is full") and the
  waitlist ("has open spots, sign up directly") alike (`ShiftSignups!RefusedWaitlistMeansSignUp`).
* The clear result of a second check violates the unique `credentialId`; Checkr's route
  answers it as a duplicate and it is lost (`BackgroundChecks!AnsweredMeansProcessed` with
  `Provider = "CHECKR"`).
* With verified credentials of one type from two organizations, "bring my credentials"
  violates the unique index with its own second copy, rolls back and shares nothing; the
  error is swallowed (`ShareTokens!ShareAllSucceeds`).
* Two approvals of one application both read SUBMITTED; staff remove the volunteer between
  their commits and the second puts them back, though the code means to protect "a volunteer a
  coordinator had deliberately removed" (`screener-queries.ts:118`;
  `OrgRoster!ReapprovalAddsNobody`).

* An error that Resend returns for an adverse-action letter is ignored
  (`sendFcraEmails.ts:34`): the check is stamped PRE_ADVERSE_SENT, and an adverse letter may
  follow, without any letter out, although the function is documented "@throws on email send
  failure - caller must NOT update DB on failure" (`sendFcraEmails.ts:25`;
  `BackgroundChecks!NoticeMeansLetter`).
* The clear result of a volunteer's second check is answered 500 by Sterling's route as long
  as the first cites the credential, which may be for ever, against "500 (retry until success)"
  (`BackgroundChecks!EveryEventAnswered`).
* A credential renewed to end within a window of its last warning is never warned of, although
  "a RENEWED credential is warned about again on its new expiry date"
  (`credential-expiry-notice-service.ts:81`; the comment at `domain/credential-expiry.ts:128`
  infers that a stamp within the window is about the current expiry;
  `ExpiryNotices!RenewalIsAnnounced`).

The others:

* Approving or claiming finds the volunteer on the roster, skips the insert without locking the
  row, and staff remove the volunteer before it commits: an approved and bound application
  leads to nobody, though "either way the desired end state holds"
  (`appliedRosterService.ts:99`).
* Shifts that are reopened again and again by requests in flight fill each batch of the
  auto-close job, which takes those that ended first: another one stays open
  (`shift-auto-close-service.ts:5`).
* Two invocations of the digest that overlap read the same rows and mail them twice
  (`digest-service.ts:92`; `lastDigestSentAt` is read once, at the start).
* An event that finds a paying subscription without a price is recorded as processed with
  nothing written (`billingService.ts:599`), so neither Stripe nor `reconcileStripeEvents`
  brings it again: the plan waits for the next event.
* A sign-up or cancellation that read a shift before it was completed or cancelled writes
  FULL or OPEN after it (`README.md:217`, "Status lifecycle").
* Two sign-ups validated against the same last seat both commit (`docs/DOMAIN.md:415`
  "capacity limits"). A cancellation sent twice by the same volunteer can promote two.
* A cancellation read before attendance was marked overwrites the record
  (`shiftSignupService.ts:218` "already a record").
* An entry that joins between a cancellation's selection and its commit is not
  promoted and waits beside a free seat (`docs/DOMAIN.md:417`).
* An assignment validated before the volunteer left commits against the block
  (`shiftSignupService.ts:283-285`), and an addition or an undo checked before then puts
  the volunteer back on the roster: the `late` and `inert` of OrgRoster.
* An edit of only one of the two times is not compared with the other
  (`domain/shift.ts:231`).
* The auto-close job completes a shift that was moved after its scan
  (`shift-auto-close-service.ts:5`).
* After an assignment over capacity, one cancellation reopens a shift that is still at
  capacity.
* A result read before a check was cancelled overwrites the terminal status
  (`domain/background-check.ts:25`), and two coordinators can both pass
  `findActiveCheckForUserInOrg` (`backgroundCheckRepo.ts:94`). Two racing notices send two
  pre-adverse letters.
* `shareAllOnApply` takes a VERIFIED credential past its end that the nightly job has not
  reached (`credentialShareService.ts:86` "Only verified, non-expired credentials can be
  shared").
* A claim commits although the credential was revoked after it was read
  (`docs/DOMAIN.md:380` "Underlying credential is still VERIFIED").
* A revocation that loses to a claim is answered `{ revoked: true }` although the copy
  exists, and marks the CLAIMED link EXPIRED (`domain/credential-sharing.ts:9-20`).
* The nightly job expires a credential that was renewed, or overwrites one that was revoked,
  after its scan (`docs/REQUEST_FLOW.md:424` "P2025 (concurrent modification) -> skip": only a
  deleted row is skipped).
* A report whose row failed to commit is answered 500 for ever; no requeue creates the
  row (`backgroundCheckService.ts:34`).
* A withdrawal overwrites a decision made after it read the application
  (`volunteerApplicationService.ts:52-59`), and reopening a rejected application can violate
  the partial unique index, which nothing handles.
* `tryNotify` reports an exception as `emailSent: null`, documented as "we never tried,
  because the preference disallowed it or the caller supplied no email content"
  (`notificationService.ts:45-48`): the batch is stamped and that recipient is never told
  (`excused` in ExpiryNotices).
* A digest can mail a row that `notify` is mailing at that moment (`notificationService.ts:14`,
  `notificationRepo.ts:23`): the row is read before its stamp.
* One address that cannot be mailed keeps its organization unstamped, so the others get the
  mail every night; `domain/credential-expiry.ts:189` counts the cost as "a duplicate in-app row".

Met beside the models: a digest due "24 hours after the last" skips a day when the hourly job
comes a minute early (`digest-service.ts:54`), and its cursor skips a row when the row before
it no longer matches the filter (`:74`).

## 12. Not modelled, and the plan

Most of the repository's lines hold nothing a state machine could say: the web client and its
pages (presentation over the procedures modelled here), seeds and scripts, emails and PDF
layout, forms, reads, scores and reports. Their operations read, or write one row in
one statement. That leaves, in this order:

1. **Members**: single-use invitations (`memberService.ts:248` marks one used by id after
   reading it unused), roles, the last owner; companies share the protocol.
2. **Impersonation**: whether the target is an admin is read before the session is written
   (`impersonationService.ts:64`).
3. The other email jobs: shift reminders, re-engagement, opportunity digests, feedback, and the
   notice of expiring links (`share-token-expiry-service.ts:91`), each send-then-stamp.
4. The check-in token's window; the progress of an import job that is cut short; the window
   and the cursor of `reconcileStripeEvents`; what a plan permits, when it changes meanwhile.
5. Liveness of the notices and of an import that is resumed.
6. Locks on `Shift` rows: removing a shift locks it before its signups, a booking after its
   own.

Not planned: rate limiting (the counter lives in Redis, outside the repository), profiles,
matching, search, analytics, templates, feature flags and leads (single-row writes and reads).
