# ScottyLabs Invites — verification project

TLA+ models of the backend in `src/apps/backend` and of the pages in `src/apps/web` that keep state
against it: signups and tickets, +1 passes and the door, sign-in, the tokens of organizers' tools,
questions and answers, the administration of events, the scheduler, the wallet client and the gate of
invite-only events. TLC checks every model on small instances; TLAPS proves every safety property of
them for every size.

Contents: [the system](#1-the-system) · [the modules at a glance](#2-the-modules-at-a-glance) ·
[module by module](#3-the-modules) · [runs](#4-the-runs) · [findings](#5-what-the-code-does-against-its-words) ·
[proofs](#6-the-proofs) · [limits](#7-what-is-not-shown).

## 1. The system

One image runs as two processes: the API (`APP_MODE=api`: Fastify, ts-rest routes, and a timer that
fires every five minutes) and the MCP server (`APP_MODE=mcp`), which serves organizers' tools. Both
talk to one Postgres at READ COMMITTED through a pool of ten connections. A handler is a sequence of
awaited statements; between two of them any other request runs. The only lock of the program is a
transaction-scoped advisory lock per event (`lockEvent`, `services/registrations.ts:38`). The web
application keeps copies of what the API answered (react-query) and sends requests from them.

| Component | Source | State | Operations | Interacts with | What makes it correct |
|---|---|---|---|---|---|
| Signups and numbered tickets | `services/registrations.ts`, `routes/router.ts` (register, cancel, approve, decline, updateEvent), `jobs/scheduler.ts:101` | `events`, `registrations`, `tickets` | register, approve, decline, cancel, promoteWaitlist, waitlistToPending, sweep, PATCH | every other component reads its rows | numbers unique and without gaps; no live ticket without an approved signup; capacity respected; waitlist served in order and never forgotten; a signup made again is not lost |
| +1 transfers and door | `services/transfers.ts`, `services/registrations.ts:421-625`, `ScannerPage`, `TicketsPage`, `ClaimPage` | `ticket_transfers`, +1 rows of `tickets`, `checkins`; flags and copies in the pages | ensureTransfer, revokeTransfer, claimTransfer, checkinBySerial, manual look-up | revocation by cancel/decline | one claim per allowance; who was told "yours" has the pass; a revoked link is dead; no late scan enters; no button stays disabled |
| Sign-in, sessions, rate limits | `auth/service.ts`, `server.ts` | `magic_links`, `users`, `sessions`, buckets in memory | startAuth, verifyByCode, verifyByToken, resolveSession, revokeSession | admins, transfers | a link opens one session; guesses one after another and mails are limited; a used session lives on; a failed mail hides nothing |
| OAuth, MCP, organizers | `oauth/routes.ts`, `mcp/main.ts`, `routes/router.ts:1674-1773`, `AdminPage` | `oauth_clients`, `oauth_codes`, `mcp_tokens`, `admins`; tool sessions in memory | register, authorize, decide, token (code, refresh), bearer check, tools, inviteAdmin, revokeAdmin, revokeMcpToken | sessions, events | a consent buys one grant; a removed organizer holds no token; a refresh does not lock its client out; tools stay in scope |
| Questions and answers | `routes/router.ts:1194-1383` and `:508-571`, `EditEventPage`, `EventForm`, `EventPage`, `services/settings.ts` | `event_questions`, `answers`, `app_settings`; builders and forms | updateQuestions, the fold of submitted answers, the club-wide switches, the export | register | an answer is read by the type it was given for and never destroyed by a save; a question is saved once; off means off |
| Event administration | `routes/router.ts:1060-1192`, `EditEventPage`, `CreateEventPage` | `events` row | create, get, update, delete, invite code | signups, questions, access | model, listing and code of the row agree; a switch away from invite-only takes the code back |
| Digests and escalations | `jobs/scheduler.ts:14-98` | `events.last_digest_at`, `registrations.escalated_at` | tick, runDigests, runEscalations | signups, mail | no signup is passed over; a mail about each late one is tried at last, and goes out once |
| Google Wallet client | `lib/wallet/google.ts`, `lib/wallet/google-api.ts` | cached token, pushed classes, in-flight promises (memory) | googleWalletSaveUrl, accessToken, upsertEventTicketClass | Google | the cache tells the truth; one request at a time per promise |
| Organizer's dashboard | `OrganizePage`, the dashboard endpoint | react-query copy, optimistic rows | approve, decline, poll, refetch | signups | no guess survives; decisions are not seen undone |
| Invite gate, lists, calendars | `routes/router.ts` (events.list, events.get, the gate of register), `server.ts` (calendar routes), `EventPage`, `BrowsePage` | bucket of wrong codes; page | get, list, register's gate, calendar | signups, passes | only the entitled see an event; guesses are bounded; a holder is never locked out; a page shows its own signup |
| Output: mails, calendars, passes | `lib/emails.ts`, `lib/mail.ts`, `lib/ics.ts`, `lib/wallet/*` | none | formatting | — | partly: which answers the guest export shows (`Questions`) |
| Files, schemas, seed, migrations, start | `server.ts`, `packages/contract`, `db/` | `files` | single statements, declarations | — | not modelled, section 7 |

Behaviours that are hard in this code: rows read before the event's lock and trusted after it;
statements that never take the lock; three statements of `register` outside any transaction; work that
follows a commit (promotion, cutting tokens, withdrawing a link) and can be lost to a crash; created_at
being the start of a transaction that then waits; caches, buckets and tool sessions held in memory;
pages that act on copies. The full list, each at its line, is `hazards` in `PROJECT.json`.

## 2. The modules at a glance

| Component | Model | Abstract specification | Instances | Proofs |
|---|---|---|---|---|
| signups and tickets | `Registrations` | `TicketLedger` | `MCRegistrations` | `RegistrationsProofs` |
| +1 requests and the door | `Transfers` | `PlusOnes` | (in `MCScreens`) | `ScreensProofs` |
| the screens before them | `Screens` (extends `Transfers`) | `Transfers` itself | `MCScreens` | `ScreensProofs` |
| sign-in | `SignIn` | — | `MCSignIn` | `SignInProofs` |
| OAuth, tools, organizers | `Grants` | — | `MCGrants` | `GrantsProofs` |
| questions and answers | `Questions` | — | `MCQuestions` | `QuestionsProofs` |
| event administration | `Events` | — | (in `MCJobs`) | `JobsProofs` |
| the scheduler on top of it | `Jobs` (extends `Events`) | — | `MCJobs` | `JobsProofs` |
| wallet client | `WalletApi` | — | `MCWalletApi` | `CopiesProofs` |
| dashboard | `Dashboard` | — | `MCDashboard` | `CopiesProofs` |
| gate, lists, calendars | `Access` | — | `MCAccess` | `AccessProofs` |

Parameters are CONSTANTS with a named assumption, each step of a handler is one action, invariants are
conjunctions of named parts, and no module has a RECURSIVE operator.

*Conventions.* A handler ends a step at each await that lets others in. A transaction under the lock
whose reads an unlocked statement can spoil is two steps, any other is one. A variable or field called
history in its comment is read by no guard. A definition named `Faulty...` sits before the one it
spoils (a lock that does not wait, a full check off by one, a missing foreign key, ...): no action uses
it; it is there so that each property can be seen to fail when the code is wrong in that way. A name
that starts with `Max` bounds a counter: an exhausted bound stops new requests or deeds, never one in
flight.

## 3. The modules

### Registrations

One event, because the lock, the capacity and the numbering are per event and no handler of this
component touches two events in one transaction.

**State.** `event` is the row's capacity, model and status (`"closed"` stands for draft, cancelled or
past its end, which register and the sweep treat alike); `regs` maps every id to its row; an id is
also its created_at, taken from `clock` when the transaction starts, *before* it waits for the lock —
so rows can appear out of created_at order, as they can in Postgres. `tickets` are the primary
tickets. `lock` is the advisory lock. `req[w]` is what process `w` (a request in flight, or the
timer) remembers: the fields it read and will trust. `by` in a row (who gave the seat) and `peak` (the largest
capacity so far) are history: no guard reads them.

**Steps.** A handler ends a step at each await that lets others in. A transaction under the lock is two
steps, its reads and its writes, since unlocked statements can run in between.

| Handler | Actions |
|---|---|
| `register` + `createRegistration` | `RegisterRead` (event) → `RegisterLookup` (earlier row, 409) → `RegisterUnlink`, `RegisterWipe` (clear it) → `RegisterBegin` (created_at) → `RegisterEnter` (lock, decide) → `RegisterCreate` (insert, ticket) |
| `approveRegistration` | `ApproveRead` → `ApproveEnter` → `ApproveCommit` |
| `declineRegistration`, `cancelRegistration` | `RemoveRead` → `RemoveEnter` → `RemoveCommit` → promotion if a seat was freed |
| `promoteWaitlist` | `PromoteRead` (event) → `PromoteEnter` (lock, count, line-up) → `PromoteCommit` |
| `runWaitlistSweep` | `SweepStart`, then `promoteWaitlist` run by the timer |
| `updateEvent` | `PatchRead` → `PatchWrite` → `Requeue` (`waitlistToPending`) or promotion |
| crash, database error | `Abort`: uncommitted work is gone, the lock is free, commits stay |

The database's own checks are part of the actions: the unique index on (event, user) rolls a second
signup back (`RegisterCreate`), the unique index on `registration_id` and the foreign key roll back a
second or an orphan ticket (`Ticketable`), the foreign key stops the deletion of a row that has a
ticket (`RegisterWipe`). `LastNumber` is `coalesce(max(number), 0)`; the loop of `promoteWaitlist`,
which counts and numbers row by row, is stated in one go: `Admitted` (who) and `Numberings` (which
numbers, rising with created_at).

**Left out:** mails, profile columns, scope and audience checks (they only refuse requests), the
answers (`Questions`), the invite code (`Access`), the deletion of the event (`Events`), and +1 tickets,
which repeat their host's number and so do not move the maximum (`Transfers`).

**`TicketLedger`** is the abstract account: how many numbers were issued and which are live. A step
issues the next numbers or revokes some; nothing comes back. `LedgerKept` instantiates it with
`issued <- LastNumber(tickets)` and the numbers of the tickets that are not revoked.

**Faulty operators.** A definition named `Faulty...` sits before the one it spoils (a lock that does
not wait, a full check off by one, a deletion without the foreign key, tickets deleted instead of
revoked, ...). No action uses them. They are there so that each property can be seen to fail when
the code is wrong in that way.

### Transfers

The +1 of a primary ticket: its link, the claim, the removal of the host, the door. A *host* is a
primary ticket whose signup includes a +1.

**State.** `open` (published and not over), `removed` (hosts whose ticket is revoked), `link` (the one
`ticket_transfers` row per ticket: status and rotation), `plus` (the claimed ticket), `entries` (how
many `ok` rows of `checkins` a pass has), `req`. `late` in a request (what it asks for was over when it
arrived) is history: no guard reads it.

| Handler | Actions |
|---|---|
| `ensureTransfer` | `EnsureStart` (ticket live) → `EnsureRead` (transfer row) → `EnsureInsert` or `EnsureRotate`, no lock |
| `revokeTransfer` | `RevokeLink`, one conditional UPDATE |
| `claimTransfer` | `ClaimParse` (signature, rotation) → `ClaimRead` (all checks, before the lock) → `ClaimCommit` |
| `revokeRegistrationTickets` (cancel, decline) | `Remove` |
| `checkinBySerial` | `ScanTicket` → `ScanParent` (+1 only) → `ScanSeen` → `ScanEnter`, no lock, no transaction |
| crash, database error | `Abort` |

`ClaimCommit` and `Remove` run under the event's lock and base nothing they write on a read that an
unlocked statement could spoil, so each is one step; the waiting for the lock lies between `ClaimRead`
and `ClaimCommit`. The unique index on `parent_ticket_id` is the condition of `ClaimCommit` (otherwise
both writes are rolled back), the one on `ticket_id` that of `EnsureInsert`. How a removal comes about is
`Registrations`; here it may happen to any host at any time. `SetStatus` stands for a PATCH of the
status, and for the end of the event.

**Left out:** the rows that `checkins` gets for denied and duplicate scans (nothing reads them back),
the scanned guest's profile, mails. `MaxRotation` bounds renewals: a renewal at the bound stays where
it is, which matters to no safety property.

**`PlusOnes`** is the abstract account: a +1 goes to one person who is not the host, and what is
taken back stays so. `PromiseKept` instantiates it with the `by` and the `revoked` of `plus`.

### Screens

The phones at the door, the host's "Your +1 invite" card and the friend's claim page, on top of
`Transfers`. `call[w]` says which screen waits for request `w` of the API; `phone`, `card` and
`visitor` are the screens. Every step of the API is the step of `Transfers`, done for a screen that
waits (`InTheApi`), or for one that was closed or has given up.

| Code | Actions |
|---|---|
| scanner: `onDecoded`, `submitCheckin`, the 600 ms of rest, the manual look-up by andrew ID | `AtTheDoor` |
| card: create or renew, revoke (which no flag guards), refetch after success | `OnTheCard` |
| claim page: open the link (also the host the own one), claim, hear | `OnTheClaimPage` |
| PATCH of the status, removal of hosts | `Elsewhere` |

`CheckedIn` is the counter of the door's page. **Left out:** the camera, the list of recent scans, the
passes drawn, sign-in.

### SignIn

`links` and `sessions` are rows in order of creation; `emailBucket` and `ipBucket` the limiter's
buckets in memory; `welcome` the addresses let in without an account; `now` the clock.

| Handler | Actions |
|---|---|
| `startAuth` with its limits, the INSERT and the mail | `StartRefused`, `Unwelcome`, `Start` → `Mail` → `Retract` if the mail failed |
| `verifyByCode` | `Look` → `Compare` → `Count` (wrong) or `Admit` → `OpenSession` |
| `verifyByToken` | `Click` → `Admit` → `OpenSession` |
| `resolveSession` | `Resolve` → `Roll` (the renewal, with the time it read) |
| `revokeSession`, time | `SignOut`, `Tick` |
| a statement fails (500), restart | `Fail`, `Restart` (buckets and requests are gone, rows stay); both `BreakOff` what the requests had not written yet: a wrong code is not counted, the link of a failed mail is not deleted |

A request lasts at most one unit of time, which is shorter than the lifetimes. `misses` (history) counts the wrong
codes judged against an unused link, or is `Raced` once two were judged at a time or a count was lost. **Left out:** profile
fields, texts, cookies, callers' addresses (all come from one network).

### Grants

`scope` is `admins`; `codes` and `tokens` the rows; `held` the secrets each tool has received;
`session` the scope a tool session of the MCP process runs with.

| Handler | Actions |
|---|---|
| inviteAdmin, the portal's overview, revokeAdmin (two statements) | `Invite`, `Overview` → `RevokeRead` → `RevokeAdmin` → `Cut` |
| client registration, authorize, decide | `RegisterClient`, `AskConsent` → `Decide` → `Consent` |
| token: code | `Exchange` → `Spend` → `Mint` → `Reply` |
| token: refresh | `Refresh` → `Rotate` → `Reply` |
| bearer check, tool session, tool | `Bearer` → `Lookup` → `Enter` → `Tool`; `CloseSession` |
| revokeMcpToken, expiry, restart of either process | `RevokeToken`, `Expire`, `RestartApi`, `RestartMcp` |

**Left out:** PKCE and redirect URIs (pure checks), the refusal to revoke oneself (who acts is not
among `Emails`), pages and mails.

### Questions

`rows` are `event_questions`, deleted ones included; `answers` and `status` a guest's registration;
`form` what the guest's page asks; `page` an organizer's builder; `control` the club-wide switches,
`switches` the requests that change them.

| Code | Actions |
|---|---|
| edit page: load, edit, save, hear or lose the answer | `Load`, `AddQuestion`, `Retype`, `RemoveQuestion`, `ShowAgain`, `SwitchField`, `SaveQuestions`, `SaveReply`, `SaveLost` |
| `updateQuestions`: read, count the answered, apply under the lock | `SaveRead` → `Validate` → `Apply` |
| guest: open the form, submit, cancel | `OpenForm`, `Submit`, `Cancel` |
| `register`: event and switches, fold of the answers, clearing, creation | `RegisterRead` → `RegisterCheck` → `RegisterClear` → `RegisterCreate` |
| `setQuestionControl`: read the row of settings, write it back whole | `SwitchRead` → `SetQuestionControl` |

`Exported` is what the guest list and its CSV show. **Left out:** labels, order, uploads, the wording of
the required flag. A type stands for a type with its options.

### Events and Jobs

`Events` is one event from its organizers' side: `desk[w]` is the edit page of an organizer or the
request it sent (`OpenPage`, `PatchRead` → `Patch`, `DeleteRead` → `DeleteCount` → `DeleteRows`),
`arriving` a register transaction whose instant is fixed at its start and whose row is visible at its
commit (`RegisterBegin`, `RegisterCommit`), `Settle` a decision or a cancellation. A page's click and
the first read of its request are one step, since what a page shows may be old anyhow. `Jobs` extends it
with the timer: `Begin` → `DigestEvents` → `DigestCount` → `DigestMail` → `DigestAdvance`, then
`EscalationRead` → `EscalationMail` → `EscalationMark`, then `Sweep`, with `StatementFails` and
`Restart`. Both mails may be refused: a digest then leaves its window, an escalation marks its rows all the same.
`Running` is "published and not over" (`ends`, which a save may move). Callbacks may overlap in time; the
`ticking` flag is the guard of `Begin` (`Quiet`).
**Left out:** texts, the event's start, committees, the limit on guesses (`Access`), the capacity
(`Registrations`).

### WalletApi

The access token and the last class body Google took, each with a map of promises that later callers
share. `Click` decides what a caller waits for; `TokenComes`, `TokenFails`, `Upsert`, `Arrives`
(Google applies a request), `AnswerMade`, `AnswerExists` (409, then PUT), `AnswerDenied` (401),
`TimesOut` settle it. Google is modelled from how the client uses it: a request that timed out may
still take effect (`Stray`), a token can be rotated (`Rotate`) or expire. **Left out:** building and
signing passes.

### Dashboard

`page[p].data` is the copy a dashboard shows. `ClickDecision` changes it at once and remembers the copy before;
`Decide` is the API (`Consider` reads, `Commit` writes by id: a decline of a row that is gone is ok, an
approval of it, or of one approved meanwhile, fails on a key), `Answered` and `Unheard` and `NeverSent` its ends: a failure puts back the
remembered copy, and every end is followed by a fetch. `Poll`, `FetchRead`, `FetchArrives`,
`FetchFails` are the fetch; `SignUp` and `Elsewhere` what others do. **Left out:** search, paging, open
rows, and what decisions do to tickets (`Registrations`).

### Access

Every route that asks whether somebody may see an event, statement by statement: `ReadEvent` or
`ReadList` → `ListSignup`, `ReadSignup`, `ReadPasses` → `Gate` (the code and the bucket) → `Save` (register) or an
answer, which the page hears (`HearPage`, `HearCalendar`, `HearSignup`). `Fetch`, `AddToCalendar`,
`SignUp`, `Browse`, `Guess`, `Type`, `Return` are the guest and the page; `Change`, `Approve`, `Remove`,
`PlusOne` the organizers and hosts; `Sweep` empties an old bucket, `Tick` and `Restart` are time and the
process. **Left out:** organizers (they pass every gate), drafts, visitors who are not signed in,
the texts and questions served.

## 4. The runs

| Run | Bounds | Properties |
|---|---|---|
| `models` | 2 guests, 2 signups, 2 requests and the timer, 2 PATCHes of any kind, 1 crash, capacity 1 | `Bookkeeping`, `TicketsMatch`, `SignupNotLost` |
| `races` | 3 guests, 3 signups, capacities 1 and 2, 1 PATCH of capacity or status | `SeatsWithinPeak`, `WaitlistServed`, `LedgerKept` (refinement) |
| `seats` | 2 guests, capacities 1 and 2, one raise, one crash; fair | `SeatsFill`, `RequestsEnd` |
| `removed` | 2 guests, 2 signups; fair | `RemovedStaysRemoved`: violated, section 5 |
| `screens` | 1 host, 2 friends, 2 requests, 2 renewals, 1 phone, 1 loss, 1 revocation under way, 5 deeds | `ClaimedHasPass`, `LatecomersTurnedAway`, `NobodyWaitsInVain`, `OneEntryPerPhone`, `RevokedStaysDead`, `WinnersHavePasses`, `PromiseKept` (refinement) |
| `signin` | 1 address, 2 requests, 2 mails, clock to 3, lifetimes 1 and 4, limits of 1 and 2 | `GuessesCapped`, `MailsLimited`, `OneSessionPerLink`, `SignedInWhileUsed`, `NothingShadows` |
| `grants` | 1 organizer, 1 tool, scopes all and two committees, 3 requests, 1 removal, 1 consent, 3 secrets | `OneGrantPerConsent`, `RemovalKillsTokens`, `ClientKeepsUp`, `ToolInScope` |
| `questions` | 1 guest, 2 edit pages, 1 standard field, 1 custom question, 2 edits, 2 saves, 2 signups or switches | `AnswersFit`, `SavedOnce`, `AnswersKept`, `OffMeansOff` |
| `jobs` | 2 edit pages, 1 signup, 2 models, 2 end dates, 2 deeds or failures, clock to 2, 2 callbacks; fair | `InviteGate`, `NothingSwallowed`, `WarnedOnce`, `EscalationComes` |
| `wallet` | 3 callers, 3 class bodies, 3 tokens, 5 clicks | `CachesTrue`, `PromisesLive` |
| `dashboard` | 2 guests, 1 page, 2 decisions at a time, none begun after 3 changes, 1 loss; fair | `ReadsOwnDecisions`, `ScreenCatchesUp` |
| `access` | 1 guest, 2 codes, 2 requests, 1 wrong code per window of 1, 4 calls, 2 deeds, clock to 3 | `GateHolds`, `GuessesBounded`, `HolderAdmitted`, `OwnSignupShown` |

`CHECK_DEADLOCK FALSE` in the runs of `Registrations` and `Access` only: there the system may rest, no
request has to arrive.

*Why the bounds are enough.* Every race here needs one request that has read and one that overtakes
it: two workers, in `Grants` a third for the removal that falls between two exchanges. Order on the
waitlist needs a holder of the seat and two waiting: three guests. Raising, lowering and lifting a cap
needs two capacities and none. One host is enough for `Transfers`: links, claims, removals and entries
of different hosts touch different rows; three rotations let a link be old, current and next. One
address, one organizer and one guest are enough where rows of different people do not meet (the bucket of the
network, which they share, has its own limit); two edit pages are the race of `Questions` and `Jobs`. A
limit of 1 with two requests in flight is where an off-by-one and a race at the limit show. A session needs time for
two renewals of different times under way at once: it is opened at 0, may be renewed from 2 on, and is alive
at 3. Three
callers of the wallet client are the one that asks, the one that joins, and the one that comes after.
`Symmetry` permutes interchangeable constants in the safety runs only; `jobs`, `dashboard` and `seats`, which check liveness, use none.

*Fairness.* `Registrations`: `WF(Proceed(w))`, a request once received runs on (the process is
single-threaded and its statements return; one that never returns is a crash); `SF(Enter(w))`,
Postgres queues the waiters of an advisory lock, so nobody is passed over for ever; `WF(SweepStart)`,
the timer fires again. `Jobs`: `WF(\E t : Advance(t))`, `setInterval` calls back for ever and
statements and mails are answered at last; failures and restarts are bounded, so a digest that throws
on *every* tick, which would starve escalations and sweep, is excluded. `Dashboard`: `WF` of
deciding and answering, `WF(Poll)` for the timer of the page, `SF` of a fetch, since the network loses
only some. Nothing is assumed of guests or organizers anywhere. The other modules state safety only.

*The properties*, in a sentence each:

- `Bookkeeping`: what a request in flight knows of rows, tickets and the lock is still true.
  `TicketsMatch`: a ticket that opens the door hangs on an approved signup (`LiveTicketIsApproved`), and
  whoever is approved holds one (`ApprovedHoldsTicket`). `SignupNotLost`:
  signing up again does not end with no signup at all. `SeatsWithinPeak`: the program by itself never
  seats more than the largest capacity there ever was — the tightest bound that holds, since a signup
  may use a capacity read just before it was lowered. `WaitlistServed`: nobody waiting is passed
  over by a promotion (`PromotedInOrder`), and it gives no seat to somebody who gave it up or was refused
  (`RemovedNotPromoted`). `LedgerKept`: numbers are issued in order and a revoked one never comes back. `SeatsFill`: an
  open capped event does not keep an empty seat and a waitlist for ever. `RequestsEnd`: no request hangs.
- `ClaimedHasPass`: the transfer row and the +1 ticket never part. `LatecomersTurnedAway`: although the door
  reads three rows in three statements, whoever starts after an entry or a removal is refused; only
  what overlaps is in doubt. `PromiseKept`: a +1 never changes hands. `NobodyWaitsInVain`: no failure
  leaves a scanner dead or a button disabled. `OneEntryPerPhone`: a pass is let in once per phone, but
  for lost answers, and the counter is off by that much only. `RevokedStaysDead`: a link the host saw
  revoked does not work again. `WinnersHavePasses`: "It's yours" is true.
- `GuessesCapped`: as long as each wrong code is counted before the next one is judged, no more than the cap are
  judged against a link until it is used, whatever restarts in between. `MailsLimited`: the mails to an address since its bucket was started stay
  within the limit. `OneSessionPerLink`: one mail, one session, however code and link are used at once.
  `SignedInWhileUsed`: a session outlives its last use by its lifetime, up to the pause between renewals, also
  when an older renewal is written last. `NothingShadows`: a code that reached nobody does not stand before an older one.
- `OneGrantPerConsent`, `RemovalKillsTokens`, `ClientKeepsUp` (concurrent refreshes do not lock a
  client out), `ToolInScope` (a call that no other call of its session overlaps reads what its owner
  may see).
- `AnswersFit` (an answer is exported by the type it was given for), `SavedOnce`, `AnswersKept`,
  `OffMeansOff`.
- `InviteGate`: whatever PATCHes overlap, an event is listed unless it is for the invited only, and has a code just then.
  `NothingSwallowed`: the digest window does not pass a signup before a mail that counts it went out.
  `WarnedOnce`: no second escalation of a signup. `EscalationComes`: a signup that stays pending for too long is
  escalated at last, or its mail was refused.
- `CachesTrue`, `PromisesLive`; `ReadsOwnDecisions`, `ScreenCatchesUp`.
- `GateHolds`, `GuessesBounded`, `HolderAdmitted`, `OwnSignupShown`.

Where a property has an exception (`crossed`, `raced`, `Raced`, `cutShort`, `unmarked`, `unsent`, `late`,
`lost`, `doubt`), it is a history variable or value set by exactly the event named in its comment, and the
exception is real: without it TLC finds a counterexample. What the code does in each of them is in section 5,
under the name of the exception.

## 5. What the code does against its words

The run `removed` must find its property violated; the counterexample is short and needs no crash:

- `approveRegistration` refuses to "approve a declined registration" on a status read before the lock
  and never read again (`services/registrations.ts:210-223`); decline and cancel do re-read. An approve
  that waits for the lock behind a decline overwrites it. `RemovedNotPromoted` says that nothing but such
  an approve does.

Also met while modelling; they have no run of their own, and the models reproduce the behaviour:

- *Tickets.* When such an approve commits while the guest signs up again, between the look-up of the
  declined signup and the statements that clear it, the new ticket is detached and stays live, and the guest
  gets a second one with the new signup: two passes that both open the door. This is why
  `LiveTicketIsApproved` speaks of attached tickets only.
- *Seats.* The README promises promotion "in signup order"; the seat freed by a cancellation can go to a
  signup that arrives before the promotion's transaction. Lifting the cap "must not leave people
  stranded", but a signup in flight joins the waitlist with the old capacity after the promotion ran,
  and the sweep skips events without a capacity.
- *+1.* A claim that passed its checks while a cancel of the host held the lock creates a live +1 for a
  removed guest; the door refuses it by its second look at the host. "Old links die immediately"
  (`db/schema.ts:227`), but a renewal that read the row before a revocation revives it, and a renewal can
  write over a claim: the host is offered a +1 that is already out (the unique index stops a second claim). When a card
  gave up waiting for a link still being made (`doubt`), its host can revoke it, see it dead, and have the request revive it.
  Two scanners that read one pass at once are both told ok, and the counter counts both. The manual look-up
  takes the +1 of a guest before the guest's own pass.
- *Sign-in.* The cap on wrong codes is part of the UPDATE that compares, "so concurrent /verify requests
  can never each observe attempts<cap and slip past it" (`auth/service.ts:192-194`; `README.md:55,105`: "5 wrong-code
  attempts per link"). The attempt is counted by a second UPDATE (`:211-217`): guesses sent at the same time are
  all compared before any is counted, so that as many as the process serves at once are judged beyond the cap; a
  failure between the two leaves a guess uncounted (both `Raced`). If the DELETE after a failed mail fails, or the
  process restarts before it, the link of a code nobody got stays the newest one until it expires.
  The limiter's comment says "Sliding" (`routes/router.ts:102`); its window is fixed, so twice the
  limit fits around a boundary. `README.md:57` promises a 30-day rolling expiry; the session row rolls
  (`auth/service.ts:269`), the cookie is set at sign-in only (`routes/router.ts:54-63`) and ends 30 days after it.
- *Organizers.* `revokeAdmin` deletes the organizer and then the tokens, in two statements: a restart between them
  leaves tokens that work again once the address is invited again, and a restart that loses the answer
  of a refresh leaves the client with a secret that is no longer the row's (both `cutShort`). A late second revocation cuts the tokens of a re-invited organizer. The consent page shows
  the scope of when it was opened, the decision derives it anew. Any admin passes the calendar's gate where
  the event page asks for the committee. A stale edit page writes the old model back and can undo a colleague's
  switch to invite-only; two PATCHes of the model can leave an invite-only event without a code (`raced` in
  `Events`).
- *Deletion.* "An event with signups is never a one-click delete" (`routes/router.ts:1068-1071`), but the count is
  a statement of its own before the transaction, and status is read before that: a signup that commits in
  between goes with the event, and so does an event that was restored meanwhile. `Events` has the three steps.
- *Mails of the scheduler.* `README.md:72-73` promises the escalation "immediate, once per registration".
  `scheduler.ts:92-96` does not look at what `sendMail` answers and marks the rows all the same: a mail refused once
  is never sent (`unsent`), where a digest is tried again. A failure between mail and mark (`unmarked`) sends it
  twice. A signup whose transaction began before a digest's tick and commits after its count (`late`) is in no digest's
  new signups, since the window has passed its created_at.
- *Questions.* The builder says of an answered question "its type and options are fixed" (`EventForm.tsx:416`) and
  `routes/router.ts:1282-1288` refuses the change by a count taken before the lock: an answer given between count and
  save is read by the new type afterwards (`raced` in `Questions`). A save whose answer is lost (`lost`) is sent again with its new
  questions still without an id, and makes them twice.
- *Wallet.* "sha1 of the exact class body Google last accepted" (`google-api.ts:56`) is what was answered last, not what
  was accepted last: when upserts of two bodies overlap, or one that timed out takes effect after all (`crossed`),
  the cache can remember one body while Google has the other, and the next click sends nothing.
- *Settings.* The admin portal says of the club-wide switches "Turning one off hides it everywhere at once"
  (`AdminPage.tsx:206`). `setQuestionControl` (`services/settings.ts:14`) reads the row of settings and writes it back
  whole, and the portal's buttons are not disabled meanwhile: two clicks in a row, on two fields, can undo each
  other. `AdminPage` does not fetch again and shows both as done. `Questions` has both steps.

## 6. The proofs

Eight modules hold theorems; each rests on the named assumption of its model only, which says that
special values are distinct from ordinary ones, bounds are numbers, and, where a property counts them, the
phones, hosts, requests or fields are finitely many. Every safety invariant and every action property that
a passing run checks, and every refinement, is stated by one of them.

| Module | Theorem | States |
|---|---|---|
| `RegistrationsProofs` | `TypeCorrect`, `BookkeepingHolds`, `NumbersAreARun`, `LiveTicketsApproved` | `[]TypeOK`, `[]Bookkeeping`, `[]NumbersRunOn`, `[]LiveTicketIsApproved` |
| | `LedgerImplemented` | `LedgerKept`: `Registrations` implements `TicketLedger` |
| | `SeatsStayWithin`, `PromotionsInOrder`, `SignupsSurvive` | `[]SeatsWithinPeak`, `PromotedInOrder`, `SignupNotLost` |
| | `ApprovedGuestsHoldTickets`, `TicketsMatchSignups` | `[]ApprovedHoldsTicket`, `[]TicketsMatch` |
| | `RemovedAreNotPromoted`, `WaitlistIsServed` | `RemovedNotPromoted`, `WaitlistServed` |
| `ScreensProofs` | `TypeCorrect`, `ClaimsHavePasses`, `DoorHolds`, `PromiseImplemented` | of `Transfers`: types, `ClaimedHasPass`, `LatecomersTurnedAway`, and that it implements `PlusOnes` |
| | `ScreensImplementTransfers` | `ScreensSpec => Spec`: every screen step is a step of `Transfers` or a stutter |
| | `ScreensClaimsHavePasses`, `ScreensDoorHolds`, `ScreensPromise` | the same properties under the screens |
| | `WinnersHold`, `DeadLinksStayDead` | `[]WinnersHavePasses`, `[]RevokedStaysDead` |
| | `WaitersAreAnswered`, `PassesEnterOnce` | `[]NobodyWaitsInVain`, `[]OneEntryPerPhone` |
| `SignInProofs` | `TypeCorrect`, `ClaimsExclusive`, `LinksOpenOnce`, `FailuresDoNotShadow`, `UsedSessionsLast`, `GuessesAreCapped`, `MailsAreLimited` | types, `[]Claims`, `[]OneSessionPerLink`, `[]NothingShadows`, `[]SignedInWhileUsed`, `[]GuessesCapped`, `[]MailsLimited` |
| `GrantsProofs` | `ConsentsGrantOnce`, `RemovalIsFinal`, `ClientsKeepUp`, `ToolsStayInScope` | the four properties of `grants` |
| `JobsProofs` | `InviteGateHolds`, `NothingIsSwallowed`, `WarningsAreSingle` | the three safety properties of `jobs` |
| `QuestionsProofs` | `AnswersAreReadAsGiven`, `QuestionsAreMadeOnce`, `SavesKeepAnswers`, `OffIsNotCollected` | `[]AnswersFit`, `[]SavedOnce`, `AnswersKept`, `OffMeansOff` |
| `CopiesProofs` | `PromisesAreLive`, `CachesAreTrue`; `DecisionsAreRead` | the two properties of `wallet`; `[]ReadsOwnDecisions` of `dashboard` |
| `AccessProofs` | `GateHolding`, `GuessesStayBounded`, `HoldersAdmitted`, `SignupsAreShown` | `[]GateHolds`, `[]GuessesBounded`, `[]HolderAdmitted`, `[]OwnSignupShown` |

*Registrations.* Neither the numbering nor the live tickets are inductive. That a new ticket's number is
fresh needs that the maximum a request read is still the maximum when it inserts; that a decline leaves
no live ticket needs that a signup approved at the commit was seen approved under the lock.
`Bookkeeping` says that: whoever is past the lock holds it, its stamp is its own and unused, its last
number and its view of "approved" are current, and an unlocked statement may lower a status but never
raise it to approved nor add a ticket. `Inv` is the conjunction. `TypesKept`, `BookkeepingKept`,
`TicketsKept` and `LiveKept` keep its conjuncts, one step per action; `OthersKeep` and `CommitKeeps`
carry what is common; `TicketsKept` shows at once that the numbering is extended and that the step is one
of the ledger's. `ApprovedHoldsTicket` needs no more than these (`HeldKept`: a removal revokes only tickets
of the signup it removes, and a clearing detaches a ticket but leaves it live). Four properties need more. `SeatsWithinPeak`: `Room` says that a request
about to create or promote still has room, by the capacity it saw, for what it will seat; that the
promotion fits is a counting argument, `AdmittedAre`: the signups admitted are counted by those before them, which maps them one to one into the free
seats. `PromotedInOrder`: `LinedUp` says that a request about to promote has taken the front of the
waitlist, and `RowSteps` that no other step adds to the waitlist meanwhile. `RemovedNotPromoted`: by
`StillWaiting` and `RemovalsLock` nobody in that line-up is removed before the promotion commits, since
only a step that holds the lock removes. `SignupNotLost`: `Clearing`
says that the row a request is about to clear is its own guest's and that no new signup can take its
id, so if the deletion is refused the guest's row is there; `Openers` and `Endings` say how requests
come to clear and how they end.

*Screens.* `LatecomersTurnedAway` speaks of the last step of a request; it is inductive only with what
the earlier steps have not yet ruled out. `RequestFits` says it for every pc: a late claim still has a
removed host to find, a late scan an entry or a removed host, and both stay so since `removed` and
`entries` only grow. `StepsOfTransfers` shows that a screen step is one of `Transfers` or a stutter;
`Pages` ties each page to the request it waits for, `CardFits` bounds the host's copy, and `LinkFits` says
which requests may still make a link: unless the page gave up waiting, none that is older than a
revocation the host saw. `NobodyWaitsInVain`: `Waiting` says that a screen is busy exactly when one request
that it asked for is under way, and `Counted` keeps their number through every kind of end
(`AskedMore`, `AskedSame`, `AskedLess`). `OneEntryPerPhone`: by `Owned` the scans under way belong to phones one to
one, except orphans that a lost answer left behind, no more than there were losses; by `Few` and `Admitted` the
entries of a pass and the scans about to enter it are together at most phones plus losses, since the last
look of a scan lets it through only while there is no entry. The counter of the door is a sum over all passes, a
recursive function over sets; that it stays between its bounds is shown at a smallest set for which it
would not (`Smallest`, from the well-founded order of finite sets), so no induction rule is needed.

*SignIn.* `Claims`: a request on its way to a session holds a link that is consumed and that nobody
else holds. `FailuresHeld`: a live link whose mail failed is in the hands of the request that will
delete it, also across a restart. `Renewals`: an expiry is the renewal's time plus a lifetime, a use is at
most the pause later, and a renewal under way is at most one unit old, so that an overtaken renewal
writes an expiry that is still late enough. `GuessesCapped`: `Guessed` says that unless a link is `Raced`, the
wrong codes judged are those counted and at most one that a single request is about to count, which found the link
open. `MailsLimited`: `Mailed` ties the count of a bucket to the mails since it was
started, none of which is younger than its reset.

*Grants.* `Fits` ties each request to its row, `Minting` and `Once` say that a consumed code is in one
pair of hands, `Alone` that a call counted as undisturbed really is; history fields carry the scopes
seen since it began. *Jobs.* `InviteGate` with `Club` (a deleted event has no signups, the bound on signups is kept) is inductive;
`Single`: one callback at a time; `Digesting` and `Swallowed`: the window never passes a signup not
counted; `Warning` and `Marked`: a mail without a mark is under way or a failure is on record.
*Questions.* `Drafting` says which rows of a builder are unsaved, `Saving` that what a save sends is what the
page held, `Once` that an unsaved draft has no row yet unless an answer was lost, `Fitting` that a save which
has counted sees the type of every answer there is, `Signing` that what a signup keeps was on since it was
sent and is read by the type it was given for. Switches write old rows back; `Signing` holds since it
speaks of what was on at any moment meanwhile (`SwitchStep`). *WalletApi.* `Fetches` and `Upserts` pair promises with requests, `Truth` relates the cache to Google
while nothing overlaps. *Dashboard.* `Fits`: whatever a page holds or awaits is fresh since its last decision,
or a fetch that will be is due (its operators carry the prefix `Dashboard` where `WalletApi` has the name too). *Access.* `Fit` says for every statement what was true at some moment since the request
began, `BucketFits` that the codes judged and the count agree as long as the bucket lives; `Own` that a page whose
guest was told of the signup shows it, awaits a fetch that has seen it or has yet to read it, or has one due.

Every theorem is checked to its last leaf from the assumptions named in its model.

## 7. What is not shown

*Only model-checked:* the liveness properties `SeatsFill`, `RequestsEnd`, `EscalationComes` and
`ScreenCatchesUp`: liveness under fairness and ENABLED are out of the prover's reach. Induction over data is
too, as far as it needs a rule that takes an operator; the one sum in the models was reached by another way
(section 6). `RemovedStaysRemoved` is false, and TLC shows how.

*Not modelled:* file upload and download (one INSERT, one SELECT with an ownership check, nothing to
interleave); request and response schemas (declarations: they bound the inputs the models enumerate);
seed, migrations, environment and process start (they end before the server listens); mails, calendars, pass layout and images
(formatting: no state depends on them); the sign-in page and the layout of the web application
(they show one answer and keep nothing); the design hand-off under `src/design_handoff_scottylabs_invites`
(a prototype the program does not use).

*Abstractions to keep in mind.* Each model has one event, because lock, capacity and numbering are per
event; the pool of ten connections is not a bound. READ COMMITTED is what the steps say: each
statement sees what is committed when it starts. The modules are composed where components share state
(`Screens` with `Transfers`, `Jobs` with `Events`); elsewhere one module stands for what another does with
an action of its own (`Remove` in `Transfers`, `Settle` in `Events`, `Approve` and `PlusOne` in
`Access`, `Elsewhere` in `Dashboard`), which may happen at any time, so that nothing is assumed of it.
