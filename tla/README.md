# A TLA+ verification of the internship platform

This directory holds TLA+ modules for the platform in `src/` (a Next.js/TypeScript
application on Postgres, with an in-memory store for the demonstration), the TLC
runs that check them on small instances, and TLAPS proofs of the properties that
matter most for every instance. `PROJECT.json` lists, for machines, what is listed
here for readers: components, runs, mutants, the line of source each definition
stands for, findings, hazards and theorems. Paths below are under `src/src/`.

## 1. The system

The platform brings students, employers, colleges and workforce boards of one
market together: a student applies to a posting, the employer and the student
agree, the board interviews and funds the placement, the student logs weeks of
work which the employer reviews, the college grants credit. Everything is a server
call of a portal: it rate-limits the caller, validates the input, reads rows one
`await` at a time, asks a state machine or a rule, and commits its writes in one
transaction. **The calls of several people interleave at every await**; what keeps
them apart is the version each versioned UPDATE checks (`data/store.ts`), a few
unique indexes, and nothing else: there are no locks and no reads inside a
transaction.

| component | state it keeps | operations | talks to |
|---|---|---|---|
| guarded machine (`domain/machine.ts`) | none | `attempt` | every lifecycle |
| application workflow (`domain/workflow.ts`) | the table and its guards | `attemptTransition` | machine |
| transition executor (`services/transitions.ts`) | applications, audit log | `executeTransition`, override | workflow, funds, timesheets, outbox |
| timesheets (`services/timesheet.ts`) | time entries, cached totals on the application | log, review | applications |
| funds (`services/funding.ts`, `domain/funding.ts`, board actions) | funds, commitments ("draws"), cached authorization on the application | authorize, commit, release, adjust, settle | applications |
| store (`data/postgres/store.ts`, `data/memory-store.ts`) | all rows | transaction of staged writes, version checks | every service |
| slots and booking (student actions, `services/creation.ts`) | interview slots | publish, book, rebook | executor |
| deliverables (`services/deliverable.ts`) | deliverables, two flags on the application | submit, ask for revision, accept | executor |
| outbox (`services/outbox.ts`, `data/postgres/outbox.ts`) | queued messages, delivery records | enqueue in a transaction, claim, dispatch, requeue | every service, cron |
| notification policy (`services/notifications.ts`) | none | who is told of a status | executor, outbox |
| sign-in (`services/auth.ts`, `password-auth.ts`, `auth/*`) | codes of two purposes, sessions, passwords | request, verify, reset, resolve, end | second factor |
| second factor (`services/mfa.ts`) | enrolments, challenges, recovery codes, TOTP counter | enrol, confirm, remove, answer | sign-in |
| access and people (`services/access.ts`, `registration.ts`) | users, memberships | register a learner, add a member, move an address | sign-in |
| lifecycles (`services/lifecycle.ts`) | students, postings, organizations: saved *without* a version | move | machine |
| creation (`services/creation.ts`) | the rows other services move | create a posting, an application, a slot, an introduction, an outcome | lifecycles |
| profile, retention, uploads (`services/profile.ts`, `retention.ts`, `uploads/*`) | the student's row, the identity on `users`, files | edit, purge; store, scan, retrieve, remove | lifecycles |
| mentorship (`domain/mentorship.ts` and its actions) | offers, pairings: saved without a version | offer, introduce, conclude | lifecycles |
| consent and disclosure (`services/consent.ts`, `domain/disclosure.ts`) | consents | record, withdraw, ask | stage of the application |
| escalation (`services/escalation.ts`) | escalations | raise, acknowledge, resolve, withdraw | outbox |
| outcomes, offers, follow-up (`domain/outcome.ts`, `offer.ts`, `window.ts`) | outcomes, host offers | record, answer, nudge | exit date of applications |
| credit (`domain/credit.ts`) | awards, built and not written | work out progress, build an award | completed placements |
| regions (`domain/region.ts`, `services/region.ts`) | dated definitions of a market's boundary | redefine, judge a job | outcomes |
| rate limiter (`services/rate-limit.ts`) | counters of one process | hit | every action |
| read rules (`data/postgres/scoping.ts`, `data/memory.ts`) | none | who is shown which row, twice over | every page |

What is hard, component by component (each hazard is in `PROJECT.json` at its line):

* **Transition executor.** A move is decided on a row, a balance, draws and entries
  read at different moments. Correct when a status only moves along the table from
  the status the row has at the commit, the completion guard still holds then, an
  override is marked, and the money is settled in the same transaction.
* **Timesheets.** Totals are recomputed from entries read earlier; a week's claim is
  checked long before it is inserted. Correct when the totals are the totals, a week
  is claimed once, only on an active placement, and a decision is final.
* **Funds.** A balance is a sum over rows another call may be inserting. Correct when
  races for the last dollar of a fund do not add up, a draw is settled exactly once, and
  the application's cached figures agree with the ledger.
* **Booking, deliverables.** A move of the application carries another versioned row, and the
  two must change together. Correct when a slot is one student's, the one an application
  names, and when the deliverable and the two flags its guards read never disagree.
* **Outbox.** A message is claimed before it is sent: crashes, transient failures.
* **Sign-in, access.** Reads, judgements and writes in no transaction at all. Correct when a
  change of address ends what the old mailbox could open, whatever was under way.
* **Second factor.** Several rows, one statement each, with a stop after any of them. Correct
  when recovery codes are those of the authenticator they were issued with.
* **Lifecycles, creation, profile, retention, mentorship.** Unversioned full-row saves: the
  last one wins, from a status the row no longer had. Correct when what depends on a review
  or a verification stands on one that took place, and a purged name stays purged.
* **Consent.** Two facts read at different moments decide what record an employer is handed.
  Correct when the later one holds as it is used and the earlier one cannot be taken back, on
  every part of the page.
* **Escalation.** Several administrators and the author at once. Correct when a report has one end.
* **Outcomes, regions, credit.** Figures over dates and sums whose definition changes under
  them. Correct when a redefinition reaches back no further than it may and no hour pays twice.
* **Notification policy, read rules.** Two tables that must agree with two others, far apart
  in the code. Correct when an application never waits for somebody who has not heard of it,
  and when both data layers show the same.
* **Rate limiter.** A fixed window promises less than its limit says across its edge.

## 2. The plan

Order is by what the system would least survive getting wrong.

1. `Machine`, `Workflow`, `PlacementTables`, `Placement` (+ `MCPlacement`,
   `PlacementProofs`, `PlacementSafety`, `PlacementSteps`): applications, timesheets
   and funds with every call split at its awaits. **Done.**
2. `AtomicPlacement`: the same operations as atomic steps on the same tables, the
   specification `Placement` is meant to implement; refinement checked in the `hours`
   and `funding` runs, and proved (`PlacementRefinement`). **Done.**
3. `Booking`: slots published, booked, given back; one student per slot, a booked slot
   belongs to a scheduled application. **Done.**
4. `Deliverables`: the micro track; acceptance and completion agree. **Done.**
5. `Post`, `Outbox` (+ `MCOutbox`, `OutboxProofs`): what is promised of a message, and the
   queue, the drains and the provider that keep it; liveness under weak fairness of the
   drains and of the schedule. Built before 3 and 4 because every service depends on it.
   **Done.**
6. `SignIn` and `SecondFactor`: codes, sessions and a change of address; an authenticator and
   its recovery codes. **Done**, but for the counter of the last accepted code.
7. `Learner` and `Market`: the rows that carry no version, from registration to the purge, and
   from an employer's vetting to an application. **Done.**
8. `Mentorship`: capacity and introductions. **Done.**
9. `Disclosure` (consent), `Escalation`: two small versioned machines. **Done.**
10. `Outcomes`, `Regions`, `Credit`, `Notices`, `RateLimit`, `Visibility`: rules that tie
    tables, dates and sums of different components to each other. **Done.**
11. Proofs about the modules of 3, 4 and 6 to 10, grouped by kind of argument:
    `VersionedProofs` (`Booking`, `Deliverables`, `Disclosure`, `Escalation`), where what a call
    read is current while the version it checks stands; `UnversionedProofs` (`Learner`,
    `Market`, `Mentorship`, `SignIn`, `SecondFactor`), where the strengthening is about what
    a call under way may still write; `ServicesProofs` (`Outcomes`, `Regions`, `Credit`,
    `Notices`, `RateLimit`, `Visibility`), rules over dates, sums and tables, and the
    composition of all fifteen (`MCServices`). **Done.**

Bounds planned: two calls in flight everywhere (every race found in the code is between
two), two of each id that can collide, one more only where a third matters. Theorems
planned: type correctness and the main invariant of every module whose property holds.

## 3. What is modelled

### `Machine`
`attempt` of `domain/machine.ts`: a role and a guard, or an administrator who states
a reason. Market isolation and ownership refuse before anything is read, so callers in
the models are callers who may see the row.

### `Workflow`
The application table edge by edge with its roles and tracks, the status lists of
`domain/outcome.ts`, what a move writes to a row (`Moved`: status, furthest status,
exit date, version) and the funnel's rank of `lib/queries.ts`.

### `PlacementTables`
The state two specifications share: `apps`, `entries`, `draws`, `funds` (the four
tables) and `overridden` (what the audit log marks `viaOverride`), the rules of
`domain/timesheet.ts` and `domain/funding.ts` over their rows, and the two guards of the
standard track that need nothing but the placement.

### `Placement`
The service as it is written: those tables and `calls`, what each call in flight has read
so far.

| action(s) | code |
|---|---|
| `BeginTransition`, `BeginOverride`, `Decide`, `CommitMove` | `runTransition` / `adminOverride` -> `executeTransition`: read the row; read balances, draws, entries and ask the machine; commit row, audit mark and settlement |
| `BeginAuthorize`, `AuthorizeReads`, then as above | `authorizeFunding`: read the draws, then `executeTransition` with the draft draw as its side effect |
| `BeginLog`, `LogReads`, `CommitLog` | `logHours` |
| `BeginReview`, `ReviewReadsRow`, `ReviewReadsSiblings`, `CommitReview` | `reviewHours` with `recacheTotals` |
| `BeginCommit`, `CommitReads`, `CommitDraw` | `commitFunds` |
| `BeginRelease`, `CommitRelease` | `releaseCommitment` |
| `BeginAdjust`, `CommitAdjust` | `adjustFundingSource` |
| `Abandon` | a refusal, a `ConcurrencyError`, a unique-index violation, or the process dying before its commit |

Abstractions, and why they lose nothing the properties see:

* An entry's hours are positive and never change, so the two cached totals are the *sets*
  of entries they add up; equal sets have equal totals, and a wrong total is a wrong set.
* `fundingAuthorizedHours` and `fundingAuthorizedRate` are both whole numbers
  (`services/validation.ts`) and appear only as a product: `authorized`.
* Dates are counted in writes of the row. Two bounds end a run: `MaxVersion` on a row's version
  and `MaxFundVersion` on a fund's, which only `adjustFundingSource` counts up.
* The three reads between a move's first read and its decision are one step. They are of
  tables whose relevant rows change only together with the application's version, except
  draws and balances, for which reading later than the code does is what some code
  schedule does too.
* The unique index on (application, week) is left out on purpose: `OneLiveClaimPerWeek`
  shows the service does not lean on it. The index on live draws is in the model.
* Other funds' kinds, names, notes, notifications and the micro track's deliverable are
  left out; the table's micro edges are in `Workflow`, and `Deliverables` follows them.
* Applications begin in `Start`: a status the workflow can reach with no entry and no draw.

### `AtomicPlacement`
What a caller would like to assume: `Move`, `Log`, `Review`, `Promise`, `Release`, `Adjust`,
each one step on the rows as they are then, with no calls in flight. `Placement` maps to it
by forgetting `calls`: the tables are the same variables, so the refinement mapping is the
identity and `AtomicSpec` is itself the property. Two things are left out of it because the
service does not deliver them, and the findings show so: that a draw fits the fund at the
instant it is written, and that a move settles draws a sponsor commits while it is under way
(`settled` ranges over sets that contain every due draw with an hour cap).

### `Post`
What the notification service promises of a message, with one `fate` each: `Queue`, `Try`
(which may deliver it, once over all tries, and may or may not learn that it did), `Bury`
(reported undeliverable, and never delivered), `Forget` (only in a breakdown, which `lossy`
remembers).

### `Outbox`
`rows` is the `notification_outbox` table (`dispatched_at` is the difference between
"waiting" and "claimed"), `drains` what each drain under way holds, `accepted` and `inbox`
the provider, `noted` what the outbox screens of all processes have ever shown. The
screen itself is a capped list in one process's memory.

| action(s) | code |
|---|---|
| `Commit` | a transaction with `enqueueNotification` commits |
| `Take` | `take()`: one UPDATE claims whatever waits |
| `Render` | `dispatch` renders the next message: no template, no address, a failing read, or ready |
| `Send` | `channel.send`: a reserved domain; accepted; accepted and the answer lost; refused for now |
| `Note`, `NoteFails`, `CatchFails` | `recordFailure`, which reads the address again and may fail: once into the catch clause, twice out of the drain |
| `Requeue`, `RequeueFails` | `requeue`, whose failure is logged and no more |
| `Crash` | the process dies at any await |

The provider (`Accept`) is not in the repository. It is modelled from the comment that
relies on it: it takes a message and sends nothing more under a key it has seen, for as long as
a run lasts. (A provider that forgets keys after a day delivers a message twice when a
retry comes later than that; one that refuses a known key with another body leaves the
message to be retried until the key is forgotten. Neither is in the model.) `Alike` says which messages share kind,
recipient and subject, `Unreachable` which cannot be rendered, `Reserved` which have an
address no mail goes to. Each is constant: addresses and templates do not change between two
tries. A drain takes the messages of its batch in any order, since rows come back from the
UPDATE in none.

`Promised == INSTANCE Post WITH fate <- ...` maps a message to "queued" while it waits or is
in a drain's hands, to what was recorded of it once it is sent or undeliverable, and to
"lost" otherwise.

### `Booking`
`slots` and `interviews` are the rows of `interview_slots` and of the applications they are for,
`bookers` and `publishers` what the calls under way have read.

| action(s) | code |
|---|---|
| `CheckCalendar`, `Publish` | `publishInterviewSlots`: read the officer's calendar, then insert the batch |
| `PickSlot`, `DecideBooking` | `bookInterviewSlot`: read the slots, then `executeTransition` reads the application |
| `DecideMove` | any portal's plain move into, through or out of the interview |
| `CommitMove` | the transaction: application, and slot if there is one, each with its version |

An hour is a time at which two slots would overlap. The officer's calendar is checked and
then written, so two publications may overlap; nothing in the code says they may not.
`interview_slots_single_booking_idx` is not modelled because it refuses nothing: it is unique
on the primary key. What keeps a slot one student's is its version.

### `Deliverables`
`projects` is the application with `deliverableSubmitted` and `deliverableAccepted`, `works` the
deliverable, `hands` the calls. `BeginSubmit`, `PrepareSubmit` and `BeginAnswer`,
`PrepareAnswer` are the reads of `submitDeliverable`, `requestRevision` and
`acceptDeliverable`; `SaveWork` their transaction over both rows; `BeginMove` and
`CommitProject` a plain transition, which may complete or terminate the same placement.
`requestRevision` asks for no status of the application and takes the flag back whatever it
is. Files and messages of a hand-in are left out.

### `Learner`
One row of `students` per person with the identity on `users` (`named`, and `addressed` for the
e-mail address), `parts` (what the retention rule reads of the person's applications), `cabinet` (files), `clerks` (calls).

| action(s) | code |
|---|---|
| `BeginRegistration`, `CreateStudent` | `registerLearner` |
| `BeginStudentMove`, `BeginProfile`, then `SaveStudent` | `transitionStudent`, `updateProfile`, and the whole-row save both end in |
| `BeginPurge`, `CommitPurge`, `RemoveFiles` | `purgeLearnerIdentity`: the rule, the transaction, the files after it |
| `BeginAddressChange`, `CommitAddressChange` | `changeWorkAddress`: find the account by its address; write the address by the id found |
| `PutFile`, `ScanFile` | `receiveUpload`, `scanStoredFile` |
| `TakePart`, `EndPart`, `Lapse` | applications and years going by |

`SaveStudent` writes what was read over whatever is there: a profile edit can take a
verification back and a verification a profile edit, and a save that read the row before a
purge clears the purge mark again, which opens the files anew. The name and the address are on
`users`, which no such save writes. `changeWorkAddress` does write the address, by the id it found
several awaits earlier, with no version and no look at `purgedOn`, and it takes a learner's account
like any other: a learner's membership carries the college's organization
(`services/registration.ts:130-142`).
So a change that found the account before a purge gives a purged row an address again, though
`services/retention.ts:9` and `:47` call the purge irreversible. `PurgeHolds` says what is left
of that: the name stays gone, and those two overtaken calls are the only ones that bring anything
back. A change begun after the purge finds nobody, since the account has no address to be found by.

### `Market`
Vetting of employers, review of postings, applications of verified students. `SaveStatus` writes
`call.to` whatever the row has become, so a status can be left that was never entered from
where the machine allows it; `ApplicationsStandOnReview` says what survives that. `auditLog`
keeps of the log the two events the property is about. The guard that an open pipeline
blocks closing a posting holds on the edge from published and not on the one from filled:
the model has it so, as the code does.

### `Mentorship`
One offer: its status, the introductions, the calls. `BeginIntroduction` counts places,
`InsertPairing` meets the index of one live introduction per student, `SaveConclusion` writes
what became of it, over an outcome somebody else may have written since.

### `Disclosure`
One application of one learner to one employer: `ReadApplication` and `ShowStudent` are the two
reads of `forApplication`, with moves, consents and withdrawals between them. `ShowFromList` is the
rest of the same page: three lists (introductions, hand-ins, placements waiting for an answer
about an offer) take the learner's name from `students.list` or `students.find`, which
ask for no consent and no stage; `OnAList` says what puts a learner on one. A read that ended in
`"full"` gives the whole record, in `"named"` the name alone. `ShownWithConsentAndStage` is about the first
and only about it; that the second needs a consent too is what `domain/consent.ts:50` says and
finding 7 refutes. No caller gives a consent an expiry, so none expires here. Who may
record one is not in the model.

### `Escalation`
`Raise`; `BeginHandling` and `SaveReport` for the three other operations, which share `move()`.

### `Outcomes`
A date is its quarter, so two observations of one quarter are duplicates here, where the code
compares the instant (it lets more observations in; the host's answer is unique by itself).
`MoveOn` follows the standard track, `BeginOutcome` and `BeginHostOffer`
ask whether the placement has exited and what is on file, `CommitOutcome` writes the answer
with the observation it implies. Windows are the second and fourth quarter after exit.
`PassQuarter` waits for calls under way, since none lasts three months.

### `Regions`
`BeginRedefinition` checks that a definition takes effect after the latest and says something new;
`InsertDefinition` meets the index of market and date. `InRegion` is the question every figure asks.
"After the latest" is judged on what was read, and in relation to the latest and not to today.
Two things follow which the comments do not expect ("backdating one would rewrite figures that
have already been reported", `domain/region.ts:96`; "a figure reported in 2026 stays the figure it
was", `services/region.ts:12`). Of two redefinitions under way at once the later one to commit may take
effect before the other, and re-judges the jobs from its date to the other's. And a date that lies
in the past but after the latest definition is accepted, and re-judges the jobs recorded
since. `SupersededVerdictsStand` says how far back that can reach: verdicts of a definition that had
already been replaced, in the history the redefinition read, never change.

### `SignIn`
One account, statement by statement. Sessions, codes and challenges are told apart by their
*origin*: the address they go back to, or `Overlapping` for those of a call that was under way
while the address changed. Sets of origins stand for sets of rows with the same future, which
is why ending a session may leave its origin in the set.

| action(s) | code |
|---|---|
| `FindUser`, `PutSignInCode` | `requestSignInCode`; with `FindUserForReset`, `requestPasswordReset` |
| `ReadCode`, `RecordAttempt`, `ConsumeCode` | the code is judged, counted or used, in `verifySignInCode` and `resetPassword` alike |
| `RevokeOthers`, `FinishSignIn` | the rest of `verifySignInCode`; `verifyPasswordSignIn` goes straight to the second |
| `FinishReset`, `RevokeAll` | the end of `resetPassword` and of `setOwnPassword` |
| `CompleteChallenge`, `DropChallenge`, `EndSession` | `completeChallenge`, `answerChallenge`, `resolveSessionToken`, `endSession` |
| `CommitAddress`, `RevokeSessions`, `ConsumeCodes` | `changeWorkAddress`: the transaction, then one statement each |

What makes a password or a code right is not modelled: each is a choice. A code is used
without asking whether somebody else just did, so one code may open two sessions; nothing
in the repository promises otherwise.

### `SecondFactor`
The row of `user_totp`, the unused recovery codes and a call between two statements. A secret is
a number, a recovery code its batch and its place in it. `StopHalfway` is a process that dies
after any statement. `putRecoveryCodes` is a deletion and then insertions one by one, which
its interface in `auth/store.ts` calls a batch or nothing; the property holds all the same.
Nothing in the code keeps two calls of one account apart, and where they overlap (a removal
beside a confirmation) the codes of one can outlive its authenticator, for as long as they are
left. The history variable `overlapped` records that this happened, until the calls have ended and
no code is left; it guards nothing. `RecoveryCodesAreCurrent` excepts that time and nothing else.

### `Credit`, `Notices`, `RateLimit`
`Credit`: completed work, and awards built from it one after another with what the last one
carried over. `buildCreditAward` is called by no service yet; the model is of what it would do.
The hours carried are counted when credits are worked out and not when projects are used up,
so an award may take a project more than its comment describes. What it carries over is
`Math.max(0, consumedHours - microHoursAwarded)` (`domain/credit.ts:207`), without what was carried
in: hours carried once and not covered by the next award's projects are gone, though the
comment says the excess "carries forward rather than disappearing" (`:184-187`). The model
carries over what the code does. `PaidHoursWereWorked` says only that no hour pays twice; that none is
lost is not claimed. Sums over what was done are one recursive function, `Sums`.
`Notices`: the policy table against the transition table, on both tracks; parties are roles.
`RateLimit`: one bucket, ticks, and every request of the key; `granted` is the log of the
ticks at which one was let through.

### `Visibility`
The `WHERE` clauses of `scoping.ts` (`Selected`), what the repositories blank afterwards (`Blanked`),
and the filters of the in-memory tables (`FromMemory`), for one actor and one row. A row
carries the parties it hangs on, as joins and subqueries would find them.

## 4. The runs

| run | instance | what it shows |
|---|---|---|
| `hours` | 1 placement about to start, 2 weeks, 2 entry ids, 2 calls; transition, override, log, review; versions to 7 | cached totals, single claims, the completion guard, finality of reviews and "only while active" under every interleaving of two calls; each call takes effect at one instant (`AtomicSpec`) |
| `funding` | 1 cleared application, an open wage fund and a closed fund, 3 draw ids, 2 calls; transition, override, authorize, commit, release, adjust; amounts and allocations of 1; versions to 4, a fund's to 2 | types; the board's draw is settled with the placement; races for the last of a fund do not add up; settled draws never change; each call takes effect at one instant (`AtomicSpec`) |
| `journey` | 1 application from submission to every end, its student not eligible, 2 calls; versions to 11, the longest path of the table and one rebooking | statuses follow the table and an exit date is kept; the funnel never shrinks; eligibility is bypassed only by a visible override |
| `fund_race` | 2 commitments of 1 on a fund of 1 | **violated**: both are written (finding 1) |
| `stranded_draw` | a commitment and a placement that ends | **violated**: the draw is never settled (finding 2) |
| `ledger_drift` | a commitment, then an authorization of another amount | **violated**: row and ledger disagree (finding 3) |
| `outbox` | 4 messages (one unrenderable, one to a reserved domain), 2 drains, 2 things that go wrong | a message has one holder; what is answered stays out; nothing is delivered twice; `Post` is implemented; what waits is answered unless a drain lost it |
| `same_key` | 2 messages with one kind, recipient and subject, 1 drain, nothing goes wrong | **violated**: both are shown as sent, one arrives (finding 4) |
| `services` | fifteen components, one scene each (below) | what each promises under every interleaving of the calls of its instance |
| `name_without_consent` | 2 consents, 1 reader, 1 keeper, both tracks | **violated**: a list shows a name nobody consented to (finding 7) |
| `booked_slot_untracked` | 2 interviews, 2 slots, 1 booking and 1 publication at a time | **violated**: a slot given back stays booked (finding 5) |
| `allowed_purge_not_written` | 2 learners, 1 clerk | **violated**: the second purge the rule allows is refused by the table (finding 6) |

Two calls suffice for the races of this code: each handler checks its own row's version,
so a third call can only add another overtaking write, which `MaxVersion` still allows.
`MaxVersion` cuts a run off where a row has been written that often, after every handler
has had its turn, and `MaxFundVersion` where a fund has. Three draws are one more than two calls
may over-promise a fund of 1 by, so that the bound in `OverpromisedOnlyByRace` can be met and
passed. Ids and calls are symmetric: nothing chooses among them by name. Deadlock is not checked
because a run may stop: people need not act, rows at `MaxVersion` accept nothing, and an outbox
with nothing in it has nothing to do.

`MaxTrouble` bounds the failed reads and writes, refusals, lost answers and deaths of one run.
Two reach every failing path: a failure and another one in its catch clause, or a lost
answer and the death of whoever retries. Messages queue at any time, so two drains are under
way whenever one of them is at an await and something else commits.

**The run `services`.** `MCServices` starts in one of fifteen scenes; the component of the scene
moves and the others stay as they began. In these models they share no rows, so no behaviour
of the product of all fifteen shows a component anything its own scene does not; what is shared
between components in the code is modelled inside the module where it matters (the
application's row in `Booking`, `Deliverables`, `Disclosure` and `Outcomes`).

| scene | instance | what it shows |
|---|---|---|
| booking | 2 applications of 2 students, 2 slots, 2 hours, 2 bookings or moves and 1 publication under way, 3 moves of each application | `HeldSlotIsBooked`: one application names a slot, and the slot is booked for its student |
| deliverables | 1 project, 2 calls, 2 rounds, 5 writes of the row | `FlagFollowsTheWork`, `AcceptanceCompletes`: the flags, the hand-in and the status agree |
| learner | 1 person, 1 registrar, 2 calls, 1 file, 6 saves; registration, verification, profile, purge, change of address, upload | `VerificationIsAttributable`, `PurgeHolds` |
| market | 1 employer, 1 posting, 1 student, 2 calls | `ApplicationsStandOnReview` |
| mentorship | 3 students, 3 introductions, 2 calls, 1 place | `PlacesOverbookedOnlyByRace` |
| disclosure | 2 consents, 1 reader, 2 keepers, both tracks, introduced or not | `ShownWithConsentAndStage`, `WithdrawalIsTheEnd` |
| escalation | 2 reports, 2 authors, 2 calls | `ClosedReportStaysClosed` |
| outcomes | 4 quarters, 2 calls, 1 observation | `HireIsCounted`, `FollowUpsKeepTheirQuarter` |
| regions | 2 counties, 2 redefinitions at once, dates to 3 | `SupersededVerdictsStand` |
| sign in | 2 calls, 1 change of address, 1 wrong code until refusal | `OldAddressOpensNothing` |
| second factor | 2 calls at once, 3 secrets, batches of 2, a stop anywhere | `RecoveryCodesAreCurrent` |
| credit | 3 hours a credit, 4 pieces of work of 1, 2 or 4 hours | `PaidHoursWereWorked` |
| notices | both tracks | `TurnIsKnown` |
| rate limit | limit 2, window 3, 7 ticks: two whole buckets and their edge | `GrantsInAnyWindow` |
| visibility | 2 markets, one of them a showcase, 2 organizations, 2 accounts, every actor and every row | `LayersShowTheSame` |

Where a handler's calls are many and alike (`Booker`, `Clerk`, `Desk`, ...) two are under way,
for the reason above. Rows whose number matters have as many as can collide: two applications
for a slot, three students for one place (two race, one is there already), two definitions on
one date. The learner is alone because nothing but the address ties two learners together, and
that is the run `allowed_purge_not_written`. The clocks run long enough for every branch: four
quarters reach a window that is waiting, due, answered and missed, seven ticks a bucket after
a bucket. `MaxAddress` is one change because a second one meets the same three statements again.

**Fairness** is assumed for `Outbox` alone; nothing in the other components is obliged to happen,
and no property of theirs says something does.
`WF(Runs(d))`: a drain under way runs on, because its loop awaits calls that answer or
throw; dying is `Crash`, which takes it out of the loop. `WF(Sweep)`: while something
waits, some drain eventually starts, because `vercel.json` schedules the cron route. Most write
paths drain too when they have committed, though not every one, as the route's comment has
it: a booking, a hand-in and its answers and a report leave their messages to somebody
else's write or to the schedule. It says nothing of how soon. `QueuedIsAnswered` also
rests on the bound: a message the provider refuses for ever is retried for ever, and the
code has no limit of attempts. Its premise, that no drain lost what it held, is needed:
the code has no recovery for claimed rows.

### Findings

1. **A fund can be over-promised.** `commitFunds` checks the balance over draws it read
   and inserts without touching the fund's version (`services/funding.ts:201-240`); two
   commitments that each fit are both written. The comment at line 156 says one that
   would not fit is refused. How far it goes is bounded: a fund that is over-promised turns
   every further call down, so it never promises more than one largest allocation for each
   call in flight at once (`OverpromisedOnlyByRace`, proved).
2. **A draw can outlive its placement.** `commitFunds` does not ask whether the placement
   is over, and the settlement covers the draws read before the transaction. The comment
   in `executeTransition` promises that an ended placement has spent or given back its
   commitment. The draw the board itself authorizes is immune
   (`AuthorizationSettledWithPlacement`, proved): creating it moves the row's version.
3. **The authorized figures can disagree with the ledger.** `authorizeFunding` keeps a live
   wage draw it finds, whatever its amount, and writes its own figures to the row, which
   `domain/types.ts` calls a cache of the ledger.
4. **Two messages can share an idempotency key.** `idempotencyKey` is kind, recipient and
   subject; what it names `application` is the recipient again. Two applicants to one
   posting give the employer two messages with the same three. The comment above it says
   the key is distinct between messages and contains the application.
5. **A slot given back stays booked.** The table lets an application go back to rebook
   (`domain/workflow.ts:130`) and no code clears the slot's student: it is booked for an
   application that is not scheduled, and a rebooking takes a second slot. The comment in
   `bookInterviewSlot` says that a booked slot with an unmoved application is a placement
   nobody is tracking; the transaction it explains prevents one way of getting there.
6. **Only one learner is ever purged.** A purge empties the address (`domain/retention.ts:218`) and
   `users.email` is unique: the second purge is refused by the table, though the rule
   allows it and the administrator's list goes on offering it.
7. **Lists show names without a consent.** The record beside an application goes through
   `forApplication`, which asks for stage and consent. The same page takes names from
   `students.list` (`app/demo/business/page.tsx:122`, shown with hand-ins at 348-388 and with
   introductions at 829-847) and from `students.find` (`lib/queries.ts:552`, shown at 480 and 492), which
   ask for neither. `domain/consent.ts:50` says that without the consent an employer sees
   an abbreviated name.

## 5. What is proved

### Placement

For any number of applications, entries, weeks, funds, draws and calls in flight, with
only `PlacementAssumption` (the wage fund is an open fund of the market, amounts are
positive, the start is a status before the placement; `CallAssumption` names the handlers and
gives the bounds of the runs their types, and no proof needs those):

| theorem | property |
|---|---|
| `PlacementProofs!TypeCorrect` | `TypeOK` |
| `PlacementSafety!Safety` | the inductive invariant `IInv` |
| `PlacementSafety!CachedHours`, `OneClaim`, `ReviewedAtCompletion`, `SettledAtTheEnd` | `CachedHoursMatchEntries`, `OneLiveClaimPerWeek`, `CompletedWeeksAreReviewed`, `AuthorizationSettledWithPlacement` |
| `PlacementSteps!LoggedWhileActive`, `ReviewedOnce`, `TableFollowed`, `SettledForGood`, `FunnelMonotone` | `HoursOnlyWhileActive`, `ReviewIsFinal`, `StatusFollowsTable`, `SettledDrawIsFinal`, `FunnelNeverShrinks` |
| `PlacementSteps!IneligibleOverridden` (where `Start` is before the interview) | `IneligibleNeedsOverride` |
| `PlacementSteps!OverpromiseIsBounded` (for finitely many calls) | `OverpromisedOnlyByRace` |
| `PlacementRefinement!CallsAreAtomic` | `AtomicSpec` |

**The argument.** None of the promises is inductive: each depends on what calls in flight
hold. `Honest(call)` says of every kind of call that what it read is still true *as long
as the version it will check has not moved*: the row is the current one, the entries of
the placement are those it saw, the week is still unclaimed, the entry still submitted, no
authorization escaped its reading of the draws. `TablesAdvance` says what every step does to
the tables: a row that changes gets the next version, and what belongs to a placement
changes only together with its row. `HonestyKept` shows the second preserves the first,
once for all actions; each commit lemma then uses honesty at the moment the version check
passes (`UnmovedRowIsCurrent`) to establish the promises anew. `DrawsAreSettledOnce`
(an authorized draw has never been rewritten) is what lets a settlement that read a draw
conclude it read the current one. `PlacementSteps` adds `Annals`: the furthest status is the
status until a terminal one, and paid-out draws belong to placements that have exited for
good, so no later move gives paid money back.

`PlacementRefinement` shows that each commit is one action of `AtomicPlacement` on the rows as
they are when it commits. Honesty supplies the entries and the rows; `WellAsked` adds what a
call was asked to do (its amount, its open fund) and what the machine found out from the row
it holds; `DueIsAuthorized` shows that whatever a move settles was still merely authorized, so
a draw the board created, once read, is the one that is there.

That a fund promises no more than it holds is *false* of two concurrent calls (finding 1).
What is true, and proved in `OverpromiseIsBounded` for any interleaving of any finite number of
calls, is that races do not add up. The strengthening is `Ledger`, of which `Room` is the heart:
while k of n calls have found room in a fund and not yet written, either n - k largest
allocations cover what is promised, or n - k + 1 of them cover it with the amount of one of
those k. A call that finds room found it beside everything promised at that moment, so the
second half holds of it whatever the fund's history; a call that writes spends its own amount
and frees one allocation by no longer asking. A call may hold an allocation that was cut since,
so `Prudent` keeps of it only that it is no more than the largest. The rest is about the sum:
the draws of a fund may be any finite number, and the total of a fold over a set does not depend
on the order it takes them in (`TallyInAnyOrder`), so a draw that is given back leaves its fund
committed to no more (`CommittedToFewer`) and a new one to its own amount more
(`CommittedToOneMore`).

### Outbox

For any number of messages, drains and troubles, and any `Alike`, `Unreachable`, `Reserved`:

| theorem | property |
|---|---|
| `OutboxProofs!TypeCorrect`, `OneDrain`, `StaysOut`, `AtMostOnce` | `TypeOK`, `HeldByOneDrain`, `AnsweredStaysOut`, `DeliveredAtMostOnce` |
| `OutboxProofs!Sound` | the inductive invariant `IInv` |
| `OutboxProofs!ImplementsPost` | `KeepsThePost` |

**The argument.** `Grip(d)`: what a drain holds is claimed and unanswered, the message it is
at is not in the rest of its batch, and it gives up only what can never be sent.
`HeldApart`: no message is in two hands. Then a claim takes only what nobody holds, and a
message given back is held by nobody else. `Books(m)` ties the records, the inbox and the
provider's keys: what was delivered is under an accepted key, so a second acceptance
delivers nothing; what can never be sent never arrived. For the refinement, `KeptFates` and
`DroppedFates` say which fates a step can change from what the drain holds before and after
it, and each action is then one step of `Post` or none.

### Rows with a version

For any number of rows and calls, with only the assumptions of each module:

| theorem in `VersionedProofs` | property |
|---|---|
| `HeldSlotsAreBooked` | `HeldSlotIsBooked` |
| `FlagAlwaysFollowsTheWork`, `AcceptanceAlwaysCompletes` | `FlagFollowsTheWork`, `AcceptanceCompletes` |
| `ShownOnlyWithConsent`, `WithdrawnForGood` | `ShownWithConsentAndStage`, `WithdrawalIsTheEnd` |
| `ClosedForGood` | `ClosedReportStaysClosed` |
| `BookingInvariant`, `DeliverablesInvariant`, `DisclosureInvariant`, `EscalationInvariant` | the inductive invariants |
| `BookingTyped`, `DeliverablesTyped`, `DisclosureTyped`, `EscalationTyped` | the type invariants |

**The argument.** As for placements: `BookerHonest`, `HandHonest` and `HandlerHonest` say that
what a call read is the row while the version stands, and that what it will write goes with
what it read. Two rows in one transaction need both to be current. A booking picked a slot that
was free: while its version stands nobody else has taken it, which gives `OneHolder`. A
hand-in or an answer holds the deliverable and the application (`Consistent`), so the two
flags and the work's status change together; a plain move (`PlainMove`) keeps the flags and
never leaves an ended status, so accepted work stays on an ended placement. In `Disclosure`
the stage and the consent are read one after the other, and a version protects neither
reading: what does is that the stages which release a name are never left for one which does
not (`FullStands`), and that a consent is written at most twice, so a withdrawal under way
is of the one in force or of none (`ConsentWritten`).

### Rows without one

| theorem in `UnversionedProofs` | property |
|---|---|
| `VerifiedBySomebody`, `PurgedForGood` | `VerificationIsAttributable`, `PurgeHolds` |
| `AlwaysReviewed` | `ApplicationsStandOnReview` |
| `OverbookedOnlyByRace` | `PlacesOverbookedOnlyByRace` |
| `OldAddressIsClosed` | `OldAddressOpensNothing` |
| `RecoveryCodesStayCurrent` | `RecoveryCodesAreCurrent` |
| `LearnerInvariant`, `MarketInvariant`, `MentorshipInvariant`, `SignInInvariant`, `SecondFactorInvariant` | the inductive invariants |
| `LearnerTyped`, `MarketTyped`, `MentorshipTyped`, `SignInTyped`, `SecondFactorTyped` | the type invariants |

**The argument.** What a call read may be gone when it writes, so each invariant says what the
write can no longer undo. `ClerkHonest`: a save carries a dated row; if it verifies nobody, the
columns of the row on file still name who did, and those it never clears; if the row was purged,
the name is gone, and no save writes names. `DeskHonest`: the log, which only grows, already
accounts for what a call is about to save, or the save will. `PlacesPromised` counts live introductions and
calls under way together: a call joins only below the capacity, so at most all but one of
the others can be beyond it. `CallerCurrent` and `CodeCurrent`: while an address is being changed
no call goes back to the old one, unless it overlaps the change and is marked so, and each
statement of the change closes one kind of door. `EnrollerHonest`: a call issues codes of the
secret that is confirmed and removes it after its codes. It is *not* true of two overlapping
calls of one account, so `SecondFactorInv` has it, with "one call at most" and "no codes but the
confirmed authenticator's", where `overlapped` is not set (`FactorSound`); when the
calls have ended and no code is left, all of it holds again of the row as it is. The theorems
have no hypothesis on how many calls there are.

### Rules, and the composition

| theorem in `ServicesProofs` | property |
|---|---|
| `EveryHireIsCounted`, `FollowUpsStay` | `HireIsCounted`, `FollowUpsKeepTheirQuarter` |
| `SupersededVerdictsStay` | `SupersededVerdictsStand` |
| `NoHourPaysTwice` | `PaidHoursWereWorked` |
| `TheTurnIsKnown` | `TurnIsKnown` |
| `TwiceTheLimitAtMost` | `GrantsInAnyWindow` |
| `TheLayersAgree` | `LayersShowTheSame` |
| `ServicesTyped` | `ServicesTypeOK` |
| `ServicesCompose` | the composition implements the specification of each of its parts |
| `OutcomesInvariant`, `RegionsInvariant`, `CreditInvariant`, `RateLimitInvariant` | the inductive invariants |

**The argument.** `Outcomes`: a call about to record a hire brings its observation or found it
on file. `Regions`: definitions are only added, so what a redefinition read is still on file when it
inserts, and its date is later than all of it (`RedefinerHonest`); a verdict it changes was
given by the last definition it read or by one it did not read. `Credit`: work may be of any
length; a function with the recursion of `Sums` exists and is the one, and what holds of all sums is shown at the
least length where it would fail (`Reaches`, from the well-foundedness of the numbers), which
needs no operator as a parameter. `RateLimitInv` says where the grants stand: those of this bucket come last and
before its end, the limit before them may be of the bucket before, and all earlier ones are
more than a window older than this one's opening; two grants twice the limit apart are
then never in one window. `Notices`: every edge of the tables of both tracks is compared with
who is told of it. `Visibility` has no history: the scopes and the filters are compared actor
by actor for any row. `ServicesCompose` rests on `ScenesMoveOne`: a step of the composition is a step of
one part and leaves the others as they are.

### What stays with the model checker

`QueuedIsAnswered` is liveness under fairness, which is out of this prover's reach. Every other
property of a passing run is stated by a theorem. The properties of the seven violated runs are
false of the code as it is.

Five of the checked properties hold on one side of a boundary only, and say so:

* a fund is over-promised, but by no more than one largest allocation for each call in flight
  at once (`OverpromisedOnlyByRace`);
* mentors are overbooked by introductions under way at once, up to their number
  (`PlacesOverbookedOnlyByRace`);
* what a call that overlapped a change of address leaves behind survives it, and so does a
  session whose second factor was already being asked for, since no statement revokes a
  challenge (`OldAddressOpensNothing`);
* codes of calls of one account that overlapped may outlive their authenticator
  (`RecoveryCodesAreCurrent`);
* a purged row may regain an address, and its files, from a call that read it before
  (`PurgeHolds`).

## 6. What is not modelled

* What makes a code, a password or an authenticator's answer right, and the counter of the
  last accepted answer (`domain/totp.ts`): cryptography and clocks.
* An administrator's adding of a member (`addOrganizationMember`) writes one user and one
  membership that no other model reads; a follow-up nudge is one more transaction that queues
  a message, which `Outbox` has.
* The text and privacy of messages, templates, e-mail transport, rendering, every page and
  component of the user interface: no state of their own.
* The figures of `lib/queries.ts` and of the consoles, but for the funnel's rank and the list of
  what stalls (`Notices`). `BLOCKED_ON` says of every application in mutual interest that
  the student has booked no interview, also on the micro track, which has none;
  `TurnIsKnown` states that half for the standard track.
* Seeds, scripts, configuration, and migrations as such: a constraint is modelled where a
  handler meets it.

The figures, pages, templates, seeds and scripts are most of the repository's lines, and the
reason why the share of lines the models stand for stays below a third: they hold no rule of
their own that a state could break. The market and ownership refusals change nothing and are
in `Visibility` as what an actor is shown.
