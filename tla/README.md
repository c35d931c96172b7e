# Verification of GolfRaven

GolfRaven records the golf courses its players have played. A phone app records
a play (a check-in with a location fix, or an import of old rounds) into an
outbox, a Supabase backend takes the plays in, scores them and unlocks rewards,
partners redeem the rewards. This directory holds TLA+ models of the parts of
that system whose correctness depends on the order in which things happen, the
TLC runs that check them, and proofs checked by TLAPS.

Paths below are relative to `src/`; `mobile/` is `apps/mobile/src/` and
`functions/` is `supabase/functions/_shared/`.

## 1. Inventory

The app is JavaScript: between two `await`s code runs without interruption, at
every `await` anything else may run, and the process may be killed at any
point, after which only the SQLite tables and the secure store are left. The
server is a set of stateless HTTP handlers over Postgres, each mostly one
transaction.

| Component | State | Operations | Talks to | What is hard, what must hold |
|---|---|---|---|---|
| Assertion lock, `mobile/attest/mutex.ts` | promise chain per key; per call: in-flight count, aborted, settled | `run`, `check`, `effect`, `settle`, hold timer, settle bound | redeemer, activator | timeouts against hung calls, nested and re-entrant calls; assertion requests must not overlap, and every caller gets an outcome |
| Redeemer, activator, attestation state, `mobile/attest/*` | key record, unattested key, registration backoff, recovery cooldown, mark | redeem a challenge, register a key, activate a reward | lock, native App Attest / Play Integrity, server | crash between server and local record; a device that has attested must never send a token-less request; a refused key must not become a loop of registrations |
| Outbox, `mobile/outbox/*` | rows with a status, an owner, a payload | enqueue, pass, batch, mark, apply an answer, recover, expire | evidence sender, session, catalog | users switch inside a pass, requests outlive their time limit, crashes; a play counts once, for its owner, and is settled in the end |
| Evidence sender, `mobile/evidence/*` | payload with held and redeemed challenges | redeem, persist, post, batch | outbox, redeemer, server | a replay must repeat what the server recorded |
| Evidence intake, `functions/evidence/*` | evidence rows by (user, source_ref) | submit, submit a batch, replay | catalog registry, challenges | idempotency against moving catalogs and expiring challenges |
| Challenge and token endpoints, `functions/checkin/*` | challenge rows | issue, redeem | `privileged.ts` | cap of open challenges, repeated redemption |
| Challenge pool, `mobile/challenges/*` | `checkin_challenge` rows | top-up, live acquire, consume, purge, wipe | server, check-in, markers | a shared pool used across awaits; one fix per challenge |
| Check-in, `mobile/checkin/*` | locals of the flow | tap, live challenge, fix, match, pick, enqueue | pool, outbox, session | everything read before the location prompt is stale after it |
| Markers, `mobile/marker/*` | marker records | capture, scan, drain | pool, session, server | cap and reserve read before awaits |
| Account deletion, `mobile/account/delete.ts`, `functions/me/*` | the local stores; provider grants | delete at the server, wipe store after store | all stores | flows of the deleted account are still running |
| Session and sign-in, `mobile/auth`, `mobile/signin`, `functions/signin/*` | session; identities, provider grants, revocation queue | sign in and out, link, unlink, revoke with leases | all | the user changes at any await; each grant is revoked at least once; the last method of an account stays |
| Account linking, export, age gate | consent, link state | link, export, answer | session | short sequential flows |
| Catalog client, `mobile/catalog/*` | cached catalog, floor, revoked set, update requirement: four rows | load, refresh, reset | server | crash or a failing write between the rows; the floor never sinks, nothing revoked is shown |
| Catalog import, drain, re-scoring, `functions/catalog/*` | registry of versions, queued plays, re-score backlog with cursors | import, drain, re-score | evidence | time budgets, partial runs, intake that commits behind the cursor |
| Offline codes, `mobile/offline-code`, `functions/me/offline-seed-handler.ts` | TOTP seed | provision, show, rotate | partners | counters and clock skew |
| Rewards, `functions/rewards/*`, `mobile/rewards` | unlocks, codes and the budget of their offers, attest keys | register a key, activate, hold, review | redeemer, partners | assertion counters, double activation, a cap shared by transactions |
| Partner backend, `functions/partner/*` | PINs, sessions, stock, offers | sign in, redeem, settle | rewards | lockouts, stock at its limit |
| Marker scan, `functions/course-qr/*` | scans | scan | challenges | one co-signal per challenge |
| Receipts, retention, exports, roll-ups | files, old rows | upload, purge, refresh | storage | periodic jobs |
| SQL schema, `supabase/migrations`, `functions/privileged.ts` | all tables | transactions, triggers | handlers | advisory locks, the money path |
| Rules, catalog, matching, import packages, `packages/*` | none | pure functions | server, app | completion rules, version ledger; geometry in floating point |
| Partner PWA, public site, landing page, sign-up worker, tools | little | rendering, mailing list, CI | server | out of scope or last |

`PROJECT.json` lists each with its files and whether it is modelled, and under
`hazards` the places where the order of events bites.

## 2. Plan

Done:

1. `KeyedMutex` with `AssertionLock`, and `KeyedMutexProofs`: everything that
   talks to the server with an assertion goes through this lock.
2. `Outbox` with `PlayLedger`, and `OutboxProofs`: a play from the device's table
   to the server's.
3. `CheckIn` and `CheckInProofs`: where plays come from, the challenge pool they
   share, and the deletion of an account under running flows.
4. `AttestKey` and `AttestKeyProofs`: what runs under the lock, with the key
   record on the device and the key registry of the server.
5. `CatalogCache` and `CatalogCacheProofs`: refresh, load and reset of the signed
   catalog.
6. `Rescore` and `RescoreProofs`: the re-scoring of a course against live intake.
7. `SigninGrants` and `SigninGrantsProofs`: linking, unlinking, deletion, and the
   revocation queue.
8. `OfferBudget` and `OfferBudgetProofs`: the money path, lock by lock.

To do, in this order:

9. The hand-over of physical stock (migration 0058) and the offline redemption
   of a code (0062, 0063), which share rows with `OfferBudget`.
10. The marker drain with the scan endpoint; PIN lockouts and sessions of the
    partner console; the intake's cap of queued plays.
11. Pure rules (`packages/rules/src/completion.ts`, the version ledger of
    `packages/catalog`) as operators against reference definitions.

Modules that are proved about have no RECURSIVE operator, one action per
operation, and named assumptions on their constants.

## 3. The modules

### KeyedMutex: the assertion lock

`mobile/attest/mutex.ts` for one key. A call is one `run(key, fn)`.

- `tail` and `ahead` are the promise chain: `tail = prev.then(() => held)` stands
  for the set of calls whose `held` it waits for. `Acquire(c)` is the
  continuation after `await prev`, enabled once all of `ahead[c]` are released.
- `fn` is any program that follows the guard protocol: `Resume` lets it go on
  from one await to any next one (a read, a native call after `check()`, a
  guarded request, a settle write after a request, a nested `run`) or settle.
  What the redeemer and the activator do is one of these programs.
- `HoldTimeout`, `SettleBound` are the two timers; `AbandonIfIdle` and
  `SettleCall` are the functions they share with the normal end.
- `Forget` lets the name of a finished call stand for a later one, so three
  names mean an unbounded sequence of calls.

`AssertionLock` says what the lock is for: requests never overlap, and a flow
that has settled starts none. `KeyedMutex` implements it (`SerializedRequests`).

### Outbox: from the device's table to the server's

`mobile/outbox/runner.ts`, `machine.ts`, `mobile/evidence/send.ts`, and of the
server `functions/evidence/handler.ts`, `batch-handler.ts` and
`functions/checkin/token-handler.ts`.

- `row` is the SQLite table; the rest of the device state is lost in `Crash`.
- `pc` is the await at which the running pass stands: the list (`batch`, `item`,
  `rematch`), the token, the write of `sent`, the redemption of one challenge
  after the other, the write of what was redeemed, the request, the catalog
  refresh, the write of the answer. The awaits before the list is complete
  (`runner.ts:124-158`: list, recover, expire, list again) are one step,
  `StartPass`, which writes rows of the pass's user only. `chain` is the
  runner's single flight: a pass for another user waits behind it.
- `wire` is the request the pass waits for; when its time limit passes, the
  request moves to `late` and can still reach the server (`Arrives`).
- `Intake` follows the handler's order: existing row, body comparison, catalog
  skew, ids, insert. A body is its catalog version and its redeemed challenges,
  which is what the server's hash tells apart between two sends of one play.
- `World` holds what the pass does not do: sign-ins, crashes, time, catalogs
  moving on both sides, expiring challenges, and the drain of queued plays.

`PlayLedger` is the promise of both sides together: a play is recorded at most
once, what the device shows is what the server keeps, and a play the device has
given up on is not recorded afterwards.

### CheckIn: from a tap to a record

`mobile/challenges`, `mobile/checkin/flow.ts`, `mobile/evidence/enqueue.ts`,
`mobile/outbox/enqueue.ts`, `mobile/marker/capture.ts`, `scan.ts`, and
`mobile/account/delete.ts`.

- `chal` is the server's challenge table, `pool` the device's: a row is absent,
  usable or consumed. `fill[u]` is the top-up of one user's pool, whose answer
  may be stored long after the user has left.
- `flow[f]` is one run of the check-in, of a marker capture or of a marker scan,
  with its owner bound at the tap. `covered` is what the server later decides
  from the fix's own time: the challenges received before it and not expired.
- `items`, `markers`, `scans` are the records flows leave behind. The row of a
  check-in is two steps: `Enqueue` reads the session (`outbox/enqueue.ts:35`) and
  binds `row`, and `InsertItem` is the transaction of `insertIfAbsent`
  (`outbox/store.ts:113-128`), which commits whoever is signed in by then, or
  fails. `GiveUp` ends a flow without a record.
- `WipeSession`, `WipeOutbox`, `WipeChallenges` and `WipeMarkers` are the steps of
  `delete.ts`, in its order, with an await after each. `racing` remembers the
  flows whose insert for the doomed account was under way when its session was
  cleared. A wipe of which a step fails goes on and is reported partial:
  `WipePartly` takes any of its steps, the clearing of the session among them, at
  once, and nothing is promised of it.
- To keep the states few, a challenge of a deleted account keeps only its owner
  and its expiry, and one expires (`Lapse`) only where an expiry is still read.
- One facility and one day: that is the scope of the pick guard, the marker
  cap and the check-in.

### AttestKey: what runs under the lock

`mobile/attest/redeemer.ts`, `activator.ts`, `state-store.ts`, and of the server
`functions/rewards/attest-key-handler.ts`, `attestation-evidence.ts` and
`functions/checkin/token-handler.ts`. One install, one account, either platform.

- `flow` is the holder of the lock (`KeyedMutex` says there is at most one) with
  its `pc`: reading the record, generating, attesting, noting, registering,
  presenting an assertion, the request, its settle writes.
- `rec`, `unattested`, `backoff`, `cooldown`, `mark` are the rows of the secure
  store, `enclave` what the phone holds; `skey`, `retired`, `shown`, `token` are
  the server's. `RegisterAnswer` and `GradesOf` are the two decisions it makes.
- A refused key is two writes, each an await of its own: `ForgetKey` takes the
  record back and `RefusedKey` sets the backoff (`redeemer.ts:452-453`).
- `Stop` ends a flow at any await (abort, death, failing store). A request that
  was given up on stays in `late` and may be handled later (`ArrivesLate`). A
  write that was pending (`Begun`: a plain one before a request, or a settle
  write past its bound) stays in `limbo`, with the key it writes, and may land
  under any later holder, fail, or never settle (`LandsLate`). `Follows` is what
  the abandoned flow still goes on to write.
- `forgot` is a history variable: the device has lost what it knew, in one of
  the three ways section 4 lists.

### CatalogCache: the signed catalog

`mobile/catalog/manager.ts` over `store.ts` and `verify.ts`.

- A catalog is its version; `lineage` gives the key that signs it, the keys it
  revokes and the build it needs. The publisher never signs with a key it has
  revoked; any version may be served at any time.
- `floor`, `revoked`, `req` and `cache` are four rows written one after the
  other; `pc` is the write that is next. `exclusive` in the code is why there is
  one `pc`.
- `best` is what the module remembers and the code does not: the newest version
  verified since the floor was last discarded.
- `halfDone` names the two steps a failing store may leave half done.

### Rescore: a pass against live intake

`functions/catalog/rescore-orchestrator.ts` with the SQL of migrations 0026 and
0030 and `functions/evidence/handler.ts`.

- A play has the time at which its transaction began as its `created_at`, and is
  visible once it commits, at most `TxMax` later. `stale` means scored from the
  catalog before the import.
- `row` is the backlog row. A pass works on the copies of the rows it listed at
  its start: `pass[w].copy` is the one it is at, `todo` are those still to come.
  Every database call is a step, and writes a row by its id alone.
- A page shows nothing of a course whose row is closed: the policy
  `pd_rescore_play_read` (0030:181-184), not the statement, says so.
- `grace` counts down `RESCORE_SWEEP_DELAY_SECONDS`; `Rewound` is the sweep's
  overlap. Clock values are relative and the clock saturates, so time needs no
  end.

### SigninGrants: the revocation queue

`functions/signin/methods-handler.ts`, `revocation.ts`,
`functions/me/delete-orchestrator.ts` and migration 0035. One account.

- A grant is live at Apple from the exchange of its code (`Exchange`), before
  anything is stored. The transaction that changes the account is two steps,
  what it reads under the advisory lock and what it commits.
- `queue` is the table; `job[r]` is what a runner (a request, or the scheduled
  drain) has claimed. A lease or a wait that has run out is a matter of `Tick`.
- `owed` remembers the grants that were stored before a deletion had committed;
  a link that commits after it is the race which 0037:31-41 documents.

### OfferBudget: codes, offers, plays

Migrations 0017, 0027, 0032, 0033, 0060 and 0061, called by
`functions/rewards/activate-handler.ts` and the partner endpoints.

- A transaction under READ COMMITTED is what Postgres makes of it: rows locked
  one at a time in the order of the statement (`Lock`), reads of committed rows
  when a statement starts, all writes visible at the commit. `tx[t].todo` are
  the locks the current statement still needs, `at` the statement after it.
- A row whose predicate no longer holds when the wait is over is skipped, as
  `SELECT ... FOR UPDATE` and `UPDATE` do.
- `Guarded` is the deferred constraint trigger, which reads the play at the
  commit. `Abort` is a timeout, a deadlock or a lost connection at any point.
- The decision table of an activation, staff presence and the attestation of a
  till are free choices.

## 4. What the runs check

All runs end with the state space exhausted, except the three that expect a
violation. `CHECK_DEADLOCK FALSE` is set for `Outbox`, `CheckIn` and
`SigninGrants`: the plays, taps, requests and faults of an instance are finite,
so the system may really stop. The others are checked for deadlock.

| Run | Checks | Instance |
|---|---|---|
| `mutex` | `TypeOK`, `OneHolder`, `HeldUntilAnswered`, `SerializedRequests`, `EveryCallSettles` | 3 calls, re-used for ever |
| `outbox_accounts` | `TypeOK`, `PlaysBelongToOwner`, `OnlyOwnersPassRewrites`, `KeepsPlayLedger` | 2 imports of one user in batches of 2, one refused, a play of another user, 2 passes, 1 fault, failing writes |
| `outbox_live` | `ReplaysIdentical`, `EveryPlaySettles` | 1 check-in with 2 fixes, 1 deferral, 2 catalogs, 2 faults, no failing writes |
| `checkin` | `TypeOK`, `SpentOnce`, `OpenCapKept`, `ChallengeCoversFix`, `NoPlayOfDeletedAccount` | 1 user who signs out and in and deletes the account, 2 flows of any kind, 3 challenges, cap 2 |
| `attest` | `TypeOK`, `OneRecoveryPerCooldown`, `NeverTokenLess`, `ComesToAgree` | both platforms, 5 keys, 1 challenge renewed for ever, 1 reward, 3 faults |
| `catalog` | `TypeOK`, `ScreenTrusted`, `NoRollback`, `RequirementKept`, `ComesToNewest` | 3 versions, 2 keys of which one may be revoked, 2 builds, every honest history, 2 faults |
| `rescore` | `TypeOK`, `AllRescored`, `NothingSkipped`, `EveryCourseCloses` | 3 plays of 1 course, pages of 2, a budget of 2, `TxMax` 1, delay and overlap 2, 1 fault |
| `signin` | `TypeOK`, `NoGrantLost`, `LastMethodKept`, `ReportsAreTrue`, `QueueDrains`, `DeletionEnds` | 1 link, an unlink of each method, 1 deletion, the drain, 1 fault |
| `offers` | `TypeOK`, `BudgetBalances`, `IssuedIsPayable`, `OneLockOrder`, `HeldPlayPaysNothing` | 2 sessions, 3 codes on 2 offers (one shared), 2 plays, 2 users, caps of one code |

Why these bounds are enough. Three calls are the least with a holder, a waiter
behind it and a newcomer whose tail the first two may delete. In the outbox two
users make every cross-account step possible, two passes make the chain of the
single flight, two imports a batch that is refused half way; two fixes make a
payload that is redeemed in part; one deferral reaches the limit and the step
beyond; two catalogs make a stale version; two faults allow a crash after a lost
answer. Three challenges with a cap of two fill the pool, leave one to be issued
live, and let a lost answer eat the cap. Three faults let the attestation of a
device be lost, repeated late and forgotten by the server in one behaviour; with
five keys it can be replaced three times while a late write names another.
Three versions give a refresh something to be behind and something to be ahead
of. Three plays overfill a page, and the delay and the overlap exceed `TxMax` as
the code's 15 s exceed its 12 s. One user is enough for the check-in because the
proofs cover any number of them and `checkin_owner` has two. One link, two
unlinks, a deletion and the drain are one request of every kind and two of the
kind that races with itself. Two sessions make every ring of two; the codes make
each session want an offer the other has, and a cap that covers one of two codes.

`outbox_accounts` has failing writes and one fault. With two faults
`KeepsPlayLedger` does not hold there: the write of a redeemed challenge fails, the
play is recorded, the app dies, the challenge expires, and the next attempt goes
without it and is refused as a different body, so that the device gives up on a
play which counts. This is the first of the disagreements listed below, and why
the proof of the refinement assumes a store that keeps what it is told.

Symmetry is used over challenges, flows, courses and users in `CheckIn` and over
sessions in `OfferBudget`, where only invariants and action properties are
checked and no definition tells the members apart.

Every property has a mutant in `PROJECT.json`: a plausible error in the code (a
forgotten check, a missing persist, an answer order swapped) that the run then
refutes.

### Where code and text disagree

Three runs check a sentence of a comment or a test, and TLC finds a behaviour of
the code against it. The details are under `findings`.

| Run | Sentence | What happens |
|---|---|---|
| `checkin_owner` | `test/checkin-owner.test.ts:2`: a switch never books the play to the other account | the session is read again after the awaits of the enqueue |
| `rescore_overlap` | `rescore-orchestrator.ts:50-54`: a course is not closed before it has been scanned to the end once more | of two overlapping passes, one writes its cursor over the other's rewind; the course is closed without the sweep |
| `offers_hold` | 0017:464-468: a hold moves every code behind the play, so the guard can never be stale | the cascade skips a code that is held in its snapshot, while an approval that issues it is about to commit |

The others met while modelling have no run of their own. Where a property would
fail because of one, the property names the exception, or the instance leaves
the case out, as said here.

- `send.ts:10-20` says the jti is persisted before the request. A failed write
  is swallowed (`send.ts:105`); after a crash the replay differs from what is
  recorded. `outbox_live`, which checks `ReplaysIdentical`, has no failing
  writes; `outbox_accounts` has.
- `match.ts:11` allows one pick per facility and date, `capture.ts:27-28` one
  marker and a reserve. The guards are read at the tap (`flow.ts:167`,
  `capture.ts:86`, `119`) and two overlapping flows pass them.
- `challenges/manager.ts:49` keeps live challenges for a fix taken after the
  call; `scan.ts:120` asks for one after the fix. `ChallengeCoversFix` makes an
  exception for the live challenge of a scan.
- `delete.ts:9-13` says nothing of the deleted player is left. A top-up that was
  answered, or a running capture, stores rows after the wipe
  (`challenges/manager.ts:123`, `marker/capture.ts:133`). So may a check-in whose
  transaction was running (`outbox/enqueue.ts:38`): the insert was given the
  account before its session was cleared, and commits after the outbox was wiped.
  This is the exception `racing` of `NoPlayOfDeletedAccount`, and the run reaches
  it.
- `mutex.ts:57-60` says that past the settle bound only a write that finishes
  late is possible. `redeemer.ts` starts a second settle write after the first
  (452-453, 462-466), and `settle` makes no abort check.
- `runner.ts:7` says the owner is checked immediately before each HTTP call. The
  redemption and the write after the last check are awaits.
  `PlaysBelongToOwner` holds all the same: the old bearer is the owner's.
- `redeemer.ts:7-12` and `state-store.ts:15`: a device that has attested stays
  known. The repeat of a redemption that was graded `unattestable` clears a
  record that has become good meanwhile (276-279), and an app that dies, or a
  store that fails, at the mark (241-245) forgets what 222 relies on. And
  `mutex.ts:57-61` accepts a settle write that lands under a later holder: a
  registration is refused, its `clearIosKey` (452) hangs past the bound, and the
  flow is abandoned; the next registers a key and attests; the clear lands, and the
  abandoned flow goes on to set the backoff (453); the flow after that reads no
  record and a backoff, and goes token-less. These three are the exception
  `forgot` of `NeverTokenLess`; `ComesToAgree` says the device recovers from them.
- `catalog/manager.ts:27-31` says a revoked key stops being trusted at once. A
  store that fails between the write of the revoked set (619-632) and the
  re-verification (635-645) leaves the catalog on the screen until the next
  load; and a death in `resetNow` between 511-515 and 517 leaves a requirement
  without the floor it was ordered against. These are the two `halfDone`
  exceptions. Beside the manager, the React state `catalogState` is not updated
  by the refresh the outbox starts (`services.ts:257`, `AppProvider.tsx:116-119`).
- `rescore-orchestrator.ts:10-13`, `45-55`: the sweep rewinds by the longest
  straggler. It rewinds from the cursor as it is when the sweep begins
  (124-139, `privileged.ts:2528-2545`), which newer plays have carried forward
  during the grace; an older straggler is then out of its reach. This is the
  exception `Overtaken` of `AllRescored` and `NothingSkipped`, and the run
  reaches it. Also, `break outer` (118) ends the pass at a play that fails, so
  one that always fails keeps the courses after it from starting; the run has
  one course.
- `delete-orchestrator.ts:18-19`, 0035: the token cannot be lost. If its queue
  row had expired, `ON CONFLICT DO NOTHING` (0035:254-257) leaves it so and the
  grant's own row is deleted. `NoGrantLost` counts an expired row as given up on.
- 0027:650-652 promises one global lock order. Two rings are left
  (`OneLockOrder` names them): a hold has the play and waits for a code which a
  deletion has; and the cascade's `UPDATE` takes a code, and its offer, that its
  first statement had skipped.

### Fairness

- `KeyedMutex!FairSpec`: timers fire, microtasks run, a request ends at the HTTP
  client's time limit, and a secure-store read returns. Nothing is assumed of a
  native call or of a settle write; either may hang for ever, which is what the
  hold timeout and the settle bound are for.
- `Outbox!FairSpec`: a pass goes on when its await returns (`PassStep`: its
  requests have a time limit), the server answers what reaches it (`Deliver`),
  the app runs the outbox again and again (`RunOutbox`, as
  `runtime/AppProvider.tsx` does on start, on sign-in and on coming to the
  foreground), and deadlines pass (`Tick`). Crashes, lost requests and refused
  tokens take from a finite stock of faults: a network that always fails
  delivers nothing. The property asks that the owner stays signed in from some
  point on.

- `AttestKey!Spec`: a flow goes on, a request in the network arrives, the hour
  of a backoff or a cooldown ends, and the player keeps checking in with new
  challenges (strong fairness: the app may be stopped in between). Nothing is
  assumed of faults, of the activation or of a late local write.
- `CatalogCache!Spec`: the app refreshes at every start and from the outbox, its
  player resets what cannot be read (the banner asks for it), and the newest
  catalog can be fetched again and again (strong fairness of one fetch and one
  save).
- `Rescore!Spec`: time passes, transactions end by their timeout, a pass goes
  on, and a pass is started again and again, as every import does.
- `SigninGrants!Spec`: every call of a request or a run returns or times out,
  and the scheduler keeps starting the drain. Apple may refuse for ever: then
  the row expires.
- `OfferBudget` states no fairness; it is checked for safety.

## 5. What is proved

For every value of the constants, under the assumptions named in the modules:
names that stand for nothing (`NoCall`, `Nobody`, `NoChal`, `NoKey`, `Unreadable`,
`NoTx`) are none of the things, what is counted (challenges, items, plays, codes)
is finite, limits and times are natural numbers, and row ids are numbers, of
different kinds apart. Besides, a face value is positive; an honest publisher's
catalogs are signed by keys it has not revoked; and `TxMax` is less than the grace
and the overlap of a sweep, as the code's constants are.

Five theorems need more, and state it as a hypothesis. `ReplaysAreIdentical`,
`PromiseIsKept` and `CopiesAlike` assume `StoreFaults = FALSE`, and
`NoPlayIsSkipped` and `ClosedMeansRescored` assume `OnePass`, that passes do not
overlap. Without them the properties are false (section 4).

| Theorem | Property | Module |
|---|---|---|
| `TypeCorrect` | `TypeOK` | `KeyedMutexProofs` |
| `MutualExclusion` | `OneHolder` | `KeyedMutexProofs` |
| `NoTimerUnderARequest` | `HeldUntilAnswered` | `KeyedMutexProofs` |
| `Serialization` | `SerializedRequests` (refinement of `AssertionLock`) | `KeyedMutexProofs` |
| `TypeCorrect` | `TypeOK` | `CheckInProofs` |
| `ChallengeSpentOnce` | `SpentOnce` | `CheckInProofs` |
| `CapKept` | `OpenCapKept` | `CheckInProofs` |
| `RecordsCovered` | `ChallengeCoversFix` | `CheckInProofs` |
| `DeletedAccountHasNoPlay` | `NoPlayOfDeletedAccount` | `CheckInProofs` |
| `OffersAreTyped` | `TypeOK` | `OfferBudgetProofs` |
| `TheBudgetBalances` | `BudgetBalances` | `OfferBudgetProofs` |
| `IssuedCodesArePayable` | `IssuedIsPayable` | `OfferBudgetProofs` |
| `LocksHaveOneOrder` | `OneLockOrder` | `OfferBudgetProofs` |
| `HeldPlaysPayNothing` | `HeldPlayPaysNothing` | `OfferBudgetProofs` |
| `OutboxIsTyped` | `TypeOK` | `OutboxProofs` |
| `NoPlayInAnotherAccount` | `PlaysBelongToOwner` | `OutboxProofs` |
| `OnlyOwnersRewrite` | `OnlyOwnersPassRewrites` | `OutboxProofs` |
| `ReplaysAreIdentical` | `ReplaysIdentical`, with a store that does not fail | `OutboxProofs` |
| `PromiseIsKept` | `KeepsPlayLedger` (refinement of `PlayLedger`), with a store that does not fail | `OutboxProofs` |
| `KeysAreTyped` | `TypeOK` | `AttestKeyProofs` |
| `RecoveriesDoNotLoop` | `OneRecoveryPerCooldown` | `AttestKeyProofs` |
| `AttestedDevicesAttest` | `NeverTokenLess` | `AttestKeyProofs` |
| `RowsAreTyped` | `TypeOK` | `CatalogCacheProofs` |
| `ScreenIsTrusted` | `ScreenTrusted` | `CatalogCacheProofs` |
| `CacheNeverRollsBack` | `NoRollback` | `CatalogCacheProofs` |
| `RequirementIsKept` | `RequirementKept` | `CatalogCacheProofs` |
| `GrantsAreTyped` | `TypeOK` | `SigninGrantsProofs` |
| `GrantsAreNotLost` | `NoGrantLost` | `SigninGrantsProofs` |
| `AMethodRemains` | `LastMethodKept` | `SigninGrantsProofs` |
| `RevokedMeansRevoked` | `ReportsAreTrue` | `SigninGrantsProofs` |
| `BacklogIsTyped` | `TypeOK`, any number of passes | `RescoreProofs` |
| `ClockedHolds` | `Clocked`, any number of passes | `RescoreProofs` |
| `NoPlayIsSkipped` | `NothingSkipped`, with passes that do not overlap | `RescoreProofs` |
| `ClosedMeansRescored` | `AllRescored`, with passes that do not overlap | `RescoreProofs` |

**The lock.** `OneHolder` is not inductive: nothing in it stops a waiter whose
predecessors are not the holder. `MutexInv` adds the promise chain
(`ChainInv`: the tail is the last active call and waits for all the others; of
two active calls one waits for the other; a running call waits for nobody), what
idle, finished and running calls look like (`IdleInv`, `RunningInv`), and that a
holder is abandoned only when aborted and with nothing in flight. Two running
holders would each have to be ahead of the other and released. The refinement
follows: a request starts from `Check`, which an abandoned call fails, and only
the running holder passes.

**The check-in.**
- `TypeInv` adds to `TypeOK` what the types depend on: the marker store is
  finite (the top-up counts it), a flow that has begun has an owner, a wipe has
  a victim.
- `SpentInv` says that a challenge is at one place: not issued, on its way in
  one top-up, in the pool, or held by one flow; and that a flow with a record is
  over. `QuietStep` and `TakeStep` are the two kinds of step there are.
- `OpenCapKept` is inductive on its own; its proof is about cardinalities, and
  counts the open live challenges the server counts too.
- `CoverInv` says that what a flow holds is its owner's; that what it has chosen
  covers its fix and was chosen after it; and that what a scan holds beyond that
  is the live challenge it asked for.
- `WipeInv` follows an account through its wipe. Once its session is cleared
  (`Cleared`) it is not signed in again, so no enqueue can begin an insert for it,
  and the inserts for it that are still running are of flows in `racing`. From
  the wipe of the outbox on (`Emptied`) its plays are those of such flows alone.
  The second read of the session, which keeps every other flow out, is also why
  `checkin_owner` fails.

**The budget.** `BudgetBalances` is not inductive: a transaction writes from what
it read some steps before. `Inv` adds what the row locks make of that reading.
- `TxInv` says it of each kind of transaction: an activation, a review and a
  redemption have the lock on their code and the state they read is still its
  state (`OneCodeInv`); a cascade has locked only codes it may hold (`HoldInv`);
  a deletion has every code of its account, so the rows it releases are those
  that reserve something when it commits (`DeleteInv`). The mutant of
  `BudgetBalances` drops just that: it locks fewer rows.
- `StepOf` is what every step of a session does to the others: it changes codes
  only under their locks, takes no lock of theirs, and brings no deleted code
  back. `OthersKeep` concludes once, for all actions, that they keep their
  `TxInv`.
- `Money` adds to the balance that an outstanding code has paid nothing. A code
  claims its offer's face value or nothing, so the sums are counts
  (`Claiming`, `PaidBy`): one code moves them by one (`OneCodeBalances`), a
  cascade adds the codes that got a claim and a deletion takes away its own,
  each a disjoint union.
- The offer's row needs no such invariant: its statements add to what they find.
- The locks are not needed for `HeldPlayPaysNothing`, which follows from the
  deferred guard at the commit; they are for there being nothing else that pays.

- `OneLockOrder` has an invariant of its own, `OrderInv`: the rows a session has
  are of a kind no later than those its statement asks for (`Rank`: plays and
  tokens, codes, offers), and of the same kind earlier ones. A statement asks
  for one kind, the lowest id first; the next statement for a later kind
  (`GoesUp`), but for the last UPDATE of the cascade; a deletion, which has every
  code of its account, lacks nothing but plays at its end. Of the rows that a
  ring waits for take the first: its waiter has a row that another session of
  the ring waits for, and which therefore comes before it.

**The outbox**, in two layers.
- `OwnInv` needs nothing of the store or the network: a pass holds rows of its
  user alone (`MineInv`), its bearer is its user's from the token on (`PassInv`),
  so its request (`WireInv`), and any request that outlived its time limit
  (`LateOwned`), is of the owner of every play in it.
- `CopiesInv` says that every copy of a play, recorded or under way, agrees with
  its row, but for a catalog that is too old by now (`CopyInv`). A challenge is
  redeemed only while there is no copy yet (`RedeemInv`), and what the redemption
  taught is in the row before the request leaves (`WorkInv`, `PostInv`): this is
  where `StoreFaults = FALSE` is needed. `ToldInv` and `AnswerInv` say that what
  the device tells, or is about to, is so, and go on being so: a play it gave up
  on is one that no copy can get recorded (`Hopeless`).
- Of every step, `StepKeepsPromise` shows which plays it records, resolves and
  tells, and that `PlayLedger` allows it.

**The attestation key.** Whether the server may hold a key is asked of the server
and of the requests that have not arrived (`MayHold`). A device that forgot
nothing has a record then (`KnowInv`), and a flow that read that there was no
record goes on being right until it writes one, since only itself registers
(`HadInv`, which `KeyedMutex` justifies: there is one flow). A late write can only
make the device know more, but for a clear that lands on a record: `forgot` is set
there, as at the two other places, until the device records a key, or the mark,
again. `RecoverInv` follows
a recovery from the read of the cooldown to its write.

**The catalog.** Only a refresh changes the trust rows while it runs, so what it
read at its start still stands in the database until its own steps change it, in
the order floor, revoked keys, screen, cache (`RefreshInv`). `FloorInv` says that
a floor that can be read is behind nothing verified or required, which is why a
cache that is saved is new enough; `ShownInv` that what is shown is of a trusted
key at every step but the one that looks at it again.

**The grants.** The advisory lock makes what a transaction has read still true
when it commits (`LockInv`, `ReadInv`), except of a user deleted meanwhile. The
life of a grant has one direction: nobody knows it before its link commits
(`FreshInv`) and a revoked one is never live again (`DeadInv`), so that any runner
may finish the row whose call was answered, whoever has claimed it since.

**The re-scoring**, in two layers.
- `Clocked` says that when the grace of a row is over no transaction of before the
  import is open (`GraceInv`). It holds for any number of passes.
- `PassInv` says that the copies a pass works on are like their rows (`CopyOK`),
  which is just what another pass would break; that a cursor is not ahead of
  everything re-scored (`Reached`), so that what a rewind does not reach had been
  overtaken (`Passed`); and that in a sweep what is stale beyond the cursor is in
  the page or comes after it (`PageOK`). A page that was not full has it all, and
  no transaction is left that could add to it: so the course may be closed.

Only model-checked: liveness (`EveryCallSettles`, `EveryPlaySettles`,
`ComesToAgree`, `ComesToNewest`, `EveryCourseCloses`, `QueueDrains`,
`DeletionEnds`), which is out of reach of the prover, and `KeepsPlayLedger` where
the write of a redeemed challenge may fail.

## 6. What is not modelled

- In `KeyedMutex` other keys: the map keeps them apart. In `Outbox`
  `resolveQueued`, which nothing calls (a play the server took as `queued`
  stays so on the device), `resolveUnlisted`, whose finder always answers
  null, and `markReported`.
- In `AttestKey` the recheck of a held code, a second account on one install and
  the wipe of the store by a deletion. In `CatalogCache` two managers over one
  database. In `SigninGrants` the e-mail proof, Google (answered 501), the purge
  of finished rows, and the grants of failed links whose best-effort revocation
  fails (the code only logs them). In `OfferBudget` the earning path (not built,
  0027), the look at late codes after a hold (0033:99-110; leaving it out allows
  more behaviours, and an approval may commit after it all the same), code
  expiry, entitlements, ledger and fraud rows, the vendor bit (F14), offline
  redemption.
- Scoring, the kill switch and the derived fixes of the intake: they decide what
  a play is worth, not whether it is recorded.
- Times are abstracted to what code compares: `aged`, `lapsed`, `covered`,
  saturating ages. Backoff lengths, jitter and clock skew are left out.
- The conditions of the pool's `purge`, which deletes rows that are no longer
  usable, are part of usability.
- Geometry (`packages/matching`) and file parsers (`packages/import`) work on
  floating-point numbers and text, where TLC has nothing to say.
- User interfaces, static sites, CI and operator scripts: most of the
  repository's lines.
- The components listed as `not_modelled` that the plan names follow in its
  order.

## 7. Running

```
tlc -workers 2 -config MCOutbox_live.cfg MCOutbox
tlapm KeyedMutexProofs.tla
tlapm CheckInProofs.tla
tlapm OfferBudgetProofs.tla
tlapm OutboxProofs.tla
tlapm AttestKeyProofs.tla
tlapm CatalogCacheProofs.tla
tlapm SigninGrantsProofs.tla
tlapm RescoreProofs.tla
```

`PROJECT.json` lists every run with its module and configuration. The longest
runs (`outbox_live`, `signin`, `rescore`, `offers`, `checkin`) take two to three
minutes.
