# A verification development of Fluxbridge

TLA+ models of Fluxbridge (the repository's `app/` and `agent/`), the TLC
configurations that check them on small instances, and proofs for TLAPS.
Fluxbridge receives trading signals (webhooks, Discord, a marketplace, a
dashboard) and turns each into orders on many broker accounts. It is one asyncio
process with SQLite beside it; what is hard about it is not one function but what
happens between two `await`s: an answer that is lost after the broker acted, a
close that runs beside an entry, settings that were read before a call and are
saved after it, a process that dies with an order on the wire.

Three ways a broker call can end run through everything here, as they run through
the code (`tradovate.py:43-58`): **taken**, **refused** (`TradovateError`: nothing
happened), and **unknown** (`OrderOutcomeUnknown`: it may have happened, never
retry blindly).

    tlc -workers 2 -config TradingSafety.cfg TradingSafety.tla    # a run (section 3)
    tlapm TradingProofs.tla                                       # proofs (section 4)

Paths below are relative to `app/` unless they name another directory.

## 1. Inventory

| Component (source) | State it keeps | Operations | Hard behaviours | What makes it correct |
|---|---|---|---|---|
| Manual order command inbox (`execution/service.py`, `db/execution.py`) | ledger rows in SQLite, one coroutine per request, statements in a thread pool | claim, dispatch, finish, replay, recover, retention | retried keys, cancellation while a statement runs in the pool, crash, power loss under `synchronous=NORMAL` | one submission per key; the recorded outcome is the truth; open rows are settled |
| Trade locks and in-flight signals (`signals.py`, `execution/local.py`) | registry of locks, announced keys, active trades | process a signal, close by hand | locks dropped and created anew under waiters, several locks per close | signals of a trade exclude each other, a close waits for what it knew of, no deadlock |
| Bracket entry and updates (`engine/bracket.py`, `common.py`, `manage.py`) | orders of an entry, the trade's record | entry with targets and stop, resolution of a failed stop, `move_sl`, `trail_active`, `set_sl_tp` | every request may be refused or lose its answer, fills between any two, rollbacks that fail | one stop; what is held is covered; failures end flat or reported |
| TS-Hunter engine (`engine/ts_hunter.py`) | record per account | partial and full close, flatten fallback | lost answers, fallbacks that sweep other trades | record, position, stop and reported result agree |
| Trade records (`signals.py`, `main.py`) | snapshot row, `_persisted` | passes of a thread, last pass, restore | a thread that outlives its loop, failed writes, crash | a restart loses no more than the last passes did |
| Broker adapters (`tradovate.py`, `rithmic.py`, `projectx.py`) | tokens, lanes, penalty, reads in flight, socket client | paced orders, shared reads, token renewal, answers told | 429 penalties, a read shared across a fill, a pasted token against a renewed one, a connect that is cancelled | unknown is never told as refused; one login; fresh reads |
| Execution agent relay (`relay.py`, `routers/agent.py`, `agent/fluxbridge_agent.py`) | job queue, jobs in flight | request, poll, deliver; the agent's loop | abandoned jobs, lost polls, late answers, restarts | a job reported as failed never runs; every caller is answered |
| Copy groups (`copy/`, `routers/copy.py`) | leader mirror, twins, follower positions, runners | socket, poll, reconcile, flatten, sync of runners | two sources of one change, lost answers, stale reads, concurrent syncs | no change is mirrored twice, no twin forgotten, the follower gets there, one runner per group |
| Marketplace and payments (`marketplace.py`, `payments.py`) | daily counts, error streak, payment rows | reserve, give back, pause; checkout, Stripe's events | crowded signals, midnight, repeated and reordered events | the cap holds; access is paid for |
| Risk guard (`risk.py`, `drawdown.py`, `pnl.py`) | lock records, memo of flattens | check, lock, flatten, re-check | no trade lock is taken, the record precedes the effect | nothing slips in; a locked account goes flat |
| News lock (`news.py`) | calendar, memo, flattened windows | refresh, gate, flatten | settings and calendar change in the window | no entry in an open window; a clean flatten is flat |
| Position watch, automations (`watch.py`, `events.py`, `automations.py`) | what was seen, last fired | look, tell, match, act | restarts, failing logins, chains of events | told changes add up; a cooldown admits one |
| Journal (`journal.py`) | trades under two families of keys | windowed imports, pairing | overlapping windows, late fills, failing reports | a round trip is booked once, and whole |
| Discord signals (`discord_signals/`) | client, recent messages, settings | listen, edit, dispatch, apply settings | edits overtake posts, a client replaced | one signal per content; the listener follows its settings |
| Alerts, outbox, rollover (`alerts.py`, `escalation.py`, `mailer.py`, `rollover.py`) | escalation rows, digest, mail rows, notes of what was alerted | send, fold, escalate, deliver, check, apply | restarts, sends awaited while new ones come, a map edited during a check | nothing is skipped or sent twice; what must be told is told |
| Settings, history, backups, updates (`config.py`, `history.py`, `backups.py`, `updater.py`) | documents, caches, versions, queued rows, snapshots, marker | load, save, restore; write batches; rotate, update, roll back | reads that fail, batches that fail, steps of an update that fail | a stored edit is kept; no row is lost untold; a point of return exists |
| Everything else: users, permissions, simulator, metrics, web pages, extension | | | | see section 7 |

Components meet at a few places, and these are where most hazards lie: **broker
calls** (every engine, the copy groups, the guard and the news lock use the same
adapter and learn outcomes only from what it tells them); **trade locks** (signals
and closes take them, the guard, the kill switch and the copy groups do not); **the
settings document** (edited by users, and by renewed tokens, guard records and
rollover notes); **the event bus** (what the watch sees becomes alerts and rules);
and **SQLite** (through one writer thread, a pool, and direct calls).
`PROJECT.json` lists every component with its sources and status, and the hazards
of the code, each at its line and with the properties that cover it.

## 2. The modules

One module models one component; its actions are the code's handlers, or the part
of one between two awaits.

| Module | Models | Main properties |
|---|---|---|
| `ManualOrders` | the command inbox over its ledger | `AtMostOneSubmission`, `AnswersAreTrue`, `ClaimsAreDurable`, `SettledStays` |
| `TradeLocks` (+ `MC`) | who may work on a trade at a time | `SignalsExclusive`, `KnownSignalsEnd` |
| `ProtectiveStop` | one bracket entry and the ways its stop can fail | `OneStop`, `TrackedIsProtected`, `FailedClosesEntry`, `SurvivorsHaveCause`, `NakedHasCause` |
| `ProtectionUpdate` | `set_sl_tp`, `move_sl`, `trail_active`, target hits on one position | `HeldIsCovered`, `FlatStopIsKnown`, `RecordKeepsOrders` |
| `TsHunterTrade` | TS-Hunter trades from entry to last close | `ClosedMeansFlat`, `RecordMatches`, `HarmIsReported` |
| `TradeRecords` | records of trades across restarts | `RestoresRecent`, `CleanStopKeeps`, `Written` |
| `OrderChannel` | abstract: what a transport of orders promises | |
| `Relay` | the execution agent's transport, an implementation of it | `IsOrderChannel`, `UnclaimedNeverRuns`, `EveryRequestEnds` |
| `BrokerCall` | how each adapter reads the end of an order call | `ToldIsTrue` |
| `RequestLane` | order tokens, spacing, penalties, the lanes' locks | `OrdersPrompt`, `OrdersPaced`, `PenaltyHeld` |
| `SharedReads` | list reads shared by callers | `Fresh`, `AtMostTwo`, `NobodyAsks` |
| `LoginToken` | a login's token and accounts through renewals, pastes, forms | `Agreed` |
| `LoginClient` | the Rithmic socket client | `OneLogin` |
| `CopyOrders` | twins of a leader's orders at one follower | `ForgottenHasCause`, `RepeatedHasCause`, `Cleared` |
| `CopyPositions` | a follower's position after the leader's | `WithinLeader`, `BaselineNotHeld`, convergence |
| `CopyManager` | runners of copy groups, syncs, edits, followers leaving | `OneRunner`, `Follows` |
| `RiskGuard` | one account's limits, lock record and flattens | `NothingSlipsIn`, `LockedGoesFlat` |
| `NewsLock` | the news window, its flatten, the gate | `GateStep`, `CleanMeansFlat` |
| `Subscription` | a marketplace subscriber's cap and error streak | `CapHeld` |
| `Payments` | checkout and Stripe's events | `AccessIsPaid` |
| `TradeJournal` | import of fills into round trips | booked once, whole |
| `PositionWatch` | what is announced of positions | announcements add up |
| `Automations` | rules, cooldowns, actions | one run per cooldown |
| `DiscordListener` | listener, supervisor, messages and their edits | `OncePerContent`, `FollowsSettings` |
| `Alerts` | inbox, digest, escalation | `StagesOnce`, `NothingSkipped`, `Escalated` |
| `Outbox` | the mail queue | `WaitingHasFile`, `NoneWaits` |
| `Rollover`, `RollDates` | the daily check; the calendar of contracts | `MapIsUsers`, `ExpiryTold`; `ProposalAlive` |
| `HistoryWriter` | the writer thread, its queue and locks | `NothingLost`, `RowsInOrder` |
| `Settings` | documents, cache, index of webhooks, versions | `StoredIsKept` and friends |
| `Backups` | snapshots, rotation, updates and roll backs, pending restarts | `VerifiedStays`, `ScheduledRunnable` |

**Composition.** `Relay` implements `OrderChannel`; its contract (refused means never
executed, unless the agent's connection was cut after the order was sent) without the
exception is what `ManualOrders`, `ProtectiveStop`, `TsHunterTrade` and the copy modules
take an adapter to offer. `BrokerCall` says how far each adapter does (section 5).
`TradeLocks` says that the handlers of one trade never interleave; `TsHunterTrade`
interleaves only those of different trades because of it. A TS-Hunter entry is
`ProtectiveStop` without targets; `TsHunterTrade` starts from its outcome. `CopyManager`
says that one runner works for a group; `CopyOrders` and `CopyPositions` model that one.

**Suites.** `OrderProgress`, `EngineProgress`, `PlatformProgress`, `TradingSafety`,
`PlatformSafety` and `CopyTrading` instantiate several modules each, so that one
TLC run checks them together. `part` picks, in the initial state, the module a
behaviour is of; the variables of the others rest at 0. A suite therefore does not
interleave its modules: its state space is the disjoint union of theirs, and a
property of the form `part = "Locks" => Locks!SignalsExclusive` is that module's
property. Variables two modules both have are renamed with a letter in front.
Temporal properties are stated so that they hold trivially in behaviours of another
part, and the fairness of a part is conditioned on `part`.

**Proofs** are in modules of their own, which extend the module or the suite they are
about: `ManualOrdersProofs`, `RelayProofs`, `EngineProofs`, `TradingStopsProofs` and
`TradingProofs`, `PlatformProofs`, `PlatformProgressProofs`, `CopyTradingProofs`
(section 4). A suite's
constants come from its cfg and are arbitrary in the proofs, up to the suite's named
assumptions.

**Reading a module.** `pc`, `at`, `job`, `thread`: where a coroutine or thread
stands, named for the await it is at. `faults`, `crashes`, `edits` and their `Max...`
are bounds. Variables marked *history* are read by no action of the program. A
definition commented `\* fault:` stands before the definition it is a faulty
version of and is used by nothing; it shows what the properties notice.

## 3. Runs

Passing runs:

| Run | Shows | Instance | Time |
|---|---|---|---|
| `ManualOrders_Safety` | at most one submission per key, true answers, durable claims, settled rows stay | 3 requests, 1 key, 2 instructions, 1 crash, 1 expiry, symmetry | 2 min |
| `CopyTrading` | a twin that is forgotten or placed again has a cause at its placement; never more than the leader held, never what was left alone; one runner per group | a pair of orders in 2 versions, 2 changes, 3 placements, 1 fault, late answers, symmetry of the legs; 1 contract, 1 follower, 2 events; 2 groups, 2 requests beside the loop, 2 edits, 1 fault | 2 min |
| `Relay` | implements `OrderChannel`; an abandoned unclaimed job never runs; every caller is answered | 2 jobs, 2 agent processes, 1 lost poll, all three network errors | 20 s |
| `OrderProgress` | calls and rows settle; twins of a gone order are cancelled, but for those exposed at their placement; followers catch up; a group's runner ends up as the group is stored | 2 requests and 1 crash; 1 order, 2 changes and 1 fault; 2 events; 1 group with 3 edits by 2 requests beside the loop, 1 fault | 2 min |
| `EngineProgress` | exclusive signals, a guard nothing slips past, fresh reads, records restored; locks are passed on, reads and entries end, a locked account goes flat, session and settings agree, records are written | 3 signals, 2 closes, 5 lock objects; 1 roll, 2 orders, 1 failed flatten; 2 tokens, 1 edit, 1 form; 3 callers, 3 reads, 1 cancellation; 1 target; 2 changes, 2 faults, 2 ends of the process | 1.5 min |
| `PlatformProgress` | one signal per content while it is remembered, every alert accounted for, stages once, files of waiting mails, a map that is the user's; listener follows what it heard, escalations and mails end, expiry is told | 1 message with 2 events, 2 saves or restores; 1 critical and 3 trade alerts, a digest of 2 that shows 1, 1 restart; 3 mails, 2 share a file, 2 faults, 1 crash; 1 symbol, 2 days | 2 min |
| `TradingSafety` | protection of entries and updates, closes, told outcomes, lanes, one login, history, news gate | 3 contracts in 2 targets; 2 TS-Hunter trades of 2; 2 updates, 2 faults; 3 adapters, 11 answers; 3 orders and a poll over 4 ticks; 4 clients; 3 rows in batches of 2; 1 release, 2 entries, 3 ticks | 3.5 min |
| `PlatformSafety` | cap, paid access, exact books, kept settings and backups, live proposals, cooldowns | 5 signals, cap 2; 3 events, 2 periods; 3 fills over 3 days; 2 logins; 2 rules; 2 snapshots, updates and roll backs beside a pending restart; 2 areas; the contracts of 2 years | 2.5 min |

Runs that exhibit a disagreement of the code with its own words (section 6):
`TsHunter_Retry`, `ProtectiveStop_TpFilled`, `TradeLocks_Orphan`,
`CopyPositions_Flatten`.

**Why the bounds are enough.** In the inbox keys do not interact, so one key is general;
three requests give a winner, a replay of it and one after an expiry. In the lock
registry a hazard needs one task that drops a lock, one that waits on it, one that
creates it anew, and closes that hold one lock while they wait for another; five objects
are as many as can be referenced at once. Three contracts in two unequal slices give
every order of target fills, and a partial fill of the entry on either side of a slice.
Two trades are the fewest the flatten fallback can confuse. A relayed job interacts with
another only through its batch and the queue. Twins of two leader orders meet only in
the placement of a pair, so one pair is given; its legs are symmetric, the leader is
polled (the socket's races are in the single order of `OrderProgress`), and three
placements are the pair and one of its legs again. A digest of two of which one is shown
has an alert that is shown, one that is counted and one that no longer fits. In a mirror
one contract and one follower are general because followers and contracts do not share
state; two events suffice for a change that overtakes another and one that comes while a
mirror waits for its lock. A shared read needs a leader, a joiner and a late comer. A
lane needs an order that holds it, one that waits and one that gives up. In a sync three
callers are the loop, the request it collides with and one more that edits meanwhile. A
rate of one fault finds what a single failure does at every call; two are given where a
failure's *handling* can fail (updates, mail, news, records). Days, periods and clocks
run just past the second boundary, so that something from before the first is seen after
it.

**Deadlock.** `ManualOrders_Safety` and `Relay` check it. The suites and the copy
runs stop by design when their bounds are used up, which TLC would report, so they
do not; "nobody waits forever" is a liveness property there (`TasksEnd`,
`CallsSettle`, `MessagesEnd`).

**Fairness.** The event loop runs whatever is ready, threads finish, and every
broker, mail and HTTP call ends by answer or time-out. Hence weak fairness on the
program's own steps. Locks are `asyncio.Lock`s, first in first out, and modelled as
queues where it matters. Strong fairness is assumed of four steps only. In
`CopyPositions` the poll must find its task idle, and a reconciliation that keeps
coming round the settle time over, now and then, and that time must pass: all three
repeat every few seconds against finitely many events. In `RiskGuard` the check of a
locked account comes with every poll, and its flatten is due again every so often.
Nothing outside the program is promised: no
fill, no signal, no edit, no poll of an agent. A crashed process is started again
(it runs under a service manager) where a property speaks of the time after.

## 4. Proofs

Each is for every value of the constants: any number of requests, orders, signals,
updates, rows and faults, not only those of the runs. The assumptions are the named ones
of the modules, which the runs evaluate: that bounds are naturals, that sets of signals,
rules, logins and mails are finite, that a batch, a spacing, a token bucket, a period, the
days two imports overlap and the versions a setting keeps are not empty, that a rule is
retried no later than its cooldown, and that `asyncio.Lock` objects do not run out.

| Module | Theorems |
|---|---|
| `ManualOrdersProofs` | `TypeCorrect` (`TypeOK`), `InvariantCorrect`, `SubmittedAtMostOnce` (`AtMostOneSubmission`), `ClaimsSurvive` (`ClaimsAreDurable`), `SettledForGood` (`SettledStays`), `AnswersInvariant`, `AnswersTrue` (`AnswersAreTrue`) |
| `RelayProofs` | `InvariantCorrect`, `TypeCorrect` (`TypeOK`), `GivenUpIsNeverRun` (`UnclaimedNeverRuns`), `RelayIsOrderChannel` (`IsOrderChannel`) |
| `EngineProofs` | `EngineInvariant`, `TypesCorrect` (`TypeOK`), `SignalsAreExclusive` (`SignalsExclusive`), `AnswersAreFresh` (`Fresh`) |
| `TradingStopsProofs`, `TradingProofs` | `TradingInvariant`, `TypesCorrect` (`TypeOK`), `EntriesAreProtected` (`Protected`), `ClosesAreTrue` (`ClosedMeansFlat`), `StopsCover` (`Covered`), `CallersAreToldTheTruth` (`ToldIsTrue`), `RequestsArePaced` (`OrdersPrompt`), `LoginsAreHeld` (`OneLogin`), `RowsAreKept` (`NothingLost`), `GateStaysClosed` (`GateClosed`) |
| `PlatformProofs` | `PlatformInvariant`, `GatesHold` (`MarketplaceGates`), `BooksStay` (`BooksAreExact`), `StoredStays` (`StoredIsKept`), `StepsKept` (`StepsAllowed`), `TypesCorrect` (`TypeOK`) |
| `PlatformProgressProofs` | `ProgressInvariant`, `TypesCorrect` (`TypeOK`), `PlatformIsSafe` (`PlatformSafe`) |
| `CopyTradingProofs` | `TradingInvariant`, `TypesCorrect` (`TypesOK`), `PositionsInProportion` (`InProportion`), `TwinsAreKnown` (`TwinsKnown`) |

So every invariant, action property and refinement that the passing runs check is proved,
but for `ProposalAlive` (the calendar of contracts). Liveness properties are not proved.
Where the code does not keep what it says, the property that is proved says exactly what
it does keep and names the cause of the rest (`...HasCause`, `OrderChannel`'s `cut`,
`BrokerCall`'s `misread` and `stuck`, `Subscription`'s `givenBack`); the stronger sentence
stands beside it in the module, marked *Not so*, and is listed in section 6.
The invariants the proofs rest on:

* **Command inbox.** `AtMostOneSubmission` is not inductive: what stops a second
  submission is that an open row belongs to exactly one call, which alone can reach
  `ready`. `IInv` says this: for each key at most one call or pool statement owns the row
  (`OneOwner`), a row that is absent has no owner and nothing sent (`AbsentIsUntouched`),
  an owner that may still send has not (`OwnerHasNotSent`), and every earlier image in
  `older` agrees with the ledger on which keys are claimed. `SettledForGood` follows: a
  statement still in the pool for a settled row is one that no longer changes it.
  `AnswersAreTrue` needs to know in addition, for each place a call or a pool statement
  can be at, what it may carry and what the adapter did.
* **Relay.** The invariant says where each job is (queue, batch, agent, answered), who
  knows its end, and that a result other than a dropped connection is what the broker
  did. The refinement maps initial
  states to initial states and each step to a step or a stutter of `OrderChannel`. The
  number of open jobs is a count over a finite set.
* **Engine.** `TradeLocks`: the lock object a key's signals hold or await is the
  registered one, its waiters and holder are known, and a close's locks are sorted.
  `RiskGuard`, `LoginToken`, `ProtectiveStop`: types (and `NothingSlipsIn`).
  `SharedReads`: the reads in flight and who waits for which. `TradeRecords`: how old what
  a thread, the table and memory hold may be at most.
* **Stops.** `ProtectiveStop`: what a failed stop's resolution has still to cancel or
  close, and which cancels failed or orders it could not find, by the stage it is at;
  and the account: what is held is what entered less what the exits closed, until the
  close. `ProtectionUpdate`: every order that may work is in the record, in the copy of
  it that an update edits, or in the hands of the step that runs. `TsHunterTrade`: as
  long as a stop works and no record is stale, record, share and stop agree.
* **Brokers' clients.** `BrokerCall`: what works at the broker at each stage of a call,
  but for orders whose answer was misread. `LoginClient`: one client connects, and only
  while the session has none. `RequestLane`: the sleeper holds its lane's lock and wakes
  within a turn, and the orders behind it are promised a turn each from its waking; for
  any stretch of time up to now, orders sent and the bucket's content are paid by a full
  bucket, the time, and at most one order, which is the one that gave its token before
  it slept for a penalty. TLC checked this invariant on two instances before it was
  proved.
* **History and news.** `HistoryWriter`: rows are in order along disk, batch, hand and
  queue, and what is in none of them was reported. `NewsLock`: a memo that lets entries
  pass was true of calendar and settings, which are still as they were.
* **Marketplace and payments.** `Subscription`: the entries that hold a place (passed
  the gates and not skipped since) are at most the day's count and the places given
  back, and at most the cap and these, across restarts and failing gates; a process
  without a count let none pass yet; one signal runs at a time. `Payments`: the row was
  moved by an event that was delivered; access has a row that is paid, or was by the
  last event and is pending since; and the newest event of a subscription is applied,
  and what it says stands until something is withdrawn, left or asked for again.
* **Rules.** `Automations`: what a rule's pause runs from is the time it last fired, or the
  time it last failed less what the retry saves.
* **Backups and settings.** `Backups`: snapshots are numbered as they are made, the
  newest that passed is on disk until the user deletes one, and each stage of an update
  or a roll back knows which code and which requirements are in place. `Settings`: what
  is cached of a live area is what is stored, an index is never of a generation to come
  and is exact when it counts as current, and no print differs from the stored row in
  what a version keeps.
* **Journal.** The pairing is a recursive function on how many fills were looked at. Its
  existence, and what holds at every fill, are proved by the least fill at which it would
  fail (`Upto`, `LotsExist`): one trip for two fills, closed trips stay, pairings of the same
  fills agree, what waits is of one side. The invariant: a row is from the broker's pairs or
  from the pairing of the stored fills; a fill that was missed lies before all that later
  imports ask for; and every pair whose day no longer changes, up to the report's cursor, is
  known. `CompleteIsExact` and `StoredOnce` follow.
* **Watch.** What is compared with the broker's answer is the last answer, login by login.
* **Discord, mail, alerts, rollover.** `DiscordListener`: what is ready or accepted in a
  content's present life was marked in `recent`. `Outbox`: the tries of a mail, the one
  under way included, are within the retries and within one of what the drain listed; it
  lists a row once. `Alerts`: what was sent of an alert is behind its escalation's
  stage, what is being sent is at it and newer than all that was sent, the rows of a
  tick are distinct and next; what was raised is in one place: told, counted, dropped,
  in the digest or being flushed. `Rollover`: the map is what the user wants, and what a
  check holds over an await is a stage and a map it has read.
* **Copy groups.** `CopyOrders`: for every order placed without one of the three causes, the
  twin, the requests and walks under way that name its leader order name this order and no
  other, the list a walk uses has it, and a placement under way will record it under its own
  number (`TwinInv`). `CopyPositions`: while no answer was lost and the broker's list is not
  behind, what a mirror remembers, what the broker shows and what a reconciliation has read
  are true, and one task holds the follower's lock (`PosBeliefs`). `CopyManager`: who stops,
  lets go or seeds a runner holds the workspace's lock, a group whose runner is being stopped
  has none in the table, and no list is newer than the edits (`ManagerInv`).

Sums (what the exits closed) and counts (open jobs, orders sent) range over finite sets of
any size; they are reasoned about by the least counterexample, which the library's
well-foundedness of the naturals gives (`LeastNatural`, `FiniteFamily`, `SumExists`).
The step lemmas have one step per action and below it one per conjunct that the action
can disturb. A suite's theorem follows from its parts': a behaviour is of one part.

Only model-checked:

* all liveness under fairness: it needs `ENABLED`, which the prover does not handle;
* `ProposalAlive` of `PlatformSafety`, with the types of `RollDates`: a roll date and a
  proposal are recursive functions over days and contracts, and that they agree with the
  convention is arithmetic of the Gregorian calendar by `\div` and `%`, beyond the backends;
* of the definitions marked *Not so*, and of the properties of the runs that exhibit a
  finding, TLC shows that they do not hold.

## 5. What the models assume

* A `TradovateError` means that the broker did not take the order. `BrokerCall` and `Relay`
  check this of the adapters and find it true but for a reset connection, an empty 2xx
  answer and an agent's dropped connection (section 6); the modules above the adapters
  assume it without these. HTTP status 400 and above other than 502 and 504 is taken at
  its word.
* A request whose answer was lost has reached the broker or never will, outside
  `Relay`, `BrokerCall` and `CopyOrders`, which model late ones.
* One workspace, one account, one contract, one login unless the module says more.
* TS-Hunter trade ids are not reused. `Prune`: after 90 days no call, statement or
  request of a key is left.
* Quantities, prices and texts are abstracted to what the properties tell apart;
  losses are counted in units of the limit, times in steps between two deadlines.
* `RequestLane` times the lane, not the token that is fetched behind it
  (`tradovate.py:377`); `LoginClient` does not count a client that is being disconnected in
  the background (up to 10 s); `TsHunterTrade` finds the contract of a trade it closes.
* `Alerts!Escalated` and `Rollover!ExpiryTold` are about what is committed or emitted, not
  about a message that fails on its way out. `PlatformSafety` imports whole fills.
* An unpaired agent behaves as one that is offline, or whose polls and answers are lost.
* `CopyManager`: a request is cancelled only where `stop()` lets a cancellation
  through, and a group that is deleted is one that is disabled for good.

## 6. Findings and observations

Findings (a run exhibits each; the code's own words are quoted in `PROJECT.json`):

1. `TradeLocks_Orphan`: `close_position` fetches all its locks before it waits for
   the first, and a signal may drop one of the others meanwhile.
2. `ProtectiveStop_TpFilled`: the close after a failed stop sells the whole entry even
   if an exit filled meanwhile; the account is reversed and reported as closed.
3. `TsHunter_Retry`: a full close whose stop survives keeps the closed quantity, and
   its retry sells it again.
4. `CopyPositions_Flatten`: a reconciliation that passed its checks queues for the
   follower's lock behind a flatten and reopens what the flatten closed.

Observations. Those with a definition in brackets are stated in the module, with
`Not so` or a comment, and TLC finds them violated; no run is spent on them.

*Orders and trades*
* `db/execution.py:103`: retention deletes settled command identities after 90 days,
  after which a key may submit again (`docs/COMMERCIAL-FOUNDATION.md:153`)
  [`ManualOrders!NoDelayedReplay`].
* `signals.py:580`: TS-Hunter entries are not announced to manual closes
  [`TradeLocks!NoInterleaving`]; `signals.py:501`: the announced keys are a set, so the
  first of two signals with one key withdraws both; `signals.py:502`: the lock of a
  handler that raised stays registered; `local.py:56`: the trades a close will forget
  are read before it waits for locks.
* `signals.py:675`: a start that could not read the row of records begins without
  them, and the first signal's records overwrite the row [`TradeRecords!NothingForgotten`];
  the thread of the cancelled loop may write its older snapshot after the last pass.
* `bracket.py:78`: a target whose answer was lost is not among those cancelled;
  `common.py:64`: a failed contract lookup becomes 0, which matches no order;
  `common.py:423`: a stop that fires between the liquidation and the second cancels is
  no longer listed, and the flatten is reported as clean.
* `common.py:382`: when nothing of a limit entry had filled, the cancels that failed and a
  list that was not read are dropped: the entry is told as cancelled, may still be working,
  and fills without a stop [`ProtectiveStop!NakedIsReported`].
* `bracket.py:172`: only hits of the entry's own targets retire the stop; a target that
  `set_sl_tp` placed closes the position and leaves the stop working on a flat account
  [`ProtectionUpdate!FlatHasNoStop`]. `manage.py:175`: a target that fills while `set_sl_tp`
  is at work leaves the new one too large, which reverses the position
  [`ProtectionUpdate!NeverReversed`], and its report may drop the record beside it.
* `ProtectionUpdate!LiveStaysKnown`: an order replaced while its cancel failed is told,
  and not tracked.

*Brokers*
* `tradovate.py:400`: a connection the broker's side closes after the order was sent is
  a failed order through an agent, unknown without one [`Relay!RefusedNeverTaken`];
  `tradovate.py:419`, `rithmic.py:752`: a read error or a reset socket counts as a refusal,
  and so does a 2xx answer with an empty body or without an id (`tradovate.py:432`)
  [`BrokerCall!RefusedIsDead`], after which a stop is placed twice
  [`BrokerCall!NeverTwoStops`]; `place_oco` swallows a failed cancel of its first leg, and
  on ProjectX an exception it does not expect takes nothing back.
* A renewal that ends after a paste stores the older token [`LoginToken!SettingsSurvive`];
  the login form is saved over an awaited check; a closed or re-keyed Rithmic session
  may keep a client [`LoginClient!NewCredentials`, `ClosedIsGone`].

*Copy groups*
* `routers/copy.py:222`: disabling or deleting a group saves the groups it read before
  it cancelled the twins, which undoes any edit of another request meanwhile
  [`CopyManager!NoEditUndone`]; what is placed between those cancels and the runner's
  stop rests at the broker, against `routers/copy.py:197` "never leave twins resting"
  [`CopyManager!NothingRests`]; with the runner out of the table for a restart, nothing
  is cancelled at all.
* A twin placed while its follower is released is cancelled by nobody
  (`manager.py:21`); `stop_all` takes no lock; a cancelled `stop` leaves placements to a
  successor.
* `copy/orders.py:450`: after the wait for the lock only the first leg of a pair is looked
  at again, so a reconciliation that places a pair and an update that places one leg of it
  singly place that leg twice [`CopyOrders!OneTwin`: `doubled`].
* `copy/orders.py:573`, `:628`: a list read while a twin is placed drops it and leads to a
  second one; a slow cancel's answer drops a newer twin, a slow modification's answer
  writes an older one back (`:538`) [`CopyOrders!NoneForgotten`: `beside`].
* `copy/orders.py:46` looks at the hold only before it waits for the lock; a failed
  modification is not retried.
* `group_runner.py:979`: a correction computed from a list older than a fill doubles it
  [`CopyPositions!NeverDoubled`]; a restart forgets what it waited for
  [`CopyPositions!RestartCarriesOn`].

*Guards, platform, storage*
* `risk.py:167`: a stale realised figure locks again after the roll; a limit crossed
  while the account cannot be read is not acted on [`RiskGuard!CrossedIsActedOn`]; the
  flatten time never fires after an unlock.
* News: a failed flatten is not repeated [`NewsLock!FailedIsRetried`]; entries that wait
  for a lock start inside a window; a window of no length never locks.
* `history.py`: rows flushed while a batch is under way [`HistoryWriter!FlushedIsWritten`];
  the settings lock and SQLite's may be taken in both orders, and a full queue stalls the
  loop [`SavesDoNotStall`]; its comment says that a full queue drops the oldest row, and
  it drops the new one.
* Marketplace: the cap is counted in the journal's time zone and reads as "per UTC day"
  (`CHANGELOG.md:702`); a skipped entry gives a slot back that it may never have had
  (`marketplace.py:197`), so that more run than the cap [`Subscription!CapOfTheDay`]. An
  event that pays a row while a second checkout awaits its session is overwritten with
  pending (`payments.py:209`) [`Payments!RowIsPaid`]; a refund of an unnamed subscription is
  ignored [`Payments!RefundWithdraws`].
* `alerts.py:164`: of up to 200 folded alerts a digest shows the last 30 (5 by push), the
  others are only in its number [`Alerts!DigestTellsAll`]. `routers/ops.py:109`: a restore of
  the settings writes the Discord login and switch and tells the listener nothing
  [`DiscordListener!FollowsRestores`]. `updater.py:223`, `:268`: the lock of a job is let go
  before its restart comes, which may meet a checkout that another job moved
  [`Backups!RestartsRunnable`].
* Journal [`TradeJournal!NothingFabricated`], watch [`PositionWatch!LossIsTold`], rules
  [`Automations!NoEcho`, `FailedRetriesSoon`], alerts [`Alerts!AckSilences`], mail
  [`Outbox!NeverTwice`], Discord [`DiscordListener!EntitlementHolds`], rollover
  [`Rollover!NeverRepeats`], settings [`Settings!NextReadRetries`, `RestoreKeepsLock`]
  and backups [`Backups!KeptIsWhole`]: each definition's comment says what happens.

## 7. Not modelled, and why

* Users, roles, authentication, onboarding: request-at-a-time CRUD over SQLite; what of
  them meets running tasks (a deleted area, an entitlement withdrawn) is in `Settings`
  and `DiscordListener`.
* `engine/simple.py`: one market order per account, the first step of `ProtectiveStop`.
* `close_all`, `flatten_all`: loops over accounts of closes modelled elsewhere.
* The simulator, metrics, track record, statements: they compute reports.
* WebSocket transports of the brokers' feeds, symbol lookup, candles, templates, push,
  Telegram and SMS delivery, web pages, the browser extension: I/O and presentation.
* Migrations and the schema; SQLite is a store with commits, batches and failures.
* Parsing (Discord embeds, sizing, trade windows): text and pure decisions.

## 8. Plan

What is left: the calendar of `RollDates` (lemmas on `Date` over a period of 400 years, then
`DatesRight` by family), and modules for what section 7 leaves out. Liveness stays with TLC.
No module declares a `RECURSIVE` operator, so every one of them can be reached by a proof.
