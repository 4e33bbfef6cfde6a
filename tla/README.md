# eTape: a TLA+ verification of the execution engine

eTape is a desktop trading program: a Go engine (`engine/`) that keeps market
data, sends orders to brokers and feeds a TypeScript UI (`ui/`) over one
websocket. These modules specify the parts where a mistake costs money or
blinds the trader: the execution core with its Alpaca adapter, the TradeZero
adapter, the subscription manager of the OpenD market-data feed, and the price
alerts. TLC checks them on small instances; TLAPS proves for instances of any
size the custody of orders, that the core and the broker agree once the stream
is drained, that the subscription manager and OpenD agree, and every safety property of a TradeZero order and of the price alerts.

File names below are relative to `engine/internal/` unless they say otherwise.

## 1. The system

### Components

| component | state | operations | what makes it right |
|---|---|---|---|
| **order core** `exec/core.go`, `state.go`, `reconcile.go` | orders, positions, readiness, flatten and arm flags, all a fold of the event log | commands (submit, cancel, replace, flatten, kill, arm, resume), broker events, request outcomes, Recover | no order twice, none forgotten by a crash, never more shares offered than held, agreement with the broker once settled |
| **engine-held orders** `exec/held_lifecycle.go` | a parent's phase, child id, cancel flags; last print, last gap | print, gap, activate, pause, resume, expire, deferred cancel, shutdown | one child at most; fires only armed, fresh, on a known position; a cancel is never lost |
| **risk entries** `exec/risk_entry.go`, `risk_add.go` | an entry, its adds and a linked stop | size the stop by the fills, replace, close, disarm | the filled shares are always covered by one stop |
| **trailing stops** `exec/trailing*.go` | stop price, owned shares, attribution checks | advance, edit, retire, re-attribute by snapshot | the stop only tightens; a trail owns no more than the position |
| **protective price filter** `exec/protective_price.go` | a pending print per symbol | wait at most 100 ms for a second print or a book | a single bad print does not fire a stop; a real one is delayed boundedly |
| **risk gate, account poller** `exec/gate.go`, `account_poller.go` | limits, freshness, baselines | evaluate, poll, go stale | an armed engine has fresh accounts |
| **projections** `exec/roundtrip.go`, `cycle.go`, `closed.go` | round trips, daily cycles, closed orders | fold a fill | sums agree with the fills |
| **alpaca adapter** `broker/alpaca` | client id to broker id, last status and filled quantity | submit with probe, cancel, replace, flatten, snapshot, reconnect diff | each transition reaches the core once, in order |
| **tradezero adapter** `broker/tradezero` | per order: current leg, last suffix, size, fills counted per leg, last listed status, the replace in flight | submit, replace as cancel, wait and resubmit, cancel, reconcile a connection, cold start | one leg that can fill, fills counted once over all legs, an order called done is done |
| **moomoo, sim** `broker/*` | ids, paper books | the same port | the same |
| **broker helpers** `broker/netx` | tokens, restart cooldown | take, refund, defer | never over the rate, no waiter starved |
| **event store** `store` | SQLite log | append, read since | an appended event is durable |
| **market data** `md`, `feed` | bars, books | decode, gap | a gap is always announced before later prints |
| **subscription manager** `feed/opend/subman.go`, `optional_book.go` | demands, active keys with their holds, quarantine, the ledger of the quota, connection generation, the books the recorder owns | Ensure, Release, pass, resync, recorder's pass, connection down | it knows what OpenD holds, keeps the headroom of the account, serves what fits |
| **price alerts** `pricealert` | alerts and their triggers in memory and on disk, failed writes, the time each alert counts from, last gap, queue | upsert, pause, delete, feed, ingest, refresh, publish, restart | fires once per arming, at a print that is not stale; a touch survives a failed write |
| **quota poller** `quota` | last reading, headroom states | poll behind a barrier, step | a reading counts each admission or none; a transition is announced once |
| **UI hub** `uihub` | staged frames, outboxes | coalesce, broadcast, resync | the lossless lane is neither shed nor reordered |
| **tick recorder** `tickstore` | segments, run marker | record, flush, seal, recover | an unclean run is marked incomplete |
| **pollers and caches** `watchlist`, `news`, `scan`, `stockinfo`, `ssr`, `backfill`, `hist`, `locates`, `health` | caches | poll, publish | independent of the order path |
| **wiring** `cmd/etape/main.go` | none | start adapters, Recover, Run | the order of the start |

### How they interact

`Core.Run` is a single goroutine that selects over channels: UI commands, the
broker inbox, prints and a one-second timer. A handler never waits for the
broker. It appends an event to the log, folds it, and starts a goroutine that
makes one HTTP request and puts the outcome, if the request has one, into the
inbox. Each adapter pumps its stream events into the same inbox. After a
disconnect the adapter reads a REST snapshot, works out what it missed and
emits that, then the positions and the open orders. On a restart `Recover`
replays the log, reads a boot snapshot if the broker answers, and settles what
was in doubt. The adapters run before `Recover` does.

The TradeZero adapter is called from the request goroutines of the core: a
`ReplaceOrder` holds one for seconds, between a cancel and a resubmit, while
the reader of the stream handles frames, a reconcile or a drop, and a
`CancelOrder` may run beside it. The account poller asks it for a `Snapshot` every
second, of which it wants the account only, but which rewrites what the adapter
remembers of its orders. They share one mutex and never hold it over a request.

Five goroutines share the mutex of the subscription manager: its worker, a
resync per connection, the worker of the recorder's books, the quota poller
and the loop over connection states; the consumers call `Ensure` and `Release`
at any time. Each decides under the lock, asks OpenD without it, and applies
the answer under the lock again.

The price alerts get their prints and gaps from the bridge (`markBridge`), which
must not block: `Feed` puts a print into a queue, or leaves a gap if that is
full, and `Run` takes them one by one beside a ticker of 250 ms. `Run` and the
operator's commands share a mutex that is held over the write to the store;
only the notification of a trigger goes out after it is released.

### What is hard

Answers and stream frames race each other and the commands; answers get lost
after the broker acted; the process dies between the append and the POST; a
cancel is asked for while the submit is in flight; a print is evaluated in a
loop whose orders change under it; a position is read before and applied after
a fill. A replace on TradeZero lives through two orders of the broker, of which
the stream, a list and the caller each know a part. A subscription is answered
after its connection is gone, or after a reading of the quota that may or may
not have counted it. A print that waits in the queue of the alerts may be older
than an edit, a gap or a session that Run knows of. `PROJECT.json` lists these hazards line by line, with the properties
that cover them and the ones that wait for a module.

## 2. The modules

| module | models |
|---|---|
| `ExecState` | an order, the fold of an event (`State.Apply`), the overlay of a broker row (`ReconcileOpenOrders`), committed shares (`reducingCommitmentLeaves`) |
| `HeldOrders` | what a handler does to one order, as a `Change` to append and a cancel to send |
| `ExecVenue` | the broker's books (external), the request goroutines, the adapter: frames, drops, the reconnect diff, its bookkeeping |
| `ExecCore` | the core over both: the commands, events, outcomes, prints, timers, crash, shutdown, `Recover`; `Spec` and `LiveSpec` |
| `OrderLife` | the abstract specification: the stages an order may go through |
| `ExecProps` | the type invariant, the properties, and the refinement mapping to `OrderLife` |
| `MCExec` | the instance TLC runs; the configurations give the constants |
| `TradeZero` | the TradeZero adapter and one order: callers, reader, broker, restart |
| `SubManager` | the subscription manager, the recorder's books, the poller's barrier, the connection; `Spec` and `LiveSpec` |
| `MCSubManager` | the demands TLC gives it: a focused chart, a background alert, a bad symbol |
| `PriceAlerts` | the price alerts of one symbol: commands, feed, `Run`, store, restart; `LiveSpec` |
| `ExecCoreProofs` | types: lemmas of the folds, then `TypeCorrect`; the custody invariant and three theorems |
| `OrderLifeProofs` | the engine implements `OrderLife`; when a held order may wait; done is done and stays so; a trusted position is true |
| `AgreementProofs` | the live orders, the log and the broker's books agree: custody survives a replay, and a drained stream leaves no order behind |
| `SumProofs` | sums over a finite set |
| `ReservationProofs` | what an order may still sell at the broker is committed by the core, and what all may sell is held in the account |
| `TradeZeroProofs` | one order of TradeZero has one leg that can fill; its fills are counted once and stay within its size; where nothing is lost, its end is called when it has come |
| `SubManagerProofs` | the types of `SubManager`, the poller's barrier, the quarantine; what OpenD has subscribed and what the manager believes agree; the headroom of the quota stays free |
| `PriceAlertsProofs` | all eight safety properties of `PriceAlerts` |

`ExecCore` extends `ExecVenue` and `HeldOrders`, and both extend `ExecState`.
`TradeZero`, `SubManager` and `PriceAlerts` stand alone: the first keeps of the
core only the fold of one order (`told`), the second meets neither, the third
sees of the feed only whether the ticker is covered (`coverage`).
Operators whose comment starts with "wrong:" or "mutant:" are faulty variants
of the one below them; no action uses them. Each is the fault a named property
detects.

### State and actions against the code

* `orders` is `State.Venues[v].Orders`; `logged` is what a replay of the log
  would give; they differ where a broker row was overlaid without an append.
  `actionLog` is the last `OrderActionChanged` of an order, which `Recover`
  reads on its own (`ReadExecOrderHistoriesFor`).
* A handler is one action, because `Run` is one goroutine. The exception is
  `handleEligiblePrint`: `EligiblePrint` collects the parents in `scan` and
  `EvaluateHeld` is one turn of its loop, in any order. No other handler runs
  until `scan` is empty, but requests land, frames arrive, the clock ticks
  and a crash may come between two turns.
* `net` holds the goroutines with a request in flight, `landed` the submits that
  the broker has and whose `SubmitOrder` has yet to return, `outcomes` the results
  that wait for the inbox, `wire` the stream events in their order. They
  are separate because only the stream keeps an order of its own.
* One step of a request is its effect at the broker and the answer: it lands
  and is answered, lands and the answer is lost (with the probe, for a
  submit), is refused, or never arrives. A dead process's requests may still
  land. A submit that is answered takes a second step (`SubmitReturns`,
  `alpaca.go:398`): the adapter notes the order as accepted with nothing filled,
  whatever frames it has handled since the order landed. `tracked`, `counted` and
  `seenQty` are that note: `lastKnownStatus` works, `lastKnownFilledQty` has an
  entry, and which.
* A row of the open list carries a status (`Row`), and `Overlay` takes it as it
  is. `restOrderStatusDomain` reads some statuses of open orders as CANCELED,
  REPLACED or EXPIRED; `Oddly` says which of these a list may give.
* `misread` and `rewound` are history variables of two things the code does not
  notice: some list gave an open order such a status, and a submit returned
  after its order was over. The properties that the code breaks there exclude these orders.
* `Recover(ok)` is the whole of `Recover`, with `ok` the success of the boot
  snapshot.
* `posts` is the history variable of the core: how often an id was POSTed.
* In `TradeZero` an action is one critical section, one request, or one event
  emitted after a section. `job` is the goroutine inside `SubmitOrder` and then
  `ReplaceOrder`, `canceling` the one inside `CancelOrder`, and `ReadFrame` and
  the reconcile (`ReadSnapshot`, `ApplySnapshot`) are the reader. `legs` are the
  broker's orders "<id>", "<id>-r1", ...; `seen`, `current`, `seq`, `reqQty`
  and `lastKnown` are the adapter's maps at this order. `told` is the order the
  core folds; `polled` is a list the account poller, or the boot of a process, has
  read and not yet folded into the maps. The adapter of a new process runs before
  the core does, so what it emits waits in `inbox` behind the boot snapshot
  (`Boot`) until the core folds it (`FoldOldest`). `lost` is history, of `Losses`:
  a push while the stream was down, the answer to a submit, a list that could not
  be read, and the current leg, when a poll with an older list put an earlier one back.
* In `SubManager` `demands` holds for each id the number of the call that last
  ensured it, which orders the demands of equal weight; 0 is not demanded.
  A worker is a record in `jobs`: what it planned (`out`, `in`),
  the group whose admission is reserved, the batches still to ask, and the
  request in flight. The steps of one are `Plan`, then `Unsubscribe` and
  `Unsubscribed` per group, then `TakeGroup`, `Subscribe`, `Subscribed` and
  `Finish` per group. A resync passes through `Replay` and the same steps before
  its own pass. `books` and `poll` are the recorder's worker and the poller.
  Times are what they decide: `young` (inside the minimum hold), `dropped` and
  `lapsed` (the hysteresis), `known` (a reading of the last 75 seconds).
  `adrift` and `odd` are history: keys whose last request may or may not have
  been carried out, and rare orders of events that the properties name.

* In `PriceAlerts` an action is one critical section of `mu`, and `run` is where
  the goroutine of `Run` is between two: it takes (`Take`), ingests, publishes,
  flushes. `Refreshed` is `refreshLocked`, a part of every call that ends in it;
  `disk` and `diskHistory` are the two tables. The revision is `unseen`: has
  it moved since the last flush? Of the history variables, `arming` counts how
  often an alert was created or rearmed, `floor` and `broken` are the prints
  that were on their way at a change and at a gap.

### Abstractions

**Core.** One venue, one symbol, one session of held orders. Prices are a choice: a
print says which parents it triggers, and the risk gate's verdict is a choice
of each submit. The clock counts a few ticks; `after` merges the two lower
bounds on a print's receive time. Fills are of one share. Lifecycle events of
different orders found by one reconnect travel together, since they commute.
A REST snapshot is read in one step. An append never fails, and the appends of
one handler are one step. One Flatten
goroutine runs at a time. Submits use the risk gate once at admission; held
orders also check the master switch when they fire. The UNKNOWN that a shutdown
notes of a cancel it could not send is left out, as `Recover` makes the same of
a requested one. Frames of the kinds `normalizeUpdate` ignores are left out too,
and with them what their status does to `lastKnownStatus`. A fill of an order the
core does not know changes nothing in `Apply`, where the code indexes its id; by
`IntentBeforePost` there is none.

**TradeZero.** One order without its prices. The reader handles a frame in one
step: `normalizeOrder` takes the lock for the fill and again for the cancel and
emits afterwards, but a canceled frame brings no fill of its own, so only one of
the two sections does something. The core asks for a replace or a cancel on what has been
emitted, never on an older state. A request of a dead process lands before
the next one reads its lists. Of the
snapshots a running engine asks for only the poller's is in the model;
those of `protection_warnings.go:140` and `trailing_reconciliation.go:96` do the
same to the adapter at other times, and belong to modules to come. One of them
is in flight at a time.

**Subscriptions.** `RequireQuota` and the recorder are on, as `main.go` sets
them. Three facts about time stand in guards, each with its name: `Paced` (the
request pacer spaces `Qot_Sub` by a second, and OpenD answers in order),
`Settled` (a client dials again after a second at least, by which time the drop
is noticed and every request in flight has failed; the upset "lag" breaks it),
and `HoldEnds` (a minimum hold of a minute outlasts a request and a resync).
`Starved` is a report and left out.

**Price alerts.** Which alerts a print meets is a choice. A print carries the
time it was received and the session of its exchange time, which may lag by a
tick; a repeated number may be dropped or not. The versions in the calls are right,
as a wrong one changes nothing, and so does a failed write of a command. A
write is one transaction (`commitPriceAlerts`).

## 3. Model checking

The configurations of the core run `MCExec`, the others the module they name.
`CHECK_DEADLOCK` is off because a bounded run does stop: the clock ends at
`MaxClock`, failures at `MaxUpsets`, and ids, legs and calls are used up.

| run | instance | shows |
|---|---|---|
| `sells` | two SELLs of up to 2 shares with replaces, a position of 2; one request lost or refused, an expiry or a drop; a list may show an open order as REPLACED | `NoOversell`, `Reserved`, `SettledOrders` |
| `restart` | one BUY of up to 2 shares, cancel, kill; three of crash, drop, failed snapshot, expiry; a list may show the open order as CANCELED | `TerminalTruth`, `SettledPosition`, `NeverRevived` |
| `held` | one held SELL, every command about it, clock 0..2 with the deadline at 2; one lost or refused request, drop or crash | `TypeOK`, `AtMostOnePost`, `IntentBeforePost`, `PretriggerHasNoChild`, `CustodyDurable`, `DisarmedIsPaused`, `LivesAsPromised` (refinement) |
| `flatten` | a held SELL and a native BUY, Flatten, Resume; one drop or failed snapshot | `HeldSellLiveOnlyWhenReady` |
| `deferred` | one held SELL with cancel, kill, disarm; one request lost or refused, an expiry or a stale account | `CancelReaches` (liveness) |
| `submit` | one guarded SELL; two of a lost request, a drop, a crash | `SubmitSettles` (liveness) |
| `tradezero` | one order of up to 2 shares, up to two replaces and cancels at any time; two failures of seven kinds, or polls | `TypeOK`, `OneLegLive`, `InSize`, `NeverOvercounts`, `DoneIsDone`, `LiveIsHeld`, `FillsNeverFall` |
| `subs` | a chart and an alert on a bad symbol, three slots of which one is headroom, two calls, one reconnect, one failure of four kinds | `TypeOK`, `SlotsKnown`, `LiveIsServed`, `HeadroomKept`, `ReadingSettled`, `OnlyBadQuarantined` |
| `subs_live` | one chart and the recorder on two slots of which one is headroom, three calls, one reconnect, one refusal or late reading | `EventuallyServed` (liveness) |
| `alerts` | one alert for the second of two sessions, two prints over a queue of one, two calls, three ticks with a print stale after one; one failed write, outage, gap or crash | `TypeOK`, `FiresOnce`, `NothingStaleFires`, `MemoryIsDisk`, `RetryUndoesNothing`, `DemandKept`, `MonitoringHasHeard`, `ShownIsCurrent`, `TouchIsKept` (liveness) |

**Bounds.** Two SELLs over a position that covers only one of them at full
size is the least account in which a reservation can be wrong. Quantity 2 gives
partial fills and replaces that grow and shrink. A held order needs
three clock values: created, a print, the deadline. A second failure matters
where one hides another (`restart`, `submit`); elsewhere one failure already
reaches each error path. The two SELL ids are interchangeable, and only runs
without temporal formulas use that symmetry.

One odd status suffices in a run: EXPIRED differs from CANCELED in nothing the
properties see, and REPLACED, which the adapter looks up again, is the one that
matters where sizes change. The refinement, the types and the custody do not read a
status, so `held` gives none.

Two replaces let a third leg follow a second whose end is in doubt, and two
failures let a restart or a poll meet what a drop or a timeout left behind; the
theorems allow any number. In `subs`
the slots suffice for the chart or the chart and a book, so that admissions
compete; the batch of two symbols is what splitting needs; a second connection
with another allowance is what tells one generation from the next. In `alerts` two
calls are a creation and a change after it, two prints one that is stale and one
that counts, or one too many for the queue; an overflow is no failure, so that
it may meet one. The alerts of a symbol share no more than its ticker, and one
already covers every path.

**What is excluded where.** An order some list has shown under an odd status
(`misread`) is done for the core although it may trade: `Reserved`,
`SettledOrders`, `TerminalTruth` and `NeverRevived` do not speak of it, `NoOversell` does
not once a SELL is one, and `CustodyDurable` claims only its custody. `NeverRevived` also
leaves out an order that was over by the time its submit returned (`rewound`):
the next reconnect tells its fills again, and a fill makes a canceled order work
until the end is told again. Without these exclusions TLC refutes `Reserved`,
`NoOversell`, `TerminalTruth` and `NeverRevived` in the runs; the code does so,
and section "Disagreements" says how. `sells` has no cancels, because a cancel over an
unresolved replace breaks the reservation (run `oversell`), and no crash, which
loses the reservation of a replace on its way. Its SELLs are guarded, so an order that is
rejected because its answer was lost occurs in no run of `SettledOrders`. `held` has
no stale account: add "stale" to its `Upsets` and `DisarmedIsPaused` fails, see below. `deferred` has
no drop, which would lose the only trigger of a deferred cancel.

In `tradezero` `OneLegLive`, `InSize` and `LiveIsHeld` exclude a lost answer to
a submit, and a poll that puts an earlier leg back (`"leg"` in `lost`); a poll or a list
that is stale in any other way they allow. `InSize` needs every list, `DoneIsDone` and
`LiveIsHeld` every push too. `FillsNeverFall` holds from when the core has folded what its
adapter emitted before the boot snapshot. TLC refutes `LiveIsHeld` and
`FillsNeverFall` without their exclusions, and `OneLegLive` and `InSize` with a
failure more than the run has (two drops and a poll). The properties of `subs`
exclude slots a lost answer left in doubt (`adrift`), a drop noticed after the
reconnect and a first resync that finds slots already admitted (`odd`). The
constraint `NotLagged` of that run checks the state a late notice leads to and
does not search beyond it: from there `SlotsKnown`, `LiveIsServed` and
`HeadroomKept` claim nothing more, and `TypeOK`, `ReadingSettled` and
`OnlyBadQuarantined`, which still do, are theorems of `Spec` without it.

**Fairness** (`LiveSpec` of `ExecCore`). The inbox and the outcomes are taken with strong
fairness: Go's `select` chooses at random among ready channels, so an item
that is ready again and again is taken. The loop over a print goes on. Every
request ends, since the HTTP clients have deadlines. An adapter reconnects
(`wsClient.run`), and a stopped engine is started again with a broker that
answers. No fairness is assumed of the operator, of prints, of fills, of the
held timer or of any failure.

In `SubManager` the goroutines run on, OpenD answers or times out and time
passes (weak fairness). A pass that is planned while no reading is being taken,
and a resync that finds a fresh reading, happen if they can again and again:
two readings are a minute apart, and the end of each wakes both. The client
dials until it succeeds. Nobody has to call, to fail, or to read in time.

In `PriceAlerts` the steps of `Run` go on, and its ticker is served although
prints may be ready each time (strong fairness, `select` again). Failed writes
are bounded, as `TouchIsKept` is about a store that recovers.

### Disagreements

Two runs expect a violation: the code does something its own documents or
comments deny. `PROJECT.json` quotes each line.

| run | what happens |
|---|---|
| `oversell` | a cancel overwrites an unanswered larger replace, whose shares are then offered again |
| `tz_revived` | an order filled before `SubmitOrder` returns is ACCEPTED again, and working for the core for good |

Other observations have no run of their own.

**Core.** The kill switch passes over an order whose submit is unanswered: its
cancel is refused and the refusal dropped (`core.go:1465`). A stale account
disarms the engine and leaves held orders waiting (`core.go:1639`). A deferred
cancel waits for an acceptance frame that a drop may lose (`held_lifecycle.go:433`).
An unguarded order whose submit
and probe both got lost is folded as REJECTED while it may be open, until a
list of the broker brings it back (`postSubmit`). An order that ended while
the engine was down stays working: the first connection of a process looks
nothing up (`reconcile`, `alpaca.go:625`). After a failed snapshot on a new
connection nothing reads again until the next drop, so the position stays
unready. After a restart with a pending Flatten, lists the adapter read before
the boot snapshot are handled after it. The snapshot of a Flatten that was read
before a fill is applied after it, since every `BrokerPosition` is ignored
meanwhile: the core is then ready and flat with a share in the account
(`core.go:1721`), where `docs/plans/2026-10-02-deferred-position-stop-sell.md:128`
says that an unreliable cache "must never be treated as a zero-share position".

The list of open orders names orders whose cancel or replace is pending at
Alpaca, or that an exchange stopped or suspended; `restOrderStatusDomain`
(`broker/alpaca/rest.go:843`) reads them as CANCELED, REPLACED or EXPIRED, and
`ReconcileOpenOrders` takes that as it is. The core then commits nothing for an order that may
still sell, lets another SELL go against the same shares, and drops the order's
`OrderReplaced` when it comes, since it is no longer working. `SubmitOrder` writes
its note after the answer (`broker/alpaca/alpaca.go:398`): of an order that ended meanwhile a
reconnect reports the fills and the end again.

**TradeZero** (`broker/tradezero/tradezero.go`).
A poll that read the list before a replace switched legs and is folded after it
makes the dead leg current (303): a cancel goes to the dead leg, which counts as done,
and after a reconnect a further replace can be confirmed by the old leg's end and
submit a third leg beside the live one. A poll that counts a fill before its frame
is read swallows it: the frame is no news, and nothing tells the core
before the next fill or list. The same holds of a fill between the boot snapshot and the first list of a
process.
When the answer to a resubmit is lost, the order is called dead while the new
leg may live (620); if then a list is applied that was read before, the dead
old leg is current again (303), and since frames do not update
`lastKnownStatus`, a further replace can be confirmed by a later list and a
third leg submitted beside the second. A timeout that wins over a confirmation
already there leaves the order without a leg, and its cancel swallowed (580). A
cancel during a replace goes to the old leg, whose 404 counts as success (650).
An order placed since the last reconcile that ends in a gap stays working (843).

**Subscriptions** (`feed/opend`). Two passes that both look for room before
either asks exceed `Budget` by a slot (`subman.go:602`); the headroom is still
kept. A subscription that was carried out but not confirmed holds a slot the
manager does not know; with no room left beside the headroom it is never asked
for again, and the demand starves until a reconnect. The same happens if the
first `ResubscribeAll` of a process runs after a pass has admitted something
(`subman.go:829`), and to a book whose request an `Ensure` cancels
(`optional_book.go:137`). A reading of the old connection that arrives after
`ConnectionDown` is taken as fresh (`subman.go:237`), where the comment at 321
wants one of the next connection. A pass deletes an unsubscribed key whatever
connection answered (`subman.go:594`). Each reading counts as pressure on the
recorder, which then gives up the books past their hold.

**Price alerts** (`pricealert`). `Feed` stores a gap over one that waits, and
the later need not be the newer: the market data core announces a print it has
no room for at once, while an earlier gap may still be on its way
(`run.go:16`). Prints between the two then fire, where the README of the
package says that queue overflow and feed gaps invalidate queued prices.

## 4. Proofs

| theorem | states |
|---|---|
| `TypeCorrect` | `Spec => [](TypeOK /\ VenueSound)` |
| `CustodyInvariant` | `Spec => []IInv` |
| `PostedOnce` | `Spec => []AtMostOnePost` |
| `IntentIsDurable` | `Spec => []IntentBeforePost` |
| `PretriggerIsLocal` | `Spec => []PretriggerHasNoChild` |
| `HeldSellsWaitSafely` | `Spec => []HeldSellLiveOnlyWhenReady` |
| `ImplementsOrderLife` | `Spec => LivesAsPromised`, that is `Lives!Spec` |
| `DoneIsTrue` | `Spec => []TerminalTruth` |
| `ReadyIsTrue` | finitely many orders and `"flatten" \notin Commands` give `Spec => []SettledPosition` |
| `DoneStays` | `Answered` gives `Spec => NeverRevived` |
| `DoneSellsStay` | `"flatten" \notin Commands` gives the same of the `Sells` |
| `CustodyIsDurable` | `Answered` gives `Spec => [](rewound = {} => CustodyDurable)` |
| `SellCustodyIsDurable` | `"flatten" \notin Commands` gives the custody of all orders, and the action of every SELL in neither `misread` nor `rewound` |
| `OrdersSettle` | `Answered` gives `Spec => []SettledOrders` |
| `UnresizedReserved` | `"flatten"` and `"replace" \notin Commands` gives `Spec => []Reserved` |
| `ResizedReserved` | `Uneventful` gives `Spec => []Reserved` |
| `UnresizedNoOversell` | finitely many orders, `Opening >= 0`, `Lasting` and `"replace" \notin Commands` give `Spec => []NoOversell` |
| `ResizedNoOversell` | finitely many orders, `Opening >= 0` and `Uneventful` give `Spec => [](Sells \cap rewound = {} => NoOversell)` |
| `OneLegIsLive` | `Spec => []OneLegLive` of `TradeZero` |
| `AdapterTypes` | `Spec => []TypeOK` of `TradeZero` |
| `OrderStaysInSize` | `Spec => []InSize` |
| `FillsAreReal` | `Spec => []NeverOvercounts` |
| `FillsStay` | `Spec => FillsNeverFall` |
| `DoneIsOver` | `Spec => []DoneIsDone` |
| `LiveLegIsHeld` | `Spec => []LiveIsHeld` |
| `SubTypes` | `Spec => []TypeOK` of `SubManager` |
| `ReadingIsSettled` | `Spec => []ReadingSettled` |
| `OnlyBadIsQuarantined` | `Spec => []OnlyBadQuarantined` |
| `NoSlotIsForgotten` | `Spec => []SlotsKnown` |
| `TheLiveAreServed` | `Spec => []LiveIsServed` |
| `HeadroomIsKept` | `Spec => []HeadroomKept` |
| `DisarmStops` | `"stale" \notin Upsets` gives `Spec => []DisarmedIsPaused` |
| `AlertTypes` | `Spec => []TypeOK` of `PriceAlerts` |
| `OneShot` | `Spec => []FiresOnce` |
| `OnlyLaterPrintsFire` | `Spec => []NothingStaleFires` |
| `MemoryFollowsDisk` | `Spec => []MemoryIsDisk` |
| `RetryIsSafe` | `Spec => []RetryUndoesNothing` |
| `DemandFollows` | `Spec => []DemandKept` |
| `MonitoringIsTrue` | `Spec => []MonitoringHasHeard` |
| `ScreenIsCurrent` | `Spec => []ShownIsCurrent` |

`Answered` stands for `"flatten" \notin Commands` with `"request" \notin Upsets` or
`Orders \subseteq Sells`, `Uneventful` for commands that only submit, replace, disarm and
resume, with no crash and no held order that reaches its deadline; the run `sells` is of
that kind. Those of the core hold for any finite or infinite set of orders, any bounds,
any commands and any failures (the last few under the hypotheses above), those of `TradeZero` for any size, any number
of replaces and any failures, those of `SubManager` for any symbols, demands,
quotas, bounds and failures, those of `PriceAlerts` for any alerts of the
symbol, any choices of sessions, any queue, bounds and failures. The assumptions are those of the modules that
declare the constants: `IdsAssumption`, `QtyAssumption`, `ClockAssumption`,
`UpsetAssumption`, `OddAssumption`, `OpeningAssumption`, `CommandAssumption`,
`HeldTimeAssumption`, `TZAssumption`, `SubAssumption`, `AlertAssumption`. They
say only that a subset is one and that a bound is a natural number (a threshold
a positive one, and the clock of the alerts, which starts at 1, goes that far);
TLC evaluates them in every run.

**Types.** `TypeOK` is not inductive alone: a fill adds to `exec`, which stays
within `Qtys` only because an order never executes more than its size.
`VenueSound` says so of every broker order, and with it every fold is shown to
stay in `Order`.

**Custody.** Why is an id never POSTed twice? A held order posts when it is
`Live`, so the proof must exclude a `Live` order that already has a child:
`Unlinked` (a waiting parent has no child) together with the fact that a POST
leaves its child link in the log and that the live order and the log agree on
custody. That agreement could be broken by a broker list that names an
unknown order, so `Quiet` says that nothing outside the core speaks of an
order that was never POSTed: no broker order, no request, no row of a
snapshot, no stream event. `Custody /\ (posts = 0 => Quiet)` over the types is
inductive (`IInv`), and the three promises follow. Each handler is first shown
to keep one order's custody (`KeepsCustody`), then each group of actions.

**Waiting.** A handler that could make an order wait is one of three: submit,
resume and, within a print, arming. `WakesNone` says of every other change
that it makes no order wait that did not. Over `IInv` this gives both
theorems: what loses readiness pauses, and what wakes an order has checked.
`DisarmStops` assumes that the account never goes stale, as it must.

**Refinement.** `OrderLife` knows four stages of an order: unknown, kept by
the engine, sent, done. `Stage` reads them off the broker's books, the requests
in flight and the log. An order that was POSTed can only go from sent to done:
by custody no second POST exists, and the broker never reopens an order. Of
an order never POSTed the stage is its status in the log. There the proof needs
that live and replayed status agree (`Twins`), which holds because by `Quiet`
neither a list nor an event names such an order; and that what the handlers
fold on their own (`Own`) neither accepts nor revives an order. `Moves` states
the three things a step may do to an order, one lemma per group of actions.

**Done.** What the core calls done it was told, so `TerminalTruth` is about what
may be told of an order that can still trade: nothing in the inbox ends it
(`Unending`), and neither the book nor the log says it is done (the log too,
because a crash makes it the book), unless some list gave it an odd status. `Alone` is what makes that inductive: an
order has one submission, gone once it landed, so an end at the broker is not
followed by a landing; and what rests there has shares left, so what a
reconnect reports as missed fills leaves some. The handlers end an order on
their own only while it waits in the engine (`Mild`), which one at the broker
no longer does (`AtBrokerIsSent`).

**Position.** `PosInv` says what the inbox still has to say to a core that has
the stream. Its last word on the position tells the broker's; or the stream
breaks and no list follows, which leaves the core unready; or the core is
unready and no list waits; or it has the true position and nothing that waits
moves it (`Tracks`). A list alone makes the core ready, and a list follows the
positions read with it (`Paired`), so a core is never made ready on an older
position. The stream sends the position after each fill, and a fill is folded
with its shares (`FillsDelta`): a sum over the orders, of which the proof needs
only that it is zero where no order fills. Hence finitely many orders. Nobody
may flatten because the snapshot that the goroutine of a Flatten read is applied
behind newer events (section 3); a command set with `"flatten"` lets TLC refute
`SettledPosition`.

**Staying done.** `DoneIsTrue` says that nothing which ends an order waits while
it can still trade. `DoneStays` needs the other direction: nothing waits behind
an end that would revive the order (`EndsLast`), neither an acceptance or a fill
nor a list that has it. A list has only what is open; the fills a reconcile
reports are those of orders the adapter tracks, so what is tracked must not be
known to be done (`Laid`): the adapter forgets an order with the frame, or the
reconcile, that tells its end. A submit that returns after the end sets the note again,
and a list with an odd status ends an order that is still told of; such orders are
left out of `Rest`. `Firm` are the orders no lost answer rejects: the
SELLs, and all of them while no answer is lost. The hypotheses are where the
code may revive: `postSubmit` rejects an order whose answer was lost, even one that
filled meanwhile, and the snapshot of a Flatten lists orders that ended since
it was read. With `"request"` among the upsets and a BUY TLC refutes `NeverRevived`.

**Agreement.** A broker list is overlaid on the live orders and not on the log,
so from then on the two differ in status and quantities, and the next event is
folded into both. It must not mean one thing live and another replayed: a
rejection fails a pending action, a replace is confirmed only of a working
order. `SInv` says of a firm order that both agree on whether it works
(`Alike`). That needs that what is at the broker was never refused and is not
about to be (`Stands`), since a list names only what is open there. It needs `Past`,
too: what a submit returns to late is over and stays over, so a rewound order still
`Stands`, although the fills told again make it work in the one and not in the other for
a moment. `OrdersSettle` asks nothing of what is not open, but `CustodyIsDurable` must
leave such runs out. Of an order
that is not firm it is false: `postSubmit` rejects it when the answer is lost,
and a later list brings it back live while the log has it rejected.

`OrdersSettle` is about what the inbox still has to say. `Current` holds of an
inbox whose last word on a question is right, or that is silent on it while the core has
the answer. `Knows` demands it of the fills and of the size of every open order,
once the core will trust its books (`Trusted`: nothing breaks the stream, or a
list follows the last break). Nothing said exceeds the fills (`Bounded`, so that
a list or a replay that lags leaves nothing above them), a submission asks for the
size of its order (`Fits`), and a process that is down left a broken stream
(`Down`), so that a restart on the log alone trusts nothing until the next list.
The steps are first brought to what they do to one order: `Does` for the
core's own, `Learns` for the head of the inbox, `Dies` and `Restarts`, and six
kinds of steps outside. Each lemma above is then proved over these.

**Reservation.** `Reserved` compares what the broker may still sell of an order
with what `sellLeavesCheck` counts of it, so it needs the sizes to agree, not
only in the end, as `OrdersSettle` has it, but at every moment. Without replaces
they do: the book, the log, the inbox and the broker have `OneSize` of an order
from its submission on, where a message has the size if what it says was filled and
what is left add up to it. Then what is left in the book is at least what is left at
the broker, because the book never has more fills (`Bounded`). This holds over crashes,
cancels and the kill switch (`FInv`).

With replaces an order has two sizes for a while, and `Sized` follows them. It
is `Steady`, with one size; or `Asking`, where one size is asked for, by every
request on its way, and the broker has the old or the new one; or `Granted`, where the
broker has the new one and exactly one word of the inbox will say so, followed only by words
of that size (`Resizing`). While it is `Asking` or `Granted` the request is
pending in the core (`Pends`), which then commits the larger size. A rewound order need not be
`Sized`: nothing of it is left at the broker. Whatever clears
or overwrites the request before the answer breaks this, which is what `Uneventful`
excludes: with `"cancel"`, `"kill"` or `"shutdown"` added to the commands of `sells`, or
`"crash"` to its upsets, TLC refutes `Reserved`.

**No oversell.** `Reserved` bounds what each order may sell; `NoOversell` adds them
up and compares the sum with the shares the account holds, while `sellLeavesCheck`
compares what is committed with the position of the core, which may be behind. The
proof says how far behind it may be without harm. A position is `Backed` if it is no
more than the account would hold had each order filled some number of shares, where these numbers are
safe to sell on (`Backs`): of a SELL the number counts at least what the book
knows, so that no share is both in the position and no longer committed, and all that was
filled once the order is done for the core; of a BUY it counts no more than was
filled, and nothing the stream is still to tell, which would be added twice.
`Backing` asks this of the position of a core that trusts it and of every
position on its way in the inbox, to be trusted when it is read; that a new one is
backed needs that the fills of an order are told in rising order (`Rising`) and, of a SELL, before its
end (`EndsLate`). All this speaks while no SELL is misread (`Clear`); where sizes
change, while none is rewound either (`Unwound`), since the end told again may find an order
that works with a size the broker no longer has. A reservation that passes the check is then paid for by shares the account has
(`Grants`): what an order may sell is at most what is committed of it and what its number
counts beyond its fills (`ExposureBacked`), and the sum of both is bounded by the position. What
`Covers` says of one order, and so both theorems, is shared with `Reserved`.

`Lasting` excludes a restart, and must: with `"crash"` among the upsets of `sells`, or
`"shutdown"` among its commands, TLC refutes `NoOversell`. The adapter of the new
process queues a position before `Recover` reads a later one; the core then
takes the older position back while its book has the fills between them, and a
SELL is let go against shares that are gone, until the fills reach the inbox.

**One leg.** A second leg is submitted only by the goroutine of `ReplaceOrder`
after a confirmation, so the question is whether a confirmation can be about
another leg than the one that lives. `Truthful` says that a frame or a row
about an ended leg tells its end, `Numbered` that legs are numbered as they are
submitted, and `Certain`, the heart of it, that nothing is open once the end of
the old leg is sure, and that a leg wrongly believed current (a list read
before the switch makes it so) is `Settled`: known dead, counted, with no
cancel left in the stream, so that neither a frame nor a list can confirm it
again. A poll is harmless if it leaves the current leg, and while a process has submitted nothing what its polls
read open is the leg that is (`PollBehind`). `Certain` is kept only while no answer to a submit is lost
and no poll puts an earlier leg back (`Sound`); the rest of `IInv` always.

**The size.** What an order has filled is a sum over its legs. `SumProofs` shows
of such sums what the proofs need: they rise with their terms, differ by the
one term that differs, and are those of a part outside of which all is zero.
The library's induction theorems cannot be used (they take an operator), so the
lemmas are proved with sets: of the numbers, or the subsets, for which a fact
fails there would be a least one.

`Books` ties what is read and told to what has filled, leg by leg, and gives
`FillsAreReal` and `FillsStay`: what the core has been told, and what it has yet to fold, is no more than
the counters add up to, no counter exceeds its leg, and none falls before the next restart
(`ToldIsRead`). Polls raise counters too, so the core may lag behind them, but nothing
emitted later says less than it knows.
`InSize` needs that each fill is counted before the next leg is sized. A leg is
`Loose` while it can fill or its counter is behind. `Counted` says that only
the newest leg is (`LooseIsLatest`), that what is not counted is in a frame or
in the list (`Explained`), and that none is `Loose` when the end of the old leg
is sure (`EndIsCounted`). The last one holds because a frame that ends a leg is
the last of that leg (`FramesEnd`), so its fills were read before it; and, where
a list confirms the end, because the list brought its fills. Then the size of the next
leg is what the fills left, and `Sized` is kept: the newest leg at its full size
and the fills of the others stay within the size asked for. The first list or snapshot a new
process folds finds that size again in the legs, because the row it takes for the
current one is the newest that was not refused.

**Nothing lost.** While no answer, list or connection is lost, an order called
done has no leg that can fill (`DoneIsDone`), and what may fill is the leg the
adapter holds and no more than the core counts on (`LiveIsHeld`). Neither is
inductive; `Lossless` names what they need. A replace can only end an order by
the end of its old leg, so the frame that says so must be told from one of an
earlier leg: every frame in the queue is of the newest leg (`OfTheLatest`), and once the
end is sure nothing is behind it and the core still calls the order working
(`SureIsLast`). Otherwise an order ends during a replace only if its leg filled,
expired or was refused (`EndIsReal`). The list a new process reads first, before or after the core runs, finds it
without a connection, a replace or an end it waits for (`StartIsCalm`), so it can tell only of
what is alive (`MailCovers`, for what waits in the inbox). `LeavesCover` follows the quantity the core counts on through
the frames: the last fill read, or the last submit, leaves what the size lacks.

**The barrier.** The poller reads the quota once `pending` is zero, and every
worker shares that counter. `Counted` ties it to what it stands for, the keys
the jobs and the recorder's worker have still to finish, and `holds` to the
readings and replays under way. So a reading that found no slot reserved finds
none to its end (`ReadingAlone`): its own hold leaves nothing free to reserve.
A job that started twice would break the count, so the proof needs that a
connection is resynced once, and that needs the order of the notices
(`Alternate`, `Noticed`, `ResyncOnce`). A symbol is quarantined only for an
answer about itself (`Blamed`), because a refused batch of several is halved.

**Served.** The manager changes `active` on an answer, and an answer may be of
a connection that is gone. `SInv` says why that does no harm while `odd` is
empty. On a connection in order whatever is in flight was sent on it
(`InOrder`); what a noticed drop left behind carries an old generation
(`Parted`); nobody but the resync admits before it (`DownAdmitsNone`), and until
then OpenD has nothing (`Bare`). `Believed` and `Served` are the two promises
with `Arriving` and `Leaving`, what OpenD has done and its asker has not seen,
in place of `Pending`, which is larger and not inductive. The steps fall into
those that send nothing, the requests, the resync and the connection.

**Headroom.** What is live does not say what may soon be: a request under way
becomes a subscription before its answer is read. `HInv` therefore counts what
is reserved on the present connection with what is live, and asks that both
leave the headroom free (`Within`). A pass, a replay and the recorder reserve
no more than the last reading leaves after what was debited since, and that is
not too much, because what is left of the reading and what is live without a
reservation never exceed the room (`Debited`): the reading is of a moment with nothing
reserved (`ReadRight`), an admission is debited as its reservation ends, and once a
connection has ended no reading is trusted until all that was reserved on it is given back (`OfNow`).
Between two connections nothing is reserved (`NoneApart`), so the room of the
next one may be smaller. It remains to count what is asked for. `AddsFit`
bounds the first keys of an order by their number, and `DesiredFits` what
`desired` keeps: `Desired` folds over the symbols, the one that comes last
(`Hindmost`) last, as the loop over the sorted list does; the lemmas show that
the order is total (two calls never have the same date, `Dated`), that a finite
set has a last element, and that the fold is the function its equation defines.

**Alerts.** Prints have numbers that the code does not know: it compares times,
and `after` of an alert is the time up to which prints do not count. `Queue`
says that the numbers grow from those heard over the one taken to the end of
the queue, and that a print under way with a number up to the floor of an alert
has a time up to its `after`: every step that raises a floor (a change, a
start, a gap) sets `after` to the present, which all prints under way have
reached. So a print that fires lies above the floor, and the mark counts for an
alert only if a print above its floor was heard (`Hearing`). An alert fires
once because what can still fire on disk has not fired since it was armed
(`Firing`), and a write that waits is the only one for its alert and belongs to
how it is armed now (`Retries`), as every command on it is refused until then
(`HeldBack`). `refreshLocked` is part of four actions; `OutcomeKeeps` shows once
that it preserves the invariant from what its caller hands it (`Given`).

**Only model-checked.** `CancelReaches`, `SubmitSettles`, `EventuallyServed` and `TouchIsKept`. They are liveness,
which with `ENABLED` is outside what the prover does. Every invariant and every
action property of the passing runs is a theorem, under the hypotheses above where
there are some.

## 5. Not modelled

Risk entries, trailing stops, deferred position sizing, the protective price
filter, external orders, several venues or symbols, the prices of the gate, a
failing append, the moomoo and the simulated broker, market data beyond a print
and a gap, seeds and pushes of the feed, who may claim the popup and the sound of
an alert, the history quota, the UI hub
and the recorder's segments. `PROJECT.json` gives the reason for each
component. Protobuf code, the largest part of the tree, is generated; the UI
trusts the engine for every order state.

## 6. Plan

In the order of what a mistake would cost:

1. `AlpacaStream`: the adapter in finer steps (two reads of a snapshot,
   bookkeeping after the answer, the failed snapshot), checked for each
   transition reported once and in order.
2. `RiskEntry` and shared adds: the stop covers the filled shares through
   fills, replaces and failures; then deferred sizing.
3. `TrailingStop` with ownership and attribution; `ProtectivePrice` with its
   bounded wait.
4. `ExecCore` with a short position (COVER) and with an append that fails.
5. `AccountPoller` with the gate, `Outbox` of the UI hub, the
   token bucket, the recorder.
6. Proofs: what each of these modules promises, from an inductive invariant of its own.
