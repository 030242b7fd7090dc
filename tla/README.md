# ORB Gap Trader: TLA+ models, checks and proofs

The program trades opening-range breakouts of leveraged ETFs through Interactive
Brokers (IB).  Once a day a *session* picks candidates before the open, waits for
the opening range to close at 10:00 ET, enters on a breakout with a bracket order
(entry, TP1 limit, stop), manages the position on each bar, and flattens
everything before the close.  What can go wrong is mostly not arithmetic.  It is
the order in which bars, fills, cancellations, order errors, restarts and the
end-of-day sweep meet one another.  These modules model that.

Paths below are relative to `src/orb_live/`; `src/` is the repository.

## 1. The system

| part | state it keeps | operations | talks to |
|---|---|---|---|
| `LivePositionManager` (`execution/position_manager.py`) | `_positions`, `_pending_entries`, `_fills_recorded`, fill watchers, margin rates and budget | `open_position`, `on_bar`, fill watchers, `_on_order_error`, `flatten_all`, `startup_reconcile`, resting entries | broker, state store, risk gate |
| `RiskGate` (`execution/risk_gate.py`) | realized P&L, kill flag, starting equity | `session_start`, `authorize_entry`, `record_realized_pnl` | manager's positions, account, `day_state` |
| `IBClient` (`data/ib_client.py`) | IB's orders, portfolio, streams, aggregators | orders, cancels, brackets, status polls, streams, reconnect | IB Gateway |
| `BarRouter` (`runner/bar_router.py`) | listeners, last bar, bar counts | subscribe, unsubscribe, missed-bar replay, dispatch | `IBClient`, runner |
| `StrategyEngine` (`runner/strategy_engine.py`) | per-symbol entry state | `new_session`, `on_orb_complete`, `on_bar` | manager |
| `SessionRunner` (`runner/session_runner.py`) | watched symbols, start equity, phase | the phases of a day, reconnect, watchdog, sweep, signals | all of the above |
| daemon (`runner/main.py`) | last date run | one session a day, the same day again after a lost socket | runner, clock |
| `StateStore` (`core/state_store.py`) | SQLite: `open_positions`, `closed_trades`, `day_state`, ... | one statement per operation | - |
| `MarketClock`, calendar (`core/`) | - | session dates, phase times, half days | `IBClient.get_clock` |
| `UnderlyingDataStore` (`data/underlying_data.py`) | one file of daily rows per underlying | `update_all`, `check_freshness` | IB, yfinance |
| pre-market (`signals/`, `strategy/v1_strategy.py`) | - | gap scan, candidates, regime, shares of an allotment, cap; preflight | daily rows, bars, overrides |
| session fixture (`strategy/session_fixture.py`) | one file per session | write; replay for tests | pre-market |
| order policy, bar cache, dry run, configuration | small or none | helpers | - |
| operations (`ops/`, `scripts/`, `tools/`) | - | reports, metrics, calibration, backups | read the store |

One process, one asyncio event loop.  IB events (bars, executions, order errors)
run as callbacks, each to its end.  The main thread sleeps by pumping the loop and
runs the phases between sleeps.  So there is no pre-emption, but:

- `flatten_all` runs on the main thread and pumps the loop for a quote in the
  middle, so callbacks interleave with it;
- every status the program reads is older than the exchange's truth, and every
  cancel is a request;
- the process can die between any two handlers, and the database is all it has
  afterwards;
- the same manager object serves session after session in daemon mode;
- the main thread's sleeps end at times computed from a clock that is asked again
  at every phase, and a dead socket answers "no positions", not an error;
- a daily row on disk is never replaced, and the program may start at any time of
  any day.

What makes each part correct:

- *Manager*: shares bought are covered by an exit until they are sold; one entry
  at a time; partial fills are counted once; database and memory agree; a trade is
  booked once and only if it happened; every pending entry ends.
- *Gate*: the margin of everything live fits the budget, however many symbols
  break out at once; after the kill nothing is entered that day, restarts included.
- *Feed*: bars in order; one attempt per breakout; subscriptions follow the runner
  through reconnects and end with the session.
- *Resting entries*: what is kept fits budget and exposure cap however many orders
  fill at once; what is not kept is sold; the sweep leaves nothing.
- *Main thread*: every trading day has one session, on that day; the sweep is sent
  while the exchange trades; no shares are forgotten, none are sold twice.
- *Pre-market*: the plan is made from closes of whole, recent days; one ETF of an
  underlying, of those that can be filled; sizes within the cap; a replay of the
  fixture gives the plan that was traded.

## 2. Modules

| module | what it is |
|---|---|
| `IBGateway` | the order side of IB as `IBClient` uses it: order slots, brackets with OCA, cancels, statuses, fills, refusals, portfolio updates |
| `PositionManager` | extends `IBGateway`: `LivePositionManager` for one symbol, with sessions, crashes, the sweep and `startup_reconcile` |
| `EntryBook` | abstract: claims of several symbols on one margin budget and one exposure cap |
| `EntryGate` | `RiskGate` and the margin budget of `open_position`, over several symbols; implements `EntryBook` |
| `RestingEntries` | the pre-placed entry mode, over several symbols, to the end of the sweep; implements `EntryBook` |
| `BarFeed` | 5-second stream, aggregation, replay, entry states and the runner's subscriptions, for one symbol |
| `Daemon` | the main thread over several days: daemon loop, phases, clock, socket, signals, restarts |
| `Selection` | the gap scan and `plan_session` as operators |
| `PreMarket` | extends `Selection`: daily rows, freshness gate, both phases, fixture, over days and reruns |
| `MCEntryGate`, `MCRestingEntries`, `MCPreMarket` | numbers and tables for the runs |
| `SumTheorems` | lemmas on finite sets: least and greatest members, sums of a function over a set |
| `*_proofs` | theorems about the module of that name; `PositionLedger_proofs` about the rows and the entries of `PositionManager` |

`PositionManager` and `IBGateway` are one composition: the manager's actions are
handlers, the gateway's are the exchange's.  `EntryBook` joins the two entry modes:
each has its own control, and both refine it.  `Daemon` has a book of one share, as
far as the phases depend on it; what happens inside a session is in the others.

### PositionManager and IBGateway

| variable | code |
|---|---|
| `ord`, `nxt` | `ib.trades()`; an id is a slot, `nxt` the next free one |
| `net`, `seen` | the exchange's position, and `ib.portfolio()` as the client last got it |
| `execs` | execDetails events not yet delivered |
| `pos` | `_positions[symbol]`: status, `entry_shares`, `remaining`, `tp1_filled_qty_booked`, the two leg ids, `tp1_hit` |
| `pend`, `overdue` | `_pending_entries[symbol]` and its 60-second age |
| `row`, `ledger` | the `open_positions` row and the `closed_trades` rows |
| `watched`, `recorded` | registered fill watchers, `_fills_recorded` |
| `at`, `fl` | where `on_bar` and `flatten_all` are |
| `armed`, `late`, `phase` | engine in ORB_COMPLETE, bars past 15:58, runner's phase |
| `sessions`, `overlaps` | history: sessions started, and those started within the day of the one before |
| `crashes`, `fails` | history: deaths and same-day reruns, submissions that raised |

`on_bar` is two actions, `CheckPendingEntry` and `ManageOpen`, with `at = "manage"`
in between: both belong to one callback, and only the exchange can act between
them, which is what two status polls of one callback can see.  `flatten_all` is
`FlattenExit` or `FlattenNoExit`, then `FlattenBook`, then `FlattenTail`; between
these, callbacks run.  For one symbol the wait before the tail stands for the
other symbols' exits, which pump the loop too.

How the rest corresponds:

- Quantities are signed in the direction of the session's trade, so longs and
  shorts are one case.
- A partial fill is reported as `Submitted` or as `PartiallyFilled`; the first
  fill of an OCA child blocks its sibling; the children of a parent that was partly
  filled and then cancelled may stay active or go.
- A refusal under code 201 reaches `_on_order_error` (`OrderRejected`); any
  other only changes the status (`Refuse`).
- Orders are day orders: `DayEnds` drops what is left.  The Gateway's nightly
  restart loses events nobody read.
- A session starts on a new day (`StartsNextDay`), or within the day of the last one
  (`StartsInDay`): the daemon runs a day again after a lost socket, and the service
  manager restarts a dead process after 30 seconds.  Then the orders of the first
  session may still work at IB, and `startup_reconcile` has deleted the `entering` row
  that named one.
- Branches no state of the production system reaches are left out: the immediate
  fill and the immediate rejection of `open_position` (IB's answer is never in
  before the loop runs), `exit_qty <= 0` in `_exit_all` (a flat symbol has no
  position row), TP2, TP3 and trailing (`exit_ratio_tp1 = 1`).
- `reconcile_from_broker` leaves nothing that `startup_reconcile` right after it
  does not sell; its effect is that of `StartSession`.
- Status polls do not fail within a session; crashes fall between handlers.

### EntryGate

`pos`, `realized`, `killed`, `funded` are the manager's and the gate's memory,
`killDays` the `day_state` rows.  `held` and `loose` are shares at the broker and
shares of entry orders the manager has given up.  `booked` is what the closed legs
of the day really made, whether the gate was told or not.  An entry takes the path
of `open_position`: gate, margin room, size-down, minimum fraction, buying power.
`EntryRefused` covers every other outcome, the account read that answers zeros
included.  Rates are scaled to integers.  Not modelled: a budget that could not be
seeded (then no margin check runs).

`Book` maps an entering position to a claim, an open one to a settled claim (which
may turn out dearer by the slip of its fill), none to none; `NewSession` is
`Forget`.

### RestingEntries

| variable | code |
|---|---|
| `todo` | candidates whose `on_orb_complete` has not run |
| `entry`, `legs`, `stray`, `mkt` | orders at IB: the stop-limit entry, the OCA pair, a TP1 order whose stop could not be placed, market exits |
| `told`, `seen`, `held` | shares execDetails told of, shares `ib.portfolio()` shows, shares held |
| `resting`, `pos`, `row`, `killed` | `_resting_entries`, `_positions`, `open_positions`, the gate's kill flag |
| `fl`, `leaving`, `handled` | where `flatten_all` is, and its `handled` |

The callback of the execution that completes an order is one action: accepted
(`FillAccepted`), sold again (`FillReversed`), or sold because the pair raised
(`FillUnprotected`).  All are one callback of the loop, so only the exchange moves
around them.  `processed` and `excused` are history.  `excused` holds the symbols
where a call raised, or the exchange filled an order the sweep had cancelled or was
selling; `SweepLeavesNothing` claims nothing of those.

`Prewarmed` is the set of symbols whose margin check was answered
(`prewarm_margin`).  The fill path reads `_margin_rate` itself, so that a symbol
not prewarmed costs 1.0, while the committed margin uses the table.  The budget
holds for symbols that are prewarmed or whose rate is at most 1, as in the run;
elsewhere a dear symbol is accepted too easily.

### Daemon

A day is cut at the eight times the code looks at (`slot`).  `pc` is where the main
thread is; `wakeDay` and a slot say when a sleep ends.  `Due` says that a step of
the main thread is due now, and then time waits.  Time does not wait for Gateway: the
main thread may be inside a reconnect (`Starting`, `Retrying`) or between two tries of
the daemon (`reconn`), which sleeps up to a minute after each, and an outage can last
past the close.  Only the retries of a session or of its start are bounded (half a
minute), so at 16:00 they are due.  `get_clock` answers a dict computed
from local time, with every close at 16:00; `next_market_day` may also fall back to
the calendar.  `handler` is whose signal handlers are installed: the runner's stay
after its first session, so that a signal flattens and exits, even in the daemon's
idle time.  `mem`, `row`, `held`, `seen`, `exits` are the book.  Market orders sent
before the open fill at the open; after the close they expire.  `late`, `straddled`,
`excused` and `twice` are history and name the situations the properties except:
a start or reconnect after 15:54:30, a start or pre-market phase past the close, an exit
that could not be sent or expired, a flatten or a death that met an unsettled exit.

### Selection and PreMarket

`Selection` is pure: `Qualified` and `OvernightGaps` are `scan_gaps`, `PlanSession` is
`plan_session`, `Plan` both.  Gaps are whole percentages of the ETF, and sixths of
a percent of the underlying, so that division by a leverage of 1, 2 or 3 is exact.
`PreMarket` has the state around it: `store` (rows by day, each with its close and
whether the day was over), `torn` files, the phase, `made` (Phase 1's plan), `watched`,
`fixture`.  `Available` is what a source has on a day: crypto has a row for every
calendar day and a partial one for today, an equity has today's only after the open.
Bars and the three preflight gates of Phase 2 are outcomes (`Replies`); what the
code makes of them is in `Accepted`.

### BarFeed

`agg` is the bar being built, `last` the router's last bar, `received` its
counter (never reset, though the docstring of `bars_received` says "since last
subscribe()"), `stream` the client's stream and `subscribed` the router's belief.
`fed` and `attempts` are history: what the listeners got in this session, and its
`open_position` calls.  A tick runs the whole listener: the raw bar to the engine, then
the aggregator, then the router with every dispatched bar.

`stop_bars_stream` flushes the partial bar wherever the code stops streams: reconnect,
watchdog, replaced subscription, end of session.  If the router then sees a gap, it
asks IB for the missed bars, and `reqHistoricalData` runs the event loop until the
answer is there, with the stream still subscribed.  So such a flush is two actions of
the main thread: `FetchStarts`, and the action that stops the stream, which replays
what the fetch answers (any of the minutes asked for, the current one included) and
then the flushed bar.  Between the two, ticks go on and may dispatch newer bars
(`fetch` holds the request, `FetchTicks` its timeout).  Inside a callback of the loop
the same request fails, for the loop is running already: a gap seen by a live bar is
never replayed.  So does a request on a dead socket.  The stage `arming` is between
the loop over the candidates and the subscription; the watchdog subscribes all watched
symbols anew when any of them had no bars, this one or another.

Whether a sleeping runner notices a lost socket is left open, so nothing here is a
liveness property.  Exceptions other than `ConnectionError` end the process, which is
`Init` again.  The latest-entry cutoff is unset in production and left out.

## 3. Runs

Runs that pass:

| run | instance | properties |
|---|---|---|
| `PM_Partial` | one session, 2 shares, fills in pieces, any order refused, two submissions that raise | `TypeOK`, `RemainingAccounts`, `LedgerIsBacked`, `PendingResolved` |
| `PM_Days` | two sessions, on two days or within one; one crash anywhere, or the day run again; refused entries | `RowsAreCurrent`, `EnteringIsPolled`, `EntryNeverStacks`, `HoldingsCovered` |
| `EG_Gate` | two symbols, two sessions on the same or the next day, fills that slip by one | `TypeOK`, `RecordedLossKills`, `KillSticks`, `ImplementsBook` |
| `BF_Feed` | two days of 9 ticks, two lost sockets, one session run again, fetches of one tick | `TypeOK`, `OneAttempt`, `BarsInOrder`, `NothingStreamsAfter`, `WatchedHasStream` |
| `RE_Fills` | two symbols of 2 shares and 1, fill prices that fit both limits, one, or none; two calls that raise | `TypeOK`, `ExitsMatchHoldings`, `SweepLeavesNothing`, `ImplementsBook` |
| `DS_Daemon` | three days, the third no trading day; one outage of any length, one signal, one death, each anywhere; start at any time of day one | `TypeOK`, `TradesOnItsDay`, `SweepBeforeClose`, `NoSilentOrphan`, `SweepCovers`, `NeverShort`, `RunsOnce`, `EveryDayRuns` |
| `PL_Premarket` | two sessions with a day between that is none; an equity with two ETFs and a crypto with one; two starts a day, one death | `TypeOK`, `ReplayReproduces`, `EquityClosesFinal`, `PriorSessionRead`, `AllotmentShared`, `ExposureWithinCap`, `OnePerUnderlying`, `EveryUnderlyingElected`, `FillableElected`, `SidesAgree` |

Why the bounds are enough.

- `PM_*`: `EntryQty = 2` with `PartialFills` gives every distinct partial fill (none,
  some, all) for the entry and for TP1.  `MaxOrders = 8` is more than a session can
  send in that instance: a bracket, a fresh stop, an exit, a sweep, and what
  raises; 12 is enough for two sessions.  A session within the day of another starts
  with at most `RerunSlots = 3` slots used, which is a bracket: at work, filled or not.
  `MaxFails = 2` reaches the branches where a
  stop raises and the emergency exit raises too.  One crash at any point, followed
  by a day, reaches every recovery of the code.
- `EG_Gate`: full entries of 12 and 6 margin units in a budget of 16 make the second
  one sized down, or refused.
- `BF_Feed`: two minutes of ticks after the watchdog, with two drops, give gaps of
  two minutes, a flush and a new subscription in the same minute, and a drop before
  and after the ORB close.  A fetch of one tick is enough for the stream to
  deliver the bar after the flushed one.
- `RE_Fills`: margins of 32 (price 2) and 40 share a budget of 70, so that both fit
  only when one fills below its boundary; the exposure cap of 6 is exactly both at
  the boundary.  One of the rates is below 1, one above.  A budget cancel needs one
  symbol filled and one resting; more symbols only repeat it.
- `DS_Daemon`: two sessions, so that one can follow a completed, a crashed and a
  late one; a holiday, so that the next day and the next trading day differ.  A
  second drop, signal or death starts from states the first one left.
- `PL_Premarket`: three rows per underlying, one of them today's, is what the tail
  of the fixture and the two closes of the filter tell apart.  Two ETFs with equal
  closes, opposite sides and rates on both sides of the limit reach each branch of
  the pruning; the shared allotment has both underlyings in it.  The mornings are
  agreeing and disagreeing siblings, gaps too small, filtered out, or missing.

`HoldingsCovered` speaks of the first session only, and of submissions that do not
raise: a position that a session leaves behind overnight is not covered by design
(orders are day orders).  `EntryNeverStacks` says that entries do not stack while every
session finds the orders of the day before expired.  A session started within the day
of another (`overlaps`) finds the row of a working entry and deletes it, the order works
on at IB, and a second entry may follow: that is what the code does, and the property
bounds it by one more entry for each such session.

`BarsInOrder` excepts one case, the flush that waited for its fetch: the class comment
of `BarRouter` (`bar_router.py:36-38`) has missed bars "replayed before the live bar is
dispatched", and on the main thread newer bars can come first.

`OnePerUnderlying` states the code (`keep_n = 1`, "always keep exactly 1",
`v1_strategy.py:363` and `379`).  Older texts disagree: "keep up to the 2 most-expensive
ETFs" (`v1_strategy.py:323`), "skip-cheap-top-2" (`v1_strategy.py:317`,
`pre_market.py:12` and `218`), "skip-cheap-then-top-2" (`README.md:233`).  Likewise
`docs/OPEN_ISSUES.md:626` says of the shared allotment "Not implemented", and the
code has it, as `AllotmentShared` states.

Runs that find a property violated.  Each states what a comment or docstring says.

| run | the text | what happens |
|---|---|---|
| `PM_OcaAlert` | `position_manager.py:692`, "Verify IB cancelled the stop sibling via OCA" | the test looks for `"cancelled"`, the client says `"canceled"`: a clean TP1 raises the alert and the position is retained with nothing remaining |
| `EG_StopLoss` | `risk_gate.py:69`, "Called by LivePositionManager after each closed fill leg" | stops and fill watchers do not call it: stop losses never reach the kill |
| `DS_HalfDay` | `session_runner.py:457`, "Respect half-day schedules (e.g. July 3 closes at 13:00 ET not 16:00)" | `is_half_day` reads an attribute of a dict, the exception is swallowed: the sweep of a half day is sent at 15:59:30 |
| `DS_Recover` | `session_runner.py:179`, "Before anything asks the broker a question" | `recover()` asks for positions before the socket is looked at; a dead one shows none, the row of held shares is closed and purged |
| `PL_Closes` | `underlying_data.py:26`, "the most recent 2 closes available for each underlying" | a crypto row stored at 08:30 of its day is partial, is never replaced, and is read as a close from the next day on |

Deadlock is checked in every run; `Done`, or `Over`, is the system at rest.

## 4. Fairness

`PendingResolved` (`PositionManager`'s `FairSpec`): `BarsKeepComing` is weak fairness
of the two halves of `on_bar`: IB sends a bar every five seconds while the runner
trades, and a callback finishes.  `WF(EntryOverdue)` says that time passes.
Nothing is assumed of IB's answers, cancellations or fills.  The property allows
for the end of the session, because the sweep or a crash ends a pending entry too.

`EveryDayRuns` (`Daemon`'s `FairSpec`): weak fairness of `MainThread`, because a
thread that is not asleep runs on; and of the market's and the
portfolio's part (`PortfolioUpdate`, `ExitFills`, `ExitDies`), because a market order
fills or expires, and the client is told.  `Tick` has strong fairness: between two
tries of the daemon's reconnect loop there is a step of the main thread, and each try
sleeps, so time passes though the daemon keeps turning.  Nothing is assumed of
Gateway, which need not come back, nor of lost sockets, signals and deaths.  The
property excuses what ends the process, a start or pre-market phase past the close, and a
day at whose close the socket is down: from 16:00 on `next_market_day` names the next
day, so that the daemon, which would have run the same day again, skips it
(`main.py:283-285`).

## 5. Proofs

Every theorem is for every value of the constants that satisfies the named
assumptions of its module (`GatewayAssumption`, `ManagerAssumption`,
`GateAssumption`, `FeedAssumption`, `RestingAssumption`, `SelectionAssumption`,
`WeightsAssumption`, `PreMarketAssumption`, `DaemonAssumption`): any quantities, order
bounds, refusals, sessions, crashes, symbols, prices, rates, calendars and tables.  The
runs evaluate these assumptions.  Four theorems assume more, and say so below.  Every invariant, action
property and refinement that a passing run checks has its theorem.

`SumTheorems` is what the proofs about margins, exposures, weights and shares share.
`SumFunctionOnSet` adds in an order that `CHOOSE` fixes, and the induction theorems of
the library are out of the provers' reach.  So each induction is written out over a set
of counterexamples: a set of natural numbers has a least member (`LeastNatural`), and a
smallest set on which a lemma fails leads to a smaller one.  A sum grows by the value
of what joins the set (`SumSplit`), depends on the values only (`SumAgrees`), changes by
what one value changes (`SumChanges`), falls where its terms fall (`SumFalls`), differs
from another sum by the sum of the differences (`SumDiffers`), and is bounded by a bound
on its terms (`SumBounded`).

`PositionManager_proofs`: `Invariance` shows the inductive invariant `IInv`,
and `TypeCorrect`, `RowsStayCurrent`, `EnteringStaysPolled` and `SharesAccounted`
follow from it.  The four properties are not inductive one by one.  `rem` stays a
natural number only if no more TP1 shares are booked than the leg has, which needs
`RemainingAccounts`; that needs what an order id of `pos` refers to (`OrdersOK`:
the bracket's children follow the pending parent, exit legs have at most the
quantity of the position) and that slots at or above `nxt` are unused (`SlotsOK`).
`RowsAreCurrent` needs to know that memory is empty while the process is down
(`DownIsIdle`) and that a position without a row comes from an earlier session
(`FirstSession`).  The proof has one lemma per group of actions.

`EntryGate_proofs`: `GateInvariance` shows `GateInv`; `LossKills` and
`KillIsFinal` follow.  `RecordedLossKills` alone is not inductive: a restart on
the same day resets the counters, and that entries stay refused rests on
`KillAgrees` (memory equals the stored flag of the day).  `GateTypes` and
`GateKeepsBook` follow from `HoldInv`, which adds to the types what a row of each
status holds: an entry under way is at its quoted price and at most the shares wanted,
an open row is for at most the shares at IB.  `GateKeepsBook` maps every step to a step
of `EntryBook` or a stutter.  An entry is a claim that fits beside the sum of all the
others; a fill settles one claim at most its slip above what was claimed; a partial exit
reduces it; what closes releases it, and a new session forgets all.

`PositionLedger_proofs` adds `LedgerInv` to `IInv`; `RowsAreBacked` follows.  A row is
written from a status (by the poll) or from an execution (by the watcher), and both are
older than the exchange's truth.  So the invariant says that an order which reads as
filled has fills (`Sound`), that a delivered execution has (`ExecsBacked`), and each
step is shown to take no fills away (`FillsStay`).  That slots at or above `nxt` are
empty is what keeps a row from naming an order placed later.

`FirstDayCovered` shows `HoldingsCovered` from `CoverInv`: a first session has sent
nothing, or one bracket.  Of a bracket, both children wait for the entry, both legs work until one has filled, and the first order
that sells after a cancel is for the whole entry and is cancelled by nothing.  It
assumes `PartialFills = FALSE`, `Rejects \subseteq {"entry"}` and `MaxFails = 0`: the
rest of a partial entry fills beyond the fresh stop, a refused child rolls back an
entry that has filled, and an exit that raises is booked as sold.  These are hazards
of the code: shares may then be held that no exit order covers.

`EntriesNeverStack` shows `EntryNeverStacks` from `StackInv` and assumes nothing.  Before
any session starts within the day of another (`DaysApart`), the sum over all order slots
of what each can still buy stays, with the shares held, within one entry; while an entry
is still allowed nothing can be bought, and no more is held than the client has seen.
The second is what makes the first inductive, and the sweep needs it too, since it buys
back what it sees as short.  After such a session that sum no longer helps, because a
sweep may buy back shares while an entry it does not know of is at work.  So the
invariant counts `Claims`, what entries can still buy less what was bought back: a
buy-back moves shares from one side of `Claims + net` to the other, an entry takes the
room its session brought, and nothing else adds to it.  The theorem covers partial
fills, refusals, late cancels, calls that raise, crashes and any number of reruns, more
than `PM_Days` has.

`BarFeed_proofs`: `FeedInv`; `AttemptsOnce`, `StreamsEnd` and `StreamsNotStranded`
follow.  `OneAttempt` needs that an armed engine has made no attempt
(`AttemptSpent`), through any batch of replayed, flushed and live bars.
`WatchedHasStream` needs that the router's belief implies a stream at the client
(`Subscription`), also where a subscription failed halfway.  `FeedTypes` and
`BarsStayInOrder` follow from `BarInv`: no minute handed on is after the bar being
built, after the router's last bar, or after the clock, and a symbol without a stream
has no bar half built.  Order alone is not inductive: a bar flushed by an unsubscription
is delivered in the minute it belongs to, and the first bar of the next subscription
follows without a replay, as `last` is forgotten.  While a fetch is out, `Spanned` says
that what was delivered before it is no later than its gap and what was delivered since
is no earlier than the flushed bar; these overtakers are all that `BarsInOrder` excepts.

`RestingEntries_proofs` has two invariants.  `RestingInv` is about the day up to the
sweep: a watched order can still complete, a complete fill is acted upon once, and
while no call has raised the exits at IB are for exactly what is held.
`RestingTypes` and `ExitsMatch` follow.  `SweepInv` rests on it and is about one
symbol at a time: not acted upon, protected, or exited.  `SweepEmptiesTheAccount`
follows.  Two are needed because a call that raises ends the first claim and not the
second: the sweep has to empty what the failure left.  `RestingKeepsBook` shows the
refinement of `EntryBook` with `ClaimInv` (a symbol without a position claims nothing,
and an exit that waits for its quote is of a position not dropped).  It assumes
`RatesCovered`: a symbol that is not prewarmed has a rate of at most 1.0.  Otherwise the
fill path (`position_manager.py:1241`) takes 1.0 where the committed margin has the
table's rate, and TLC finds the budget exceeded when `b` of the run is not prewarmed.

`PreMarket_proofs`: `PlanInv`; every invariant of section 3 follows, and `PlanTypes`
adds the types.  `Gated` says that a phase behind the freshness gate has read the prior
session's row of every equity; `FromScan` that the plan in memory is a value
of `Plan`, so that facts about one ETF per underlying and its side follow from
lemmas on the operators.  `ReplayReproduces` rests on `TailKeepsTwo`: the last three
rows contain the two days the scan reads, which the proof derives from the greatest
element of a finite set of days.  `AllotmentOnce` and `CapHolds` are sums over the
candidates of any plan: the members of an allotment each take a whole quotient of at most
the largest position by their number, and the cap factor scales a sum it was computed
from.  `WeightsAssumption` says that weights are whole numbers, none below the number of
underlyings it is split among, so that no share rounds to nothing.  `NoneIsLost` needs
`FromStore`: a plan that is traded is the one the rows on disk still give.  The proof
then follows one underlying through the scan, the second check of the gap and the
pruning, each of which keeps one sibling.

`Daemon_proofs`: `DaemonInv`; `StaysOnItsDay` and `CompletedRunsOnce` follow.
`RunsOnce` alone is not inductive: it needs that every completed date is at most
`lastRun`, that no date in `lastRun` is of a day to come, and that a wait for 08:30
is for a later one (`Dates`).  `TradesOnItsDay` needs that what a session waits for
is due before its day ends, or that a reconnect has lasted until the close, which makes
the session late (`OnItsDay`).

The second part of `Daemon_proofs` extends it to the book: `AllInv`, with `Homes` (a position in
memory is within a session and has an open row) and `Settled` (exits are for what is
held, and a sweep starts from a settled book).  `DaemonTypes`, `NothingOversold` and
`SweepSellsAll` follow for every instance.  `SweepInTime` assumes `HalfDays = {}`, and
`NoneForgotten` assumes `Recover = FALSE`: the runs `DS_HalfDay` and `DS_Recover` show
that without these the code does not have the property.

Only model-checked are the liveness properties, `PendingResolved` and `EveryDayRuns`:
they rest on fairness and `ENABLED`, which the provers do not handle.

## 6. Not modelled, and why

Listed with every component in `PROJECT.json`.  In short:

- TP2, TP3 and trailing legs: the production configuration sells all at TP1.
- The arithmetic on floats of the opening range, the breakout test, entry prices and
  order policy: no control of its own; breakouts and prices are inputs.
- The bar cache (an append-only list), the dry-run broker (a stand-in for rehearsals),
  loading of configuration and master files: values that fix the constants.
- Reports, metrics, calibration, scripts and tools: they read the state, or are run
  by hand outside the trading process.
- Several symbols in one feed: `BarFeed` has one, and the other symbols only as the
  streams they open.

Hazards no property covers carry a note in `PROJECT.json`; several are visible in the
models: a failed exit submission is booked as sold; a refused child rolls back an
entry that has filled; an armed symbol may enter after the sweep; the poll may book
a stop before its watcher does and both rows stay; after a partial entry the parent
fills beyond the fresh stop; a subscription forgets the last bar, so a gap across a
reconnect is not replayed, nor is one seen by a live bar.

## 7. Plan

1. *(done)* The core: `IBGateway`, `PositionManager`, `EntryGate`, `BarFeed`.
2. *(done)* `RestingEntries`, and `EntryBook` as what both entry modes implement.
3. *(done)* `Daemon`: phases, clock, signals, shutdown, reruns, `--recover`.
4. *(done)* `Selection` and `PreMarket`.
5. *(done)* Proofs of what these modules promise, as section 5 lists them: every safety
   property and refinement of a passing run.

Left:

- An abstract book of closed trades (each share bought is sold by one trade), and
  which of the manager's booking paths implement it.
- Several symbols in `BarFeed`, with the limit on streams at IB.
- The arithmetic of `execution/order_policy.py` and of the opening range, as operators
  on integer ticks.
