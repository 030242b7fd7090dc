--------------------------- MODULE PositionManager ---------------------------
(***************************************************************************)
(* LivePositionManager (orb_live/execution/position_manager.py) for one    *)
(* symbol, in the production configuration: bracket entries, one TP1 leg   *)
(* for the whole position (exit_ratio_tp1 = 1), no trail override.         *)
(*                                                                         *)
(* Two threads of control meet here.  IB events (bars, executions, order   *)
(* errors) run as callbacks, each to its end.  flatten_all runs on the     *)
(* main thread and pumps the event loop inside get_latest_quote, so        *)
(* callbacks may run in the middle of it: `fl` is its program counter.     *)
(* on_bar polls the pending entry first and manages the open position      *)
(* after that: `at` = "manage" between the two, and nothing but a crash    *)
(* and the exchange can come between.                                      *)
(***************************************************************************)
EXTENDS IBGateway, FiniteSetsExt

CONSTANTS
    MaxSessions,   \* bound: sessions run in one behaviour
    MaxCrashes,    \* bound: process deaths and same-day reruns in one behaviour
    MaxFails,      \* bound: order submissions that raise
    RerunSlots     \* bound: order slots used when a session restarts within its day

ASSUME ManagerAssumption ==
    /\ MaxSessions \in Nat \ {0}
    /\ MaxCrashes \in Nat
    /\ MaxFails \in Nat
    /\ RerunSlots \in Nat

VARIABLES
    pos,       \* _positions[symbol]
    pend,      \* _pending_entries[symbol]: the entry order's id, or 0
    overdue,   \* the pending entry is older than _PENDING_ENTRY_TIMEOUT
    row,       \* the open_positions row of the symbol
    ledger,    \* closed_trades rows of the symbol: [leg, by]
    watched,   \* orders with a registered fill watcher
    recorded,  \* _fills_recorded
    alert,     \* an oca_cancel_failure alert was raised
    armed,     \* StrategyEngine is in ORB_COMPLETE for the symbol
    at,        \* stage of the on_bar call in progress
    fl,        \* stage of the flatten_all call in progress
    flleg,     \* the exit order flatten_all sent for the symbol, 0 if it raised
    handled,   \* symbol is in flatten_all's `handled` set
    late,      \* bars have reached eod_exit (15:58)
    phase,     \* the session runner: trading, closing, closed, down
    sessions,  \* sessions started
    overlaps,  \* history: those started before the day of the last one was over
    crashes,   \* process deaths and same-day reruns of the daemon so far
    fails      \* submissions that raised so far

managerVars == <<pos, pend, overdue, row, ledger, watched, recorded, alert>>
controlVars == <<armed, at, fl, flleg, handled, late, phase, sessions, overlaps,
                crashes>>
vars == <<gatewayVars, managerVars, controlVars, fails>>

Statuses == {"none", "entering", "open", "closed"}

Position == [st: Statuses, shares: Nat, rem: Nat, booked: Nat,
             tp1: 0..MaxOrders, stop: 0..MaxOrders, tp1hit: BOOLEAN]
Row == [st: Statuses, shares: Nat, rem: Nat, tp1hit: BOOLEAN,
        tp1: 0..MaxOrders, stop: 0..MaxOrders]
LedgerRow == [leg: 0..MaxOrders, by: {"watcher", "poll", "exit"}]

\* Position: n entry_shares, all of them remaining, and the two exit ids;
\* tp1_filled_qty_booked starts at 0.
Holding(status, n, tp1, stop) ==
    [st |-> status, shares |-> n, rem |-> n, booked |-> 0,
     tp1 |-> tp1, stop |-> stop, tp1hit |-> FALSE]
NoPos == Holding("none", 0, 0, 0)

\* The row open_positions holds for position p.  _persist_new runs before the
\* order ids exist; the next _update_pos that writes them is the fill's.
RowOf(p) == [st |-> p.st, shares |-> p.shares, rem |-> p.rem,
             tp1hit |-> p.tp1hit,
             tp1 |-> IF p.st = "entering" THEN 0 ELSE p.tp1,
             stop |-> IF p.st = "entering" THEN 0 ELSE p.stop]
NoRow == RowOf(NoPos)

IsOpen == pos.st = "open"

ManagerInit ==
    /\ pos = NoPos
    /\ pend = 0
    /\ overdue = FALSE
    /\ row = NoRow
    /\ ledger = {}
    /\ watched = {}
    /\ recorded = {}
    /\ alert = FALSE

Init ==
    /\ GatewayInit
    /\ ManagerInit
    /\ armed = TRUE
    /\ at = "idle"
    /\ fl = "idle"
    /\ flleg = 0
    /\ handled = FALSE
    /\ late = FALSE
    /\ phase = "trading"
    /\ sessions = 1
    /\ overlaps = 0
    /\ crashes = 0
    /\ fails = 0

(***************************************************************************)
(* Shared pieces.                                                          *)
(***************************************************************************)

\* Whether a poll still has to book exit leg o.
ToBook(o) == o \notin recorded

\* Callbacks are dispatched while the event loop runs.
CallbacksRun == at = "idle" /\ phase \in {"trading", "closing"}

\* A submission either reaches IB or raises; raising is bounded by MaxFails.
Submits(ok) ==
    /\ ok \/ fails < MaxFails
    /\ fails' = IF ok THEN fails ELSE fails + 1

\* The market order `side` `qty` is added to slots f, unless the call raises.
SendMarket(f, ok, side, qty) ==
    /\ Room(1)
    /\ Submits(ok)
    /\ ord' = IF ok THEN Placed(f, nxt, "market", side, qty) ELSE f
    /\ nxt' = IF ok THEN nxt + 1 ELSE nxt

\* _exit_all's cap: the broker position, but only when there is one.
ExitQty ==
    IF PositionKnown /\ AbsQty(seen) < pos.rem THEN AbsQty(seen) ELSE pos.rem

Legs == {pos.tp1, pos.stop}

\* save_closed_trade for an exit through order `leg`.
Book(leg, by) == ledger' = ledger \cup {[leg |-> leg, by |-> by]}

PersistedForgetsRemaining(p) ==        \* mutant: `remaining` left out of the update
    IF row = NoRow THEN NoRow ELSE [RowOf(p) EXCEPT !.rem = row.rem]

\* _update_pos: an UPDATE, which does nothing when the row is gone.
Persisted(p) == IF row = NoRow THEN NoRow ELSE RowOf(p)

ForgetRowOnly == row' = NoRow /\ UNCHANGED pos      \* mutant: no del _positions

\* close_position(symbol) and del self._positions[symbol]
Forget == pos' = NoPos /\ row' = NoRow

(***************************************************************************)
(* Entry.                                                                  *)
(***************************************************************************)

MayEnterUnseen == pos = NoPos /\ pend = 0 /\ row.st # "open"   \* mutant

\* open_position refuses: the risk gate or a margin check (whose numbers are
\* EntryGate's), an entry in flight, an open row, or a broker position.
MayEnter ==
    /\ pos = NoPos
    /\ pend = 0
    /\ row.st # "open"
    /\ seen = 0

\* A breakout bar reaches StrategyEngine.on_bar, which calls open_position and
\* leaves ORB_COMPLETE whatever it returns.
EntryRefused ==
    /\ CallbacksRun
    /\ armed
    /\ armed' = FALSE
    /\ UNCHANGED <<gatewayVars, managerVars, at, fl, flleg, handled, late,
                   phase, sessions, overlaps, crashes, fails>>

\* The row is written first; if submit_bracket_order raises it is deleted
\* again.  IB's answer is never in before the loop runs, so the entry is
\* pending when the call returns.
OpenPosition(ok) ==
    /\ CallbacksRun
    /\ armed
    /\ MayEnter
    /\ Room(3)
    /\ Submits(ok)
    /\ armed' = FALSE
    /\ IF ok
       THEN /\ ord' = BracketPlaced(ord, nxt, EntryQty)
            /\ nxt' = nxt + 3
            /\ pos' = Holding("entering", EntryQty, nxt + 1, nxt + 2)
            /\ pend' = nxt
            /\ overdue' = FALSE
            /\ row' = RowOf(pos')
       ELSE /\ row' = NoRow
            /\ UNCHANGED <<ord, nxt, pos, pend, overdue>>
    /\ UNCHANGED <<net, seen, execs, ledger, watched, recorded, alert, at, fl,
                   flleg, handled, late, phase, sessions, overlaps, crashes>>

\* 60 seconds pass.
EntryOverdue ==
    /\ pend # 0
    /\ ~overdue
    /\ overdue' = TRUE
    /\ UNCHANGED <<gatewayVars, pos, pend, row, ledger, watched, recorded,
                   alert, controlVars, fails>>

(***************************************************************************)
(* on_bar, first half: _check_pending_entry.                               *)
(***************************************************************************)

BarArrives ==
    /\ CallbacksRun
    /\ at' = "manage"
    /\ UNCHANGED <<armed, fl, flleg, handled, late, phase, sessions, overlaps, crashes>>

EntryStatus == OrderStatus(pend)

EntryFilled ==
    /\ pend # 0
    /\ EntryStatus \in {"filled", "partially_filled"}
    /\ ord[pend].filled > 0

EntryDead ==
    /\ pend # 0
    /\ EntryStatus \in {"cancelled", "expired", "rejected", "inactive"}

\* The exit legs are those of the pending-entry record, whatever _positions holds
\* by now.
Bracket == {pend + 1, pend + 2}
Bought == ord[pend].filled

\* A bar that finds nothing pending and nothing open changes nothing.
NoPendingEntry ==
    /\ pend = 0
    /\ IsOpen
    /\ BarArrives
    /\ UNCHANGED <<gatewayVars, managerVars, fails>>

\* _complete_entry_fill, every share: the bracket children are the exits.
EntryCompletes ==
    /\ EntryFilled
    /\ Bought >= EntryQty
    /\ BarArrives
    /\ pos' = Holding("open", Bought, pend + 1, pend + 2)
    /\ row' = Persisted(pos')
    /\ pend' = 0
    /\ overdue' = FALSE
    /\ watched' = watched \cup Bracket
    /\ UNCHANGED <<gatewayVars, ledger, recorded, alert, fails>>

\* _complete_entry_fill, some shares: the children are cancelled and a plain
\* stop for the filled quantity takes their place.
EntryCompletesPartly ==
    /\ EntryFilled
    /\ Bought < EntryQty
    /\ BarArrives
    /\ Room(1)
    /\ ord' = Placed(CancelSent(ord, Bracket), nxt, "stop", -1, Bought)
    /\ nxt' = nxt + 1
    /\ pos' = Holding("open", Bought, 0, nxt)
    /\ row' = Persisted(pos')
    /\ pend' = 0
    /\ overdue' = FALSE
    /\ watched' = watched \cup {nxt}
    /\ UNCHANGED <<net, seen, execs, ledger, recorded, alert, fails>>

\* The same when the plain stop raises: an emergency market exit, which may
\* raise too; the position stays in memory as closed.
EntryStopFails(ok) ==
    /\ EntryFilled
    /\ Bought < EntryQty
    /\ BarArrives
    /\ Room(1)
    /\ fails < MaxFails
    /\ ok \/ fails + 1 < MaxFails
    /\ fails' = IF ok THEN fails + 1 ELSE fails + 2
    /\ LET f == CancelSent(ord, Bracket) IN
        /\ ord' = IF ok THEN Placed(f, nxt, "market", -1, Bought) ELSE f
        /\ nxt' = IF ok THEN nxt + 1 ELSE nxt
    /\ pos' = Holding("closed", Bought, 0, 0)
    /\ row' = Persisted(pos')
    /\ pend' = 0
    /\ overdue' = FALSE
    /\ UNCHANGED <<net, seen, execs, ledger, watched, recorded, alert>>

EntryDropped ==
    /\ EntryDead
    /\ BarArrives
    /\ Forget
    /\ pend' = 0
    /\ overdue' = FALSE
    /\ UNCHANGED <<gatewayVars, ledger, watched, recorded, alert, fails>>

TimerRestarts == overdue /\ late        \* mutant: the timeout is not counted
TimedOut == overdue

CancelWholeBracket == CancelSent(ord, {pend, pend + 1, pend + 2})   \* mutant
CancelEntry == CancelSent(ord, {pend})

\* The cancel is sent and forgotten: whatever still fills is nobody's.
EntryTimesOut ==
    /\ pend # 0
    /\ ~EntryFilled
    /\ ~EntryDead
    /\ TimedOut
    /\ BarArrives
    /\ ord' = CancelEntry
    /\ Forget
    /\ pend' = 0
    /\ overdue' = FALSE
    /\ UNCHANGED <<nxt, net, seen, execs, ledger, watched, recorded, alert, fails>>

EntryStillPending ==
    /\ pend # 0
    /\ ~EntryFilled
    /\ ~EntryDead
    /\ ~TimedOut
    /\ BarArrives
    /\ UNCHANGED <<gatewayVars, managerVars, fails>>

CheckPendingEntry ==
    \/ NoPendingEntry
    \/ EntryCompletes
    \/ EntryCompletesPartly
    \/ \E ok \in BOOLEAN : EntryStopFails(ok)
    \/ EntryDropped
    \/ EntryTimesOut
    \/ EntryStillPending

(***************************************************************************)
(* on_bar, second half: the open position.                                 *)
(***************************************************************************)

ManageEnds ==
    /\ at = "manage"
    /\ at' = "idle"
    /\ UNCHANGED <<armed, fl, flleg, handled, late, phase, sessions, overlaps, crashes>>

StopGone ==              \* mutant: a cancelled stop taken for a filled one
    /\ IsOpen
    /\ pos.stop # 0
    /\ OrderStatus(pos.stop) \in {"filled", "partially_filled", "canceled"}
StopFired ==
    IsOpen /\ pos.stop # 0 /\ OrderStatus(pos.stop) \in {"filled", "partially_filled"}

NothingOpen ==
    /\ ~IsOpen
    /\ ManageEnds
    /\ UNCHANGED <<gatewayVars, managerVars, fails>>

\* _handle_stop_fired: the trade is booked unless the watcher has done it.
HandleStopFired ==
    /\ StopFired
    /\ ManageEnds
    /\ IF ToBook(pos.stop) THEN Book(pos.stop, "poll") ELSE UNCHANGED ledger
    /\ Forget
    /\ UNCHANGED <<gatewayVars, pend, overdue, watched, recorded, alert, fails>>

\* The bar is at or past eod_exit: _exit_all with the close as reference price,
\* so no quote is fetched.  With remaining = 0 it does nothing.
EodExit(ok) ==
    /\ IsOpen
    /\ ~StopFired
    /\ late
    /\ pos.rem > 0
    /\ ManageEnds
    /\ SendMarket(CancelSent(ord, Legs), ok, -1, ExitQty)
    /\ Book(IF ok THEN nxt ELSE 0, "exit")
    /\ Forget
    /\ UNCHANGED <<net, seen, execs, pend, overdue, watched, recorded, alert>>

EodNothingLeft ==
    /\ IsOpen
    /\ ~StopFired
    /\ late
    /\ pos.rem = 0
    /\ ManageEnds
    /\ UNCHANGED <<gatewayVars, managerVars, fails>>

\* The TP1 limit of the bracket has shares that are not booked yet.
Tp1Fills ==
    /\ IsOpen
    /\ ~StopFired
    /\ ~late
    /\ ~pos.tp1hit
    /\ pos.tp1 # 0
    /\ OrderStatus(pos.tp1) \in {"filled", "partially_filled"}
    /\ ord[pos.tp1].filled > pos.booked

Tp1BookedInFull ==       \* mutant: the cumulative quantity taken each time
    [pos EXCEPT !.rem = @ - ord[pos.tp1].filled,
                !.booked = ord[pos.tp1].filled,
                !.tp1hit = OrderStatus(pos.tp1) = "filled"]
Tp1NotRemembered ==      \* mutant: tp1_filled_qty_booked is not advanced
    [pos EXCEPT !.rem = @ - (ord[pos.tp1].filled - pos.booked),
                !.tp1hit = OrderStatus(pos.tp1) = "filled"]
\* pos after its new TP1 shares are booked; a complete fill ends the leg.
AfterTp1 ==
    [pos EXCEPT !.rem = @ - (ord[pos.tp1].filled - pos.booked),
                !.booked = ord[pos.tp1].filled,
                !.tp1hit = OrderStatus(pos.tp1) = "filled"]

StopSeenCancelled ==
    OrderStatus(pos.stop) \in {"cancelled", "filled", "ApiCancelled", "Inactive"}

\* Nothing remains.  The trade closes if the stop sibling reads as gone; else
\* an alert is raised and the position is retained "for reconcile".
Tp1TakesAll ==
    /\ Tp1Fills
    /\ AfterTp1.rem = 0
    /\ ManageEnds
    /\ IF StopSeenCancelled
       THEN /\ IF ToBook(pos.tp1) THEN Book(pos.tp1, "poll")
                                  ELSE UNCHANGED ledger
            /\ Forget
            /\ UNCHANGED alert
       ELSE /\ alert' = TRUE
            /\ pos' = AfterTp1
            /\ row' = Persisted(pos')
            /\ UNCHANGED ledger
    /\ UNCHANGED <<gatewayVars, pend, overdue, watched, recorded, fails>>

\* Part of TP1 filled: the OCA group took the old stop, a fresh one is placed.
Tp1Partial ==
    /\ Tp1Fills
    /\ AfterTp1.rem # 0
    /\ ManageEnds
    /\ Room(1)
    /\ ord' = Placed(ord, nxt, "stop", -1, AfterTp1.rem)
    /\ nxt' = nxt + 1
    /\ pos' = [AfterTp1 EXCEPT !.stop = nxt]
    /\ row' = Persisted(pos')
    /\ UNCHANGED <<net, seen, execs, pend, overdue, ledger, watched, recorded,
                   alert, fails>>

\* The same when the fresh stop raises: market exit, no closed_trades row.
Tp1PartialStopFails(ok) ==
    /\ Tp1Fills
    /\ AfterTp1.rem # 0
    /\ ManageEnds
    /\ Room(1)
    /\ fails < MaxFails
    /\ ok \/ fails + 1 < MaxFails
    /\ fails' = IF ok THEN fails + 1 ELSE fails + 2
    /\ ord' = IF ok THEN Placed(ord, nxt, "market", -1, AfterTp1.rem) ELSE ord
    /\ nxt' = IF ok THEN nxt + 1 ELSE nxt
    /\ Forget
    /\ UNCHANGED <<net, seen, execs, pend, overdue, ledger, watched, recorded, alert>>

\* No TP1 order (the entry filled partly) and the bar crossed the target:
\* _exit_partial sends a market exit, then the plain stop is cancelled.
BarCross ==
    /\ IsOpen
    /\ ~StopFired
    /\ ~late
    /\ ~pos.tp1hit
    /\ pos.tp1 = 0

Tp1ByBar(ok) ==
    /\ BarCross
    /\ ManageEnds
    /\ SendMarket(CancelSent(ord, {pos.stop}), ok, -1, pos.rem)
    /\ Book(IF ok THEN nxt ELSE 0, "exit")
    /\ Forget
    /\ UNCHANGED <<net, seen, execs, pend, overdue, watched, recorded, alert>>

\* No exit is due on this bar.
NoExitDue ==
    /\ IsOpen
    /\ ~StopFired
    /\ ~late
    /\ ~Tp1Fills
    /\ ManageEnds
    /\ UNCHANGED <<gatewayVars, managerVars, fails>>

ManageOpen ==
    \/ NothingOpen
    \/ HandleStopFired
    \/ \E ok \in BOOLEAN : EodExit(ok)
    \/ EodNothingLeft
    \/ Tp1TakesAll
    \/ Tp1Partial
    \/ \E ok \in BOOLEAN : Tp1PartialStopFails(ok)
    \/ \E ok \in BOOLEAN : Tp1ByBar(ok)
    \/ NoExitDue

(***************************************************************************)
(* Other callbacks.                                                        *)
(***************************************************************************)

\* execDetails of a completely filled exit leg: its watcher books the trade,
\* once per order.
FillWatcher(o) ==
    /\ CallbacksRun
    /\ o \in execs
    /\ execs' = execs \ {o}
    /\ IF o \in watched /\ o \notin recorded
       THEN recorded' = recorded \cup {o} /\ Book(o, "watcher")
       ELSE UNCHANGED <<recorded, ledger>>
    /\ UNCHANGED <<ord, nxt, net, seen, pos, pend, overdue, row, watched, alert,
                   controlVars, fails>>

\* Error 201 on order o: _on_order_error rolls an entering position back.
OrderRejected(o) ==
    /\ CallbacksRun
    /\ Refusable(o)
    /\ IF pos.st = "entering"
       THEN /\ ord' = [p \in OrderIds |->
                        IF p \in Legs THEN CancelSent(Refused(o), Legs)[p]
                                      ELSE Refused(o)[p]]
            /\ Forget
            /\ pend' = 0
            /\ overdue' = FALSE
       ELSE /\ ord' = Refused(o)
            /\ UNCHANGED <<pos, row, pend, overdue>>
    /\ UNCHANGED <<nxt, net, seen, execs, ledger, watched, recorded, alert,
                   controlVars, fails>>

\* 15:58 passes.
BarsReachEod ==
    /\ phase = "trading"
    /\ at = "idle"
    /\ ~late
    /\ late' = TRUE
    /\ UNCHANGED <<gatewayVars, managerVars, armed, at, fl, flleg, handled,
                   phase, sessions, overlaps, crashes, fails>>

(***************************************************************************)
(* flatten_all: the end-of-day sweep, or a shutdown at any time.           *)
(***************************************************************************)

FlattenGuard == fl = "idle" /\ at = "idle" /\ phase = "trading"

\* Step 1 of the symbol up to the quote request: _exit_all cancels the legs,
\* sends the exit and then pumps the event loop for a price.
FlattenExit(ok) ==
    /\ FlattenGuard
    /\ IsOpen
    /\ pos.rem > 0
    /\ SendMarket(CancelSent(ord, Legs), ok, -1, ExitQty)
    /\ flleg' = IF ok THEN nxt ELSE 0
    /\ handled' = FALSE
    /\ fl' = "pump"
    /\ UNCHANGED <<net, seen, execs, managerVars, armed, at, late, phase,
                   sessions, overlaps, crashes>>

\* Step 1 has nothing to send: no open position, or one with nothing left,
\* which counts as handled.
FlattenNoExit ==
    /\ FlattenGuard
    /\ ~(IsOpen /\ pos.rem > 0)
    /\ flleg' = 0
    /\ handled' = IsOpen
    /\ fl' = "tail"
    /\ UNCHANGED <<gatewayVars, managerVars, armed, at, late, phase, sessions, overlaps,
                   crashes, fails>>

\* Back from the quote: the exit is booked and the symbol deleted from
\* _positions.  If a callback deleted it meanwhile the del raises, and the
\* symbol is not handled.
FlattenBook ==
    /\ fl = "pump"
    /\ at = "idle"
    /\ Book(flleg, "exit")
    /\ Forget
    /\ handled' = (pos.st # "none" /\ flleg # 0)
    /\ fl' = "tail"
    /\ UNCHANGED <<gatewayVars, pend, overdue, watched, recorded, alert, armed,
                   at, flleg, late, phase, sessions, overlaps, crashes, fails>>

\* Steps 2 and 3: a pending entry is cancelled and dropped; a broker position
\* that is not handled gets a market order against it.
FlattenTail(ok) ==
    /\ fl = "tail"
    /\ at = "idle"
    /\ LET f == CancelEntry IN
        IF ~handled /\ PositionKnown
        THEN SendMarket(f, ok, IF seen > 0 THEN -1 ELSE 1, AbsQty(seen))
        ELSE ok /\ ord' = f /\ UNCHANGED <<nxt, fails>>
    /\ IF pend # 0 THEN Forget ELSE UNCHANGED <<pos, row>>
    /\ pend' = 0
    /\ overdue' = FALSE
    /\ fl' = "idle"
    /\ flleg' = 0
    /\ handled' = FALSE
    /\ phase' = "closing"
    /\ UNCHANGED <<net, seen, execs, ledger, watched, recorded, alert, armed,
                   at, late, sessions, overlaps, crashes>>

\* router.unsubscribe: after the last partial bars are flushed no bar arrives.
Unsubscribe ==
    /\ phase = "closing"
    /\ at = "idle"
    /\ phase' = "closed"
    /\ UNCHANGED <<gatewayVars, managerVars, armed, at, fl, flleg, handled,
                   late, sessions, overlaps, crashes, fails>>

Flatten ==
    \/ \E ok \in BOOLEAN : FlattenExit(ok) \/ FlattenTail(ok)
    \/ FlattenNoExit
    \/ FlattenBook
    \/ Unsubscribe

(***************************************************************************)
(* Process death and session start.                                        *)
(***************************************************************************)

\* Memory is lost; the database and the orders at IB stay.
Crash ==
    /\ phase # "down"
    /\ crashes < MaxCrashes
    /\ crashes' = crashes + 1
    /\ phase' = "down"
    /\ pos' = NoPos
    /\ pend' = 0
    /\ overdue' = FALSE
    /\ watched' = {}
    /\ recorded' = {}
    /\ execs' = {}
    /\ at' = "idle"
    /\ fl' = "idle"
    /\ flleg' = 0
    /\ handled' = FALSE
    /\ armed' = FALSE
    /\ UNCHANGED <<ord, nxt, net, seen, row, ledger, alert, late, sessions, overlaps, fails>>

\* The trading day ends: day orders expire, the portfolio settles, and the
\* Gateway's daily restart drops the events the process did not read.
DayOver == Expired(ord) = ord /\ seen = net /\ execs = {}
DayEnds ==
    /\ phase \in {"closed", "down"}
    /\ ~DayOver
    /\ ord' = Expired(ord)
    /\ seen' = net
    /\ execs' = {}
    /\ UNCHANGED <<nxt, net, managerVars, controlVars, fails>>

\* run_session: new_session re-arms the engine, startup_reconcile purges rows
\* that are not open and resolves an open row against the broker.  The daemon's
\* manager is the same object as yesterday, so memory is as it was.
Reconcile(ok) ==
    IF row.st = "open" /\ seen # 0
    THEN SendMarket(CancelSent(ord, {row.tp1, row.stop}), ok, -1, AbsQty(seen))
    ELSE ok /\ UNCHANGED <<ord, nxt, fails>>

\* The socket was lost and the daemon runs the day again, or the service manager
\* has restarted a dead process: the day's orders may still trade.
StartsNextDay == DayOver /\ UNCHANGED <<overlaps, crashes>>
StartsInDay ==
    /\ ~DayOver
    /\ nxt <= RerunSlots + 1
    /\ overlaps' = overlaps + 1
    /\ IF phase = "down" THEN UNCHANGED crashes
       ELSE crashes < MaxCrashes /\ crashes' = crashes + 1

StartSession(ok) ==
    /\ phase \in {"closed", "down"}
    /\ sessions < MaxSessions
    /\ StartsNextDay \/ StartsInDay
    /\ seen = net                        \* connect downloads the portfolio
    /\ Reconcile(ok)
    /\ row' = NoRow
    /\ armed' = TRUE
    /\ late' = FALSE
    /\ phase' = "trading"
    /\ sessions' = sessions + 1
    /\ UNCHANGED <<net, seen, execs, pos, pend, overdue, ledger, watched,
                   recorded, alert, at, fl, flleg, handled>>

\* All sessions are over.
Done ==
    /\ phase \in {"closed", "down"}
    /\ sessions = MaxSessions
    /\ UNCHANGED vars

Callback ==
    \/ EntryRefused
    \/ \E ok \in BOOLEAN : OpenPosition(ok)
    \/ CheckPendingEntry
    \/ ManageOpen
    \/ \E o \in OrderIds : FillWatcher(o) \/ OrderRejected(o)

Next ==
    \/ Exchange /\ UNCHANGED <<managerVars, controlVars, fails>>
    \/ Callback
    \/ EntryOverdue
    \/ BarsReachEod
    \/ Flatten
    \/ Crash
    \/ DayEnds
    \/ \E ok \in BOOLEAN : StartSession(ok)
    \/ Done

Spec == Init /\ [][Next]_vars

\* Time passes and bars keep arriving while the runner trades: on_bar is called
\* for the symbol and finishes what it began.
BarsKeepComing == WF_vars(CheckPendingEntry) /\ WF_vars(ManageOpen)
FairSpec == Spec /\ BarsKeepComing /\ WF_vars(EntryOverdue)

(***************************************************************************)
(* Properties.                                                             *)
(***************************************************************************)

\* Every variable keeps its type.
TypeOK ==
    /\ GatewayTypeOK
    /\ pos \in Position
    /\ pend \in 0..MaxOrders
    /\ overdue \in BOOLEAN
    /\ row \in Row
    /\ ledger \subseteq LedgerRow
    /\ watched \subseteq OrderIds
    /\ recorded \subseteq OrderIds
    /\ alert \in BOOLEAN
    /\ armed \in BOOLEAN
    /\ at \in {"idle", "manage"}
    /\ fl \in {"idle", "pump", "tail"}
    /\ flleg \in 0..MaxOrders
    /\ handled \in BOOLEAN
    /\ late \in BOOLEAN
    /\ phase \in {"trading", "closing", "closed", "down"}
    /\ sessions \in 1..MaxSessions
    /\ overlaps \in 0..(sessions - 1)
    /\ crashes \in 0..MaxCrashes
    /\ fails \in 0..MaxFails

\* "Persisted to state_store on every mutation" (_positions, __init__): between
\* handlers the database row is the position in memory.  The one exception is a
\* position an earlier session left in memory, whose row startup_reconcile purged.
RowsAreCurrent ==
    phase # "down" => row = RowOf(pos) \/ (row = NoRow /\ sessions > 1)

\* A position in "entering" has a pending entry that on_bar polls: no handler
\* leaves it waiting for an order nobody looks at.
EnteringIsPolled == pos.st = "entering" => pend # 0

\* What remains of a bracket position is what was bought less the TP1 shares
\* booked, and never more TP1 shares are booked than the exchange filled:
\* tp1_filled_qty_booked keeps repeated polls of one order from counting twice.
RemainingAccounts ==
    IsOpen /\ pos.tp1 # 0 =>
        /\ pos.rem = pos.shares - pos.booked
        /\ pos.booked <= ord[pos.tp1].filled

\* A second entry waits until the first is gone: the shares the entries of the symbol
\* can still buy, with those it holds, stay within one entry.  A session started before
\* the day of the last one is over knows nothing of its working entry, and may stack one
\* more on it, never two; what is bought to cover shares oversold is not an entry's.
EntriesOutstanding == {o \in OrderIds : ord[o].kind = "entry" /\ ord[o].live}
Outstanding == [o \in OrderIds |-> Unfilled(o)]
Exposure == SumFunctionOnSet(Outstanding, EntriesOutstanding) + net
BuyBacks == {o \in OrderIds : ord[o].kind = "market" /\ ord[o].side = 1}
BoughtBack == SumFunctionOnSet([o \in OrderIds |-> ord[o].filled], BuyBacks)
EntryNeverStacks ==
    /\ overlaps = 0 => Exposure <= EntryQty
    /\ Exposure - BoughtBack <= EntryQty * (1 + overlaps)

\* While a session trades, shares it bought are covered by an exit order that can
\* trade (a leg of the bracket, or a market exit on its way), whether the manager
\* knows of them or not: also after an entry is given up and fills.  A later
\* session may find shares of an earlier one.
Covers(o) == ord[o].live /\ ord[o].side = -1 /\ Unfilled(o) >= net
HoldingsCovered ==
    phase = "trading" /\ sessions = 1 /\ net > 0 => \E o \in OrderIds : Covers(o)

\* A row of closed_trades written for an exit leg has shares of that leg behind
\* it: a cancelled or refused leg is never booked as a trade.
LedgerIsBacked ==
    \A r \in ledger : r.by \in {"watcher", "poll"} => ord[r.leg].filled > 0

\* A pending entry is resolved (filled, dropped or timed out) before the session
\* is over, or the session ends.
PendingResolved == pend # 0 ~> (pend = 0 \/ phase \in {"closed", "down"})

(***************************************************************************)
(* What comments and docstrings of the code say and the code does not do:  *)
(* violated in a run of its own.                                           *)
(***************************************************************************)

\* "Verify IB cancelled the stop sibling via OCA": the oca_cancel_failure alert
\* is not raised when the stop has been cancelled.
OcaAlertIsTrue == [][~alert /\ alert' => ord[pos.stop].st # "Cancelled"]_vars
=============================================================================
