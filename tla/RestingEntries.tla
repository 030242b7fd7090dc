--------------------------- MODULE RestingEntries ---------------------------
(***************************************************************************)
(* The pre-placed entry mode of LivePositionManager (use_resting_entries): *)
(* at the end of the opening range a stop-limit order is rested for every  *)
(* candidate, without a look at buying power.  The gate and the margin     *)
(* budget are consulted when an order has FILLED; a fill that does not fit *)
(* is sold again, one that fits gets its OCA exit pair, and the resting    *)
(* orders the rest of the budget cannot pay for are cancelled.             *)
(*                                                                         *)
(* Several symbols, one session.  Shares are counted in the direction of   *)
(* the symbol's trade.  The exchange fills and cancels when it likes; the  *)
(* program hears of fills (execDetails) and of positions (portfolio) later.*)
(* What happens to a position on its bars is in PositionManager.           *)
(***************************************************************************)
EXTENDS Integers, FiniteSets, FiniteSetsExt

CONSTANTS
    Symbols,
    Price,         \* entry["entry_price"], the boundary
    Wanted,        \* entry["shares"]
    Slip,          \* how far a fill may be from the boundary
    Rate,          \* margin_rate_for: the table's rate, scaled by One
    Prewarmed,     \* symbols in _margin_rate: those whose whatIf check was answered
    One,           \* the rate 1.0
    Budget,        \* _margin_budget * One
    MaxGross,      \* max_gross_exposure_pct * equity
    MaxPosition,   \* max_position_pct * equity
    MaxFails       \* bound: broker calls that raise

None == "none"

ASSUME RestingAssumption ==
    /\ IsFiniteSet(Symbols) /\ None \notin Symbols
    /\ {Price, Wanted, Rate} \subseteq [Symbols -> Nat \ {0}]
    /\ Slip \in Nat /\ \A s \in Symbols : Slip < Price[s]
    /\ Prewarmed \subseteq Symbols
    /\ One \in Nat \ {0}
    /\ {Budget, MaxGross, MaxPosition, MaxFails} \subseteq Nat

VARIABLES
    todo,     \* symbols whose on_orb_complete is still to run
    entry,    \* the stop-limit order at IB: status and shares filled
    told,     \* shares of it the process was told of (cumQty)
    resting,  \* keys of _resting_entries; their fill watchers are registered
    pos,      \* _positions
    row,      \* status of the open_positions row
    legs,     \* shares of the working OCA pair
    stray,    \* shares of a TP1 order whose stop could not be placed
    mkt,      \* shares of market exits not filled yet, negative to buy back
    held,     \* shares the broker holds
    seen,     \* shares ib.portfolio() shows
    killed,   \* RiskGate._kill_triggered
    fl,       \* flatten_all: idle, exiting, done
    leaving,  \* the symbol whose exit waits for a quote inside _exit_all
    handled,  \* flatten_all's `handled`
    processed, \* history: symbols whose complete fill was acted upon
    excused,  \* history: symbols where a call raised, or the exchange was faster
    fails     \* broker calls that raised

orders == <<entry, told, legs, stray, mkt, held>>
memory == <<todo, resting, pos, row, killed>>
sweep == <<fl, leaving, handled>>
vars == <<orders, memory, sweep, seen, processed, excused, fails>>

NoPos == [st |-> None, shares |-> 0, price |-> 0]

Init ==
    /\ todo = Symbols
    /\ entry = [s \in Symbols |-> [st |-> None, filled |-> 0]]
    /\ told = [s \in Symbols |-> 0]
    /\ resting = {}
    /\ pos = [s \in Symbols |-> NoPos]
    /\ row = [s \in Symbols |-> None]
    /\ legs = [s \in Symbols |-> 0]
    /\ stray = [s \in Symbols |-> 0]
    /\ mkt = [s \in Symbols |-> 0]
    /\ held = [s \in Symbols |-> 0]
    /\ seen = [s \in Symbols |-> 0]
    /\ killed = FALSE
    /\ fl = "idle" /\ leaving = None /\ handled = {}
    /\ processed = {} /\ excused = {}
    /\ fails = 0

(***************************************************************************)
(* The numbers.                                                            *)
(***************************************************************************)

Live == {s \in Symbols : pos[s].st = "open"}
Notional(s) == pos[s].price * pos[s].shares
Exposure == SumFunctionOnSet([s \in Symbols |-> Notional(s)], Live)
Margin(s) == Rate[s] * Notional(s)
Committed == SumFunctionOnSet([s \in Symbols |-> Margin(s)], Live)

\* The fill path reads _margin_rate itself: a symbol that was not prewarmed
\* costs its full notional, whatever the table says.
FillRate(s) == IF s \in Prewarmed THEN Rate[s] ELSE One
Estimate(s, price) == FillRate(s) * price * Wanted[s]

\* RiskGate.authorize_entry with the filled amount.
Authorized(s, price) ==
    /\ s \notin Live
    /\ ~killed
    /\ Exposure + price * Wanted[s] <= MaxGross
    /\ price * Wanted[s] <= MaxPosition

AcceptsAnyMargin(s, price) == Authorized(s, price)    \* mutant: gate only
Accepts(s, price) ==
    /\ Authorized(s, price)
    /\ Committed + Estimate(s, price) <= Budget

\* Each broker call either succeeds or raises; raises are bounded.
Raises(n) == fails + n <= MaxFails /\ fails' = fails + n

Cancelled(f, S) ==
    [s \in Symbols |-> IF s \in S /\ f[s].st = "working"
                       THEN [f[s] EXCEPT !.st = "cancelling"] ELSE f[s]]

PoppedNever(S) == resting                             \* mutant: read, not popped
Popped(S) == resting \ S

(***************************************************************************)
(* Placing.                                                                *)
(***************************************************************************)

\* submit_stop_limit_order.
StopLimit == [st |-> "working", filled |-> 0]

\* _place_resting_entry and place_entry_order.
Place(s) ==
    /\ s \in todo /\ fl = "idle"
    /\ todo' = todo \ {s}
    /\ s \notin resting /\ s \notin Live
    /\ entry' = [entry EXCEPT ![s] = StopLimit]
    /\ resting' = resting \cup {s}
    /\ UNCHANGED <<told, legs, stray, mkt, held, pos, row, killed, sweep, seen,
                   excused, fails, processed>>

\* Zero shares, or the submission raises: the state is RESTING all the same.
PlaceFails(s) ==
    /\ s \in todo /\ fl = "idle"
    /\ todo' = todo \ {s}
    /\ UNCHANGED <<orders, resting, pos, row, killed, sweep, seen, excused, fails, processed>>

(***************************************************************************)
(* The exchange.                                                           *)
(***************************************************************************)

Against(s, racing) == excused' = IF racing THEN excused \cup {s} ELSE excused

\* The order triggers and fills, in pieces or at once, even when a cancel is
\* on its way.
EntryFills(s) ==
    /\ entry[s].st \in {"working", "cancelling"}
    /\ \E n \in 1..(Wanted[s] - entry[s].filled) :
        /\ entry' = [entry EXCEPT ![s].filled = @ + n,
                         ![s].st = IF entry[s].filled + n = Wanted[s] THEN "filled" ELSE @]
        /\ held' = [held EXCEPT ![s] = @ + n]
    /\ Against(s, fl # "idle" /\ entry[s].st = "cancelling")
    /\ UNCHANGED <<told, legs, stray, mkt, memory, sweep, seen, fails, processed>>

EntryCancelled(s) ==
    /\ entry[s].st = "cancelling"
    /\ entry' = [entry EXCEPT ![s].st = "cancelled"]
    /\ UNCHANGED <<told, legs, stray, mkt, held, memory, sweep, seen, excused, fails, processed>>

MarketFills(s) ==
    /\ mkt[s] # 0
    /\ held' = [held EXCEPT ![s] = @ - mkt[s]]
    /\ mkt' = [mkt EXCEPT ![s] = 0]
    /\ UNCHANGED <<entry, told, legs, stray, memory, sweep, seen, excused, fails, processed>>

\* flatten_all has sent the cancels of the pair.
Left(s) == fl # "idle" /\ (pos[s].st = None \/ s = leaving)

\* One leg of the pair fills and the other goes.
LegFills(s) ==
    /\ legs[s] > 0
    /\ held' = [held EXCEPT ![s] = @ - legs[s]]
    /\ legs' = [legs EXCEPT ![s] = 0]
    /\ Against(s, Left(s))
    /\ UNCHANGED <<entry, told, stray, mkt, memory, sweep, seen, fails, processed>>

\* The cancels _exit_all sent reach the pair.
LegsCancelled(s) ==
    /\ legs[s] > 0 /\ Left(s)
    /\ legs' = [legs EXCEPT ![s] = 0]
    /\ UNCHANGED <<entry, told, stray, mkt, held, memory, sweep, seen, excused, fails, processed>>

StrayFills(s) ==
    /\ stray[s] > 0
    /\ held' = [held EXCEPT ![s] = @ - stray[s]]
    /\ stray' = [stray EXCEPT ![s] = 0]
    /\ excused' = excused \cup {s}
    /\ UNCHANGED <<entry, told, legs, mkt, memory, sweep, seen, fails, processed>>

(***************************************************************************)
(* Callbacks.  They run while the main thread sleeps or waits for a quote. *)
(***************************************************************************)

CallbacksRun == fl \in {"idle", "done"} \/ leaving # None

PortfolioUpdate(s) ==
    /\ CallbacksRun
    /\ seen[s] # held[s]
    /\ seen' = [seen EXCEPT ![s] = held[s]]
    /\ UNCHANGED <<orders, memory, sweep, excused, fails, processed>>

\* An execution of an order nobody watches any more, or a partial one.
Told(s) ==
    /\ CallbacksRun
    /\ told[s] < entry[s].filled
    /\ told' = [told EXCEPT ![s] = entry[s].filled]

FillIgnored(s) ==
    /\ Told(s)
    /\ s \notin resting \/ entry[s].filled < Wanted[s]
    /\ UNCHANGED <<entry, legs, stray, mkt, held, memory, sweep, seen, excused, fails, processed>>

\* The execution that completes a watched order, at an average price near the
\* boundary.  The record is popped first.
FillCompletes(s) == Told(s) /\ s \in resting /\ entry[s].filled = Wanted[s]
FillPrices(s) == (Price[s] - Slip)..(Price[s] + Slip)

\* _cancel_unaffordable_resting, with what the budget has left.
Unaffordable(left) == {s \in resting : Estimate(s, Price[s]) > left}

\* submit_oca_pair; it may raise before its first order, or between the two.
PairPlaced(s) == legs' = [legs EXCEPT ![s] = Wanted[s]] /\ UNCHANGED stray
PairFails(s) ==
    /\ \E n \in {0, Wanted[s]} : stray' = [stray EXCEPT ![s] = n]
    /\ UNCHANGED legs

\* The fill fits: the row is written, the pair placed, the position kept, and
\* resting orders that no longer fit are cancelled.  A cancel that raises leaves
\* its order at IB, unwatched.
FillAccepted(s) ==
    /\ FillCompletes(s)
    /\ processed' = processed \cup {s}
    /\ \E price \in FillPrices(s) :
        /\ Accepts(s, price)
        /\ pos' = [pos EXCEPT ![s] = [st |-> "open", shares |-> Wanted[s], price |-> price]]
        /\ row' = [row EXCEPT ![s] = "open"]
        /\ PairPlaced(s)
        /\ LET cut == Unaffordable(Budget - Committed - Rate[s] * price * Wanted[s]) \ {s}
           IN  /\ resting' = Popped(cut \cup {s})
               /\ \E lost \in SUBSET cut :
                    /\ entry' = Cancelled(entry, cut \ lost)
                    /\ excused' = excused \cup lost
                    /\ Raises(Cardinality(lost))
    /\ UNCHANGED <<mkt, held, todo, killed, sweep, seen>>

SellsNothing(s, n) == Raises(n) /\ UNCHANGED <<mkt, excused>>  \* mutant: only the log line
\* submit_market_order for the filled shares; a call that raises is logged.
SellsFill(s, n) ==
    \/ /\ Raises(n)
       /\ mkt' = [mkt EXCEPT ![s] = @ + Wanted[s]]
       /\ UNCHANGED excused
    \/ /\ Raises(n + 1)
       /\ excused' = excused \cup {s}
       /\ UNCHANGED mkt

\* The gate or the budget says no: the shares are sold.
FillReversed(s) ==
    /\ FillCompletes(s)
    /\ processed' = processed \cup {s}
    /\ \E price \in FillPrices(s) : ~Accepts(s, price)
    /\ resting' = Popped({s})
    /\ SellsFill(s, 0)
    /\ UNCHANGED <<entry, legs, stray, held, todo, pos, row, killed, sweep, seen>>

\* The fill fits but the OCA pair raises, before or between its two orders:
\* emergency market exit, and a row that says closed.
FillUnprotected(s) ==
    /\ FillCompletes(s)
    /\ processed' = processed \cup {s}
    /\ \E price \in FillPrices(s) : Accepts(s, price)
    /\ resting' = Popped({s})
    /\ row' = [row EXCEPT ![s] = "closed"]
    /\ PairFails(s)
    /\ SellsFill(s, 1)
    /\ UNCHANGED <<entry, held, todo, pos, killed, sweep, seen>>

\* A bar or a watcher finds the pair filled: the trade is booked, the position
\* forgotten, and the result may be the one that kills the session.
ExitNoticed(s) ==
    /\ CallbacksRun
    /\ pos[s].st = "open" /\ legs[s] = 0 /\ s # leaving
    /\ pos' = [pos EXCEPT ![s] = NoPos]
    /\ row' = [row EXCEPT ![s] = None]
    /\ killed' \in {killed, TRUE}
    /\ UNCHANGED <<orders, todo, resting, sweep, seen, excused, fails, processed>>

(***************************************************************************)
(* flatten_all.                                                            *)
(***************************************************************************)

KeepWorking(f, S) == f                                \* mutant: popped, not cancelled
SweepCancels(f, S) == Cancelled(f, S)

\* Step 0: every resting order is dropped, unwatched and cancelled.
FlattenStart ==
    /\ fl = "idle" /\ todo = {}
    /\ fl' = "exiting"
    /\ resting' = Popped(resting)
    /\ \E lost \in SUBSET resting :
        /\ entry' = SweepCancels(entry, resting \ lost)
        /\ excused' = excused \cup lost
        /\ Raises(Cardinality(lost))
    /\ UNCHANGED <<told, legs, stray, mkt, held, todo, pos, row, killed, leaving,
                   handled, seen, processed>>

Least(m, n) == IF m < n THEN m ELSE n
AbsShares(n) == IF n < 0 THEN -n ELSE n

ExitShares(s) ==
    IF seen[s] # 0 THEN Least(AbsShares(seen[s]), pos[s].shares) ELSE pos[s].shares

\* Step 1, _exit_all up to the quote: the pair is cancelled, the quantity capped
\* by the position the portfolio shows, and the market order sent.  An exit that
\* raises is left out of `handled`, so that step 3 tries again.
FlattenExit(s) ==
    /\ fl = "exiting" /\ leaving = None
    /\ pos[s].st = "open"
    /\ leaving' = s
    /\ \/ /\ Raises(0)
          /\ mkt' = [mkt EXCEPT ![s] = @ + ExitShares(s)]
          /\ handled' = handled \cup {s}
       \/ /\ Raises(1)
          /\ UNCHANGED <<mkt, handled>>
    /\ Against(s, legs[s] = 0 \/ seen[s] # held[s])
    /\ UNCHANGED <<entry, told, legs, stray, held, memory, fl, seen, processed>>

\* The quote is in: the trade is booked and the position dropped.
FlattenBook ==
    /\ leaving # None
    /\ pos' = [pos EXCEPT ![leaving] = NoPos]
    /\ row' = [row EXCEPT ![leaving] = None]
    /\ leaving' = None
    /\ killed' \in {killed, TRUE}
    /\ UNCHANGED <<orders, todo, resting, fl, handled, seen, processed, excused, fails>>

\* Step 3: whatever the portfolio shows of a symbol not exited above.
Residual == {s \in Symbols : seen[s] # 0 /\ s \notin handled}
FlattenResidual ==
    /\ fl = "exiting" /\ leaving = None /\ Live = {}
    /\ fl' = "done"
    /\ \E lost \in SUBSET Residual :
        /\ Raises(Cardinality(lost))
        /\ mkt' = [s \in Symbols |->
                    mkt[s] + (IF s \in Residual \ lost THEN seen[s] ELSE 0)]
        /\ excused' = excused \cup lost \cup
                        {s \in Symbols \ handled :
                            seen[s] # held[s] \/ mkt[s] # 0 \/ legs[s] > 0 \/ stray[s] > 0}
    /\ UNCHANGED <<entry, told, legs, stray, held, memory, leaving, handled, seen, processed>>

\* Nothing moves any more.
Done ==
    /\ fl = "done"
    /\ \A s \in Symbols : /\ mkt[s] = 0 /\ legs[s] + stray[s] = 0
                          /\ entry[s].st \in {None, "filled", "cancelled"}
    /\ UNCHANGED vars

Exchange(s) ==
    \/ EntryFills(s)
    \/ EntryCancelled(s)
    \/ MarketFills(s)
    \/ LegFills(s)
    \/ LegsCancelled(s)
    \/ StrayFills(s)

Next ==
    \/ \E s \in Symbols :
        \/ Exchange(s)
        \/ Place(s)
        \/ PlaceFails(s)
        \/ PortfolioUpdate(s)
        \/ FillIgnored(s)
        \/ FillAccepted(s)
        \/ FillReversed(s)
        \/ FillUnprotected(s)
        \/ ExitNoticed(s)
        \/ FlattenExit(s)
    \/ FlattenStart
    \/ FlattenBook
    \/ FlattenResidual
    \/ Done

Spec == Init /\ [][Next]_vars

(***************************************************************************)
(* Properties.                                                             *)
(***************************************************************************)

\* Every variable keeps its type, and a record in _resting_entries is of an order
\* not cancelled and not known to be filled.
TypeOK ==
    /\ todo \subseteq Symbols /\ resting \subseteq Symbols
    /\ \A s \in resting : told[s] < Wanted[s] /\ entry[s].st \in {"working", "filled"}
    /\ UNION {handled, processed, excused} \subseteq Symbols
    /\ entry \in [Symbols -> [st: {None, "working", "cancelling", "filled", "cancelled"},
                              filled: Nat]]
    /\ \A s \in Symbols : told[s] <= entry[s].filled /\ entry[s].filled <= Wanted[s]
    /\ pos \in [Symbols -> [st: {None, "open"}, shares: Nat, price: Nat]]
    /\ row \in [Symbols -> {None, "open", "closed"}]
    /\ {legs, stray} \subseteq [Symbols -> Nat]
    /\ {held, seen, mkt} \subseteq [Symbols -> Int]
    /\ killed \in BOOLEAN
    /\ fl \in {"idle", "exiting", "done"}
    /\ leaving \in Symbols \cup {None}
    /\ fails \in 0..MaxFails

\* Where each symbol is in EntryBook, and what it claims there: nothing settles, the
\* price of a claim being that of its fill.
Stage == [s \in Symbols |-> IF pos[s].st = "open" THEN "claimed" ELSE "none"]
Claimed == [s \in Symbols |-> Notional(s)]
NoSlack == [s \in Symbols |-> 0]

\* "Total open notional after all fills must not exceed the cap", and "the breaks
\* that arrive first claim buying power until the budget is full": however many
\* orders fill before the first of them is processed, a position is kept only
\* where it fits, at the table's rate, beside the others.
Book == INSTANCE EntryBook WITH stage <- Stage, claim <- Claimed, Slack <- NoSlack
ImplementsBook == Book!Spec

\* Until the sweep, and while no broker call has raised: no exit order exceeds
\* the shares held, and once a complete fill was acted upon, kept or sold again,
\* every share of it has an exit order.
ExitsMatchHoldings ==
    fl = "idle" /\ fails = 0 =>
        \A s \in Symbols :
            /\ legs[s] + mkt[s] <= held[s]
            /\ s \in processed => legs[s] + mkt[s] = held[s]

\* When the sweep is over and everything in flight has settled, nothing is held,
\* whatever was filled, cancelled or refused before; only a symbol where a call
\* raised, or the exchange outran an order of the sweep, is excused.
Settled(s) == mkt[s] = 0 /\ legs[s] = 0 /\ entry[s].st \in {None, "filled", "cancelled"}
SweepLeavesNothing ==
    fl = "done" => \A s \in Symbols \ excused : Settled(s) => held[s] = 0
=============================================================================
