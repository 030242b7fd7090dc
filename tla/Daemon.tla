------------------------------- MODULE Daemon -------------------------------
(***************************************************************************)
(* The main thread of the program over several days: the daemon loop       *)
(* (runner/main.py), the phases of SessionRunner, MarketClock and the      *)
(* calendar, the broker's socket, signals, and process deaths.             *)
(*                                                                         *)
(* The book is one symbol with at most one share, as far as the phases     *)
(* depend on it: `mem` is the manager's position, `row` its database row,  *)
(* `held` the broker's.  PositionManager has the rest.                     *)
(*                                                                         *)
(* A day is cut at the times the code looks at.  Main-thread steps that do *)
(* not sleep take no time; a sleeper wakes when its time comes; retries    *)
(* with Gateway away take as long as it is away, until the close or beyond.*)
(***************************************************************************)
EXTENDS Integers, FiniteSets

CONSTANTS
    TradingDays,   \* days the calendar calls trading days
    HalfDays,      \* those on which the exchange closes at 13:00
    MaxDay,        \* bound: the last day
    MaxDrops,      \* bound: lost sockets
    MaxSignals,    \* bound: SIGTERM or SIGINT
    MaxCrashes,    \* bound: process deaths
    Recover        \* the --recover option

ASSUME DaemonAssumption ==
    /\ MaxDay \in Nat \ {0}
    /\ TradingDays \subseteq Nat
    /\ \E d \in TradingDays : d > MaxDay
    /\ HalfDays \subseteq TradingDays
    /\ {MaxDrops, MaxSignals, MaxCrashes} \subseteq Nat
    /\ Recover \in BOOLEAN

\* Slots of a day: from midnight, 08:30, 09:31, 10:00, 13:00, 15:54:30 (five
\* minutes before the sweep), 15:59:30 (eod_flatten_lead_secs), 16:00.
Night == 0
PremarketStart == 1
OpenEvalStart == 2
OrbEnd == 3
HalfDayClose == 4
LastFive == 5
SweepTime == 6
MarketClose == 7

VARIABLES
    day, slot,  \* now_et()
    pc,         \* where the main thread is
    why,        \* the reason flatten_all was called with
    wakeDay,    \* the day a sleep ends
    lastRun,    \* last_run_date, 0 for None
    sdate,      \* the session's date
    recover,    \* _run_daemon's local of that name
    stop,       \* shutdown[0]
    handler,    \* whose signal handlers are installed
    sock,       \* the socket to IB Gateway
    mem, row,   \* the manager's position and its row: none, open, closed
    held, seen, \* shares at the broker, and in ib.portfolio()
    attempted,  \* the engine has tried its one entry of the session
    exits,      \* shares of market exits in flight, negative to buy back
    handled,    \* flatten_all's `handled`
    done,       \* history: sessions this process completed
    late,       \* history: the session subscribed or reconnected after 15:54:30
    straddled,  \* history: a session's start or pre-market phase ran past the close
    excused,    \* history: an exit could not be sent, or died with the day
    twice,      \* history: a flatten, or a death, came with an exit unsettled
    drops, signals, crashes

time == <<day, slot>>
control == <<pc, why, wakeDay, lastRun, sdate, recover, stop, handler>>
book == <<mem, row, held, seen, attempted, exits, handled>>
history == <<done, late, straddled, excused, twice>>
counters == <<drops, signals, crashes>>
vars == <<time, control, sock, book, history, counters>>

(***************************************************************************)
(* MarketClock, IBClient.get_clock and the calendar.                       *)
(***************************************************************************)

EveryDay(d) == TRUE                                   \* mutant: no holidays
IsTradingDay(d) == d \in TradingDays

Latest == CHOOSE t \in TradingDays : \A u \in TradingDays : u <= t
NextStrictly(d) ==                                    \* mutant: off by one day
    IF d >= Latest THEN Latest
    ELSE CHOOSE t \in TradingDays : t > d /\ \A u \in TradingDays : u > d => t <= u

\* The first trading day on or after d; TradingDays holds one past the bound.
NextTradingDay(d) ==
    CHOOSE t \in TradingDays : t >= d /\ \A u \in TradingDays : u >= d => t <= u

\* get_clock answers a dict computed from the local time: every close is 16:00.
GetClock ==
    LET before == IsTradingDay(day) /\ slot < OpenEvalStart
        open == IsTradingDay(day) /\ slot < MarketClose /\ ~before
    IN  [form |-> "dict",
         is_open |-> open,
         next_open |-> IF before THEN day
                       ELSE IF IsTradingDay(day) THEN NextTradingDay(day + 1)
                       ELSE NextTradingDay(day),
         next_close |-> MarketClose]

\* next_market_day reads the dict by key, and falls back to the calendar when
\* no answer comes within ten seconds.
ByNextOpen == GetClock.next_open                      \* mutant: is_open not read
ByBroker == IF GetClock.is_open THEN day ELSE GetClock.next_open
ByCalendar ==
    IF IsTradingDay(day) /\ slot < MarketClose THEN day ELSE NextTradingDay(day + 1)
NextMarketDay == {ByBroker, ByCalendar}

\* is_half_day reads next_close as an attribute, which a dict does not have; the
\* exception is swallowed.
IsHalfDay == GetClock.form = "object" /\ GetClock.next_close < MarketClose
EffectiveClose == IF IsHalfDay THEN HalfDayClose ELSE MarketClose

\* When the exchange really closes; whether market orders fill now, or are held
\* by the broker until the open.
CloseOf(d) == IF d \in HalfDays THEN HalfDayClose ELSE MarketClose
BeforeOpen == IsTradingDay(day) /\ slot < OpenEvalStart
Trading == IsTradingDay(day) /\ slot >= OpenEvalStart /\ slot < CloseOf(day)

Reached(d, s) == day > d \/ (day = d /\ slot >= s)

(***************************************************************************)
(* The main thread.                                                        *)
(***************************************************************************)

Waiting == {"evalwait", "orbwait", "watchdog", "eodwait"}
InSession == Waiting \cup {"premarket", "sweep", "quote", "record"}
Asleep == {"loop", "idle", "exited", "dead", "reconn"}

\* The socket is looked at, and events are delivered, while the loop is pumped.
Pumping == pc \in Waiting \cup {"premarket", "quote"}

View == IF sock = "up" THEN seen ELSE 0

\* An exit is in flight, or has filled and the portfolio does not show it yet.
Unsettled == exits # 0 \/ seen # held

Init ==
    /\ day = 1 /\ slot \in Night..MarketClose
    /\ pc = "loop" /\ why = "none" /\ wakeDay = 0
    /\ lastRun = 0 /\ sdate = 0
    /\ recover = Recover /\ stop = FALSE /\ handler = "daemon"
    /\ sock = "up"
    /\ row \in {"none", "open"}
    /\ held = (IF row = "open" THEN 1 ELSE 0) /\ seen = held
    /\ mem = FALSE /\ attempted = FALSE /\ exits = 0 /\ handled = FALSE
    /\ done = {} /\ late = FALSE /\ straddled = FALSE
    /\ excused = FALSE /\ twice = FALSE
    /\ drops = 0 /\ signals = 0 /\ crashes = 0

GuardsNothing(d) == TRUE                              \* mutant: no last_run_date guard
NotYetRun(d) == d # lastRun

\* One turn of the daemon loop: a date already run is not run again, one whose
\* 08:30 has not come is waited for.
DaemonTurn ==
    /\ pc = "loop"
    /\ IF stop THEN pc' = "exited" /\ UNCHANGED <<sdate, wakeDay>>
       ELSE \E d \in NextMarketDay :
            IF NotYetRun(d) THEN /\ sdate' = d
                                 /\ wakeDay' = d
                                 /\ pc' = "idle"
            ELSE /\ wakeDay' = 0
                 /\ pc' = "idle"
                 /\ UNCHANGED sdate
    /\ UNCHANGED <<time, why, lastRun, recover, stop, handler, sock, book, history,
                   counters>>

\* The minute's sleep of a date already run ends some time; so does the wait for
\* 08:30, which a signal to the daemon cuts short.
IdleEnds ==
    /\ pc = "idle"
    /\ stop \/ wakeDay = 0
    /\ pc' = "loop"
    /\ UNCHANGED <<time, why, wakeDay, lastRun, sdate, recover, stop, handler, sock,
                   book, history, counters>>

PurgesOpenRows == "closed"                            \* mutant: purges open rows
\* get_position on a dead socket finds nothing.
ReconciledRow == IF recover /\ row = "open" /\ View = 0 THEN "closed" ELSE row

\* startup_reconcile drops every row and sells what is held of the open ones.
StartupSells(shown) == IF ReconciledRow = "open" THEN shown ELSE 0

\* recover() reconciles with the broker before run_session has looked at the
\* socket.  _ensure_connected then reconnects, or raises before the `try`.
SessionBegins ==
    /\ pc = "idle" /\ ~stop /\ wakeDay # 0
    /\ Reached(wakeDay, PremarketStart)
    /\ sock' = "up"
    /\ seen' = IF sock = "up" THEN seen ELSE held
    /\ exits' = exits + StartupSells(seen')
    /\ row' = "none"
    /\ attempted' = FALSE
    /\ pc' = "premarket"
    /\ handler' = "runner"
    /\ late' = FALSE
    /\ UNCHANGED <<time, why, wakeDay, lastRun, sdate, recover, stop, mem, held,
                   handled, done, straddled, excused, twice, counters>>

\* The reconnect of _ensure_connected fails, half a minute later: ConnectionError.
SessionRefused ==
    /\ pc = "idle" /\ ~stop /\ wakeDay # 0
    /\ Reached(wakeDay, PremarketStart)
    /\ sock = "down"
    /\ row' = ReconciledRow
    /\ pc' = "reconn"
    /\ UNCHANGED <<time, attempted, why, wakeDay, lastRun, sdate, recover, stop,
                   handler, sock,
                   mem, held, seen, exits, handled, history, counters>>

\* _run_pre_market's work is over, however long it took: the clock is asked again
\* when 09:31 is.
PremarketEnds ==
    /\ pc = "premarket"
    /\ \E d \in NextMarketDay : wakeDay' = d
    /\ pc' = "evalwait"
    /\ UNCHANGED <<time, why, lastRun, sdate, recover, stop, handler, sock, book,
                   history, counters>>

\* flatten_all is called: `twice` remembers that an exit was not settled.
Flatten(reason) ==
    /\ pc' = "sweep"
    /\ why' = reason
    /\ twice' = (twice \/ Unsettled \/ pc = "quote")
    /\ UNCHANGED <<time, wakeDay, lastRun, sdate, recover, stop, handler, sock, book,
                   done, late, straddled, excused>>

\* refresh_and_assert_fresh raises: the session is shut down, and the exception
\* ends the process, for the daemon catches ConnectionError only.
PremarketAborts ==
    /\ crashes < MaxCrashes
    /\ pc = "premarket"
    /\ crashes' = crashes + 1
    /\ Flatten("abort")
    /\ UNCHANGED <<drops, signals>>

\* A sleep ends when its time has come and the socket is there.
Wakes(from, s) == pc = from /\ sock = "up" /\ Reached(wakeDay, s)

PhaseUnchanged == UNCHANGED <<time, why, lastRun, sdate, recover, stop, handler, sock,
                              book, done, straddled, excused, twice, counters>>

\* Phase 1, then the opening range until today's 10:00.
OpenEval ==
    /\ Wakes("evalwait", OpenEvalStart)
    /\ pc' = "orbwait"
    /\ wakeDay' = day
    /\ UNCHANGED late /\ PhaseUnchanged

\* Phase 2: with candidates, their bars are subscribed and the watchdog sleeps
\* five minutes before anything else.
PostOrb ==
    /\ Wakes("orbwait", OrbEnd)
    /\ wakeDay' = day
    /\ \/ pc' = "eodwait" /\ UNCHANGED late
       \/ pc' = "watchdog" /\ late' = (late \/ slot >= LastFive)
    /\ PhaseUnchanged

WatchdogEnds ==
    /\ pc = "watchdog" /\ sock = "up"
    /\ late => Reached(wakeDay, SweepTime)
    /\ pc' = "eodwait"
    /\ UNCHANGED <<wakeDay, late>> /\ PhaseUnchanged

SweepAtClose == EffectiveClose                        \* mutant: no lead
\* _wait_until_eod ends eod_flatten_lead_secs before the close it believes in.
SweepSlot == EffectiveClose - 1
EodArrives ==
    /\ Wakes("eodwait", SweepSlot)
    /\ Flatten("eod")
    /\ UNCHANGED counters

(***************************************************************************)
(* flatten_all, for the end of the day, a crash of the session or a signal.*)
(***************************************************************************)

\* Step 1 sends the exit of the position, of the portfolio's size where it shows
\* one, and waits for a quote; a submission on a dead socket raises.
FlattenExit ==
    /\ pc = "sweep" /\ mem
    /\ pc' = "quote"
    /\ IF sock = "up"
       THEN /\ exits' = exits + 1
            /\ handled' = TRUE
            /\ UNCHANGED excused
       ELSE /\ excused' = TRUE
            /\ handled' = FALSE
            /\ UNCHANGED exits
    /\ UNCHANGED <<time, attempted, why, wakeDay, lastRun, sdate, recover, stop,
                   handler, sock, mem,
                   row, held, seen, done, late, straddled, twice, counters>>

FlattenSkips ==
    /\ pc = "sweep" /\ ~mem
    /\ pc' = "quote"
    /\ handled' = FALSE
    /\ UNCHANGED <<time, attempted, why, wakeDay, lastRun, sdate, recover, stop,
                   handler, sock, mem,
                   row, held, seen, exits, history, counters>>

After == CASE why = "eod" -> "record"
           [] why = "crash" -> "reconn"
           [] why = "abort" -> "dead"
           [] why = "signal" -> "exited"

SellsAgain == View                                    \* mutant: no `handled`
NothingLeft == 0                                      \* mutant: step 3 left out
\* Step 3: what the portfolio still shows and step 1 did not sell.
Residual == IF handled THEN 0 ELSE View

\* The position is booked and dropped, sold or not, and step 3 runs.  sys.exit
\* and re-raising end the session.
FlattenEnds ==
    /\ pc = "quote"
    /\ exits' = exits + Residual
    /\ mem' = FALSE
    /\ row' = IF mem THEN "none" ELSE row
    /\ handled' = FALSE
    /\ pc' = After
    /\ excused' = (excused \/ View # held \/ sock = "down")
    /\ UNCHANGED <<time, attempted, why, wakeDay, lastRun, sdate, recover, stop,
                   handler, sock, held,
                   seen, done, late, straddled, twice, counters>>

\* day_state, the equity and the report are written; run_session returns.
SessionCompletes ==
    /\ pc = "record"
    /\ pc' = "loop"
    /\ lastRun' = sdate
    /\ done' = done \cup {sdate}
    /\ recover' = FALSE
    /\ UNCHANGED <<time, why, wakeDay, sdate, stop, handler, sock, book, late,
                   straddled,
                   excused, twice, counters>>

(***************************************************************************)
(* The socket.                                                             *)
(***************************************************************************)

\* Gateway restarts, or the line is lost.
Drop ==
    /\ drops < MaxDrops
    /\ sock = "up" /\ pc \notin {"exited", "dead"}
    /\ drops' = drops + 1
    /\ sock' = "down"
    /\ UNCHANGED <<time, control, book, history, signals, crashes>>

\* _resilient_sleep reconnects, half a minute later at most, and sleeps on.
Resume ==
    /\ pc \in Waiting /\ sock = "down"
    /\ sock' = "up"
    /\ seen' = held
    /\ late' = (late \/ slot >= LastFive)
    /\ UNCHANGED <<time, attempted, control, mem, row, held, exits, handled, done,
                   straddled,
                   excused, twice, counters>>

\* It cannot: the session crashes, which flattens, and the daemon takes over.
Outage ==
    /\ pc \in Waiting \cup {"premarket"} /\ sock = "down"
    /\ Flatten("crash")
    /\ UNCHANGED counters

\* The daemon reconnects, or sleeps a minute, and the loop turns in both cases.
\* Time passes in "reconn": an outage may outlast the day.
Reconnected ==
    /\ pc = "reconn"
    /\ pc' = "loop"
    /\ sock' = "up" /\ seen' = held
    /\ UNCHANGED <<time, attempted, why, wakeDay, lastRun, sdate, recover, stop,
                   handler, mem, row,
                   held, exits, handled, history, counters>>

StillDown ==
    /\ pc = "reconn"
    /\ pc' = "loop"
    /\ UNCHANGED <<time, why, wakeDay, lastRun, sdate, recover, stop, handler, sock,
                   book,
                   history, counters>>

(***************************************************************************)
(* Signals and deaths.                                                     *)
(***************************************************************************)

\* run_session has replaced the daemon's handlers, for good: a signal flattens
\* inside whatever the main thread is doing, and exits.
SignalRunner ==
    /\ signals < MaxSignals
    /\ handler = "runner" /\ pc \notin {"exited", "dead"}
    /\ signals' = signals + 1
    /\ Flatten("signal")
    /\ UNCHANGED <<drops, crashes>>

SignalDaemon ==
    /\ signals < MaxSignals
    /\ handler = "daemon" /\ pc \notin {"exited", "dead"}
    /\ signals' = signals + 1
    /\ stop' = TRUE
    /\ UNCHANGED <<time, pc, why, wakeDay, lastRun, sdate, recover, handler, sock, book,
                   history, drops, crashes>>

Crash ==
    /\ crashes < MaxCrashes
    /\ pc \notin {"exited", "dead"}
    /\ crashes' = crashes + 1
    /\ pc' = "dead"
    /\ mem' = FALSE /\ handled' = FALSE
    /\ twice' = (twice \/ Unsettled)
    /\ UNCHANGED <<time, attempted, why, wakeDay, lastRun, sdate, recover, stop,
                   handler, sock, row,
                   held, seen, exits, done, late, straddled, excused, drops, signals>>

\* The service manager starts the program again, which connects first.
Restart ==
    /\ pc = "dead"
    /\ pc' = "loop"
    /\ lastRun' = 0 /\ recover' = Recover /\ stop' = FALSE /\ handler' = "daemon"
    /\ sock' = "up" /\ seen' = held
    /\ done' = {}
    /\ UNCHANGED <<time, attempted, why, wakeDay, sdate, mem, row, held, exits,
                   handled, late,
                   straddled, excused, twice, counters>>

(***************************************************************************)
(* The market.                                                             *)
(***************************************************************************)

\* A breakout is entered and filled, and the position persisted.
Enter ==
    /\ pc \in {"watchdog", "eodwait"} /\ sock = "up" /\ Trading
    /\ ~attempted /\ ~mem /\ held = 0 /\ seen = 0 /\ exits = 0
    /\ attempted' = TRUE
    /\ mem' = TRUE /\ row' = "open" /\ held' = 1
    /\ UNCHANGED <<time, control, sock, seen, exits, handled, history, counters>>

\* The position is closed by its own orders and the manager has noticed.
ExitOnBar ==
    /\ pc \in Waiting /\ sock = "up" /\ Trading
    /\ mem /\ held = 1 /\ exits = 0
    /\ mem' = FALSE /\ row' = "none" /\ held' = 0
    /\ UNCHANGED <<time, attempted, control, sock, seen, exits, handled, history,
                   counters>>

PortfolioUpdate ==
    /\ Pumping /\ sock = "up" /\ seen # held
    /\ seen' = held
    /\ UNCHANGED <<time, attempted, control, sock, mem, row, held, exits, handled,
                   history, counters>>

ExitFills ==
    /\ exits # 0 /\ Trading
    /\ held' = held - exits
    /\ exits' = 0
    /\ excused' = (excused /\ held' # 0)
    /\ UNCHANGED <<time, attempted, control, sock, mem, row, seen, handled, done,
                   late, straddled,
                   twice, counters>>

\* After the close, or on a holiday, a market order goes nowhere.
ExitDies ==
    /\ exits # 0 /\ ~Trading /\ ~BeforeOpen
    /\ exits' = 0
    /\ excused' = (excused \/ held # 0)
    /\ UNCHANGED <<time, attempted, control, sock, mem, row, held, seen, handled,
                   done, late,
                   straddled, twice, counters>>

\* The main thread is inside a reconnect: the retries of a session, or of its
\* start, last up to half a minute, those of the daemon until Gateway is back.
Starting == pc = "idle" /\ wakeDay # 0 /\ Reached(wakeDay, PremarketStart)
Retrying == sock = "down" /\ (Starting \/ pc \in Waiting)

\* A main-thread step is due at this very time.
Due ==
    \/ pc \in {"loop", "sweep", "quote", "record"}
    \/ pc = "idle" /\ wakeDay = 0 /\ slot = Night
    \/ pc = "idle" /\ stop
    \/ /\ sock = "up"
       /\ \/ Starting
          \/ pc = "evalwait" /\ Reached(wakeDay, OpenEvalStart)
          \/ pc = "orbwait" /\ Reached(wakeDay, OrbEnd)
          \/ pc = "eodwait" /\ Reached(wakeDay, SweepSlot)
          \/ pc = "watchdog" /\ slot >= IF late THEN MarketClose ELSE LastFive
    \/ Retrying /\ slot = MarketClose

\* Time passes.  A market order fills, and the portfolio shows it, before the
\* next mark of the day.
Tick ==
    /\ ~Due
    /\ pc # "exited"
    /\ exits = 0 \/ BeforeOpen
    /\ Pumping /\ sock = "up" => seen = held
    /\ day < MaxDay \/ slot < MarketClose
    /\ IF slot < MarketClose THEN slot' = slot + 1 /\ UNCHANGED day
       ELSE slot' = Night /\ day' = day + 1
    /\ straddled' = (straddled \/ ((pc = "premarket" \/ Starting) /\ slot' = MarketClose))
    /\ UNCHANGED <<control, sock, book, done, late, excused, twice, counters>>

\* The last day is over, or the program has been stopped.
Ended == pc = "exited" \/ (day = MaxDay /\ slot = MarketClose /\ pc \in Asleep \cup Waiting)
Over ==
    /\ Ended
    /\ UNCHANGED vars

MainThread ==
    \/ DaemonTurn
    \/ IdleEnds
    \/ SessionBegins
    \/ SessionRefused
    \/ PremarketEnds
    \/ PremarketAborts
    \/ OpenEval
    \/ PostOrb
    \/ WatchdogEnds
    \/ EodArrives
    \/ FlattenExit
    \/ FlattenSkips
    \/ FlattenEnds
    \/ SessionCompletes
    \/ Resume
    \/ Outage
    \/ Reconnected
    \/ StillDown
    \/ Restart

Market ==
    \/ Enter
    \/ ExitOnBar
    \/ PortfolioUpdate
    \/ ExitFills
    \/ ExitDies

Next ==
    \/ MainThread
    \/ Market
    \/ Drop
    \/ SignalRunner
    \/ SignalDaemon
    \/ Crash
    \/ Tick
    \/ Over

Spec == Init /\ [][Next]_vars

\* The main thread runs on and the market trades.  Time passes though the daemon
\* keeps turning, for every turn of its loop sleeps.  Gateway need not come back;
\* losses, signals and deaths are never due.
Fairness ==
    /\ WF_vars(MainThread)
    /\ SF_vars(Tick)
    /\ WF_vars(PortfolioUpdate)
    /\ WF_vars(ExitFills)
    /\ WF_vars(ExitDies)
FairSpec == Spec /\ Fairness

(***************************************************************************)
(* Properties.                                                             *)
(***************************************************************************)

TypeOK ==
    /\ day \in 1..MaxDay /\ slot \in Night..MarketClose
    /\ pc \in InSession \cup Asleep
    /\ why \in {"none", "eod", "crash", "abort", "signal"}
    /\ {wakeDay, lastRun, sdate} \subseteq TradingDays \cup {0}
    /\ {recover, stop, mem, attempted, handled, late, straddled, excused, twice} \subseteq BOOLEAN
    /\ handler \in {"daemon", "runner"}
    /\ sock \in {"up", "down"}
    /\ row \in {"none", "open", "closed"}
    /\ {held, seen, exits} \subseteq Int
    /\ done \subseteq TradingDays
    /\ drops \in 0..MaxDrops /\ signals \in 0..MaxSignals /\ crashes \in 0..MaxCrashes

\* A date whose session this process has completed is never run again, though the
\* sweep ends before the close and the clock goes on naming the same day.
RunsOnce == [][pc = "idle" /\ pc' = "premarket" => sdate \notin done]_vars

\* A session trades on its own day only: no sleep of a session, whatever day the
\* clock names and however often the socket was lost, ends on another day, but
\* for a session whose start or pre-market phase ran past the close.
TradesOnItsDay ==
    pc \in Waiting \cup {"record"} => day = sdate \/ straddled

\* The day's sweep is sent while the exchange still trades, but for a session that
\* started or reconnected in the last five minutes.
SweepBeforeClose ==
    pc = "sweep" /\ why = "eod" /\ ~late /\ ~straddled => slot < CloseOf(day)

\* Shares at the broker are never forgotten: a row, the manager or an exit in
\* flight accounts for them, unless an exit could not be sent, died or was doubled.
NoSilentOrphan ==
    held > 0 => row = "open" \/ mem \/ exits > 0 \/ excused \/ twice

\* While the market trades, the exits of a sweep sell exactly what is held, the
\* shares an earlier failure left behind included, if the socket is there and the
\* sweep met no unsettled exit.
SweepCovers ==
    pc = "record" /\ Trading /\ sock = "up" /\ ~twice => exits = held

\* The book never goes short, whatever the sweep and the reconciliation at the
\* start sell, but where one of them, or a death, comes with an exit unsettled.
NeverShort == held >= 0 \/ twice

\* The daemon skips no trading day and oversleeps none: a day that begins with the
\* daemon waiting or retrying has its session completed, however often and however
\* long Gateway is away, unless the socket is down when the day closes, the start
\* of a session overruns the close, or a signal or a death ends the process.
EveryDayRuns ==
    \A d \in TradingDays \cap 1..MaxDay :
        day = d /\ slot = Night /\ pc \in {"loop", "idle", "reconn"}
        ~> \/ d \in done
           \/ straddled \/ signals > 0 \/ crashes > 0
           \/ day = d /\ slot = MarketClose /\ sock = "down"

=============================================================================
