------------------------------- MODULE BarFeed -------------------------------
(***************************************************************************)
(* How bars reach the strategy, for one symbol: IB's 5-second stream and   *)
(* BarAggregator (orb_live/data/ib_client.py), BarRouter with its          *)
(* missed-bar replay, the entry state machine of StrategyEngine, and the   *)
(* SessionRunner's subscriptions: at the ORB close, by the zero-bars       *)
(* watchdog, and after a lost socket.                                      *)
(*                                                                         *)
(* Time is counted in 5-second ticks, TicksPerMinute to the minute, from   *)
(* before the ORB close.  A bar is its minute (0: no bar) and whether it   *)
(* touches the ORB boundary; a replayed bar may do either.  The runner is  *)
(* at a stage: `pre` until the ORB close, `arming` while it arms the       *)
(* engine and until it has subscribed, `grace` in the five minutes before  *)
(* the watchdog looks, `wait` until the sweep, `done` when the session     *)
(* completed, `failed` when a ConnectionError ended it and the daemon will *)
(* run the same day again.                                                 *)
(*                                                                         *)
(* A flush on the main thread may have to fetch missed bars, and           *)
(* reqHistoricalData runs the event loop until the answer is there, with   *)
(* the stream still subscribed: `fetch` is that request, and bars of the   *)
(* stream are delivered while it is out.  Inside a callback of the loop    *)
(* the same request raises, for the loop is running already.               *)
(***************************************************************************)
EXTENDS Integers, Sequences

CONSTANTS
    TicksPerMinute,  \* 5-second bars in a minute
    OrbEnd,          \* tick of the ORB close
    Grace,           \* ticks the watchdog waits
    Eod,             \* tick of the end-of-day sweep
    Close,           \* tick of the market's close
    FetchTicks,      \* ticks until a fetch of missed bars times out
    MaxDays,         \* bound: trading days
    MaxDrops,        \* bound: lost sockets
    MaxReruns        \* bound: sessions the daemon runs again

ASSUME FeedAssumption ==
    /\ {TicksPerMinute, Grace, MaxDays} \subseteq Nat \ {0}
    /\ {OrbEnd, Eod, Close, FetchTicks, MaxDrops, MaxReruns} \subseteq Nat
    /\ OrbEnd <= Eod /\ Eod <= Close

VARIABLES
    now,         \* tick of the day
    day,         \* trading day
    conn,        \* the socket is up
    drops,       \* sockets lost so far
    reruns,      \* sessions run again so far
    stage,       \* the runner's stage
    watched,     \* symbol in SessionRunner._watched
    checkAt,     \* tick at which the watchdog looks
    subscribed,  \* symbol in BarRouter._symbols, with _subscribed
    stream,      \* the symbol's entry in IBClient._streams: none, live or dead
    agg,         \* its BarAggregator: the bar being built
    last,        \* BarRouter._last_bar_ts
    fetch,       \* the fetch a flush waits for: its bar, the last before, its end
    received,    \* BarRouter._bars_received
    eng,         \* StrategyEngine._states
    fed,         \* minutes of the 1-min bars delivered in this session
    attempts     \* open_position calls of this session

runnerVars == <<stage, watched, checkAt, day, reruns>>
feedVars == <<subscribed, stream, agg, last, fetch>>
countVars == <<received, fed>>
engineVars == <<eng, attempts>>
vars == <<now, conn, drops, runnerVars, feedVars, countVars, engineVars>>

NoBar == [min |-> 0, brk |-> FALSE]
MinuteOf(t) == t \div TicksPerMinute + 1
Minutes == 1..MinuteOf(Close)
NoFetch == [bar |-> NoBar, since |-> 0, until |-> 0]

Init ==
    /\ now = 0
    /\ day = 1
    /\ conn = TRUE
    /\ drops = 0
    /\ reruns = 0
    /\ stage = "pre"
    /\ watched = FALSE
    /\ checkAt = 0
    /\ subscribed = FALSE
    /\ stream = "none"
    /\ agg = NoBar
    /\ last = 0
    /\ fetch = NoFetch
    /\ received = 0
    /\ eng = "waiting"
    /\ fed = <<>>
    /\ attempts = 0

(***************************************************************************)
(* A 1-minute bar reaches the router.                                      *)
(***************************************************************************)

\* The ways to choose minutes after lo, up to hi, oldest first.
Rising(lo, hi) ==
    UNION {{r \in [1..n -> (lo + 1)..hi] : \A i, j \in 1..n : i < j => r[i] < r[j]} :
            n \in 0..(hi - lo)}

\* Bars of minutes r; those of B touch the boundary.
Refetched(r, B) == [i \in DOMAIN r |-> [min |-> r[i], brk |-> r[i] \in B]]

\* detect_missed_bars asks for bars after a gap of two minutes.
Gap(m) == last # 0 /\ m - last >= 2

\* What fetch f answers for its bar: the bars since the last one, of which some may
\* be missing and the bar's own minute may be one; none if the socket went.
Missed(f) ==
    IF ~conn THEN {<<>>}
    ELSE {Refetched(r, B) : r \in Rising(f.since, f.bar.min),
                            B \in SUBSET ((f.since + 1)..f.bar.min)}

LiveBarFirst(f) == {<<f.bar>> \o r : r \in Missed(f)}    \* mutant: replay last
\* _on_stream_bar: the missed bars, oldest first, then the bar itself.
Arrivals(f) == {Append(r, f.bar) : r \in Missed(f)}

\* Bars bs are dispatched to the 1-minute listeners.
Counted(bs) ==
    /\ received' = received + Len(bs)
    /\ fed' = fed \o [i \in DOMAIN bs |-> bs[i].min]

PostOrb(bar) == bar.min >= MinuteOf(OrbEnd)

Breaks(bs) == \E i \in DOMAIN bs : bs[i].brk /\ PostOrb(bs[i])

RejectedStaysArmed(e, bs) ==             \* mutant: state kept when open_position returns None
    IF e = "armed" /\ Breaks(bs)
    THEN attempts' = attempts + 1 /\ eng' \in {"in_position", "armed"}
    ELSE eng' = e /\ UNCHANGED attempts
\* StrategyEngine.on_bar for each bar of bs, from state e: the first break of an
\* armed symbol is its one attempt, whatever comes of it; only an exception before
\* open_position (the store) leaves the symbol armed.
EngineSees(e, bs) ==
    \/ /\ e = "armed" /\ Breaks(bs)
       /\ attempts' = attempts + 1
       /\ eng' \in {"in_position", "skipped"}
    \/ eng' = e /\ UNCHANGED attempts

(***************************************************************************)
(* Subscriptions.                                                          *)
(***************************************************************************)

FlushesEmpty == IF stream # "none" THEN {<<agg>>} ELSE {<<>>}   \* mutant
\* stop_bars_stream hands the partial bar to the router before it lets go of the
\* stream; the router needs no bars before it, or cannot ask for them.
PartialBar == IF stream # "none" /\ agg.min # 0 THEN {<<agg>>} ELSE {<<>>}

\* The router would ask for the bars before the partial one.
FetchNeeded == conn /\ stream # "none" /\ agg.min # 0 /\ Gap(agg.min)

\* The bars a flush of the main thread delivers, once its fetch is answered.
Flushes ==
    IF fetch # NoFetch THEN Arrivals(fetch)
    ELSE IF FetchNeeded THEN {}
    ELSE PartialBar

OnlyIfSubscribed ==                      \* mutant: nothing to do unless _subscribed
    /\ subscribed' = FALSE
    /\ IF subscribed THEN stream' = "none" /\ agg' = NoBar
                     ELSE UNCHANGED <<stream, agg>>
\* router.unsubscribe: the streams are dropped whatever the router believes.
Unsubscribed ==
    /\ subscribed' = FALSE
    /\ stream' = "none"
    /\ agg' = NoBar

\* router.subscribe on a router without a subscription; s is the client's stream
\* before.  If the broker raises, another symbol may have failed after this one.
Subscribed(ok, s) ==
    /\ last' = 0
    /\ subscribed' = ok
    /\ stream' \in IF s # "none" THEN {s} ELSE IF ok THEN {"live"} ELSE {"none", "live"}
    /\ agg' = IF s # "none" THEN agg ELSE NoBar

(***************************************************************************)
(* The stream.                                                             *)
(***************************************************************************)

\* While a fetch is out only the event loop runs, and not beyond its timeout.
TimeLeft == now < Close /\ (fetch # NoFetch => now < fetch.until)

\* The 5-second listener: the raw bar goes to the engine, then into the
\* aggregator, and a bar completed by it to the router, which misses no bars here:
\* its fetch fails inside the callback.
Tick(b) ==
    /\ TimeLeft
    /\ conn
    /\ stream = "live"
    /\ now' = now + 1
    /\ LET m == MinuteOf(now')
           raw == [min |-> m, brk |-> b]
       IN  IF agg.min # 0 /\ m > agg.min
           THEN /\ agg' = raw
                /\ Counted(<<agg>>)
                /\ last' = agg.min
                /\ EngineSees(eng, <<raw, agg>>)
           ELSE /\ agg' = [min |-> m, brk |-> b \/ agg.brk]
                /\ EngineSees(eng, <<raw>>)
                /\ UNCHANGED <<countVars, last>>
    /\ UNCHANGED <<conn, drops, runnerVars, subscribed, stream, fetch>>

\* Time passes and no bar comes: the symbol is not subscribed, the socket is
\* down, or IB silently delivers nothing.
NoTick ==
    /\ TimeLeft
    /\ stage # "done"
    /\ now' = now + 1
    /\ UNCHANGED <<conn, drops, runnerVars, feedVars, countVars, engineVars>>

Drop ==
    /\ conn
    /\ drops < MaxDrops
    /\ drops' = drops + 1
    /\ conn' = FALSE
    /\ stream' = IF stream = "none" THEN "none" ELSE "dead"
    /\ UNCHANGED <<now, runnerVars, subscribed, agg, last, fetch, countVars, engineVars>>

(***************************************************************************)
(* The session runner.                                                     *)
(***************************************************************************)

WatchdogLooks == stage = "grace" /\ (now >= checkAt \/ now = Close)
SweepIsOver == stage = "wait" /\ now >= Eod

\* The main thread is about to flush, and the router asks for missed bars first.
FetchStarts ==
    /\ fetch = NoFetch
    /\ FetchNeeded
    /\ (stage = "arming" /\ subscribed) \/ WatchdogLooks \/ SweepIsOver
    /\ fetch' = [bar |-> agg, since |-> last, until |-> now + FetchTicks]
    /\ UNCHANGED <<now, conn, drops, runnerVars, subscribed, stream, agg, last,
                   countVars, engineVars>>

\* Bars bs of a flush reach the listeners, and the fetch for them is over.
Flushed(bs) ==
    /\ Counted(bs)
    /\ EngineSees(eng, bs)
    /\ fetch' = NoFetch
LastOf(bs) == IF bs = <<>> THEN last ELSE bs[Len(bs)].min

\* _resilient_sleep looks at the socket.
Waiting == stage \in {"pre", "grace", "wait"} /\ fetch = NoFetch

ForgetsUnsubscribe ==                    \* mutant: the no-op keeps the lost streams
    IF subscribed
    THEN stream' = "none" /\ agg' = NoBar /\ UNCHANGED <<subscribed, last>>
    ELSE \E ok \in BOOLEAN : Subscribed(ok, "none")
\* subscribe() after unsubscribe(): the no-op for an unchanged symbol list cannot
\* apply.
Resubscribed == \E ok \in BOOLEAN : Subscribed(ok, "none")

\* _resilient_sleep meets a ConnectionError and the broker reconnects:
\* disconnect() flushes the streams on the dead socket, and the watched symbols
\* are subscribed again; a failure of that is only logged.
Reconnect ==
    /\ Waiting
    /\ ~conn
    /\ conn' = TRUE
    /\ \E bs \in Flushes :
        /\ Flushed(bs)
        /\ IF watched
           THEN Resubscribed
           ELSE /\ stream' = "none"
                /\ agg' = NoBar
                /\ last' = LastOf(bs)
                /\ UNCHANGED subscribed
    /\ UNCHANGED <<now, drops, runnerVars>>

\* The session is over: the finally of run_session unsubscribes.
Closes ==
    \E bs \in Flushes :
        /\ Flushed(bs)
        /\ last' = LastOf(bs)
        /\ Unsubscribed

\* Every attempt to reconnect fails: the session ends.
ReconnectFails ==
    /\ Waiting
    /\ ~conn
    /\ stage' = "failed"
    /\ Closes
    /\ UNCHANGED <<now, conn, drops, watched, checkAt, day, reruns>>

\* No symbol passed phase 1: _run_post_orb returns before it sets _watched.
NoCandidates ==
    /\ stage = "pre"
    /\ now >= OrbEnd
    /\ stage' = "wait"
    /\ UNCHANGED <<now, conn, drops, watched, checkAt, day, reruns, feedVars,
                   countVars, engineVars>>

\* The loop over the candidates: the engine arms the symbol, or its ORB is not
\* usable, or the symbol is none of them; _watched is set.  With none to watch
\* nothing is subscribed.
OrbComplete ==
    /\ stage = "pre"
    /\ now >= OrbEnd
    /\ watched' \in BOOLEAN
    /\ eng' \in IF watched' THEN {"armed", "skipped"} ELSE {"waiting", "skipped"}
    /\ stage' \in IF watched' THEN {"arming"} ELSE {"arming", "wait"}
    /\ UNCHANGED <<now, conn, drops, checkAt, day, reruns, feedVars, countVars, attempts>>

GraceBegins ==
    /\ stage = "arming"
    /\ stage' = "grace"
    /\ checkAt' = now + Grace
    /\ UNCHANGED <<now, drops, watched, day, reruns>>

\* subscribe() with the symbols the router has already.
SubscribeSame ==
    /\ GraceBegins
    /\ fetch = NoFetch
    /\ subscribed = watched
    /\ UNCHANGED <<conn, feedVars, countVars, engineVars>>

\* subscribe() with other symbols: a subscription with the symbol in it is given up
\* first.  subscribe_bars connects when the socket is down, and passes over a symbol
\* it streams already.
SubscribeAnew ==
    /\ GraceBegins
    /\ conn' = TRUE
    /\ IF subscribed
       THEN \E bs \in Flushes :
                /\ Flushed(bs)
                /\ IF watched THEN Subscribed(TRUE, "none")
                              ELSE last' = 0 /\ Unsubscribed
       ELSE /\ IF watched THEN Subscribed(TRUE, stream)
                          ELSE last' = 0 /\ UNCHANGED <<subscribed, stream, agg>>
            /\ UNCHANGED <<fetch, countVars, engineVars>>

\* Five minutes later: if any watched symbol had no bars, all are subscribed anew.
WatchdogResubscribes ==
    /\ WatchdogLooks
    /\ stage' = "wait"
    /\ \E bs \in Flushes :
        /\ Flushed(bs)
        /\ IF watched THEN Subscribed(TRUE, "none") ELSE last' = 0 /\ Unsubscribed
    /\ conn' = TRUE
    /\ UNCHANGED <<now, drops, watched, checkAt, day, reruns>>

WatchdogContent ==
    /\ WatchdogLooks
    /\ fetch = NoFetch
    /\ ~(watched /\ received = 0)
    /\ stage' = "wait"
    /\ UNCHANGED <<now, conn, drops, watched, checkAt, day, reruns, feedVars, countVars,
                   engineVars>>

\* The sweep has run and the session completes.
Complete ==
    /\ SweepIsOver
    /\ stage' = "done"
    /\ Closes
    /\ UNCHANGED <<now, conn, drops, watched, checkAt, day, reruns>>

\* run_session: _ensure_connected, then new_session clears the engine.
SessionBegins ==
    /\ stage' = "pre"
    /\ conn' = TRUE
    /\ eng' = "waiting"
    /\ attempts' = 0
    /\ fed' = <<>>
    /\ UNCHANGED <<drops, watched, checkAt, feedVars, received>>

\* The daemon runs a day again only when its session ended in a ConnectionError.
RunAgain ==
    /\ stage = "failed"
    /\ now < Close
    /\ reruns < MaxReruns
    /\ reruns' = reruns + 1
    /\ SessionBegins
    /\ UNCHANGED <<now, day>>

NextDay ==
    /\ stage = "done" \/ (stage = "failed" /\ now = Close)
    /\ day < MaxDays
    /\ day' = day + 1
    /\ now' = 0
    /\ SessionBegins
    /\ UNCHANGED reruns

Done ==
    /\ stage \in {"done", "failed"}
    /\ UNCHANGED vars

Next ==
    \/ \E b \in BOOLEAN : Tick(b)
    \/ NoTick
    \/ Drop
    \/ FetchStarts
    \/ Reconnect
    \/ ReconnectFails
    \/ NoCandidates
    \/ OrbComplete
    \/ SubscribeSame
    \/ SubscribeAnew
    \/ WatchdogResubscribes
    \/ WatchdogContent
    \/ Complete
    \/ RunAgain
    \/ NextDay
    \/ Done

Spec == Init /\ [][Next]_vars

(***************************************************************************)
(* Properties.                                                             *)
(***************************************************************************)

\* Every variable keeps its type.
TypeOK ==
    /\ now \in 0..Close
    /\ day \in 1..MaxDays
    /\ conn \in BOOLEAN
    /\ drops \in 0..MaxDrops
    /\ reruns \in 0..MaxReruns
    /\ stage \in {"pre", "arming", "grace", "wait", "done", "failed"}
    /\ watched \in BOOLEAN
    /\ checkAt \in Nat
    /\ subscribed \in BOOLEAN
    /\ stream \in {"none", "live", "dead"}
    /\ agg \in [min: 0..MinuteOf(Close), brk: BOOLEAN]
    /\ last \in 0..MinuteOf(Close)
    /\ fetch \in [bar: [min: 0..MinuteOf(Close), brk: BOOLEAN],
                  since: 0..MinuteOf(Close), until: Nat]
    /\ received \in Nat
    /\ eng \in {"waiting", "armed", "in_position", "skipped"}
    /\ fed \in Seq(Minutes)
    /\ attempts \in Nat

\* The 5-second path, the 1-minute path, replayed and flushed bars may all show
\* the same breakout: a session makes one attempt to enter on it.
OneAttempt == attempts <= 1

\* The 1-minute listeners get no bar older than one they have had (not by a replay,
\* nor by the flush of a partial bar and a new subscription) but for one case: a
\* flush that waited for its fetch comes after the bars the stream delivered
\* meanwhile, and replays what was before them.
NewBars == (Len(fed) + 1)..Len(fed')
Overtakers == {i \in DOMAIN fed : fetch # NoFetch /\ fetch' = NoFetch
                                   /\ fed[i] >= fetch.bar.min}
BarsInOrder ==
    [][\A j \in NewBars : \A i \in (1..(j - 1)) \ Overtakers : fed'[i] <= fed'[j]]_vars

\* When a session is over, completed or failed, nothing streams any more.
NothingStreamsAfter == stage \in {"done", "failed"} => stream = "none" /\ ~subscribed

\* A watched symbol the router counts as subscribed has a stream at the client:
\* subscribe()'s no-op never strands one whose streams a reconnect dropped.
WatchedHasStream == watched /\ subscribed => stream # "none"
=============================================================================
