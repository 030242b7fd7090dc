----------------------------- MODULE PreMarket -----------------------------
(***************************************************************************)
(* A session up to the watched symbols: the refresh of the underlyings'    *)
(* daily rows (data/underlying_data.py), the freshness gate, Phase 1 with  *)
(* the session fixture, and Phase 2 (signals/pre_market.py,                *)
(* runner/session_runner.py, strategy/session_fixture.py), over the days   *)
(* and with the reruns that make a stored row differ from a market close.  *)
(***************************************************************************)
EXTENDS Selection, Sequences

CONSTANTS
    Uls,           \* the underlyings, in the order update_all takes them
    Crypto,        \* CRYPTO_UNDERLYINGS: a row every calendar day, of yfinance only
    TradingDays,   \* the calendar
    FirstSession,
    Closes,        \* what the close of an underlying's row may be
    Backfill,      \* the close of the one row on disk at first
    Mornings,      \* what the scan may see: the gaps of the ETFs that have one
    Replies,       \* what Phase 2 may be told of a candidate
    Excluded, LongOnly,   \* the operator's overrides
    HtbShorts,     \* cfg.allow_htb_shorts
    MaxRuns,       \* starts of the session on one day
    MaxDeaths      \* crashes, in all

ASSUME PreMarketAssumption ==
    /\ Uls \in Seq(Underlyings) /\ {Uls[k] : k \in DOMAIN Uls} = Underlyings
    /\ Crypto \subseteq Underlyings
    /\ TradingDays \subseteq Nat \ {0} /\ IsFiniteSet(TradingDays)
    /\ FirstSession \in TradingDays /\ \E d \in TradingDays : d < FirstSession
    /\ Closes \in [Underlyings -> SUBSET (Nat \ {0})]
    /\ Backfill \in [Underlyings -> Nat \ {0}]
    /\ \A seen \in Mornings : DOMAIN seen \subseteq Symbols
                             /\ \A s \in DOMAIN seen : seen[s] \in Int
    /\ MaxRuns \in Nat \ {0} /\ MaxDeaths \in Nat

VARIABLES
    day,
    pc,        \* "refresh", "open", "orb", "trade", "down" (process dead)
    next,      \* the underlying update_all is at
    inHours,   \* this start is after the open
    runs, deaths,
    store,     \* the parquet files: [Underlyings -> [days -> row]]
    torn,      \* files a death left half written
    gaps,      \* the gaps Phase 1 saw
    made,      \* its plan, with the scan's results
    watched,   \* the symbols a reconnect resubscribes; a day without candidates keeps them
    fixture,   \* today's fixture file, if there is one
    reran      \* days on which a refresh ran after the open

data == <<store, torn>>
choice == <<gaps, made, watched, fixture>>
vars == <<day, pc, next, inHours, runs, deaths, data, choice, reran>>

Days == 1..Max(TradingDays)
PrevTradingDay(d) == Max({x \in TradingDays : x < d})
Later == {d \in TradingDays : d > day}

NoPlan == [plan |-> [candidates |-> {}, regime |-> "none", share |-> <<>>, cap |-> <<1, 1>>],
           universe |-> {}, ulGaps |-> <<>>]

Init ==
    /\ day = FirstSession /\ pc = "refresh" /\ next = 1
    /\ inHours = FALSE /\ runs = 1 /\ deaths = 0
    /\ store = [u \in Underlyings |->
                  [d \in {PrevTradingDay(FirstSession) - 1} |->
                      [close |-> Backfill[u], final |-> TRUE]]]
    /\ torn = {}
    /\ gaps = <<>> /\ made = NoPlan /\ watched = {} /\ fixture = {}
    /\ reran = {}

(***************************************************************************)
(* update_all.                                                             *)
(***************************************************************************)

\* The days a source has a row for; today's is a partial one.
Available(u) == {d \in 1..day : /\ u \in Crypto \/ d \in TradingDays
                                /\ d = day => u \in Crypto \/ inHours}

\* IB answers whole; yfinance may lag, or have a row whose close is missing.
Answered(u) == {Available(u)} \cup {Available(u) \ {d} : d \in Available(u)}

\* drop_duplicates keeps the first: the row on disk.
Merge(rows, new) ==
    [d \in DOMAIN rows \cup DOMAIN new |-> IF d \in DOMAIN rows THEN rows[d] ELSE new[d]]

UpdateOne ==
    /\ pc = "refresh" /\ next \in DOMAIN Uls
    /\ LET u == Uls[next]
       IN  \/ u \notin torn
              /\ \E days \in Answered(u) : \E close \in [days \ DOMAIN store[u] -> Closes[u]] :
                    store' = [store EXCEPT ![u] =
                        Merge(@, [d \in DOMAIN close |->
                                    [close |-> close[d], final |-> d < day]])]
           \/ UNCHANGED store   \* no answer, or the file cannot be read: logged
    /\ next' = next + 1
    /\ reran' = IF inHours THEN reran \cup {day} ELSE reran
    /\ UNCHANGED <<day, pc, inHours, runs, deaths, torn, choice>>

\* to_parquet writes in place.
DiesWriting ==
    /\ pc = "refresh" /\ next \in DOMAIN Uls /\ deaths < MaxDeaths
    /\ torn' = torn \cup {Uls[next]}
    /\ pc' = "down" /\ deaths' = deaths + 1 /\ watched' = {}
    /\ UNCHANGED <<day, next, inHours, runs, store, gaps, made, fixture, reran>>

NotTooOld(u) == Max(DOMAIN store[u]) >= day - 3  \* mutant: the bound of warn_if_stale
\* check_freshness looks at the latest row.
Fresh(u) == Max(DOMAIN store[u]) >= IF u \in Crypto THEN day - 1 ELSE PrevTradingDay(day)

GatePasses ==
    /\ pc = "refresh" /\ next \notin DOMAIN Uls
    /\ torn = {} /\ \A u \in Underlyings : Fresh(u)
    /\ pc' = "open"
    /\ UNCHANGED <<day, next, inHours, runs, deaths, data, choice, reran>>

\* A stale underlying, or a file that cannot be read, ends the process.
GateAborts ==
    /\ pc = "refresh" /\ next \notin DOMAIN Uls
    /\ torn # {} \/ \E u \in Underlyings : ~Fresh(u)
    /\ pc' = "down" /\ watched' = {}
    /\ UNCHANGED <<day, next, inHours, runs, deaths, data, gaps, made, fixture, reran>>

(***************************************************************************)
(* Phase 1 and the fixture.                                                *)
(***************************************************************************)

TwoRows == 2  \* mutant: only as many rows as the filter reads
\* _daily_tail: the last rows on disk, today's partial one included.
DailyTailRows == 3
DailyTail(rows) ==
    LET kept == {d \in DOMAIN rows :
                    Cardinality({x \in DOMAIN rows : x > d}) < DailyTailRows}
    IN  [d \in kept |-> rows[d]]

SerialiseRawInputs(seen, plan) ==
    [gaps |-> seen, data |-> [u \in Underlyings |-> DailyTail(store[u])], made |-> plan]

\* write_fixture swallows a failure.
WriteFixture(f) == fixture' \in {{f}, fixture}

\* replay_scan, and replay of what it answers.
Replayed(f) == Plan(f.gaps, f.data, day)

OpenEval ==
    /\ pc = "open"
    /\ gaps' \in Mornings
    /\ made' = Plan(gaps', store, day)
    /\ WriteFixture(SerialiseRawInputs(gaps', made'))
    /\ pc' = "orb"
    /\ UNCHANGED <<day, next, inHours, runs, deaths, data, watched, reran>>

(***************************************************************************)
(* Phase 2: bars, opening range and the preflight's three gates.           *)
(***************************************************************************)

Intended(s) == IF s \in DOMAIN Only THEN Only[s] ELSE Direction(gaps[s])

NotOverridden(s, dir) == s \notin Excluded /\ ~(s \in LongOnly /\ dir = -1)

\* An asset that cannot be asked about passes.
Eligible(asset, dir) ==
    \/ asset = "error"
    \/ /\ asset \notin {"not_tradable", "not_active"}
       /\ dir = -1 => /\ asset = "hard_to_borrow" => HtbShorts
                      /\ asset # "not_shortable"

Liquid(volume) == volume \in {"unavailable", "enough"}

Preflight(s, dir, reply) ==
    NotOverridden(s, dir) /\ Eligible(reply.asset, dir) /\ Liquid(reply.volume)

Accepted(s, reply) == reply.bars = "ok" /\ Preflight(s, Intended(s), reply)

PostOrb ==
    /\ pc = "orb" /\ pc' = "trade"
    /\ \/ /\ made.plan.candidates # {}
          /\ \E reply \in [made.plan.candidates -> Replies] :
                watched' = {s \in made.plan.candidates : Accepted(s, reply[s])}
       \/ /\ made.plan.candidates = {}
          /\ UNCHANGED watched
    /\ UNCHANGED <<day, next, inHours, runs, deaths, data, gaps, made, fixture, reran>>

(***************************************************************************)
(* The days and the restarts.                                              *)
(***************************************************************************)

Start(d) ==
    /\ day' = d /\ pc' = "refresh" /\ next' = 1
    /\ gaps' = <<>> /\ made' = NoPlan
    /\ fixture' = IF d = day THEN fixture ELSE {}
    /\ UNCHANGED <<data, watched, deaths, reran>>

DayEnds ==
    /\ pc \in {"trade", "down"} /\ Later # {}
    /\ Start(Min(Later)) /\ inHours' = FALSE /\ runs' = 1

Dies ==
    /\ pc \in {"open", "orb", "trade"} /\ deaths < MaxDeaths
    /\ pc' = "down" /\ deaths' = deaths + 1
    /\ gaps' = <<>> /\ made' = NoPlan /\ watched' = {}
    /\ UNCHANGED <<day, next, inHours, runs, data, fixture, reran>>

\* Restart=on-failure: the same day again, before the open or after it.
Rerun ==
    /\ pc = "down" /\ runs < MaxRuns
    /\ Start(day) /\ runs' = runs + 1
    /\ inHours' \in {inHours, TRUE}

Over ==
    /\ pc \in {"trade", "down"} /\ Later = {}
    /\ UNCHANGED vars

Next ==
    \/ UpdateOne \/ DiesWriting \/ GatePasses \/ GateAborts
    \/ OpenEval \/ PostOrb
    \/ DayEnds \/ Dies \/ Rerun \/ Over

Spec == Init /\ [][Next]_vars

(***************************************************************************)
(* Properties.                                                             *)
(***************************************************************************)

Row(u) == [close : Closes[u] \cup {Backfill[u]}, final : BOOLEAN]
Planned == pc \in {"orb", "trade"}
\* The days of the rows the plan was made from.
Read(u) == LastTwo(store[u], day)

\* Every variable has its type; a plan's candidates come from the qualified symbols.
TypeOK ==
    /\ day \in Days /\ next \in 1..(Len(Uls) + 1)
    /\ pc \in {"refresh", "open", "orb", "trade", "down"}
    /\ inHours \in BOOLEAN /\ runs \in 1..MaxRuns /\ deaths \in 0..MaxDeaths
    /\ \A u \in Underlyings :
          /\ DOMAIN store[u] \subseteq 0..day
          /\ \A d \in DOMAIN store[u] : store[u][d] \in Row(u)
    /\ torn \subseteq Underlyings /\ reran \subseteq Days
    /\ DOMAIN gaps \subseteq Symbols
    /\ watched \subseteq Symbols
    /\ made.plan.candidates \subseteq made.universe
    /\ made.universe \subseteq DOMAIN gaps
    /\ Cardinality(fixture) <= 1

\* The fixture of a session replays to the plan the session traded: the rows it
\* keeps are all the scan reads, whatever partial row is on disk behind them
\* (session_fixture.py, DAILY_TAIL_ROWS, replay_scan, replay).
ReplayReproduces ==
    \A f \in fixture : Replayed(f) = f.made

\* An equity's prior closes are closes: a row is a partial day's only if a session
\* was rerun after the open of that day (update_one keeps the row on disk).
EquityClosesFinal ==
    Planned => \A u \in Underlyings \ Crypto : \A d \in Read(u) :
        store[u][d].final \/ (d < day /\ d \in reran)

\* The prior session's row of an equity is among the two the filter reads, unless
\* a row of today stood in front of a hole at the gate (check_freshness).
PriorSessionRead ==
    Planned /\ day \notin reran =>
        \A u \in Underlyings \ Crypto : PrevTradingDay(day) \in Read(u)

\* Underlyings that share an allotment take, together, no more than the position of
\* the largest of them (_group_counts, _share_divisor).
AllotmentShared ==
    LET plan == made.plan
    IN  \A s \in plan.candidates :
          SumFunctionOnSet(plan.share,
                           {t \in plan.candidates : Shares[Ul(t)] = Shares[Ul(s)]})
            <= Max({Weight(t, plan.regime) : t \in {x \in plan.candidates :
                                                      Shares[Ul(x)] = Shares[Ul(s)]}})

\* The multipliers of a day, cap factor applied, add up to at most the cap
\* (compute_cap_factor counts a group as position_multiplier splits it).
ExposureWithinCap ==
    LET plan == made.plan
    IN  SumFunctionOnSet(plan.share, plan.candidates) * plan.cap[1]
            <= CapUnits * plan.cap[2]

\* One ETF trades an underlying, however its siblings' prices tie: "always keep
\* exactly 1" (v1_strategy.py:363, keep_n = 1).  The function's docstring still says
\* up to two are kept; the code decides.
OnePerUnderlying ==
    \A s, t \in made.plan.candidates : Ul(s) = Ul(t) => s = t

\* An underlying that qualifies for the scan with gaps of one sign and moderate
\* closes has a candidate: neither the second check of the gap nor the pruning of
\* dear or unfillable siblings loses it (compute_candidates, gap_scan.py step 5).
EveryUnderlyingElected ==
    Planned =>
      \A u \in DOMAIN made.ulGaps :
        LET siblings == {s \in made.universe : Ul(s) = u}
            closes == PriorTwoCloses({u}, store, day)
        IN  /\ \A s \in siblings : Sign(UlGap(s, gaps[s])) = Sign(made.ulGaps[u])
            /\ u \in DOMAIN closes => Moderate(closes[u], Sign(made.ulGaps[u]), Sigma[u])
            => \E s \in siblings : s \in made.plan.candidates

\* A candidate whose margin rate, on its side, is past the limit is elected only
\* where no sibling could be filled (compute_candidates, step 3).
FillableElected ==
    \A s \in made.plan.candidates :
        \/ MarginRate(s, EtfDir(s, made.ulGaps)) <= MaxMarginRate
        \/ \A t \in Siblings(Ul(s), made.universe, made.ulGaps) :
               MarginRate(t, EtfDir(t, made.ulGaps)) > MaxMarginRate

\* A watched symbol trades on the side its margin was ranked for, unless the gaps of
\* the underlying's ETFs disagree (run_phase2's intended_dir and compute_candidates).
SidesAgree ==
    pc = "trade" => \A s \in watched \cap made.plan.candidates :
        \/ Intended(s) = EtfDir(s, made.ulGaps)
        \/ \E t \in made.universe :
              /\ Ul(t) = Ul(s)
              /\ Sign(UlGap(t, gaps[t])) # Sign(UlGap(s, gaps[s]))

\* Violated: the closes the prior-session filter reads are closes of whole days.
ClosesFinal ==
    Planned => \A u \in Underlyings : \A d \in Read(u) : store[u][d].final
=============================================================================
