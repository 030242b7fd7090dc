----------------------------- MODULE Selection -----------------------------
(***************************************************************************)
(* The day's plan as functions of the market at 09:31: the gap scan        *)
(* (signals/gap_scan.py) and plan_session (strategy/v1_strategy.py).       *)
(*                                                                         *)
(* An ETF's gap is a whole percentage; the underlying's, which the scan    *)
(* derives by dividing by the leverage, is in sixths of a percent.         *)
(* Weights are in quarters, margin rates in tenths.  A value the code has  *)
(* not got is a missing key, as in its dictionaries.                       *)
(***************************************************************************)
EXTENDS Integers, FiniteSets, FiniteSetsExt

CONSTANTS
    Symbols,       \* cfg.symbols: the ETFs
    Inst,          \* [Symbols -> Instrument]; an unmeasured rate is 0
    Only,          \* DIRECTION_FILTERS: the one direction some ETFs trade in
    Rank,          \* an ETF's place in cfg.symbols
    EtfClose,      \* an ETF's prior close
    Threshold,     \* prior_session_filters: sigma * k of an underlying, percent
    Sigma,         \* cfg.sigmas: the same without the overrides
    Shares,        \* SHARED_ALLOTMENT, made total by the default of its .get
    Weights,       \* [class -> [regime -> weight]]
    ActiveMin, FloodMin, CapUnits, MaxMarginRate

GapThreshold == 2

Ul(s) == Inst[s].ul
Underlyings == {Ul(s) : s \in Symbols}

ASSUME SelectionAssumption ==
    /\ Symbols # {} /\ IsFiniteSet(Symbols)
    /\ \A s \in Symbols : Inst[s].leverage \in {1, 2, 3} /\ Inst[s].inverse \in BOOLEAN
    /\ \A s \in Symbols : Inst[s].long \in Nat /\ Inst[s].short \in Nat
    /\ Rank \in [Symbols -> Nat]
    /\ \A s, t \in Symbols : Rank[s] = Rank[t] => s = t
    /\ EtfClose \in [Symbols -> Nat]
    /\ {ActiveMin, FloodMin, CapUnits, MaxMarginRate} \subseteq Nat

\* WEIGHTS holds a positive weight for every class and regime, and the code divides
\* them as reals; the unit is small enough that no share of one rounds to nothing.
ASSUME WeightsAssumption ==
    \A s \in Symbols, regime \in {"quiet", "active", "flood"} :
        LET sharing == {u \in Underlyings : Shares[u] = Shares[Ul(s)]}
        IN  Weights[Inst[s].class][regime] \in Nat
            /\ Weights[Inst[s].class][regime] >= Cardinality(sharing)

Magnitude(n) == IF n < 0 THEN -n ELSE n
Sign(n) == IF n > 0 THEN 1 ELSE -1

(***************************************************************************)
(* The scan.  `gaps` holds the gaps of the ETFs whose 09:30 bar and prior  *)
(* close were there, `data` the daily rows by underlying.                  *)
(***************************************************************************)

ThroughToday(rows, day) == {x \in DOMAIN rows : x <= day}  \* mutant: today's row is a prior row
PriorDays(rows, day) == {x \in DOMAIN rows : x < day}

\* rows.tail(2), or less if there is less.
LastTwo(rows, day) ==
    LET prior == PriorDays(rows, day)
    IN  {x \in prior : Cardinality({y \in prior : y > x}) < 2}

\* _prior_two_closes, where there are two.
HasTwo(rows, day) == Cardinality(LastTwo(rows, day)) = 2
PriorTwo(rows, day) ==
    <<rows[Max(LastTwo(rows, day))].close, rows[Min(LastTwo(rows, day))].close>>

\* The prior session's move in the direction of the gap is within a threshold.
Moderate(closes, dir, limit) ==
    closes[2] > 0 => (closes[1] - closes[2]) * 100 * dir <= limit * closes[2]

Direction(gap) == IF gap >= 0 THEN 1 ELSE -1

\* check_prior_session_filter: an ETF without two prior rows is allowed.
PassesPrior(s, gap, data, day) ==
    LET dir == Direction(gap) * (IF Inst[s].inverse THEN -1 ELSE 1)
    IN  Ul(s) \in DOMAIN data /\ HasTwo(data[Ul(s)], day)
            => Moderate(PriorTwo(data[Ul(s)], day), dir, Threshold[Ul(s)])

Qualified(gaps, data, day) ==
    {s \in DOMAIN gaps :
        /\ Magnitude(gaps[s]) >= Inst[s].leverage * GapThreshold
        /\ s \in DOMAIN Only => Direction(gaps[s]) = Only[s]
        /\ PassesPrior(s, gaps[s], data, day)}

UnsignedUlGap(s, gap) == (gap * 6) \div Inst[s].leverage  \* mutant: inverse forgotten
UlGap(s, gap) == ((IF Inst[s].inverse THEN -gap ELSE gap) * 6) \div Inst[s].leverage

\* Of the gaps that map to one underlying the most extreme, and the first of those.
Extreme(u, gaps, qualified) ==
    LET size(s) == Magnitude(UlGap(s, gaps[s]))
        of == {s \in qualified : Ul(s) = u}
    IN  CHOOSE s \in of : \A t \in of :
            size(t) < size(s) \/ (size(t) = size(s) /\ Rank[s] <= Rank[t])

OvernightGaps(gaps, qualified) ==
    [u \in {Ul(s) : s \in qualified} |->
        LET s == Extreme(u, gaps, qualified) IN UlGap(s, gaps[s])]

PriorTwoCloses(uls, data, day) ==
    [u \in {x \in uls \cap DOMAIN data : HasTwo(data[x], day)} |-> PriorTwo(data[u], day)]

(***************************************************************************)
(* plan_session.                                                           *)
(***************************************************************************)

\* compute_candidates, step 1: passes_ps_filter on the reconstructed gap.
UlQualifies(u, gap, closes) ==
    /\ Magnitude(gap) >= 6 * GapThreshold
    /\ u \in DOMAIN closes => Moderate(closes[u], Sign(gap), Sigma[u])

\* Step 2: the side an ETF is traded on, by the underlying's gap.
EtfDir(s, ulGaps) == Sign(ulGaps[Ul(s)]) * (IF Inst[s].inverse THEN -1 ELSE 1)

AllSiblings(u, universe, ulGaps) ==  \* mutant: every ETF, scanned or not
    {s \in Symbols : Ul(s) = u /\ (s \in DOMAIN Only => Only[s] = EtfDir(s, ulGaps))}
Siblings(u, universe, ulGaps) ==
    {s \in universe : Ul(s) = u /\ (s \in DOMAIN Only => Only[s] = EtfDir(s, ulGaps))}

MarginRate(s, dir) == IF dir >= 0 THEN Inst[s].long ELSE Inst[s].short

AnyRate(group, ulGaps) == group  \* mutant: the rates are not looked at
Affordable(group, ulGaps) ==
    {s \in group : MarginRate(s, EtfDir(s, ulGaps)) <= MaxMarginRate}

AlwaysNarrowed(group, ulGaps) == Affordable(group, ulGaps)  \* mutant: down to nothing
\* Step 3: the dearest of what can be filled, if anything can, and the first of those.
Fillable(group, ulGaps) ==
    IF Cardinality(group) > 1 /\ Affordable(group, ulGaps) # {}
    THEN Affordable(group, ulGaps)
    ELSE group

AsDear(group) == {s \in group : \A t \in group : EtfClose[t] <= EtfClose[s]}  \* mutant: ties kept
Dearest(group) ==
    {s \in group : \A t \in group :
        EtfClose[t] < EtfClose[s] \/ (EtfClose[t] = EtfClose[s] /\ Rank[s] <= Rank[t])}

Candidates(universe, ulGaps, closes) ==
    UNION {Dearest(Fillable(Siblings(u, universe, ulGaps), ulGaps)) :
            u \in {x \in DOMAIN ulGaps : UlQualifies(x, ulGaps[x], closes)}}

Regime(uls) == CASE uls >= FloodMin -> "flood"
                 [] uls < FloodMin /\ uls >= ActiveMin -> "active"
                 [] OTHER -> "quiet"

Weight(s, regime) == Weights[Inst[s].class][regime]

GroupCount(s, raw) == Cardinality({t \in raw : Shares[Ul(t)] = Shares[Ul(s)]})

NoDivisor(s, raw) == 1  \* mutant: position_multiplier called without the candidates
\* _share_divisor, and the count compute_cap_factor divides by.
Divisor(s, raw) == GroupCount(s, raw)

Exposure(raw, regime) ==
    SumFunctionOnSet([s \in raw |-> Weight(s, regime) \div GroupCount(s, raw)], raw)

Uncapped(exposure) == <<1, 1>>  \* mutant: the cap is not applied
\* cap_factor, as a fraction.
CapFactor(exposure) == IF exposure > CapUnits THEN <<CapUnits, exposure>> ELSE <<1, 1>>

PlanSession(universe, ulGaps, closes) ==
    LET raw == Candidates(universe, ulGaps, closes)
        regime == Regime(Cardinality({Ul(s) : s \in raw}))
        exposure == Exposure(raw, regime)
        share == [s \in raw |-> Weight(s, regime) \div Divisor(s, raw)]
    IN  [candidates |-> {s \in raw : share[s] > 0 /\ exposure > 0},
         regime |-> regime,
         share |-> [s \in {t \in raw : share[t] > 0 /\ exposure > 0} |-> share[s]],
         cap |-> CapFactor(exposure)]

\* The scan and the plan, from the raw inputs: run_phase1, and replay_scan and replay.
Plan(gaps, data, day) ==
    LET universe == Qualified(gaps, data, day)
        ulGaps == OvernightGaps(gaps, universe)
    IN  [plan |-> PlanSession(universe, ulGaps,
                              PriorTwoCloses(DOMAIN ulGaps, data, day)),
         universe |-> universe,
         ulGaps |-> ulGaps]
=============================================================================
