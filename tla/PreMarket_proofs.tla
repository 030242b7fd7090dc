---------------------------- MODULE PreMarket_proofs ----------------------------
(***************************************************************************)
(* What holds of PreMarket for every calendar, every instrument table,     *)
(* every scan, every source of daily rows and any reruns and deaths.       *)
(***************************************************************************)
EXTENDS PreMarket, SumTheorems

(***************************************************************************)
(* The rows the filter reads are in the tail the fixture keeps.            *)
(***************************************************************************)

\* Fewer than three rows stand behind a row that is among the last two before today:
\* the other of the two, and today's partial row.
LEMMA TailKeepsTwo ==
    ASSUME NEW rows, NEW x \in Nat, DOMAIN rows \subseteq 0..x
    PROVE  LastTwo(DailyTail(rows), x) = LastTwo(rows, x)
<1> DEFINE D == DOMAIN rows
           P == {y \in D : y < x}
           behind(d) == {z \in D : z > d}
           behindPrior(d) == {z \in P : z > d}
           kept == {d \in D : Cardinality(behind(d)) < 3}
<1>1. IsFiniteSet(D)
  <2>1. IsFiniteSet(0..x)
    BY FS_Interval
  <2>2. D \in SUBSET (0..x)
    OBVIOUS
  <2> HIDE DEF D
  <2>3. QED
    BY <2>1, <2>2, FS_Subset
<1>2. \A d \in D : IsFiniteSet(behind(d)) /\ IsFiniteSet(behindPrior(d))
  <2> SUFFICES ASSUME NEW d \in D
               PROVE  IsFiniteSet(behind(d)) /\ IsFiniteSet(behindPrior(d))
    OBVIOUS
  <2>1. behind(d) \in SUBSET D /\ behindPrior(d) \in SUBSET D
    OBVIOUS
  <2> HIDE DEF behind, behindPrior, D
  <2>2. QED
    BY <1>1, <2>1, FS_Subset
<1>3. DOMAIN DailyTail(rows) = kept
  BY DEF DailyTail, DailyTailRows
<1>4. \A d \in D : Cardinality(behindPrior(d)) < 2 => d \in kept
  <2> SUFFICES ASSUME NEW d \in D, Cardinality(behindPrior(d)) < 2
               PROVE  d \in kept
    OBVIOUS
  <2>1. behind(d) \subseteq behindPrior(d) \cup {x}
    OBVIOUS
  <2>2. /\ IsFiniteSet(behindPrior(d) \cup {x})
        /\ Cardinality(behindPrior(d) \cup {x}) <= Cardinality(behindPrior(d)) + 1
    <3>1. IsFiniteSet(behindPrior(d))
      BY <1>2
    <3> HIDE DEF behindPrior
    <3>2. Cardinality(behindPrior(d)) \in Nat
      BY <3>1, FS_CardinalityType
    <3>3. QED
      BY <3>1, <3>2, FS_AddElement
  <2>3. Cardinality(behind(d)) <= Cardinality(behindPrior(d) \cup {x})
    BY <2>1, <2>2, FS_Subset
  <2>4. /\ Cardinality(behind(d)) \in Nat /\ Cardinality(behindPrior(d)) \in Nat
        /\ Cardinality(behindPrior(d) \cup {x}) \in Nat
    BY <1>2, <2>2, FS_CardinalityType
  <2> HIDE DEF behind, behindPrior
  <2>5. Cardinality(behind(d)) < 3
    BY <2>2, <2>3, <2>4
  <2>6. QED
    BY <2>5
<1>5. \A d \in kept : \A z \in D : z > d => z \in kept
  <2> SUFFICES ASSUME NEW d \in kept, NEW z \in D, z > d
               PROVE  z \in kept
    OBVIOUS
  <2>1. behind(z) \subseteq behind(d)
    OBVIOUS
  <2>2. Cardinality(behind(z)) <= Cardinality(behind(d))
    BY <1>2, <2>1, FS_Subset
  <2>3. Cardinality(behind(z)) \in Nat /\ Cardinality(behind(d)) \in Nat
    BY <1>2, FS_CardinalityType
  <2>4. Cardinality(behind(d)) < 3
    OBVIOUS
  <2> HIDE DEF behind
  <2>5. QED
    BY <2>2, <2>3, <2>4
<1>6. LastTwo(rows, x) = {d \in P : Cardinality(behindPrior(d)) < 2}
  BY DEF LastTwo, PriorDays
<1>7. LastTwo(DailyTail(rows), x)
        = {d \in {y \in kept : y < x} : Cardinality({y \in {k \in kept : k < x} : y > d}) < 2}
  BY <1>3 DEF LastTwo, PriorDays
<1>8. \A d \in kept : {y \in {k \in kept : k < x} : y > d} = behindPrior(d)
  BY <1>5
<1>9. QED
  <2>1. \A d : d \in LastTwo(DailyTail(rows), x)
                <=> d \in kept /\ d < x /\ Cardinality(behindPrior(d)) < 2
    BY <1>7, <1>8
  <2>2. \A d : d \in LastTwo(rows, x)
                <=> d \in kept /\ d < x /\ Cardinality(behindPrior(d)) < 2
    BY <1>4, <1>6
  <2>3. QED
    BY <2>1, <2>2

\* Where two rows are there, both are rows.
LEMMA TwoAreRows ==
    ASSUME NEW rows, NEW x \in Nat, DOMAIN rows \subseteq 0..x, HasTwo(rows, x)
    PROVE  /\ Max(LastTwo(rows, x)) \in LastTwo(rows, x)
           /\ Min(LastTwo(rows, x)) \in LastTwo(rows, x)
<1> DEFINE L == LastTwo(rows, x)
<1>1. L \in SUBSET Nat /\ \A y \in L : y <= x
  BY DEF LastTwo, PriorDays
<1>2. L # {}
  BY FS_EmptySet DEF HasTwo
<1> HIDE DEF L
<1>3. Min(L) \in L
  BY <1>1, <1>2, MinIsLeast
<1>4. Max(L) \in L
  <2>1. L \in SUBSET Int /\ x \in Int
    BY <1>1
  <2>2. QED
    BY <1>1, <1>2, <2>1, MaxIsGreatest
<1>5. QED
  BY <1>3, <1>4 DEF L

LEMMA TailReads ==
    ASSUME NEW rows, NEW x \in Nat, DOMAIN rows \subseteq 0..x
    PROVE  /\ HasTwo(DailyTail(rows), x) <=> HasTwo(rows, x)
           /\ HasTwo(rows, x) => PriorTwo(DailyTail(rows), x) = PriorTwo(rows, x)
<1>1. LastTwo(DailyTail(rows), x) = LastTwo(rows, x)
  BY TailKeepsTwo
<1>2. HasTwo(DailyTail(rows), x) <=> HasTwo(rows, x)
  BY <1>1 DEF HasTwo
<1>3. \A d \in LastTwo(rows, x) : DailyTail(rows)[d] = rows[d]
  <2> SUFFICES ASSUME NEW d \in LastTwo(rows, x)
               PROVE  DailyTail(rows)[d] = rows[d]
    OBVIOUS
  <2>1. d \in LastTwo(DailyTail(rows), x)
    BY <1>1
  <2>2. d \in DOMAIN DailyTail(rows)
    BY <2>1 DEF LastTwo, PriorDays
  <2>3. QED
    BY <2>2 DEF DailyTail
<1>4. ASSUME HasTwo(rows, x) PROVE PriorTwo(DailyTail(rows), x) = PriorTwo(rows, x)
  BY <1>1, <1>3, <1>4, TwoAreRows DEF PriorTwo
<1>5. QED
  BY <1>2, <1>4

\* So a plan made from the tails is the plan made from the rows.
LEMMA TailPlans ==
    ASSUME NEW g, NEW x \in Nat, NEW rows,
           DOMAIN rows = Underlyings, \A u \in Underlyings : DOMAIN rows[u] \subseteq 0..x
    PROVE  Plan(g, [u \in Underlyings |-> DailyTail(rows[u])], x) = Plan(g, rows, x)
<1> DEFINE tails == [u \in Underlyings |-> DailyTail(rows[u])]
<1>1. ASSUME NEW u \in Underlyings
      PROVE  /\ HasTwo(tails[u], x) <=> HasTwo(rows[u], x)
             /\ HasTwo(rows[u], x) => PriorTwo(tails[u], x) = PriorTwo(rows[u], x)
  BY TailReads
<1>2. DOMAIN tails = Underlyings
  OBVIOUS
<1> HIDE DEF tails
<1>3. ASSUME NEW s \in DOMAIN g
      PROVE  PassesPrior(s, g[s], tails, x) <=> PassesPrior(s, g[s], rows, x)
  BY <1>1, <1>2 DEF PassesPrior
<1>4. Qualified(g, tails, x) = Qualified(g, rows, x)
  BY <1>3 DEF Qualified
<1>5. ASSUME NEW uls PROVE PriorTwoCloses(uls, tails, x) = PriorTwoCloses(uls, rows, x)
  <2>1. {y \in uls \cap Underlyings : HasTwo(tails[y], x)}
          = {y \in uls \cap Underlyings : HasTwo(rows[y], x)}
    BY <1>1
  <2>2. \A u \in {y \in uls \cap Underlyings : HasTwo(rows[y], x)} :
            PriorTwo(tails[u], x) = PriorTwo(rows[u], x)
    BY <1>1
  <2>3. QED
    BY <1>2, <2>1, <2>2 DEF PriorTwoCloses
<1>6. QED
  BY <1>4, <1>5 DEF Plan, tails

(***************************************************************************)
(* What a plan elects, whatever the morning and the rows.                  *)
(***************************************************************************)

LEMMA ScanInSymbols ==
    ASSUME NEW g \in Mornings, NEW rows, NEW x
    PROVE  /\ Qualified(g, rows, x) \subseteq Symbols
           /\ Qualified(g, rows, x) \subseteq DOMAIN g
BY PreMarketAssumption DEF Qualified

\* What compute_candidates answers, before a share of nothing is dropped.
Raw(p, rows, x) ==
    Candidates(p.universe, p.ulGaps, PriorTwoCloses(DOMAIN p.ulGaps, rows, x))
UlsOf(raw) == {Ul(s) : s \in raw}
ShareOf(raw) ==
    [s \in raw |-> Weight(s, Regime(Cardinality(UlsOf(raw)))) \div Divisor(s, raw)]
Elected(raw, share) == {s \in raw : share[s] > 0 /\ SumFunctionOnSet(share, raw) > 0}
SharesOn(set, share) == [s \in set |-> share[s]]

LEMMA PlanParts ==
    ASSUME NEW g, NEW rows, NEW x, NEW p, p = Plan(g, rows, x),
           NEW raw, raw = Raw(p, rows, x), NEW share, share = ShareOf(raw)
    PROVE  /\ p.universe = Qualified(g, rows, x)
           /\ p.ulGaps = OvernightGaps(g, p.universe)
           /\ p.plan.candidates = Elected(raw, share)
           /\ p.plan.share = SharesOn(p.plan.candidates, share)
           /\ p.plan.regime = Regime(Cardinality(UlsOf(raw)))
           /\ p.plan.cap = CapFactor(SumFunctionOnSet(share, raw))
<1> DEFINE R == Candidates(p.universe, p.ulGaps, PriorTwoCloses(DOMAIN p.ulGaps, rows, x))
           regime == Regime(Cardinality({Ul(s) : s \in R}))
           F == [s \in R |-> Weight(s, regime) \div Divisor(s, R)]
           C == {s \in R : F[s] > 0 /\ Exposure(R, regime) > 0}
<1>1. /\ p.universe = Qualified(g, rows, x)
      /\ p.ulGaps = OvernightGaps(g, p.universe)
      /\ p.plan = PlanSession(p.universe, p.ulGaps, PriorTwoCloses(DOMAIN p.ulGaps, rows, x))
  BY DEF Plan
<1>2. PlanSession(p.universe, p.ulGaps, PriorTwoCloses(DOMAIN p.ulGaps, rows, x))
        = [candidates |-> C, regime |-> regime, share |-> [s \in C |-> F[s]],
           cap |-> CapFactor(Exposure(R, regime))]
  BY DEF PlanSession
<1>3. Exposure(R, regime) = SumFunctionOnSet(F, R)
  BY DEF Exposure, Divisor
<1>4. R = raw
  BY DEF Raw
<1> HIDE DEF R
<1>5. F = share
  BY <1>4 DEF ShareOf, UlsOf
<1>6. /\ p.plan.candidates = C /\ p.plan.regime = regime /\ p.plan.share = [s \in C |-> F[s]]
      /\ p.plan.cap = CapFactor(Exposure(R, regime))
  <2> HIDE DEF F, C, regime
  <2>1. QED
    BY <1>1, <1>2
<1> HIDE DEF F
<1>7. C = Elected(raw, share)
  BY <1>3, <1>4, <1>5 DEF Elected
<1>8. p.plan.cap = CapFactor(SumFunctionOnSet(share, raw))
  BY <1>3, <1>4, <1>5, <1>6
<1>9. p.plan.share = SharesOn(p.plan.candidates, share)
  BY <1>5, <1>6 DEF SharesOn
<1>10. p.plan.regime = Regime(Cardinality(UlsOf(raw)))
  BY <1>4, <1>6 DEF UlsOf
<1>11. QED
  BY <1>1, <1>6, <1>7, <1>8, <1>9, <1>10

LEMMA RawAreElected ==
    ASSUME NEW rows, NEW x, NEW p, NEW s \in Raw(p, rows, x)
    PROVE  /\ s \in Siblings(Ul(s), p.universe, p.ulGaps)
           /\ s \in Dearest(Fillable(Siblings(Ul(s), p.universe, p.ulGaps), p.ulGaps))
           /\ Ul(s) \in DOMAIN p.ulGaps
           /\ s \in p.universe
<1>1. PICK u \in DOMAIN p.ulGaps :
          s \in Dearest(Fillable(Siblings(u, p.universe, p.ulGaps), p.ulGaps))
  BY DEF Raw, Candidates
<1>2. s \in Siblings(u, p.universe, p.ulGaps)
  BY <1>1 DEF Dearest, Fillable, Affordable
<1>3. Ul(s) = u /\ s \in p.universe
  BY <1>2 DEF Siblings
<1>4. QED
  BY <1>1, <1>2, <1>3

LEMMA CandidatesAreElected ==
    ASSUME NEW g, NEW rows, NEW x, NEW p, p = Plan(g, rows, x),
           NEW s \in p.plan.candidates
    PROVE  /\ s \in Raw(p, rows, x)
           /\ s \in Siblings(Ul(s), p.universe, p.ulGaps)
           /\ s \in Dearest(Fillable(Siblings(Ul(s), p.universe, p.ulGaps), p.ulGaps))
           /\ Ul(s) \in DOMAIN p.ulGaps
<1> DEFINE raw == Raw(p, rows, x)
           share == ShareOf(raw)
<1>1. s \in Raw(p, rows, x)
  <2>1. raw = Raw(p, rows, x) /\ share = ShareOf(raw)
    OBVIOUS
  <2> HIDE DEF raw, share
  <2>2. p.plan.candidates = Elected(raw, share)
    BY <2>1, PlanParts
  <2>3. QED
    BY <2>1, <2>2 DEF Elected
<1>2. QED
  BY <1>1, RawAreElected

\* Two siblings as dear as each other are told apart by their places.
LEMMA OneOfRaw ==
    ASSUME NEW g \in Mornings, NEW rows, NEW x, NEW p, p = Plan(g, rows, x),
           NEW s \in Raw(p, rows, x), NEW t \in Raw(p, rows, x), Ul(s) = Ul(t)
    PROVE  s = t
<1> DEFINE G == Fillable(Siblings(Ul(s), p.universe, p.ulGaps), p.ulGaps)
<1>1. s \in Dearest(G) /\ t \in Dearest(G)
  BY RawAreElected
<1>2. p.universe \subseteq Symbols
  BY ScanInSymbols DEF Plan
<1>3. s \in Symbols /\ t \in Symbols
  BY <1>2, RawAreElected
<1>4. /\ EtfClose[t] < EtfClose[s] \/ (EtfClose[t] = EtfClose[s] /\ Rank[s] <= Rank[t])
      /\ EtfClose[s] < EtfClose[t] \/ (EtfClose[s] = EtfClose[t] /\ Rank[t] <= Rank[s])
  BY <1>1 DEF Dearest
<1>5. /\ EtfClose[s] \in Nat /\ EtfClose[t] \in Nat /\ Rank[s] \in Nat /\ Rank[t] \in Nat
      /\ Rank[s] = Rank[t] => s = t
  BY <1>3, SelectionAssumption
<1>6. QED
  BY <1>4, <1>5

LEMMA OneIsElected ==
    ASSUME NEW g \in Mornings, NEW rows, NEW x, NEW p, p = Plan(g, rows, x),
           NEW s \in p.plan.candidates, NEW t \in p.plan.candidates, Ul(s) = Ul(t)
    PROVE  s = t
<1>1. s \in Raw(p, rows, x) /\ t \in Raw(p, rows, x)
  BY CandidatesAreElected
<1>2. QED
  BY <1>1, OneOfRaw

\* A set with two members has more than one.
LEMMA TwoMembers ==
    ASSUME NEW G, IsFiniteSet(G), NEW s \in G, NEW t \in G, s # t
    PROVE  Cardinality(G) > 1
<1>1. Cardinality({s}) = 1 /\ IsFiniteSet({s})
  BY FS_Singleton
<1>2. Cardinality({s} \cup {t}) = 2 /\ IsFiniteSet({s} \cup {t})
  BY <1>1, FS_AddElement
<1>3. {s} \cup {t} \in SUBSET G
  OBVIOUS
<1>4. Cardinality({s} \cup {t}) <= Cardinality(G)
  BY <1>3, FS_Subset
<1>5. Cardinality(G) \in Nat
  BY FS_CardinalityType
<1>6. QED
  BY <1>2, <1>4, <1>5

LEMMA ElectedIsFillable ==
    ASSUME NEW g \in Mornings, NEW rows, NEW x, NEW p, p = Plan(g, rows, x),
           NEW s \in p.plan.candidates
    PROVE  \/ MarginRate(s, EtfDir(s, p.ulGaps)) <= MaxMarginRate
           \/ \A t \in Siblings(Ul(s), p.universe, p.ulGaps) :
                  MarginRate(t, EtfDir(t, p.ulGaps)) > MaxMarginRate
<1> DEFINE G == Siblings(Ul(s), p.universe, p.ulGaps)
<1>1. s \in G /\ s \in Fillable(G, p.ulGaps)
  BY CandidatesAreElected DEF Dearest
<1>2. p.universe \subseteq Symbols
  BY ScanInSymbols DEF Plan
<1>3. G \in SUBSET Symbols
  BY <1>2 DEF Siblings
<1>4. \A t \in G : MarginRate(t, EtfDir(t, p.ulGaps)) \in Nat
  BY <1>3, SelectionAssumption DEF MarginRate
<1>5. MaxMarginRate \in Nat /\ IsFiniteSet(Symbols)
  BY SelectionAssumption
<1> HIDE DEF G
<1>6. IsFiniteSet(G)
  BY <1>3, <1>5, FS_Subset
<1>7. CASE Affordable(G, p.ulGaps) = {}
  <2>1. ASSUME NEW t \in G PROVE MarginRate(t, EtfDir(t, p.ulGaps)) > MaxMarginRate
    BY <1>4, <1>5, <1>7 DEF Affordable
  <2>2. QED
    BY <2>1 DEF G
<1>8. CASE Affordable(G, p.ulGaps) # {} /\ Cardinality(G) > 1
  BY <1>1, <1>8 DEF Fillable, Affordable
<1>9. CASE Affordable(G, p.ulGaps) # {} /\ ~(Cardinality(G) > 1)
  <2>1. PICK t \in G : t \in Affordable(G, p.ulGaps)
    BY <1>9 DEF Affordable
  <2>2. t = s
    BY <1>1, <1>6, <1>9, TwoMembers
  <2>3. QED
    BY <2>1, <2>2 DEF Affordable
<1>10. QED
  BY <1>7, <1>8, <1>9

(***************************************************************************)
(* The gap a candidate's side is taken from.                               *)
(***************************************************************************)

\* Among finitely many ETFs there is one that no other precedes, by a size and then by
\* its place: one with the fewest ahead of it has none.
LEMMA FirstAmong ==
    ASSUME NEW of \in SUBSET Symbols, of # {}, NEW size, \A s \in of : size[s] \in Int
    PROVE  \E s \in of : \A t \in of :
               size[t] < size[s] \/ (size[t] = size[s] /\ Rank[s] <= Rank[t])
<1> DEFINE ahead(t, s) == size[s] < size[t] \/ (size[s] = size[t] /\ Rank[t] < Rank[s])
           better(s) == {t \in of : ahead(t, s)}
<1>2. IsFiniteSet(of)
  BY FS_Subset, SelectionAssumption
<1>3. \A s \in of : size[s] \in Int /\ Rank[s] \in Nat
  BY SelectionAssumption
<1>4. ASSUME NEW s \in of PROVE IsFiniteSet(better(s)) /\ Cardinality(better(s)) \in Nat
  <2>1. better(s) \in SUBSET of
    OBVIOUS
  <2> HIDE DEF better
  <2>2. QED
    BY <1>2, <2>1, FS_Subset, FS_CardinalityType
<1>5. PICK s \in of : \A t \in of : Cardinality(better(s)) <= Cardinality(better(t))
  <2> DEFINE counts == {Cardinality(better(t)) : t \in of}
  <2> HIDE DEF better
  <2>1. counts \in SUBSET Nat /\ counts # {}
    BY <1>4
  <2> HIDE DEF counts
  <2>2. PICK n \in counts : \A m \in counts : n <= m
    BY <2>1, LeastNatural
  <2>3. QED
    BY <2>2 DEF counts
<1>6. better(s) = {}
  <2> SUFFICES ASSUME NEW t \in better(s)
               PROVE  FALSE
    OBVIOUS
  <2>1. better(t) \subseteq better(s)
    <3> SUFFICES ASSUME NEW r \in better(t)
                 PROVE  r \in better(s)
      OBVIOUS
    <3>1. /\ r \in of /\ t \in of
          /\ size[t] < size[r] \/ (size[t] = size[r] /\ Rank[r] < Rank[t])
          /\ size[s] < size[t] \/ (size[s] = size[t] /\ Rank[t] < Rank[s])
      OBVIOUS
    <3>2. size[s] < size[r] \/ (size[s] = size[r] /\ Rank[r] < Rank[s])
      BY <3>1, <1>3
    <3>3. QED
      BY <3>1, <3>2
  <2>2. t \in of /\ t \notin better(t)
    <3>1. t \in of
      OBVIOUS
    <3>2. ~ (size[t] < size[t]) /\ ~ (Rank[t] < Rank[t])
      BY <1>3, <3>1
    <3>3. QED
      BY <3>1, <3>2
  <2>3. t \in better(s)
    OBVIOUS
  <2>4. better(t) # better(s)
    BY <2>2, <2>3
  <2> HIDE DEF better
  <2>5. /\ Cardinality(better(t)) <= Cardinality(better(s))
        /\ Cardinality(better(t)) # Cardinality(better(s))
    BY <1>4, <2>1, <2>4, FS_Subset
  <2>6. Cardinality(better(s)) <= Cardinality(better(t))
    BY <1>5, <2>2
  <2>7. QED
    BY <1>4, <2>2, <2>5, <2>6
<1>7. \A t \in of : size[t] < size[s] \/ (size[t] = size[s] /\ Rank[s] <= Rank[t])
  <2> SUFFICES ASSUME NEW t \in of
               PROVE  size[t] < size[s] \/ (size[t] = size[s] /\ Rank[s] <= Rank[t])
    OBVIOUS
  <2>1. ~ (size[s] < size[t] \/ (size[s] = size[t] /\ Rank[t] < Rank[s]))
    BY <1>6
  <2>2. QED
    BY <1>3, <2>1
<1>8. QED
  BY <1>7

\* OvernightGaps finds an ETF.
LEMMA ExtremeExists ==
    ASSUME NEW g \in Mornings, NEW rows, NEW x, NEW u,
           NEW first \in Qualified(g, rows, x), Ul(first) = u
    PROVE  /\ Extreme(u, g, Qualified(g, rows, x)) \in Qualified(g, rows, x)
           /\ Ul(Extreme(u, g, Qualified(g, rows, x))) = u
<1> DEFINE of == {s \in Qualified(g, rows, x) : Ul(s) = u}
           size == [s \in of |-> Magnitude(UlGap(s, g[s]))]
<1>1. of \in SUBSET Symbols /\ of # {}
  BY ScanInSymbols
<1>2. ASSUME NEW s \in of PROVE size[s] \in Int
  <2>1. s \in Symbols /\ g[s] \in Int
    BY ScanInSymbols, PreMarketAssumption
  <2>2. Inst[s].leverage \in {1, 2, 3}
    BY <2>1, SelectionAssumption
  <2>3. UlGap(s, g[s]) \in Int
    BY <2>1, <2>2 DEF UlGap
  <2>4. QED
    BY <2>3 DEF Magnitude
<1>3. \A s \in of : size[s] = Magnitude(UlGap(s, g[s]))
  OBVIOUS
<1> HIDE DEF size
<1>4. \E s \in of : \A t \in of :
          size[t] < size[s] \/ (size[t] = size[s] /\ Rank[s] <= Rank[t])
  <2> HIDE DEF of
  <2>1. QED
    BY <1>1, <1>2, FirstAmong
<1>5. \E s \in of : \A t \in of :
          \/ Magnitude(UlGap(t, g[t])) < Magnitude(UlGap(s, g[s]))
          \/ Magnitude(UlGap(t, g[t])) = Magnitude(UlGap(s, g[s])) /\ Rank[s] <= Rank[t]
  BY <1>3, <1>4
<1>6. Extreme(u, g, Qualified(g, rows, x))
        = CHOOSE r \in of : \A t \in of :
              \/ Magnitude(UlGap(t, g[t])) < Magnitude(UlGap(r, g[r]))
              \/ Magnitude(UlGap(t, g[t])) = Magnitude(UlGap(r, g[r])) /\ Rank[r] <= Rank[t]
  BY DEF Extreme
<1>7. Extreme(u, g, Qualified(g, rows, x)) \in of
  BY <1>5, <1>6
<1>8. QED
  BY <1>7

\* The gap of a qualified ETF is not small, so its sign is that of the underlying's.
LEMMA SideOfGap ==
    ASSUME NEW g \in Mornings, NEW rows, NEW x, NEW s \in Qualified(g, rows, x)
    PROVE  Direction(g[s]) = Sign(UlGap(s, g[s])) * (IF Inst[s].inverse THEN -1 ELSE 1)
<1>1. s \in Symbols /\ g[s] \in Int
  BY ScanInSymbols, PreMarketAssumption
<1>2. Inst[s].leverage \in {1, 2, 3} /\ Inst[s].inverse \in BOOLEAN
  BY <1>1, SelectionAssumption
<1>3. Magnitude(g[s]) >= Inst[s].leverage * 2
  BY DEF Qualified, GapThreshold
<1> DEFINE a == g[s]
<1>4. a \in Int /\ (a >= 2 \/ -a >= 2)
  BY <1>1, <1>2, <1>3 DEF Magnitude
<1> HIDE DEF a
<1>5. ASSUME NEW b \in Int, b = a \/ b = -a
      PROVE  /\ b > 0 => \A l \in {1, 2, 3} : (b * 6) \div l > 0
             /\ b < 0 => \A l \in {1, 2, 3} : ~ ((b * 6) \div l > 0)
  BY <1>4, <1>5
<1>6. CASE Inst[s].inverse
  <2>1. UlGap(s, g[s]) = ((-a) * 6) \div Inst[s].leverage
    BY <1>6 DEF UlGap, a
  <2>2. QED
    BY <1>2, <1>4, <1>5, <1>6, <2>1 DEF Direction, Sign, a
<1>7. CASE ~Inst[s].inverse
  <2>1. UlGap(s, g[s]) = (a * 6) \div Inst[s].leverage
    BY <1>7 DEF UlGap, a
  <2>2. QED
    BY <1>2, <1>4, <1>5, <1>7, <2>1 DEF Direction, Sign, a
<1>8. QED
  BY <1>2, <1>6, <1>7

LEMMA CandidateSide ==
    ASSUME NEW g \in Mornings, NEW rows, NEW x, NEW p, p = Plan(g, rows, x),
           NEW s \in p.plan.candidates,
           \A t \in p.universe : Ul(t) = Ul(s) => Sign(UlGap(t, g[t])) = Sign(UlGap(s, g[s]))
    PROVE  (IF s \in DOMAIN Only THEN Only[s] ELSE Direction(g[s])) = EtfDir(s, p.ulGaps)
<1> DEFINE universe == Qualified(g, rows, x)
           far == Extreme(Ul(s), g, universe)
<1>1. p.universe = universe /\ p.ulGaps = OvernightGaps(g, universe)
  BY DEF Plan
<1>2. /\ s \in universe
      /\ s \in DOMAIN Only => Only[s] = EtfDir(s, p.ulGaps)
      /\ Ul(s) \in DOMAIN p.ulGaps
  BY <1>1, CandidatesAreElected DEF Siblings
<1>3. far \in universe /\ Ul(far) = Ul(s)
  BY <1>2, ExtremeExists
<1>4. p.ulGaps[Ul(s)] = UlGap(far, g[far])
  BY <1>1, <1>2 DEF OvernightGaps
<1>5. Sign(UlGap(far, g[far])) = Sign(UlGap(s, g[s]))
  BY <1>1, <1>3
<1>6. Direction(g[s]) = EtfDir(s, p.ulGaps)
  BY <1>2, <1>4, <1>5, SideOfGap DEF EtfDir
<1>7. QED
  BY <1>2, <1>6

(***************************************************************************)
(* The sizes: a weight, split over the candidates of an allotment.         *)
(***************************************************************************)

\* A split of a whole weight: the parts together are no more than it, a larger weight
\* gives no smaller part, and a weight that goes round gives everyone something.
LEMMA Split ==
    /\ \A n \in Nat, k \in Nat \ {0} : n \div k \in Nat /\ (n \div k) * k <= n
    /\ \A m, n \in Nat, k \in Nat \ {0} : m <= n => m \div k <= n \div k
    /\ \A n \in Nat, k \in Nat \ {0} : k <= n => n \div k > 0
    /\ \A k, m, n \in Nat : k <= m => n * k <= n * m
<1>1. \A n \in Nat, k \in Nat \ {0} : n \div k \in Nat /\ (n \div k) * k <= n
  OBVIOUS
<1>2. \A m, n \in Nat, k \in Nat \ {0} : m <= n => m \div k <= n \div k
  OBVIOUS
<1>3. \A n \in Nat, k \in Nat \ {0} : k <= n => n \div k > 0
  OBVIOUS
<1>4. \A k, m, n \in Nat : k <= m => n * k <= n * m
  OBVIOUS
<1>5. QED
  BY <1>1, <1>2, <1>3, <1>4

LEMMA RegimeIs == \A n \in Nat : Regime(n) \in {"quiet", "active", "flood"}
BY DEF Regime

\* Who shares with an ETF, among a set of them.
Sharing(s, set) == {t \in set : Shares[Ul(t)] = Shares[Ul(s)]}
WeightsOf(set, regime) == {Weight(t, regime) : t \in set}

LEMMA WeightIsNat ==
    ASSUME NEW s \in Symbols, NEW regime \in {"quiet", "active", "flood"}
    PROVE  Weight(s, regime) \in Nat
BY WeightsAssumption DEF Weight

LEMMA RawShares ==
    ASSUME NEW g \in Mornings, NEW rows, NEW x, NEW p, p = Plan(g, rows, x),
           NEW raw, raw = Raw(p, rows, x), NEW share, share = ShareOf(raw)
    PROVE  /\ raw \in SUBSET Symbols /\ IsFiniteSet(raw)
           /\ p.plan.regime \in {"quiet", "active", "flood"}
           /\ \A s \in raw :
                 /\ IsFiniteSet(Sharing(s, raw))
                 /\ Cardinality(Sharing(s, raw)) \in Nat \ {0}
                 /\ Weight(s, p.plan.regime) \in Nat
                 /\ share[s] = Weight(s, p.plan.regime) \div Cardinality(Sharing(s, raw))
                 /\ share[s] \in Nat
<1>1. raw \in SUBSET Symbols
  <2>1. p.universe \subseteq Symbols
    BY ScanInSymbols DEF Plan
  <2>2. QED
    BY <2>1, RawAreElected
<1>2. IsFiniteSet(raw)
  BY <1>1, FS_Subset, SelectionAssumption
<1>3. p.plan.regime = Regime(Cardinality(UlsOf(raw)))
  BY PlanParts
<1>4. p.plan.regime \in {"quiet", "active", "flood"}
  <2> DEFINE ulOf == [s \in raw |-> Ul(s)]
  <2>1. ulOf \in Surjection(raw, UlsOf(raw))
    BY DEF Surjection, UlsOf
  <2>2. Cardinality(UlsOf(raw)) \in Nat
    BY <1>2, <2>1, FS_Surjection, FS_CardinalityType
  <2>3. QED
    BY <1>3, <2>2, RegimeIs
<1>5. ASSUME NEW s \in raw
      PROVE  /\ IsFiniteSet(Sharing(s, raw)) /\ Cardinality(Sharing(s, raw)) \in Nat \ {0}
             /\ Weight(s, p.plan.regime) \in Nat
             /\ share[s] = Weight(s, p.plan.regime) \div Cardinality(Sharing(s, raw))
             /\ share[s] \in Nat
  <2>1. Sharing(s, raw) \in SUBSET raw /\ s \in Sharing(s, raw)
    BY DEF Sharing
  <2>2. IsFiniteSet(Sharing(s, raw))
    BY <1>2, <2>1, FS_Subset
  <2>3. Cardinality(Sharing(s, raw)) \in Nat /\ Cardinality(Sharing(s, raw)) # 0
    BY <2>1, <2>2, FS_CardinalityType, FS_EmptySet
  <2>4. Weight(s, p.plan.regime) \in Nat
    BY <1>1, <1>4, WeightIsNat
  <2>5. Divisor(s, raw) = Cardinality(Sharing(s, raw))
    BY DEF Divisor, GroupCount, Sharing
  <2>6. share[s] = Weight(s, p.plan.regime) \div Cardinality(Sharing(s, raw))
    BY <1>3, <2>5 DEF ShareOf
  <2>7. share[s] \in Nat
    BY <2>3, <2>4, <2>6, Split
  <2>8. QED
    BY <2>2, <2>3, <2>4, <2>6, <2>7
<1>6. QED
  BY <1>1, <1>2, <1>4, <1>5

\* Every share of a group is a part of the largest weight in it, and there are no more
\* of them than the parts it was split in.
LEMMA AllotmentIsOne ==
    ASSUME NEW g \in Mornings, NEW rows, NEW x, NEW p, p = Plan(g, rows, x),
           NEW s \in p.plan.candidates
    PROVE  SumFunctionOnSet(p.plan.share, Sharing(s, p.plan.candidates))
             <= Max(WeightsOf(Sharing(s, p.plan.candidates), p.plan.regime))
<1> DEFINE raw == Raw(p, rows, x)
           share == ShareOf(raw)
           C == p.plan.candidates
           G == Sharing(s, C)
           n == Cardinality(Sharing(s, raw))
           weights == {Weight(t, p.plan.regime) : t \in G}
           top == Max(weights)
<1>1. raw = Raw(p, rows, x) /\ share = ShareOf(raw)
  OBVIOUS
<1> HIDE DEF raw, share
<1>2. /\ raw \in SUBSET Symbols /\ IsFiniteSet(raw)
      /\ \A t \in raw : /\ IsFiniteSet(Sharing(t, raw))
                        /\ Cardinality(Sharing(t, raw)) \in Nat \ {0}
                        /\ Weight(t, p.plan.regime) \in Nat
                        /\ share[t] = Weight(t, p.plan.regime) \div Cardinality(Sharing(t, raw))
                        /\ share[t] \in Nat
  BY ONLY g \in Mornings, p = Plan(g, rows, x), <1>1, RawShares
<1>3. C \subseteq raw /\ \A t \in C : p.plan.share[t] = share[t]
  <2>1. C = Elected(raw, share)
    BY <1>1, PlanParts
  <2>2. p.plan.share = SharesOn(C, share)
    BY <1>1, PlanParts
  <2>3. QED
    BY <2>1, <2>2 DEF Elected, SharesOn
<1>4. /\ G \in SUBSET C /\ s \in G /\ s \in raw
      /\ G \in SUBSET Sharing(s, raw)
      /\ \A t \in G : t \in raw /\ Sharing(t, raw) = Sharing(s, raw)
  BY <1>3 DEF Sharing
<1>5. IsFiniteSet(G) /\ Cardinality(G) \in Nat /\ n \in Nat \ {0} /\ Cardinality(G) <= n
  BY <1>2, <1>4, FS_Subset, FS_CardinalityType
<1> HIDE DEF G, C, n
<1>6. weights \in SUBSET Nat /\ weights # {}
  BY <1>2, <1>4
<1>7. top \in Nat /\ \A w \in weights : w <= top
  <2> DEFINE weigh == [t \in G |-> Weight(t, p.plan.regime)]
  <2>1. weigh \in Surjection(G, weights)
    BY DEF Surjection
  <2> HIDE DEF weigh, weights
  <2>2. IsFiniteSet(weights)
    BY <1>5, <2>1, FS_Surjection
  <2>3. PICK b \in weights : \A w \in weights : w <= b
    BY <1>6, <2>2, FiniteIsBounded
  <2>4. weights \in SUBSET Int /\ b \in Int
    BY <1>6
  <2>5. top \in weights /\ \A w \in weights : top >= w
    BY <1>6, <2>3, <2>4, MaxIsGreatest
  <2> HIDE DEF top
  <2>6. QED
    BY <1>6, <2>5
<1>8. ASSUME NEW t \in G
      PROVE  p.plan.share[t] \in Int /\ p.plan.share[t] <= top \div n
  <2>1. Weight(t, p.plan.regime) \in weights
    OBVIOUS
  <2> HIDE DEF top, weights
  <2>2. t \in raw /\ t \in C /\ Cardinality(Sharing(t, raw)) = n
    BY <1>4 DEF n
  <2>3. /\ Weight(t, p.plan.regime) \in Nat /\ Weight(t, p.plan.regime) <= top
        /\ p.plan.share[t] = Weight(t, p.plan.regime) \div n
    BY <1>2, <1>3, <1>7, <2>1, <2>2
  <2>4. QED
    BY <1>5, <1>7, <2>3, Split
<1> HIDE DEF top
<1>9. top \div n \in Nat /\ (top \div n) * n <= top
  BY <1>5, <1>7, Split
<1> DEFINE part == top \div n
<1> HIDE DEF part
<1>10. part \in Nat /\ part * n <= top /\ \A t \in G : p.plan.share[t] <= part
  BY <1>8, <1>9 DEF part
<1> DEFINE f == p.plan.share
<1>11. \A t \in G : f[t] \in Int /\ f[t] <= part
  BY <1>8, <1>10
<1> HIDE DEF f
<1>12. SumFunctionOnSet(f, G) <= part * Cardinality(G)
  BY <1>5, <1>10, <1>11, SumBounded
<1>13. part * Cardinality(G) <= part * n
  BY <1>5, <1>10, Split
<1>14. SumFunctionOnSet(f, G) \in Int
  BY <1>5, <1>11, SumIsInt
<1>15. part * Cardinality(G) \in Nat /\ part * n \in Nat
  BY <1>5, <1>10
<1>16. SumFunctionOnSet(f, G) <= top
  BY <1>7, <1>10, <1>12, <1>13, <1>14, <1>15
<1>17. QED
  BY <1>16 DEF top, weights, G, C, f, WeightsOf

\* The shares of the candidates are some of those the cap was computed from.
LEMMA ExposureIsCapped ==
    ASSUME NEW g \in Mornings, NEW rows, NEW x, NEW p, p = Plan(g, rows, x)
    PROVE  SumFunctionOnSet(p.plan.share, p.plan.candidates) * p.plan.cap[1]
             <= CapUnits * p.plan.cap[2]
<1> DEFINE raw == Raw(p, rows, x)
           share == ShareOf(raw)
           C == p.plan.candidates
           f == p.plan.share
           counted == [s \in raw |-> IF s \in C THEN f[s] ELSE 0]
           total == SumFunctionOnSet(share, raw)
           taken == SumFunctionOnSet(f, C)
<1>1. raw = Raw(p, rows, x) /\ share = ShareOf(raw)
  OBVIOUS
<1> HIDE DEF raw, share
<1>2. /\ IsFiniteSet(raw) /\ \A s \in raw : share[s] \in Nat
      /\ C \in SUBSET raw /\ \A s \in C : f[s] = share[s]
  <2>1. IsFiniteSet(raw) /\ \A s \in raw : share[s] \in Nat
    BY ONLY g \in Mornings, p = Plan(g, rows, x), <1>1, RawShares
  <2>2. C \in SUBSET raw /\ \A s \in C : f[s] = share[s]
    <3>1. C = Elected(raw, share)
      BY <1>1, PlanParts
    <3>2. f = SharesOn(C, share)
      BY <1>1, PlanParts
    <3> HIDE DEF C, f
    <3>3. QED
      BY <3>1, <3>2 DEF Elected, SharesOn
  <2>3. QED
    BY <2>1, <2>2
<1>3. p.plan.cap = CapFactor(total)
  BY <1>1, PlanParts
<1> HIDE DEF C, f
<1>4. /\ \A s \in raw : counted[s] \in Int /\ counted[s] <= share[s]
      /\ \A s \in raw \ C : counted[s] = 0
      /\ \A s \in C : counted[s] = f[s]
  BY <1>2
<1>5. IsFiniteSet(C)
  BY <1>2, FS_Subset
<1> HIDE DEF counted
<1>6. SumFunctionOnSet(f, C) = SumFunctionOnSet(counted, C)
  BY <1>4, <1>5, SumAgrees
<1>7. SumFunctionOnSet(counted, C) = SumFunctionOnSet(counted, raw)
  BY <1>2, <1>4, SumOfPart
<1>8. SumFunctionOnSet(counted, raw) <= SumFunctionOnSet(share, raw)
  <2>1. \A s \in raw : counted[s] \in Int /\ share[s] \in Int /\ counted[s] <= share[s]
    BY <1>2, <1>4
  <2>2. QED
    BY <1>2, <2>1, SumMonotone
<1>9. total \in Nat
  BY <1>2, SumIsNat
<1>10. taken \in Int
  <2>1. \A s \in C : f[s] \in Int
    BY <1>2
  <2>2. QED
    BY <1>5, <2>1, SumIsInt
<1>11. taken <= total
  BY <1>6, <1>7, <1>8
<1>12. CapUnits \in Nat
  BY SelectionAssumption
<1> HIDE DEF total, taken
<1>13. taken * CapFactor(total)[1] <= CapUnits * CapFactor(total)[2]
  <2>1. CASE total > CapUnits
    <3>1. CapFactor(total)[1] = CapUnits /\ CapFactor(total)[2] = total
      BY <2>1 DEF CapFactor
    <3>2. taken * CapUnits <= CapUnits * total
      BY <1>9, <1>10, <1>11, <1>12
    <3>3. QED
      BY <3>1, <3>2
  <2>2. CASE ~ (total > CapUnits)
    <3>1. CapFactor(total)[1] = 1 /\ CapFactor(total)[2] = 1
      BY <2>2 DEF CapFactor
    <3>2. taken * 1 <= CapUnits * 1
      BY <1>9, <1>10, <1>11, <1>12, <2>2
    <3>3. QED
      BY <3>1, <3>2
  <2>3. QED
    BY <2>1, <2>2
<1>14. QED
  BY <1>3, <1>13 DEF taken, f, C

(***************************************************************************)
(* An underlying that qualifies is not lost on the way to the plan.        *)
(***************************************************************************)

\* Something is dearest: a tie goes to the first.
LEMMA DearestExists ==
    ASSUME NEW group \in SUBSET Symbols, group # {}
    PROVE  Dearest(group) # {}
<1> DEFINE price == [s \in group |-> EtfClose[s]]
<1>1. \A s \in group : price[s] = EtfClose[s] /\ price[s] \in Int
  BY SelectionAssumption
<1> HIDE DEF price
<1>2. PICK s \in group : \A t \in group :
          price[t] < price[s] \/ (price[t] = price[s] /\ Rank[s] <= Rank[t])
  BY <1>1, FirstAmong
<1>3. s \in Dearest(group)
  BY <1>1, <1>2 DEF Dearest
<1>4. QED
  BY <1>3

LEMMA FillableExists ==
    ASSUME NEW group, group # {}, NEW ulGaps
    PROVE  Fillable(group, ulGaps) # {} /\ Fillable(group, ulGaps) \subseteq group
BY DEF Fillable, Affordable

\* The candidates that share an allotment trade different underlyings of it, so they are
\* no more than the weight goes round.
LEMMA SharesArePositive ==
    ASSUME NEW g \in Mornings, NEW rows, NEW x, NEW p, p = Plan(g, rows, x),
           NEW s \in Raw(p, rows, x)
    PROVE  s \in p.plan.candidates
<1> DEFINE raw == Raw(p, rows, x)
           share == ShareOf(raw)
           uls == {u \in Underlyings : Shares[u] = Shares[Ul(s)]}
           ulOf == [t \in Sharing(s, raw) |-> Ul(t)]
           regime == p.plan.regime
<1>1. raw = Raw(p, rows, x) /\ share = ShareOf(raw)
  OBVIOUS
<1>2. \A t, v \in raw : Ul(t) = Ul(v) => t = v
  BY OneOfRaw
<1> HIDE DEF raw, share
<1>3. /\ raw \in SUBSET Symbols /\ IsFiniteSet(raw) /\ regime \in {"quiet", "active", "flood"}
      /\ \A t \in raw : /\ IsFiniteSet(Sharing(t, raw))
                        /\ Cardinality(Sharing(t, raw)) \in Nat \ {0}
                        /\ Weight(t, regime) \in Nat
                        /\ share[t] = Weight(t, regime) \div Cardinality(Sharing(t, raw))
                        /\ share[t] \in Nat
  BY ONLY g \in Mornings, p = Plan(g, rows, x), <1>1, RawShares
<1>4. s \in raw /\ s \in Symbols
  BY <1>1, <1>3
<1>5. ulOf \in Injection(Sharing(s, raw), uls)
  <2>1. \A t \in Sharing(s, raw) : t \in raw /\ t \in Symbols /\ Ul(t) \in uls
    BY <1>3 DEF Sharing, Underlyings
  <2>2. ulOf \in [Sharing(s, raw) -> uls]
    BY <2>1
  <2>3. \A t, v \in Sharing(s, raw) : ulOf[t] = ulOf[v] => t = v
    BY <1>2, <2>1
  <2> HIDE DEF ulOf, uls
  <2>4. QED
    BY <2>2, <2>3 DEF Injection, IsInjective
<1>6. IsFiniteSet(uls)
  <2> DEFINE of == [t \in Symbols |-> Ul(t)]
  <2>1. of \in Surjection(Symbols, Underlyings)
    BY DEF Surjection, Underlyings
  <2>2. IsFiniteSet(Underlyings)
    BY <2>1, FS_Surjection, SelectionAssumption
  <2>3. QED
    BY <2>2, FS_Subset
<1>7. Cardinality(Sharing(s, raw)) <= Cardinality(uls) /\ Cardinality(uls) \in Nat
  <2> HIDE DEF ulOf, uls
  <2>1. QED
    BY <1>5, <1>6, FS_Injection, FS_CardinalityType
<1>8. Weight(s, regime) >= Cardinality(uls)
  BY <1>3, <1>4, WeightsAssumption DEF Weight
<1> HIDE DEF uls, regime
<1>9. share[s] > 0
  <2>1. Cardinality(Sharing(s, raw)) <= Weight(s, regime)
    BY <1>3, <1>4, <1>7, <1>8
  <2>2. QED
    BY <1>3, <1>4, <2>1, Split
<1>10. SumFunctionOnSet(share, raw) > 0
  <2>1. SumFunctionOnSet(share, raw) = share[s] + SumFunctionOnSet(share, raw \ {s})
    <3>1. \A t \in raw : share[t] \in Int
      BY <1>3
    <3>2. QED
      BY <1>3, <1>4, <3>1, SumSplit
  <2>2. SumFunctionOnSet(share, raw \ {s}) \in Nat
    <3>1. IsFiniteSet(raw \ {s}) /\ \A t \in raw \ {s} : share[t] \in Nat
      BY <1>3, FS_Subset
    <3>2. QED
      BY <3>1, SumIsNat
  <2>3. share[s] \in Nat
    BY <1>3, <1>4
  <2>4. QED
    BY <1>9, <2>1, <2>2, <2>3
<1>11. p.plan.candidates = Elected(raw, share)
  BY <1>1, PlanParts
<1>12. QED
  BY <1>4, <1>9, <1>10, <1>11 DEF Elected

\* A gap that qualified in the ETF qualifies in the underlying it was divided down to.
LEMMA GapStaysLarge ==
    ASSUME NEW g \in Mornings, NEW rows, NEW x, NEW s \in Qualified(g, rows, x)
    PROVE  Magnitude(UlGap(s, g[s])) >= 6 * GapThreshold
<1> DEFINE a == IF Inst[s].inverse THEN -g[s] ELSE g[s]
           l == Inst[s].leverage
<1>1. s \in Symbols /\ g[s] \in Int
  BY ScanInSymbols, PreMarketAssumption
<1>2. l \in {1, 2, 3} /\ Inst[s].inverse \in BOOLEAN
  BY <1>1, SelectionAssumption
<1>3. Magnitude(g[s]) >= l * 2
  BY DEF Qualified, GapThreshold
<1>4. a \in Int /\ (a >= l * 2 \/ -a >= l * 2)
  BY <1>1, <1>2, <1>3 DEF Magnitude
<1>5. UlGap(s, g[s]) = (a * 6) \div l
  BY DEF UlGap
<1> HIDE DEF a, l
<1>6. (a * 6) \div l >= 12 \/ -((a * 6) \div l) >= 12
  BY <1>2, <1>4
<1>7. (a * 6) \div l \in Int
  BY <1>2, <1>4
<1>8. QED
  BY <1>5, <1>6, <1>7 DEF Magnitude, GapThreshold

LEMMA UnderlyingIsElected ==
    ASSUME NEW g \in Mornings, NEW rows, NEW x, NEW p, p = Plan(g, rows, x),
           NEW u \in DOMAIN p.ulGaps,
           \A s \in p.universe : Ul(s) = u => Sign(UlGap(s, g[s])) = Sign(p.ulGaps[u]),
           u \in DOMAIN PriorTwoCloses({u}, rows, x)
               => Moderate(PriorTwoCloses({u}, rows, x)[u], Sign(p.ulGaps[u]), Sigma[u])
    PROVE  \E s \in p.universe : Ul(s) = u /\ s \in p.plan.candidates
<1> DEFINE universe == Qualified(g, rows, x)
           far == Extreme(u, g, universe)
           group == Siblings(u, p.universe, p.ulGaps)
           closes == PriorTwoCloses(DOMAIN p.ulGaps, rows, x)
<1>1. p.universe = universe /\ p.ulGaps = OvernightGaps(g, universe)
  BY DEF Plan
<1>2. PICK first \in universe : Ul(first) = u
  BY <1>1 DEF OvernightGaps
<1>3. far \in universe /\ Ul(far) = u
  BY <1>2, ExtremeExists
<1>4. p.ulGaps[u] = UlGap(far, g[far])
  BY <1>1 DEF OvernightGaps
<1>5. UlQualifies(u, p.ulGaps[u], closes)
  <2>1. Magnitude(p.ulGaps[u]) >= 6 * GapThreshold
    BY <1>3, <1>4, GapStaysLarge
  <2>2. ASSUME u \in DOMAIN closes
        PROVE  u \in DOMAIN PriorTwoCloses({u}, rows, x)
               /\ closes[u] = PriorTwoCloses({u}, rows, x)[u]
    BY <2>2 DEF PriorTwoCloses
  <2>3. QED
    BY <2>1, <2>2 DEF UlQualifies
<1>6. ASSUME NEW s \in p.universe, Ul(s) = u
      PROVE  s \in group
  <2>1. s \in DOMAIN Only => Direction(g[s]) = Only[s]
    BY <1>1, <1>6 DEF Qualified
  <2>2. Direction(g[s]) = EtfDir(s, p.ulGaps)
    BY <1>1, <1>6, SideOfGap DEF EtfDir
  <2>3. QED
    BY <1>6, <2>1, <2>2 DEF Siblings
<1>7. group \in SUBSET Symbols /\ group # {}
  BY <1>1, <1>3, <1>6, ScanInSymbols DEF Siblings
<1> HIDE DEF group
<1>8. Fillable(group, p.ulGaps) # {} /\ Fillable(group, p.ulGaps) \subseteq group
  BY <1>7, FillableExists
<1>9. Fillable(group, p.ulGaps) \in SUBSET Symbols
  BY <1>7, <1>8
<1>10. PICK s \in Dearest(Fillable(group, p.ulGaps)) : TRUE
  BY <1>8, <1>9, DearestExists
<1>11. s \in Raw(p, rows, x)
  BY <1>5, <1>10 DEF Raw, Candidates, group
<1>12. s \in p.plan.candidates
  BY <1>11, SharesArePositive
<1>13. s \in p.universe /\ Ul(s) = u
  BY <1>8, <1>10 DEF Dearest, group, Siblings
<1>14. QED
  BY <1>12, <1>13

(***************************************************************************)
(* The inductive invariant.                                                *)
(***************************************************************************)

\* A row of today, or one that is not of a whole day, was stored by a refresh that ran
\* after the open; an equity's rows are of trading days but the one on disk at first.
EquityRow(u, d) ==
    /\ d = day => d \in reran
    /\ store[u][d].final \/ d \in reran
    /\ d \in TradingDays \/ d = PrevTradingDay(FirstSession) - 1
StoreInv ==
    /\ store = [u \in Underlyings |-> store[u]]
    /\ \A u \in Underlyings :
          /\ DOMAIN store[u] \subseteq 0..day /\ DOMAIN store[u] # {}
          /\ u \notin Crypto => \A d \in DOMAIN store[u] : EquityRow(u, d)
DayInv == day \in TradingDays /\ FirstSession <= day
Gated ==
    pc \in {"open", "orb", "trade"} /\ day \notin reran =>
        \A u \in Underlyings \ Crypto : PrevTradingDay(day) \in Read(u)
FromScan == \/ made = NoPlan
            \/ gaps \in Mornings /\ \E rows, x : made = Plan(gaps, rows, x)
\* A plan that is traded is the one the rows on disk still give.
FromStore == Planned => gaps \in Mornings /\ made = Plan(gaps, store, day)
PlanInv == DayInv /\ StoreInv /\ Gated /\ FromScan /\ FromStore /\ ReplayReproduces

LEMMA CalendarTyped ==
    /\ \A d \in TradingDays : d \in Nat /\ d >= 1
    /\ FirstSession \in TradingDays
    /\ \E d \in TradingDays : d < FirstSession
    /\ {Uls[k] : k \in DOMAIN Uls} = Underlyings
<1>1. ASSUME NEW d \in TradingDays PROVE d \in Nat /\ d >= 1
  <2>1. d \in Nat \ {0}
    BY ONLY PreMarketAssumption, d \in TradingDays
  <2>2. QED
    BY ONLY <2>1
<1>2. FirstSession \in TradingDays /\ \E d \in TradingDays : d < FirstSession
  BY ONLY PreMarketAssumption
<1>3. {Uls[k] : k \in DOMAIN Uls} = Underlyings
  BY ONLY PreMarketAssumption
<1>4. QED
  BY ONLY <1>1, <1>2, <1>3

\* A step that leaves the rows and the day alone keeps what is said of them; that a
\* refresh of the day has run only weakens it.
LEMMA StoreFrame ==
    ASSUME StoreInv, UNCHANGED <<day, store>>, reran \subseteq reran'
    PROVE  StoreInv'
<1>1. ASSUME NEW u \in Underlyings, u \notin Crypto, NEW d \in DOMAIN store[u]
      PROVE  EquityRow(u, d)'
  <2>1. EquityRow(u, d)
    BY <1>1 DEF StoreInv
  <2>2. QED
    BY <2>1 DEF EquityRow
<1>2. ASSUME NEW u \in Underlyings
      PROVE  DOMAIN store[u] \subseteq 0..day /\ DOMAIN store[u] # {}
  BY DEF StoreInv
<1>3. store = [u \in Underlyings |-> store[u]]
  BY DEF StoreInv
<1>4. QED
  BY <1>1, <1>2, <1>3 DEF StoreInv

LEMMA PlanFrame ==
    ASSUME PlanInv, UNCHANGED day
    PROVE  /\ DayInv'
           /\ UNCHANGED <<gaps, made>> => FromScan'
           /\ UNCHANGED fixture => ReplayReproduces'
<1>1. DayInv'
  BY DEF PlanInv, DayInv
<1>2. ASSUME UNCHANGED <<gaps, made>> PROVE FromScan'
  BY <1>2 DEF PlanInv, FromScan
<1>3. ASSUME UNCHANGED fixture PROVE ReplayReproduces'
  BY <1>3 DEF PlanInv, ReplayReproduces, Replayed
<1>4. QED
  BY <1>1, <1>2, <1>3

\* Before a day of the run there is a trading day, and the last of them is before it.
LEMMA PreviousDay ==
    ASSUME NEW d \in TradingDays, FirstSession <= d
    PROVE  /\ PrevTradingDay(d) \in TradingDays /\ PrevTradingDay(d) < d
           /\ \A x \in TradingDays : x < d => x <= PrevTradingDay(d)
<1> DEFINE before == {x \in TradingDays : x < d}
<1>1. before \in SUBSET Int /\ d \in Int /\ \A x \in before : x <= d
  BY CalendarTyped
<1>2. before # {}
  <2>1. PICK x \in TradingDays : x < FirstSession
    BY CalendarTyped
  <2>2. x \in Nat /\ d \in Nat /\ FirstSession \in Nat
    BY CalendarTyped
  <2>3. x < d
    BY <2>1, <2>2
  <2>4. QED
    BY <2>3
<1>3. PrevTradingDay(d) = Max(before)
  BY DEF PrevTradingDay
<1> HIDE DEF before
<1>4. Max(before) \in before /\ \A y \in before : Max(before) >= y
  BY <1>1, <1>2, MaxIsGreatest
<1>5. QED
  <2>1. PrevTradingDay(d) \in TradingDays /\ PrevTradingDay(d) < d
    BY <1>3, <1>4 DEF before
  <2>2. ASSUME NEW x \in TradingDays, x < d PROVE x <= PrevTradingDay(d)
    <3>1. x \in before
      BY <2>2 DEF before
    <3>2. Max(before) >= x /\ x \in Nat /\ Max(before) \in Nat
      BY <1>3, <1>4, <2>1, <3>1, CalendarTyped
    <3>3. QED
      BY <1>3, <3>2
  <2>3. QED
    BY <2>1, <2>2

LEMMA InitPlans == Init => PlanInv
<1> SUFFICES ASSUME Init
             PROVE  PlanInv
  OBVIOUS
<1>1. DayInv
  BY CalendarTyped DEF Init, DayInv
<1>2. StoreInv
  <2> DEFINE p == PrevTradingDay(FirstSession)
  <2>1. p \in Nat /\ p >= 1 /\ p < FirstSession /\ FirstSession \in Nat
    <3>1. FirstSession <= FirstSession
      BY CalendarTyped
    <3>2. p \in TradingDays /\ p < FirstSession
      BY <3>1, CalendarTyped, PreviousDay
    <3>3. QED
      BY <3>2, CalendarTyped
  <2>2. store = [u \in Underlyings |->
                    [d \in {p - 1} |-> [close |-> Backfill[u], final |-> TRUE]]]
    BY DEF Init
  <2>3. day = FirstSession
    BY DEF Init
  <2> HIDE DEF p
  <2>4. ASSUME NEW u \in Underlyings
        PROVE  DOMAIN store[u] = {p - 1} /\ store[u][p - 1].final
    BY <2>2
  <2>5. p - 1 \in 0..day /\ p - 1 # day
    BY <2>1, <2>3
  <2>6. QED
    BY <2>2, <2>4, <2>5 DEF StoreInv, EquityRow, p
<1>3. Gated /\ FromScan /\ FromStore /\ ReplayReproduces
  BY DEF Init, Gated, FromScan, FromStore, Planned, ReplayReproduces
<1>4. QED
  BY <1>1, <1>2, <1>3 DEF PlanInv

\* A refresh stores whole days, and of today only what it sees after the open; a row
\* on disk stays as it is.
LEMMA UpdateKeeps ==
    ASSUME PlanInv, UpdateOne
    PROVE  PlanInv'
<1>1. /\ pc = "refresh" /\ next \in DOMAIN Uls
      /\ UNCHANGED <<day, pc, inHours, gaps, made, fixture>>
      /\ reran' = IF inHours THEN reran \cup {day} ELSE reran
  BY DEF UpdateOne, choice
<1>2. DayInv' /\ Gated' /\ FromScan' /\ FromStore' /\ ReplayReproduces'
  BY <1>1, PlanFrame DEF Gated, FromStore, Planned
<1>3. day \in Nat
  BY CalendarTyped DEF PlanInv, DayInv
<1>4. \A u \in Underlyings : u \notin Crypto => \A d \in DOMAIN store[u] :
          /\ d = day => d \in reran'
          /\ store[u][d].final \/ d \in reran'
          /\ d \in TradingDays \/ d = PrevTradingDay(FirstSession) - 1
  BY <1>1 DEF PlanInv, StoreInv, EquityRow
<1>5. CASE UNCHANGED store
  BY <1>1, <1>2, <1>5, StoreFrame DEF PlanInv
<1>6. CASE ~ UNCHANGED store
  <2>1. PICK u \in Underlyings : \E days \in Answered(u) :
            \E close \in [days \ DOMAIN store[u] -> Closes[u]] :
                store' = [store EXCEPT ![u] =
                    Merge(@, [d \in DOMAIN close |-> [close |-> close[d], final |-> d < day]])]
    <3>1. Uls[next] \in Underlyings
      BY <1>1, CalendarTyped
    <3>2. QED
      BY <1>6, <3>1 DEF UpdateOne
  <2>1a. PICK days \in Answered(u) : \E close \in [days \ DOMAIN store[u] -> Closes[u]] :
            store' = [store EXCEPT ![u] =
                Merge(@, [d \in DOMAIN close |-> [close |-> close[d], final |-> d < day]])]
    BY <2>1
  <2>2. PICK close \in [days \ DOMAIN store[u] -> Closes[u]] :
            store' = [store EXCEPT ![u] =
                Merge(@, [d \in DOMAIN close |-> [close |-> close[d], final |-> d < day]])]
    BY <2>1a
  <2> DEFINE new == [d \in DOMAIN close |-> [close |-> close[d], final |-> d < day]]
             all == DOMAIN store[u] \cup DOMAIN new
  <2>3. days \subseteq Available(u) /\ DOMAIN new = days \ DOMAIN store[u]
    BY <2>1a, <2>2 DEF Answered
  <2>4. ASSUME NEW d \in DOMAIN new
        PROVE  /\ d \in 1..day /\ new[d].final = (d < day)
               /\ u \notin Crypto => d \in TradingDays /\ (d = day => inHours)
    BY <2>3 DEF Available
  <2>5. store'[u] = [d \in all |-> IF d \in DOMAIN store[u] THEN store[u][d] ELSE new[d]]
    BY <2>1, <2>2 DEF PlanInv, StoreInv, Merge
  <2>6. \A v \in Underlyings : v # u => store'[v] = store[v]
    BY <2>2 DEF PlanInv, StoreInv
  <2>7. store' = [v \in Underlyings |-> store'[v]]
    BY <2>2 DEF PlanInv, StoreInv
  <2> HIDE DEF new
  <2>8. DOMAIN store'[u] \subseteq 0..day /\ DOMAIN store'[u] # {}
    <3>1. DOMAIN store[u] \subseteq 0..day /\ DOMAIN store[u] # {}
      BY <2>1 DEF PlanInv, StoreInv
    <3>2. DOMAIN new \subseteq 0..day
      BY <1>3, <2>4
    <3>3. QED
      BY <2>5, <3>1, <3>2
  <2>9. ASSUME u \notin Crypto, NEW d \in DOMAIN store'[u] PROVE EquityRow(u, d)'
    <3>1. CASE d \in DOMAIN store[u]
      BY <1>1, <1>4, <2>1, <2>5, <2>9, <3>1 DEF EquityRow
    <3>2. CASE d \notin DOMAIN store[u]
      <4>1. d \in DOMAIN new /\ store'[u][d] = new[d]
        BY <2>5, <2>9, <3>2
      <4>2. d \in 1..day /\ new[d].final = (d < day) /\ d \in TradingDays /\ (d = day => inHours)
        BY <2>4, <2>9, <4>1
      <4>3. d < day \/ d = day
        BY <1>3, <4>2
      <4>4. QED
        BY <1>1, <4>1, <4>2, <4>3 DEF EquityRow
    <3>3. QED
      BY <3>1, <3>2
  <2>10. ASSUME NEW v \in Underlyings, v # u
         PROVE  /\ DOMAIN store'[v] \subseteq 0..day /\ DOMAIN store'[v] # {}
                /\ v \notin Crypto => \A d \in DOMAIN store'[v] : EquityRow(v, d)'
    BY <1>1, <1>4, <2>6, <2>10 DEF PlanInv, StoreInv, EquityRow
  <2>11. StoreInv'
    BY <1>1, <2>7, <2>8, <2>9, <2>10 DEF StoreInv
  <2>12. QED
    BY <1>2, <2>11 DEF PlanInv
<1>7. QED
  BY <1>2, <1>5, <1>6 DEF PlanInv

\* At the gate: the latest row is not before the prior session, is no row of today, and
\* is of a trading day; so it is the prior session's.
LEMMA GateKeeps ==
    ASSUME PlanInv, GatePasses
    PROVE  PlanInv'
<1>1. /\ \A u \in Underlyings : Fresh(u)
      /\ UNCHANGED <<day, store, gaps, made, fixture, reran>>
  BY DEF GatePasses, data, choice
<1>2. DayInv' /\ StoreInv' /\ FromScan' /\ ReplayReproduces'
  BY <1>1, PlanFrame, StoreFrame DEF PlanInv
<1>2a. FromStore'
  BY DEF GatePasses, FromStore, Planned
<1>3. ASSUME day \notin reran, NEW u \in Underlyings \ Crypto
      PROVE  PrevTradingDay(day) \in Read(u)
  <2> DEFINE D == DOMAIN store[u]
             m == Max(D)
             p == PrevTradingDay(day)
  <2>1. day \in TradingDays /\ day \in Nat /\ FirstSession <= day /\ FirstSession \in Nat
    BY CalendarTyped DEF PlanInv, DayInv
  <2>2. /\ p \in TradingDays /\ p < day /\ p \in Nat
        /\ \A x \in TradingDays : x < day => x <= p
    BY <2>1, PreviousDay, CalendarTyped
  <2>3. /\ PrevTradingDay(FirstSession) \in TradingDays
        /\ PrevTradingDay(FirstSession) < FirstSession
    <3>1. FirstSession <= FirstSession
      BY <2>1
    <3>2. QED
      BY <3>1, CalendarTyped, PreviousDay
  <2>4. D \subseteq 0..day /\ D # {} /\ \A d \in D : EquityRow(u, d)
    BY DEF PlanInv, StoreInv
  <2>5. m \in D /\ \A y \in D : m >= y
    <3> HIDE DEF D
    <3>1. D \in SUBSET Int /\ day \in Int /\ \A y \in D : y <= day
      BY <2>1, <2>4
    <3>2. QED
      BY <2>4, <3>1, MaxIsGreatest
  <2>6. m >= p
    BY <1>1, <1>3 DEF Fresh
  <2>7. m # day /\ (m \in TradingDays \/ m = PrevTradingDay(FirstSession) - 1)
    BY <1>3, <2>4, <2>5 DEF EquityRow
  <2>8. m \in Nat /\ m < day
    BY <2>1, <2>4, <2>5, <2>7
  <2>9. PrevTradingDay(FirstSession) <= p /\ PrevTradingDay(FirstSession) \in Nat
    <3>1. PrevTradingDay(FirstSession) \in Nat
      BY <2>3, CalendarTyped
    <3>2. PrevTradingDay(FirstSession) < day
      BY <2>1, <2>3, <3>1
    <3>3. QED
      BY <2>2, <2>3, <3>1, <3>2
  <2>10. m \in TradingDays
    BY <2>2, <2>6, <2>7, <2>8, <2>9
  <2>11. m = p
    BY <2>2, <2>6, <2>8, <2>10
  <2> HIDE DEF m, p
  <2>12. p \in PriorDays(store[u], day)
    BY <2>2, <2>5, <2>11 DEF PriorDays
  <2>13. {y \in PriorDays(store[u], day) : y > p} = {}
    <3>1. ASSUME NEW y \in D PROVE ~ (y > p)
      <4>1. p >= y /\ y \in Int
        BY <2>4, <2>5, <2>11
      <4>2. QED
        BY <2>2, <4>1
    <3>2. QED
      BY <3>1 DEF PriorDays
  <2>14. Cardinality({y \in PriorDays(store[u], day) : y > p}) < 2
    BY <2>13, FS_EmptySet
  <2>15. QED
    BY <2>12, <2>14 DEF Read, LastTwo, p
<1>4. Gated'
  BY <1>1, <1>3 DEF Gated, Read
<1>5. QED
  BY <1>2, <1>2a, <1>4 DEF PlanInv

\* Phase 1 plans from the store and writes the tails: they give the same plan.
LEMMA OpenEvalKeeps ==
    ASSUME PlanInv, OpenEval
    PROVE  PlanInv'
<1>1. /\ pc = "open" /\ gaps' \in Mornings /\ made' = Plan(gaps', store, day)
      /\ WriteFixture(SerialiseRawInputs(gaps', made'))
      /\ UNCHANGED <<day, store, reran>>
  BY DEF OpenEval, data
<1>2. DayInv' /\ StoreInv' /\ Gated' /\ FromScan' /\ FromStore'
  BY <1>1 DEF PlanInv, DayInv, StoreInv, EquityRow, Gated, Read, FromScan, FromStore
<1>3. ASSUME NEW f \in fixture' PROVE Plan(f.gaps, f.data, day) = f.made
  <2>1. CASE f \in fixture
    BY <2>1 DEF PlanInv, ReplayReproduces, Replayed
  <2>2. CASE f = SerialiseRawInputs(gaps', made')
    <3>1. /\ f.gaps = gaps' /\ f.made = Plan(gaps', store, day)
          /\ f.data = [u \in Underlyings |-> DailyTail(store[u])]
      BY <1>1, <2>2 DEF SerialiseRawInputs
    <3>2. /\ day \in Nat /\ DOMAIN store = Underlyings
          /\ \A u \in Underlyings : DOMAIN store[u] \subseteq 0..day
      BY CalendarTyped DEF PlanInv, DayInv, StoreInv
    <3>3. QED
      BY <3>1, <3>2, TailPlans
  <2>3. QED
    BY <1>1, <1>3, <2>1, <2>2 DEF WriteFixture
<1>4. ReplayReproduces'
  BY <1>1, <1>3 DEF ReplayReproduces, Replayed
<1>5. QED
  BY <1>2, <1>4 DEF PlanInv

\* A start, of the same day or of the next: the fixture is of the day it is kept for.
LEMMA StartKeeps ==
    ASSUME PlanInv, NEW d \in TradingDays, d >= day, Start(d)
    PROVE  PlanInv'
<1>1. /\ day' = d /\ pc' = "refresh" /\ made' = NoPlan
      /\ fixture' = IF d = day THEN fixture ELSE {}
      /\ UNCHANGED <<store, reran>>
  BY DEF Start, data
<1>2. /\ day \in Nat /\ d \in Nat /\ FirstSession \in Nat /\ FirstSession <= day
  BY CalendarTyped DEF PlanInv, DayInv
<1>3. DayInv' /\ Gated' /\ FromScan' /\ FromStore'
  BY <1>1, <1>2 DEF DayInv, Gated, FromScan, FromStore, Planned
<1>4. ASSUME NEW u \in Underlyings
      PROVE  /\ DOMAIN store[u] \subseteq 0..d /\ DOMAIN store[u] # {}
             /\ u \notin Crypto => \A x \in DOMAIN store[u] : x = d => x \in reran
  <2>1. /\ DOMAIN store[u] \subseteq 0..day /\ DOMAIN store[u] # {}
        /\ u \notin Crypto => \A x \in DOMAIN store[u] : x = day => x \in reran
    BY DEF PlanInv, StoreInv, EquityRow
  <2>2. ASSUME NEW x \in DOMAIN store[u] PROVE x \in 0..d /\ (x = d => x = day)
    BY <1>2, <2>1
  <2>3. QED
    BY <2>1, <2>2
<1>5. StoreInv'
  BY <1>1, <1>4 DEF PlanInv, StoreInv, EquityRow
<1>6. ReplayReproduces'
  BY <1>1 DEF PlanInv, ReplayReproduces, Replayed
<1>7. QED
  BY <1>3, <1>5, <1>6 DEF PlanInv

LEMMA DayEndsKeeps ==
    ASSUME PlanInv, DayEnds
    PROVE  PlanInv'
<1>1. Later # {} /\ Start(Min(Later))
  BY DEF DayEnds
<1>2. Later \in SUBSET Nat
  BY CalendarTyped DEF Later
<1>3. Min(Later) \in Later
  BY <1>1, <1>2, MinIsLeast
<1>4. Min(Later) \in TradingDays /\ Min(Later) >= day
  BY <1>2, <1>3, CalendarTyped DEF Later, PlanInv, DayInv
<1>5. QED
  BY <1>1, <1>4, StartKeeps

LEMMA StepPlans == PlanInv /\ [Next]_vars => PlanInv'
<1> SUFFICES ASSUME PlanInv, [Next]_vars
             PROVE  PlanInv'
  OBVIOUS
<1>1. CASE UpdateOne
  BY <1>1, UpdateKeeps
<1>2. CASE GatePasses
  BY <1>2, GateKeeps
<1>3. CASE OpenEval
  BY <1>3, OpenEvalKeeps
<1>4. CASE DayEnds
  BY <1>4, DayEndsKeeps
<1>5. CASE Rerun
  <2>1. day \in TradingDays /\ day >= day /\ Start(day)
    BY <1>5, CalendarTyped DEF Rerun, PlanInv, DayInv
  <2>2. QED
    BY <2>1, StartKeeps
<1>6. CASE DiesWriting \/ GateAborts \/ PostOrb \/ Dies \/ Over \/ UNCHANGED vars
  <2>1. /\ UNCHANGED <<day, store, fixture, reran>>
        /\ pc' \in {"down"} \/ (pc' = "trade" /\ pc = "orb") \/ UNCHANGED pc
        /\ made' = NoPlan \/ UNCHANGED <<gaps, made>>
    BY <1>6 DEF DiesWriting, GateAborts, PostOrb, Dies, Over, vars, data, choice
  <2>2. DayInv' /\ StoreInv' /\ ReplayReproduces'
    BY <2>1, PlanFrame, StoreFrame DEF PlanInv
  <2>3. Gated' /\ FromScan'
    BY <2>1, PlanFrame DEF PlanInv, Gated, Read, FromScan
  <2>3a. FromStore'
    <3>1. CASE PostOrb
      BY <3>1 DEF PostOrb, data, PlanInv, FromStore, Planned
    <3>2. CASE DiesWriting \/ GateAborts \/ Dies
      BY <3>2 DEF DiesWriting, GateAborts, Dies, FromStore, Planned
    <3>3. CASE Over \/ UNCHANGED vars
      BY <3>3 DEF Over, vars, data, choice, PlanInv, FromStore, Planned
    <3>4. QED
      BY <1>6, <3>1, <3>2, <3>3
  <2>4. QED
    BY <2>2, <2>3, <2>3a DEF PlanInv
<1>7. QED
  BY <1>1, <1>2, <1>3, <1>4, <1>5, <1>6 DEF Next

(***************************************************************************)
(* Types.                                                                  *)
(***************************************************************************)

LEMMA TradingDaysInRange ==
    ASSUME NEW d \in TradingDays
    PROVE  d \in Days
<1>1. TradingDays \in SUBSET Nat /\ TradingDays # {} /\ IsFiniteSet(TradingDays)
  <2>1. IsFiniteSet(TradingDays)
    BY ONLY PreMarketAssumption
  <2>2. QED
    BY <2>1, CalendarTyped
<1>2. PICK b \in TradingDays : \A x \in TradingDays : x <= b
  BY <1>1, FiniteIsBounded
<1>3. TradingDays \in SUBSET Int /\ b \in Int
  BY <1>1
<1>4. Max(TradingDays) \in TradingDays /\ Max(TradingDays) >= d
  BY <1>1, <1>2, <1>3, MaxIsGreatest
<1>5. d \in Nat /\ d >= 1 /\ Max(TradingDays) \in Nat
  BY <1>4, CalendarTyped
<1> DEFINE m == Max(TradingDays)
<1> HIDE DEF m
<1>6. d \in 1..m
  BY <1>4, <1>5 DEF m
<1>7. QED
  BY <1>6 DEF Days, m

\* What a plan chooses from, and what the scan has seen.
LEMMA PlanTyped ==
    ASSUME NEW g \in Mornings, NEW rows, NEW x, NEW p, p = Plan(g, rows, x)
    PROVE  /\ DOMAIN g \subseteq Symbols
           /\ p.universe \subseteq DOMAIN g
           /\ p.plan.candidates \subseteq p.universe
<1>1. p.universe = Qualified(g, rows, x)
  BY DEF Plan
<1>2. \A s \in p.plan.candidates : s \in Siblings(Ul(s), p.universe, p.ulGaps)
  BY CandidatesAreElected
<1>3. p.plan.candidates \subseteq p.universe
  BY <1>2 DEF Siblings
<1>4. DOMAIN g \subseteq Symbols
  BY ONLY PreMarketAssumption, g \in Mornings
<1>5. QED
  BY <1>1, <1>3, <1>4, ScanInSymbols

RowsTyped == \A u \in Underlyings : \A d \in DOMAIN store[u] : store[u][d] \in Row(u)
StepTyped == /\ next \in 1..(Len(Uls) + 1)
             /\ pc \in {"refresh", "open", "orb", "trade", "down"}
             /\ inHours \in BOOLEAN /\ runs \in 1..MaxRuns /\ deaths \in 0..MaxDeaths
             /\ torn \subseteq Underlyings /\ reran \subseteq Days
ChoiceTyped == /\ DOMAIN gaps \subseteq Symbols /\ watched \subseteq Symbols
               /\ Cardinality(fixture) <= 1
TypeInv == RowsTyped /\ StepTyped /\ ChoiceTyped

\* What a plan says of its sets follows from where it came from.
LEMMA TypesFollow == PlanInv /\ TypeInv => TypeOK
<1> SUFFICES ASSUME PlanInv, TypeInv
             PROVE  TypeOK
  OBVIOUS
<1>1. day \in Days
  BY TradingDaysInRange DEF PlanInv, DayInv
<1>2. \A u \in Underlyings : DOMAIN store[u] \subseteq 0..day
  BY DEF PlanInv, StoreInv
<1>3. made.plan.candidates \subseteq made.universe /\ made.universe \subseteq DOMAIN gaps
  <2>1. CASE made = NoPlan
    BY <2>1 DEF NoPlan
  <2>2. CASE made # NoPlan
    BY <2>2, PlanTyped DEF PlanInv, FromScan
  <2>3. QED
    BY <2>1, <2>2
<1>4. QED
  BY <1>1, <1>2, <1>3 DEF TypeOK, TypeInv, RowsTyped, StepTyped, ChoiceTyped

LEMMA InitTyped == Init => TypeInv
<1> SUFFICES ASSUME Init
             PROVE  TypeInv
  OBVIOUS
<1>1. RowsTyped
  <2> DEFINE p == PrevTradingDay(FirstSession) - 1
  <2>1. store = [u \in Underlyings |-> [d \in {p} |-> [close |-> Backfill[u], final |-> TRUE]]]
    BY DEF Init
  <2> HIDE DEF p
  <2>2. QED
    BY <2>1 DEF RowsTyped, Row
<1>2. StepTyped
  <2>1. Len(Uls) \in Nat
    <3>1. Uls \in Seq(Underlyings)
      BY ONLY PreMarketAssumption
    <3>2. QED
      BY <3>1
  <2>2. MaxRuns \in Nat \ {0} /\ MaxDeaths \in Nat
    BY ONLY PreMarketAssumption
  <2>3. 1 \in 1..(Len(Uls) + 1) /\ 1 \in 1..MaxRuns /\ 0 \in 0..MaxDeaths
    BY <2>1, <2>2
  <2>4. QED
    BY <2>3 DEF Init, StepTyped
<1>3. ChoiceTyped
  BY FS_EmptySet DEF Init, ChoiceTyped
<1>4. QED
  BY <1>1, <1>2, <1>3 DEF TypeInv

\* A refreshed row's close is one a source may answer.
LEMMA RowsKept ==
    ASSUME PlanInv, RowsTyped, UpdateOne
    PROVE  RowsTyped'
<1>1. CASE UNCHANGED store
  BY <1>1 DEF RowsTyped
<1>2. CASE ~ UNCHANGED store
  <2> DEFINE u == Uls[next]
  <2>1. u \in Underlyings
    BY CalendarTyped DEF UpdateOne
  <2>2. PICK days \in Answered(u) : \E close \in [days \ DOMAIN store[u] -> Closes[u]] :
            store' = [store EXCEPT ![u] =
                Merge(@, [d \in DOMAIN close |-> [close |-> close[d], final |-> d < day]])]
    BY <1>2 DEF UpdateOne
  <2> HIDE DEF u
  <2>3. PICK close \in [days \ DOMAIN store[u] -> Closes[u]] :
            store' = [store EXCEPT ![u] =
                Merge(@, [d \in DOMAIN close |-> [close |-> close[d], final |-> d < day]])]
    BY <2>2
  <2> DEFINE new == [d \in DOMAIN close |-> [close |-> close[d], final |-> d < day]]
             all == DOMAIN store[u] \cup DOMAIN new
  <2>4. \A d \in DOMAIN new : new[d] \in Row(u)
    BY DEF Row
  <2>5. store'[u] = [d \in all |-> IF d \in DOMAIN store[u] THEN store[u][d] ELSE new[d]]
    BY <2>1, <2>3 DEF PlanInv, StoreInv, Merge
  <2>6. \A v \in Underlyings : v # u => store'[v] = store[v]
    BY <2>3 DEF PlanInv, StoreInv
  <2> HIDE DEF new
  <2>7. \A d \in DOMAIN store'[u] : store'[u][d] \in Row(u)
    BY <2>1, <2>4, <2>5 DEF RowsTyped
  <2>8. QED
    BY <2>6, <2>7 DEF RowsTyped, Row
<1>3. QED
  BY <1>1, <1>2

LEMMA StepsTyped ==
    ASSUME PlanInv, StepTyped, Next
    PROVE  StepTyped'
<1>1. day \in Days
  BY TradingDaysInRange DEF PlanInv, DayInv
<1>2. Len(Uls) \in Nat /\ DOMAIN Uls = 1..Len(Uls) /\ MaxRuns \in Nat /\ MaxDeaths \in Nat
  <2>1. Uls \in Seq(Underlyings) /\ MaxRuns \in Nat \ {0} /\ MaxDeaths \in Nat
    BY ONLY PreMarketAssumption
  <2>2. QED
    BY <2>1
<1>3. 1 \in 1..(Len(Uls) + 1) /\ 1 \in 1..MaxRuns
  BY <1>2 DEF StepTyped
<1>4. deaths < MaxDeaths => deaths + 1 \in 0..MaxDeaths
  BY <1>2 DEF StepTyped
<1>5. ASSUME next \in DOMAIN Uls
      PROVE  next + 1 \in 1..(Len(Uls) + 1) /\ Uls[next] \in Underlyings
  BY <1>2, <1>5, CalendarTyped
<1>6. runs < MaxRuns => runs + 1 \in 1..MaxRuns
  BY <1>2 DEF StepTyped
<1>7. CASE UpdateOne
  BY <1>1, <1>5, <1>7 DEF UpdateOne, StepTyped
<1>8. CASE DiesWriting
  BY <1>4, <1>5, <1>8 DEF DiesWriting, StepTyped
<1>9. CASE GatePasses \/ GateAborts \/ OpenEval \/ PostOrb
  BY <1>9 DEF GatePasses, GateAborts, OpenEval, PostOrb, data, StepTyped
<1>10. CASE DayEnds
  BY <1>3, <1>10 DEF DayEnds, Start, data, StepTyped
<1>11. CASE Dies
  BY <1>4, <1>11 DEF Dies, data, StepTyped
<1>12. CASE Rerun
  BY <1>3, <1>6, <1>12 DEF Rerun, Start, data, StepTyped
<1>13. CASE Over
  BY <1>13 DEF Over, vars, data, StepTyped
<1>14. QED
  BY <1>7, <1>8, <1>9, <1>10, <1>11, <1>12, <1>13 DEF Next

\* What is watched was elected; a fixture is written over.
LEMMA ChoicesTyped ==
    ASSUME PlanInv, TypeInv, Next
    PROVE  ChoiceTyped'
<1>1. made.plan.candidates \subseteq Symbols
  BY TypesFollow DEF TypeOK
<1>2. CASE OpenEval
  <2>1. PICK f : fixture' = {f} \/ UNCHANGED fixture
    BY <1>2 DEF OpenEval, WriteFixture
  <2>2. Cardinality(fixture') <= 1
    BY <2>1, FS_Singleton DEF TypeInv, ChoiceTyped
  <2>3. DOMAIN gaps' \subseteq Symbols
    <3>1. gaps' \in Mornings
      BY <1>2 DEF OpenEval
    <3>2. \A seen \in Mornings : DOMAIN seen \subseteq Symbols
      BY ONLY PreMarketAssumption
    <3>3. QED
      BY <3>1, <3>2
  <2>4. QED
    BY <1>2, <2>2, <2>3 DEF OpenEval, TypeInv, ChoiceTyped
<1>3. CASE PostOrb
  BY <1>1, <1>3 DEF PostOrb, TypeInv, ChoiceTyped
<1>4. ASSUME NEW d, Start(d) PROVE ChoiceTyped'
  BY <1>4, FS_EmptySet DEF Start, TypeInv, ChoiceTyped
<1>5. CASE DayEnds \/ Rerun
  BY <1>4, <1>5 DEF DayEnds, Rerun
<1>6. CASE UpdateOne \/ DiesWriting \/ GatePasses \/ GateAborts \/ Dies \/ Over
  BY <1>6 DEF UpdateOne, DiesWriting, GatePasses, GateAborts, Dies, Over, vars, choice,
              TypeInv, ChoiceTyped
<1>7. QED
  BY <1>2, <1>3, <1>5, <1>6 DEF Next

LEMMA StepTypes == PlanInv /\ TypeInv /\ [Next]_vars => TypeInv'
<1> SUFFICES ASSUME PlanInv, TypeInv, [Next]_vars
             PROVE  TypeInv'
  OBVIOUS
<1>1. CASE Next
  <2>1. RowsTyped'
    <3>1. CASE UpdateOne
      BY <3>1, RowsKept DEF TypeInv
    <3>2. CASE ~ UpdateOne
      <4>1. UNCHANGED store
        BY <1>1, <3>2 DEF Next, DiesWriting, GatePasses, GateAborts, OpenEval, PostOrb,
                          DayEnds, Dies, Rerun, Start, Over, vars, data
      <4>2. QED
        BY <4>1 DEF TypeInv, RowsTyped
    <3>3. QED
      BY <3>1, <3>2
  <2>2. QED
    BY <1>1, <2>1, StepsTyped, ChoicesTyped DEF TypeInv
<1>2. CASE UNCHANGED vars
  BY <1>2 DEF vars, data, choice, TypeInv, RowsTyped, StepTyped, ChoiceTyped
<1>3. QED
  BY <1>1, <1>2

(***************************************************************************)
(* Theorems.                                                               *)
(***************************************************************************)

\* The inductive invariant holds in every reachable state.
THEOREM PlanInvariance == Spec => []PlanInv
BY InitPlans, StepPlans, PTL DEF Spec

\* Every variable has its type, and what is watched was seen by the scan.
THEOREM PlanTypes == Spec => []TypeOK
<1>1. PlanInv /\ TypeInv => TypeOK
  BY TypesFollow
<1>2. QED
  BY <1>1, InitTyped, StepTypes, PlanInvariance, PTL DEF Spec

\* The fixture of a session replays to the plan the session traded, whatever the rows
\* and the morning: the three rows it keeps are all the scan reads.
THEOREM FixtureReplays == Spec => []ReplayReproduces
<1>1. PlanInv => ReplayReproduces
  BY DEF PlanInv
<1>2. QED
  BY <1>1, PlanInvariance, PTL

\* A prior close of an equity is a whole day's, but where a session was rerun after
\* the open of that day.
THEOREM EquitiesFinal == Spec => []EquityClosesFinal
<1>1. PlanInv => EquityClosesFinal
  BY DEF PlanInv, StoreInv, EquityRow, EquityClosesFinal, Read, LastTwo, PriorDays
<1>2. QED
  BY <1>1, PlanInvariance, PTL

\* Behind the freshness gate the filter reads the prior session's row of every equity.
THEOREM PriorIsRead == Spec => []PriorSessionRead
<1>1. PlanInv => PriorSessionRead
  BY DEF PlanInv, Gated, PriorSessionRead, Planned
<1>2. QED
  BY <1>1, PlanInvariance, PTL

\* One ETF trades an underlying, however its siblings' prices tie.
THEOREM OneEach == Spec => []OnePerUnderlying
<1>1. PlanInv => OnePerUnderlying
  BY OneIsElected DEF PlanInv, FromScan, OnePerUnderlying, NoPlan
<1>2. QED
  BY <1>1, PlanInvariance, PTL

\* An ETF that cannot be filled is elected only where no sibling can be.
THEOREM FillableFirst == Spec => []FillableElected
<1>1. PlanInv => FillableElected
  <2> SUFFICES ASSUME PlanInv, NEW s \in made.plan.candidates
               PROVE  \/ MarginRate(s, EtfDir(s, made.ulGaps)) <= MaxMarginRate
                      \/ \A t \in Siblings(Ul(s), made.universe, made.ulGaps) :
                             MarginRate(t, EtfDir(t, made.ulGaps)) > MaxMarginRate
    BY DEF FillableElected
  <2>1. gaps \in Mornings /\ \E rows, x : made = Plan(gaps, rows, x)
    BY DEF PlanInv, FromScan, NoPlan
  <2>2. QED
    BY <2>1, ElectedIsFillable
<1>2. QED
  BY <1>1, PlanInvariance, PTL

\* A watched symbol trades on the side its margin was ranked for, where the gaps of the
\* underlying's ETFs agree.
THEOREM WatchedSides == Spec => []SidesAgree
<1>1. PlanInv => SidesAgree
  <2> SUFFICES ASSUME PlanInv, NEW s \in made.plan.candidates,
                      \A t \in made.universe :
                          Ul(t) = Ul(s) => Sign(UlGap(t, gaps[t])) = Sign(UlGap(s, gaps[s]))
               PROVE  Intended(s) = EtfDir(s, made.ulGaps)
    BY DEF SidesAgree
  <2>1. gaps \in Mornings /\ \E rows, x : made = Plan(gaps, rows, x)
    BY DEF PlanInv, FromScan, NoPlan
  <2>2. QED
    BY <2>1, CandidateSide DEF Intended
<1>2. QED
  BY <1>1, PlanInvariance, PTL

\* The underlyings of one allotment take, together, no more than one position of the
\* largest of them, however many there are and whichever were dropped.
THEOREM AllotmentOnce == Spec => []AllotmentShared
<1>1. PlanInv => AllotmentShared
  <2> SUFFICES ASSUME PlanInv, NEW s \in made.plan.candidates
               PROVE  SumFunctionOnSet(made.plan.share, Sharing(s, made.plan.candidates))
                        <= Max(WeightsOf(Sharing(s, made.plan.candidates), made.plan.regime))
    BY DEF AllotmentShared, Sharing, WeightsOf
  <2>1. gaps \in Mornings /\ \E rows, x : made = Plan(gaps, rows, x)
    BY DEF PlanInv, FromScan, NoPlan
  <2>2. QED
    BY <2>1, AllotmentIsOne
<1>2. QED
  BY <1>1, PlanInvariance, PTL

\* A day's multipliers, with the cap factor, add up to at most the cap.
THEOREM CapHolds == Spec => []ExposureWithinCap
<1>1. PlanInv => ExposureWithinCap
  <2> SUFFICES ASSUME PlanInv
               PROVE  SumFunctionOnSet(made.plan.share, made.plan.candidates)
                          * made.plan.cap[1] <= CapUnits * made.plan.cap[2]
    BY DEF ExposureWithinCap
  <2>1. CASE made = NoPlan
    <3>1. SumFunctionOnSet(made.plan.share, {}) = 0 /\ CapUnits \in Nat
      BY SumEmpty, SelectionAssumption
    <3>2. made.plan.candidates = {} /\ made.plan.cap[1] = 1 /\ made.plan.cap[2] = 1
      BY <2>1 DEF NoPlan
    <3>3. QED
      BY <3>1, <3>2
  <2>2. CASE made # NoPlan
    <3>1. gaps \in Mornings /\ \E rows, x : made = Plan(gaps, rows, x)
      BY <2>2 DEF PlanInv, FromScan
    <3>2. QED
      BY <3>1, ExposureIsCapped
  <2>3. QED
    BY <2>1, <2>2
<1>2. QED
  BY <1>1, PlanInvariance, PTL

\* An underlying with gaps of one sign and moderate closes has a candidate: no second
\* check, pruning, tie or split of its weight loses it.
THEOREM NoneIsLost == Spec => []EveryUnderlyingElected
<1>1. PlanInv => EveryUnderlyingElected
  <2> SUFFICES ASSUME PlanInv, Planned, NEW u \in DOMAIN made.ulGaps,
                      \A s \in made.universe :
                          Ul(s) = u => Sign(UlGap(s, gaps[s])) = Sign(made.ulGaps[u]),
                      u \in DOMAIN PriorTwoCloses({u}, store, day)
                          => Moderate(PriorTwoCloses({u}, store, day)[u],
                                      Sign(made.ulGaps[u]), Sigma[u])
               PROVE  \E s \in made.universe : Ul(s) = u /\ s \in made.plan.candidates
    BY DEF EveryUnderlyingElected
  <2>1. gaps \in Mornings /\ made = Plan(gaps, store, day)
    BY DEF PlanInv, FromStore
  <2>2. QED
    BY <2>1, UnderlyingIsElected
<1>2. QED
  BY <1>1, PlanInvariance, PTL
=============================================================================
