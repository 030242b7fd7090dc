------------------------- MODULE RestingEntries_proofs -------------------------
(***************************************************************************)
(* What holds of RestingEntries for every set of symbols, every price,     *)
(* rate, budget and limit, and any number of calls that raise: the types,  *)
(* that exit orders match the shares held until the sweep, and that the    *)
(* sweep leaves nothing.  Two invariants: the first is about orders and    *)
(* memory, the second about how each symbol gets through the sweep.        *)
(***************************************************************************)
EXTENDS RestingEntries, SumTheorems

EntryStates == {None, "working", "cancelling", "filled", "cancelled"}
EntryOrder == [st: EntryStates, filled: Nat]

OrdersTyped ==
    /\ entry \in [Symbols -> EntryOrder]
    /\ told \in [Symbols -> Nat]
    /\ legs \in [Symbols -> Nat] /\ stray \in [Symbols -> Nat]
    /\ mkt \in [Symbols -> Int] /\ held \in [Symbols -> Int] /\ seen \in [Symbols -> Int]
    /\ \A s \in Symbols : told[s] <= entry[s].filled /\ entry[s].filled <= Wanted[s]

MemoryTyped ==
    /\ todo \subseteq Symbols /\ resting \subseteq Symbols
    /\ pos \in [Symbols -> [st: {None, "open"}, shares: Nat, price: Nat]]
    /\ row \in [Symbols -> {None, "open", "closed"}]
    /\ killed \in BOOLEAN
    /\ fl \in {"idle", "exiting", "done"}
    /\ leaving \in Symbols \cup {None}
    /\ handled \subseteq Symbols /\ processed \subseteq Symbols /\ excused \subseteq Symbols
    /\ fails \in 0..MaxFails

\* A watched order can still complete; one not placed yet has no order at IB; a
\* complete fill is acted upon once, for its record is popped.
Watched ==
    /\ \A s \in resting : told[s] < Wanted[s] /\ entry[s].st \in {"working", "filled"}
    /\ \A s \in todo : entry[s].st = None /\ entry[s].filled = 0
    /\ todo \cap resting = {}
    /\ processed \cap (todo \cup resting) = {}

\* While nothing has raised: shares bought are held until the complete fill is acted
\* upon, and from then on the exits at IB are for exactly what is held.
\* ExitsMatchHoldings does not say where the shares came from, and is not inductive.
Matched(s) ==
    /\ stray[s] = 0
    /\ s \notin processed => legs[s] = 0 /\ mkt[s] = 0 /\ held[s] = entry[s].filled
    /\ s \in processed => entry[s].filled = Wanted[s] /\ legs[s] + mkt[s] = held[s]
Matching == fl = "idle" /\ fails = 0 => \A s \in Symbols : Matched(s)

RestingInv == OrdersTyped /\ MemoryTyped /\ Watched /\ Matching

\* The second invariant carries the argument about the sweep.  It rests on the first.
Unprocessed(s) == legs[s] = 0 /\ mkt[s] = 0 /\ stray[s] = 0 /\ held[s] = entry[s].filled
Exited(s) == mkt[s] = held[s] /\ (pos[s].st = None \/ leaving = s)
Protected(s) == mkt[s] = 0 /\ held[s] = pos[s].shares
SymbolSweeps(s) ==
    /\ s \notin processed /\ fl # "done" => Unprocessed(s)
    /\ s \in processed => entry[s].filled = Wanted[s]
    /\ pos[s].st = "open" => s \in processed
    /\ entry[s].st = "working" => s \in resting \cup excused /\ entry[s].filled < Wanted[s]
    /\ pos[s].st = "open" /\ legs[s] > 0 /\ s \notin handled \cup excused => Protected(s)
    /\ s \in handled \ excused => Exited(s)
    /\ fl = "done" => pos[s].st = None /\ (s \notin excused => mkt[s] = held[s])
Stages ==
    /\ fl # "idle" => resting = {} /\ todo = {}
    /\ fl = "idle" => handled = {}
    /\ fl # "exiting" => leaving = None
SweepInv == Stages /\ \A s \in Symbols : SymbolSweeps(s)

(***************************************************************************)
(* Constants and helpers.                                                  *)
(***************************************************************************)

LEMMA ConstantsTyped ==
    /\ IsFiniteSet(Symbols)
    /\ Price \in [Symbols -> Nat \ {0}] /\ Wanted \in [Symbols -> Nat \ {0}]
    /\ Slip \in Nat /\ \A s \in Symbols : Slip < Price[s]
    /\ MaxFails \in Nat
BY RestingAssumption

\* A price a fill may have is a natural number.
LEMMA PricesNatural ==
    ASSUME NEW s \in Symbols, NEW price \in FillPrices(s)
    PROVE  price \in Nat
BY ConstantsTyped DEF FillPrices

\* Calls that raise are counted, and the count keeps its bound.
LEMMA RaisesCounts ==
    ASSUME fails \in 0..MaxFails, NEW n \in Nat, Raises(n)
    PROVE  /\ fails' \in 0..MaxFails
           /\ fails' = 0 => fails = 0 /\ n = 0
BY ConstantsTyped DEF Raises

LEMMA LostCounts ==
    ASSUME NEW S \in SUBSET Symbols
    PROVE  Cardinality(S) \in Nat
BY ConstantsTyped, FS_Subset, FS_CardinalityType

\* A cancel request changes the status of working orders of its set only.
LEMMA CancelledKeeps ==
    ASSUME NEW S, entry \in [Symbols -> EntryOrder]
    PROVE  /\ Cancelled(entry, S) \in [Symbols -> EntryOrder]
           /\ \A s \in Symbols :
                /\ Cancelled(entry, S)[s].filled = entry[s].filled
                /\ s \notin S \/ entry[s].st # "working"
                       => Cancelled(entry, S)[s] = entry[s]
<1>1. ASSUME NEW s \in Symbols
      PROVE  /\ Cancelled(entry, S)[s] \in EntryOrder
             /\ Cancelled(entry, S)[s].filled = entry[s].filled
             /\ s \notin S \/ entry[s].st # "working" => Cancelled(entry, S)[s] = entry[s]
  BY DEF Cancelled, EntryOrder, EntryStates
<1>2. Cancelled(entry, S) \in [Symbols -> EntryOrder]
  BY <1>1 DEF Cancelled
<1>3. QED
  BY <1>1, <1>2

LEMMA InitResting == Init => RestingInv
<1> SUFFICES ASSUME Init
             PROVE  RestingInv
  OBVIOUS
<1>1. OrdersTyped
  BY ConstantsTyped DEF Init, OrdersTyped, EntryOrder, EntryStates
<1>2. MemoryTyped
  <2>1. pos \in [Symbols -> [st: {None, "open"}, shares: Nat, price: Nat]]
    BY DEF Init, NoPos
  <2>2. row \in [Symbols -> {None, "open", "closed"}] /\ fails \in 0..MaxFails
    BY ConstantsTyped DEF Init
  <2>3. QED
    BY <2>1, <2>2 DEF Init, MemoryTyped
<1>3. Watched
  BY DEF Init, Watched
<1>4. ASSUME NEW s \in Symbols PROVE Matched(s)
  BY ConstantsTyped DEF Init, Matched
<1>5. QED
  BY <1>1, <1>2, <1>3, <1>4 DEF RestingInv, Matching

(***************************************************************************)
(* The exchange.                                                           *)
(***************************************************************************)

\* What the exchange leaves alone keeps its type.
LEMMA MemoryKeeps ==
    ASSUME MemoryTyped, UNCHANGED <<memory, sweep, fails, processed>>, excused' \subseteq Symbols
    PROVE  MemoryTyped'
BY DEF MemoryTyped, memory, sweep

\* The entry order gains shares, and so does the account.
LEMMA EntryFillKeeps ==
    ASSUME RestingInv, NEW s \in Symbols, EntryFills(s)
    PROVE  RestingInv'
<1> USE ConstantsTyped DEF RestingInv
<1>1. PICK n \in 1..(Wanted[s] - entry[s].filled) :
          /\ entry' = [entry EXCEPT ![s].filled = @ + n,
                           ![s].st = IF entry[s].filled + n = Wanted[s] THEN "filled" ELSE @]
          /\ held' = [held EXCEPT ![s] = @ + n]
  BY DEF EntryFills
<1>2. /\ n \in Int /\ n >= 1 /\ n <= Wanted[s] - entry[s].filled
      /\ entry[s].filled \in Nat /\ entry[s] \in EntryOrder
  BY <1>1 DEF OrdersTyped, EntryOrder
<1>3. /\ entry'[s].filled = entry[s].filled + n
      /\ entry'[s].st = IF entry[s].filled + n = Wanted[s] THEN "filled" ELSE entry[s].st
      /\ entry'[s] \in EntryOrder
      /\ \A t \in Symbols : t # s => entry'[t] = entry[t] /\ held'[t] = held[t]
      /\ held'[s] = held[s] + n
  <2>1. /\ entry'[s] = [entry[s] EXCEPT !.filled = @ + n,
                            !.st = IF entry[s].filled + n = Wanted[s] THEN "filled" ELSE @]
        /\ held'[s] = held[s] + n
        /\ \A t \in Symbols : t # s => entry'[t] = entry[t] /\ held'[t] = held[t]
    BY <1>1 DEF OrdersTyped
  <2>2. entry[s].filled + n \in Nat /\ entry[s].st \in EntryStates
    BY <1>2 DEF EntryOrder
  <2>3. QED
    BY <2>1, <2>2, <1>2 DEF EntryOrder, EntryStates
<1>4. entry' \in [Symbols -> EntryOrder] /\ held' \in [Symbols -> Int]
  BY <1>1, <1>2, <1>3 DEF OrdersTyped
<1>5. /\ entry[s].st \in {"working", "cancelling"}
      /\ UNCHANGED <<told, legs, stray, mkt, memory, sweep, seen, fails, processed>>
      /\ excused' \subseteq Symbols
  BY DEF EntryFills, Against, MemoryTyped
<1>6. OrdersTyped'
  BY <1>2, <1>3, <1>4, <1>5 DEF OrdersTyped
<1>7. MemoryTyped'
  BY <1>5, MemoryKeeps
<1>8. s \notin todo /\ UNCHANGED <<todo, resting, fl>>
  BY <1>5 DEF Watched, memory, sweep, None
<1>9. Watched'
  BY <1>2, <1>3, <1>5, <1>8 DEF Watched, MemoryTyped
<1>10. Matching'
  <2> SUFFICES ASSUME fl' = "idle" /\ fails' = 0, NEW t \in Symbols
               PROVE  Matched(t)'
    BY DEF Matching
  <2>1. Matched(t)
    BY <1>5, <1>8 DEF Matching
  <2>2. CASE t = s
    BY <2>1, <2>2, <1>2, <1>3, <1>5 DEF Matched, OrdersTyped
  <2>3. CASE t # s
    BY <2>1, <2>3, <1>3, <1>5 DEF Matched
  <2>4. QED
    BY <2>2, <2>3
<1>11. QED
  BY <1>6, <1>7, <1>9, <1>10

LEMMA EntryCancelKeeps ==
    ASSUME RestingInv, NEW s \in Symbols, EntryCancelled(s)
    PROVE  RestingInv'
<1> USE ConstantsTyped DEF RestingInv
<1>1. /\ entry[s].st = "cancelling" /\ entry[s] \in EntryOrder
      /\ entry' = [entry EXCEPT ![s].st = "cancelled"]
      /\ UNCHANGED <<told, legs, stray, mkt, held, memory, sweep, seen, excused, fails, processed>>
  BY DEF EntryCancelled, OrdersTyped
<1>2. /\ entry'[s].filled = entry[s].filled /\ entry'[s] \in EntryOrder
      /\ \A t \in Symbols : t # s => entry'[t] = entry[t]
      /\ \A t \in Symbols : entry'[t].filled = entry[t].filled
  BY <1>1 DEF OrdersTyped, EntryOrder, EntryStates
<1>3. entry' \in [Symbols -> EntryOrder]
  BY <1>1, <1>2 DEF OrdersTyped
<1>4. OrdersTyped'
  BY <1>1, <1>2, <1>3 DEF OrdersTyped
<1>5. MemoryTyped'
  BY <1>1, MemoryKeeps DEF MemoryTyped
<1>6. s \notin todo /\ s \notin resting /\ UNCHANGED <<todo, resting, fl>>
  BY <1>1 DEF Watched, memory, sweep, None
<1>7. Watched'
  BY <1>1, <1>2, <1>6 DEF Watched, MemoryTyped
<1>8. Matching'
  BY <1>1, <1>2, <1>6 DEF Matching, Matched
<1>9. QED
  BY <1>4, <1>5, <1>7, <1>8

\* The other moves of the exchange leave the entry order alone, take shares from an
\* exit and from the account alike, and touch nothing that ends before the sweep.
LEMMA ExitMovesKeep ==
    ASSUME RestingInv, NEW s \in Symbols,
           MarketFills(s) \/ LegFills(s) \/ LegsCancelled(s) \/ StrayFills(s)
    PROVE  RestingInv'
<1> USE ConstantsTyped DEF RestingInv
<1>1. /\ UNCHANGED <<entry, told, memory, sweep, seen, fails, processed>>
      /\ excused' \subseteq Symbols
      /\ legs' \in [Symbols -> Nat] /\ stray' \in [Symbols -> Nat]
      /\ mkt' \in [Symbols -> Int] /\ held' \in [Symbols -> Int]
      /\ \A t \in Symbols :
            t # s => legs'[t] = legs[t] /\ stray'[t] = stray[t]
                     /\ mkt'[t] = mkt[t] /\ held'[t] = held[t]
  <2>1. CASE MarketFills(s)
    BY <2>1 DEF MarketFills, OrdersTyped, MemoryTyped
  <2>2. CASE LegFills(s)
    BY <2>2 DEF LegFills, Against, OrdersTyped, MemoryTyped
  <2>3. CASE LegsCancelled(s)
    BY <2>3 DEF LegsCancelled, OrdersTyped, MemoryTyped
  <2>4. CASE StrayFills(s)
    BY <2>4 DEF StrayFills, OrdersTyped, MemoryTyped
  <2>5. QED
    BY <2>1, <2>2, <2>3, <2>4
<1>2. OrdersTyped'
  BY <1>1 DEF OrdersTyped
<1>3. MemoryTyped'
  BY <1>1, MemoryKeeps
<1>4. UNCHANGED <<todo, resting, fl>>
  BY <1>1 DEF memory, sweep
<1>5. Watched'
  BY <1>1, <1>4 DEF Watched, MemoryTyped
<1>6. Matching'
  <2> SUFFICES ASSUME fl' = "idle" /\ fails' = 0, NEW t \in Symbols
               PROVE  Matched(t)'
    BY DEF Matching
  <2>1. Matched(t)
    BY <1>1, <1>4 DEF Matching
  <2>2. CASE t # s
    BY <2>1, <2>2, <1>1 DEF Matched
  <2>3. CASE t = s
    <3>1. Matched(s) /\ fl = "idle"
      BY <2>1, <2>3, <1>4
    <3>2. legs[s] \in Nat /\ mkt[s] \in Int /\ held[s] \in Int
      BY DEF OrdersTyped
    <3>3. CASE MarketFills(s)
      <4>1. /\ mkt[s] # 0 /\ mkt'[s] = 0 /\ held'[s] = held[s] - mkt[s]
            /\ legs'[s] = legs[s] /\ stray'[s] = stray[s]
        BY <3>3 DEF MarketFills, OrdersTyped
      <4>2. QED
        BY <4>1, <3>1, <3>2, <2>3, <1>1 DEF Matched
    <3>4. CASE LegFills(s)
      <4>1. /\ legs[s] > 0 /\ legs'[s] = 0 /\ held'[s] = held[s] - legs[s]
            /\ mkt'[s] = mkt[s] /\ stray'[s] = stray[s]
        BY <3>4 DEF LegFills, OrdersTyped
      <4>2. QED
        BY <4>1, <3>1, <3>2, <2>3, <1>1 DEF Matched
    <3>5. CASE LegsCancelled(s)
      BY <3>5, <3>1 DEF LegsCancelled, Left
    <3>6. CASE StrayFills(s)
      BY <3>6, <3>1 DEF StrayFills, Matched
    <3>7. QED
      BY <3>3, <3>4, <3>5, <3>6
  <2>4. QED
    BY <2>2, <2>3
<1>7. QED
  BY <1>2, <1>3, <1>5, <1>6

LEMMA ExchangeKeeps ==
    ASSUME RestingInv, NEW s \in Symbols, Exchange(s)
    PROVE  RestingInv'
BY EntryFillKeeps, EntryCancelKeeps, ExitMovesKeep DEF Exchange

(***************************************************************************)
(* Placing and callbacks.                                                  *)
(***************************************************************************)

LEMMA PlacingKeeps ==
    ASSUME RestingInv, NEW s \in Symbols, Place(s) \/ PlaceFails(s)
    PROVE  RestingInv'
<1> USE ConstantsTyped DEF RestingInv
<1>1. CASE Place(s)
  <2>1. /\ s \in todo /\ todo' = todo \ {s} /\ resting' = resting \cup {s}
        /\ entry' = [entry EXCEPT ![s] = [st |-> "working", filled |-> 0]]
        /\ UNCHANGED <<told, legs, stray, mkt, held, pos, row, killed, sweep, seen,
                       excused, fails, processed>>
    BY <1>1 DEF Place, StopLimit
  <2>2. /\ entry'[s] = [st |-> "working", filled |-> 0]
        /\ \A t \in Symbols : t # s => entry'[t] = entry[t]
        /\ entry' \in [Symbols -> EntryOrder]
    BY <2>1 DEF OrdersTyped, EntryOrder, EntryStates
  <2>3. entry[s].filled = 0 /\ told[s] = 0 /\ s \notin processed
    BY <2>1 DEF Watched, OrdersTyped
  <2>4. OrdersTyped'
    BY <2>1, <2>2, <2>3 DEF OrdersTyped
  <2>5. MemoryTyped'
    BY <2>1 DEF MemoryTyped, sweep
  <2>6. Watched'
    BY <2>1, <2>2, <2>3 DEF Watched, MemoryTyped
  <2>7. Matching'
    BY <2>1, <2>2, <2>3 DEF Matching, Matched, sweep
  <2>8. QED
    BY <2>4, <2>5, <2>6, <2>7
<1>2. CASE PlaceFails(s)
  <2>1. /\ todo' = todo \ {s}
        /\ UNCHANGED <<entry, told, legs, stray, mkt, held, resting, pos, row, killed,
                       fl, leaving, handled, seen, excused, fails, processed>>
    BY <1>2 DEF PlaceFails, orders, sweep
  <2>2. OrdersTyped' /\ MemoryTyped'
    BY <2>1 DEF OrdersTyped, MemoryTyped
  <2>3. Watched' /\ Matching'
    BY <2>1 DEF Watched, Matching, Matched
  <2>4. QED
    BY <2>2, <2>3
<1>3. QED
  BY <1>1, <1>2

\* The process is told of shares; nothing at IB moves.
LEMMA ToldKeeps ==
    ASSUME RestingInv, NEW s \in Symbols, PortfolioUpdate(s) \/ FillIgnored(s)
    PROVE  RestingInv'
<1> USE ConstantsTyped DEF RestingInv
<1>1. /\ UNCHANGED <<entry, legs, stray, mkt, held, memory, sweep, excused, fails, processed>>
      /\ seen' \in [Symbols -> Int] /\ told' \in [Symbols -> Nat]
      /\ \A t \in Symbols : told'[t] <= entry[t].filled
      /\ \A t \in resting : told'[t] < Wanted[t]
  <2>1. CASE PortfolioUpdate(s)
    BY <2>1 DEF PortfolioUpdate, orders, OrdersTyped, Watched
  <2>2. CASE FillIgnored(s)
    <3>1. entry[s].filled \in Nat
      BY DEF OrdersTyped, EntryOrder
    <3>2. entry[s].filled <= Wanted[s] /\ Wanted[s] \in Nat
      BY DEF OrdersTyped
    <3>3. /\ told' = [told EXCEPT ![s] = entry[s].filled]
          /\ s \notin resting \/ entry[s].filled < Wanted[s]
          /\ UNCHANGED <<entry, legs, stray, mkt, held, memory, sweep, seen, excused, fails,
                         processed>>
      BY <2>2 DEF FillIgnored, Told
    <3>4. QED
      BY <3>1, <3>2, <3>3 DEF OrdersTyped, Watched, MemoryTyped
  <2>3. QED
    BY <2>1, <2>2
<1>2. UNCHANGED <<todo, resting, fl>>
  BY <1>1 DEF memory, sweep
<1>3. OrdersTyped'
  BY <1>1 DEF OrdersTyped
<1>4. MemoryTyped'
  BY <1>1, MemoryKeeps DEF MemoryTyped
<1>5. Watched' /\ Matching'
  BY <1>1, <1>2 DEF Watched, Matching, Matched
<1>6. QED
  BY <1>3, <1>4, <1>5

\* A bar or the sweep books a position: no order moves.
LEMMA BookingKeeps ==
    ASSUME RestingInv, FlattenBook \/ \E s \in Symbols : ExitNoticed(s)
    PROVE  RestingInv'
<1> USE ConstantsTyped DEF RestingInv
<1>1. /\ UNCHANGED <<entry, told, legs, stray, mkt, held, todo, resting, fl, handled, seen,
                     processed, excused, fails>>
      /\ killed' \in BOOLEAN /\ leaving' \in Symbols \cup {None}
      /\ pos' \in [Symbols -> [st: {None, "open"}, shares: Nat, price: Nat]]
      /\ row' \in [Symbols -> {None, "open", "closed"}]
  <2>1. NoPos \in [st: {None, "open"}, shares: Nat, price: Nat]
    BY DEF NoPos
  <2>2. CASE FlattenBook
    <3>1. /\ pos' = [pos EXCEPT ![leaving] = NoPos] /\ row' = [row EXCEPT ![leaving] = None]
          /\ leaving' = None /\ killed' \in {killed, TRUE}
      BY <2>2 DEF FlattenBook
    <3>2. /\ pos' \in [Symbols -> [st: {None, "open"}, shares: Nat, price: Nat]]
          /\ row' \in [Symbols -> {None, "open", "closed"}]
      BY <2>1, <3>1 DEF MemoryTyped
    <3>3. killed' \in BOOLEAN
      BY <3>1 DEF MemoryTyped
    <3>4. QED
      BY <2>2, <3>1, <3>2, <3>3 DEF FlattenBook, orders
  <2>3. CASE \E s \in Symbols : ExitNoticed(s)
    <3>1. PICK s \in Symbols : ExitNoticed(s)
      BY <2>3
    <3>2. /\ pos' = [pos EXCEPT ![s] = NoPos] /\ row' = [row EXCEPT ![s] = None]
          /\ killed' \in {killed, TRUE}
      BY <3>1 DEF ExitNoticed
    <3>3. /\ pos' \in [Symbols -> [st: {None, "open"}, shares: Nat, price: Nat]]
          /\ row' \in [Symbols -> {None, "open", "closed"}]
      BY <2>1, <3>2 DEF MemoryTyped
    <3>4. killed' \in BOOLEAN
      BY <3>2 DEF MemoryTyped
    <3>5. QED
      BY <3>1, <3>3, <3>4 DEF ExitNoticed, orders, sweep, MemoryTyped
  <2>4. QED
    BY <2>2, <2>3
<1>2. OrdersTyped' /\ MemoryTyped'
  BY <1>1 DEF OrdersTyped, MemoryTyped
<1>3. Watched' /\ Matching'
  BY <1>1 DEF Watched, Matching, Matched
<1>4. QED
  BY <1>2, <1>3

(***************************************************************************)
(* The complete fill.                                                      *)
(***************************************************************************)

\* Before its fill is acted upon, a watched order has every share it bought.
LEMMA CompleteFill ==
    ASSUME RestingInv, NEW s \in Symbols, FillCompletes(s)
    PROVE  /\ s \in resting /\ s \notin todo /\ s \notin processed
           /\ entry[s].filled = Wanted[s]
           /\ Wanted[s] \in Nat /\ told' \in [Symbols -> Nat]
           /\ \A t \in Symbols : told'[t] <= entry[t].filled
           /\ \A t \in Symbols : t # s => told'[t] = told[t]
<1>1. s \in resting /\ entry[s].filled = Wanted[s] /\ told' = [told EXCEPT ![s] = entry[s].filled]
  BY DEF FillCompletes, Told
<1>2. Wanted[s] \in Nat
  BY ConstantsTyped
<1>3. s \notin todo /\ s \notin processed
  BY <1>1 DEF RestingInv, Watched
<1>4. QED
  BY <1>1, <1>2, <1>3 DEF RestingInv, OrdersTyped

LEMMA AcceptedKeeps ==
    ASSUME RestingInv, NEW s \in Symbols, FillAccepted(s)
    PROVE  RestingInv'
<1> USE ConstantsTyped DEF RestingInv
<1>0. FillCompletes(s)
  BY DEF FillAccepted
<1>1. PICK price \in FillPrices(s), cut \in SUBSET (resting \ {s}), lost \in SUBSET resting :
          /\ lost \subseteq cut
          /\ pos' = [pos EXCEPT ![s] = [st |-> "open", shares |-> Wanted[s], price |-> price]]
          /\ resting' = resting \ (cut \cup {s})
          /\ entry' = Cancelled(entry, cut \ lost)
          /\ excused' = excused \cup lost
          /\ Raises(Cardinality(lost))
  <2>1. PICK price \in FillPrices(s) :
            /\ pos' = [pos EXCEPT ![s] = [st |-> "open", shares |-> Wanted[s], price |-> price]]
            /\ LET cut == Unaffordable(Budget - Committed - Rate[s] * price * Wanted[s]) \ {s}
               IN  /\ resting' = Popped(cut \cup {s})
                   /\ \E lost \in SUBSET cut :
                        /\ entry' = Cancelled(entry, cut \ lost)
                        /\ excused' = excused \cup lost
                        /\ Raises(Cardinality(lost))
    BY DEF FillAccepted
  <2> DEFINE gone == Unaffordable(Budget - Committed - Rate[s] * price * Wanted[s]) \ {s}
  <2>2. gone \in SUBSET (resting \ {s})
    BY DEF Unaffordable
  <2>3. resting' = resting \ (gone \cup {s})
    BY <2>1 DEF Popped
  <2>4. PICK lost \in SUBSET gone : /\ entry' = Cancelled(entry, gone \ lost)
                                   /\ excused' = excused \cup lost
                                   /\ Raises(Cardinality(lost))
    BY <2>1
  <2> HIDE DEF gone
  <2>5. QED
    BY <2>1, <2>2, <2>3, <2>4
<1>2. /\ processed' = processed \cup {s}
      /\ row' = [row EXCEPT ![s] = "open"]
      /\ legs' = [legs EXCEPT ![s] = Wanted[s]] /\ UNCHANGED stray
      /\ UNCHANGED <<mkt, held, todo, killed, sweep, seen>>
  BY DEF FillAccepted, PairPlaced
<1>3. /\ entry' \in [Symbols -> EntryOrder]
      /\ \A t \in Symbols : entry'[t].filled = entry[t].filled
      /\ \A t \in Symbols : t \notin cut => entry'[t] = entry[t]
  BY <1>1, CancelledKeeps DEF OrdersTyped
<1>4. /\ s \in resting /\ s \notin todo /\ s \notin processed
      /\ entry[s].filled = Wanted[s] /\ Wanted[s] \in Nat /\ told' \in [Symbols -> Nat]
      /\ \A t \in Symbols : told'[t] <= entry[t].filled
      /\ \A t \in Symbols : t # s => told'[t] = told[t]
  BY <1>0, CompleteFill
<1>5. fails' \in 0..MaxFails /\ (fails' = 0 => fails = 0)
  <2>1. lost \in SUBSET Symbols
    BY <1>1 DEF MemoryTyped
  <2>2. Cardinality(lost) \in Nat
    BY <2>1, LostCounts
  <2>3. QED
    BY <1>1, <2>2, RaisesCounts DEF MemoryTyped
<1>6. OrdersTyped'
  BY <1>2, <1>3, <1>4 DEF OrdersTyped
<1>7. MemoryTyped'
  <2>1. price \in Nat
    BY <1>1, PricesNatural
  <2>2. pos' \in [Symbols -> [st: {None, "open"}, shares: Nat, price: Nat]]
    BY <1>1, <1>4, <2>1 DEF MemoryTyped
  <2>3. row' \in [Symbols -> {None, "open", "closed"}]
    BY <1>2 DEF MemoryTyped
  <2>4. resting' \subseteq Symbols /\ excused' \subseteq Symbols /\ processed' \subseteq Symbols
    BY <1>1, <1>2 DEF MemoryTyped
  <2>5. UNCHANGED <<todo, killed, fl, leaving, handled>>
    BY <1>2 DEF sweep
  <2>6. QED
    BY <2>2, <2>3, <2>4, <2>5, <1>5 DEF MemoryTyped
<1>8. Watched'
  <2>1. \A t \in resting' : t \in resting /\ t # s /\ entry'[t] = entry[t] /\ told'[t] = told[t]
    BY <1>1, <1>3, <1>4 DEF MemoryTyped
  <2>2. \A t \in todo' : t \in todo /\ entry'[t] = entry[t]
    BY <1>1, <1>2, <1>3 DEF MemoryTyped, Watched
  <2>3. \A t \in processed' : t \notin todo' /\ t \notin resting'
    BY <1>1, <1>2, <1>4 DEF Watched
  <2>4. QED
    BY <2>1, <2>2, <2>3 DEF Watched
<1>9. Matching'
  <2> SUFFICES ASSUME fl' = "idle" /\ fails' = 0, NEW t \in Symbols
               PROVE  Matched(t)'
    BY DEF Matching
  <2>1. Matched(t)
    BY <1>2, <1>5 DEF Matching, sweep
  <2>2. CASE t = s
    BY <2>1, <2>2, <1>2, <1>3, <1>4 DEF Matched, OrdersTyped
  <2>3. CASE t # s
    BY <2>1, <2>3, <1>2, <1>3 DEF Matched, OrdersTyped
  <2>4. QED
    BY <2>2, <2>3
<1>10. QED
  BY <1>6, <1>7, <1>8, <1>9

\* The fill is not kept: its shares are sold, or a call has raised.
LEMMA NotKeptKeeps ==
    ASSUME RestingInv, NEW s \in Symbols, FillReversed(s) \/ FillUnprotected(s)
    PROVE  RestingInv'
<1> USE ConstantsTyped DEF RestingInv
<1>1. /\ FillCompletes(s)
      /\ processed' = processed \cup {s} /\ resting' = resting \ {s}
      /\ UNCHANGED <<entry, legs, held, todo, pos, killed, sweep, seen>>
      /\ \E n \in {0, 1} : SellsFill(s, n) /\ (n = 0 => UNCHANGED stray)
  BY DEF FillReversed, FillUnprotected, Popped, PairFails
<1>2. /\ stray' \in [Symbols -> Nat] /\ row' \in [Symbols -> {None, "open", "closed"}]
  <2>1. Wanted[s] \in Nat
    OBVIOUS
  <2>2. CASE FillReversed(s)
    BY <2>2 DEF FillReversed, OrdersTyped, MemoryTyped
  <2>3. CASE FillUnprotected(s)
    BY <2>1, <2>3 DEF FillUnprotected, PairFails, OrdersTyped, MemoryTyped
  <2>4. QED
    BY <2>2, <2>3
<1>3. /\ s \in resting /\ s \notin todo /\ s \notin processed
      /\ entry[s].filled = Wanted[s] /\ Wanted[s] \in Nat /\ told' \in [Symbols -> Nat]
      /\ \A t \in Symbols : told'[t] <= entry[t].filled
      /\ \A t \in Symbols : t # s => told'[t] = told[t]
  BY <1>1, CompleteFill
<1>4. /\ mkt' \in [Symbols -> Int] /\ excused' \subseteq Symbols /\ fails' \in 0..MaxFails
      /\ fails' = 0 => fails = 0 /\ UNCHANGED stray /\ mkt' = [mkt EXCEPT ![s] = @ + Wanted[s]]
  <2>1. PICK n \in {0, 1} : SellsFill(s, n) /\ (n = 0 => UNCHANGED stray)
    BY <1>1
  <2>2. CASE Raises(n) /\ mkt' = [mkt EXCEPT ![s] = @ + Wanted[s]] /\ UNCHANGED excused
    BY <2>1, <2>2, <1>3, RaisesCounts DEF OrdersTyped, MemoryTyped
  <2>3. CASE Raises(n + 1) /\ excused' = excused \cup {s} /\ UNCHANGED mkt
    BY <2>1, <2>3, RaisesCounts DEF OrdersTyped, MemoryTyped
  <2>4. QED
    BY <2>1, <2>2, <2>3 DEF SellsFill
<1>5. OrdersTyped'
  BY <1>1, <1>2, <1>3, <1>4 DEF OrdersTyped
<1>6. MemoryTyped'
  BY <1>1, <1>2, <1>4 DEF MemoryTyped, sweep
<1>7. Watched'
  BY <1>1, <1>3 DEF Watched, MemoryTyped
<1>8. Matching'
  <2> SUFFICES ASSUME fl' = "idle" /\ fails' = 0, NEW t \in Symbols
               PROVE  Matched(t)'
    BY DEF Matching
  <2>1. Matched(t)
    BY <1>1, <1>4 DEF Matching, sweep
  <2>2. CASE t = s
    BY <2>1, <2>2, <1>1, <1>3, <1>4 DEF Matched, OrdersTyped
  <2>3. CASE t # s
    BY <2>1, <2>3, <1>1, <1>4 DEF Matched, OrdersTyped
  <2>4. QED
    BY <2>2, <2>3
<1>9. QED
  BY <1>5, <1>6, <1>7, <1>8

(***************************************************************************)
(* flatten_all.                                                            *)
(***************************************************************************)

LEMMA FlattenStartKeeps ==
    ASSUME RestingInv, FlattenStart
    PROVE  RestingInv'
<1> USE ConstantsTyped DEF RestingInv
<1>1. /\ fl' = "exiting" /\ resting' = {}
      /\ UNCHANGED <<told, legs, stray, mkt, held, todo, pos, row, killed, leaving,
                     handled, seen, processed>>
  BY DEF FlattenStart, Popped
<1>2. PICK lost \in SUBSET resting : /\ entry' = Cancelled(entry, resting \ lost)
                                    /\ excused' = excused \cup lost
                                    /\ Raises(Cardinality(lost))
  BY DEF FlattenStart, SweepCancels
<1>3. lost \in SUBSET Symbols
  BY <1>2 DEF MemoryTyped
<1>4. Cardinality(lost) \in Nat
  BY <1>3, LostCounts
<1>5. fails' \in 0..MaxFails
  BY <1>2, <1>4, RaisesCounts DEF MemoryTyped
<1>6. /\ entry' \in [Symbols -> EntryOrder]
      /\ \A t \in Symbols : entry'[t].filled = entry[t].filled
      /\ \A t \in Symbols : t \notin resting => entry'[t] = entry[t]
  BY <1>2, CancelledKeeps DEF OrdersTyped
<1>7. OrdersTyped'
  BY <1>1, <1>6 DEF OrdersTyped
<1>8. MemoryTyped'
  BY <1>1, <1>2, <1>3, <1>5 DEF MemoryTyped
<1>9. Watched'
  <2>1. \A t \in todo : t \in Symbols /\ t \notin resting
    BY DEF Watched, MemoryTyped
  <2>2. QED
    BY <1>1, <1>6, <2>1 DEF Watched
<1>10. Matching'
  BY <1>1 DEF Matching
<1>11. QED
  BY <1>7, <1>8, <1>9, <1>10

LEMMA FlattenExitKeeps ==
    ASSUME RestingInv, NEW s \in Symbols, FlattenExit(s)
    PROVE  RestingInv'
<1> USE ConstantsTyped DEF RestingInv
<1>1. /\ fl = "exiting" /\ leaving' = s
      /\ UNCHANGED <<entry, told, legs, stray, held, memory, fl, seen, processed>>
      /\ excused' \subseteq Symbols
  BY DEF FlattenExit, Against, MemoryTyped
<1>2. ExitShares(s) \in Int
  <2>1. seen[s] \in Int /\ pos[s].shares \in Nat
    BY DEF OrdersTyped, MemoryTyped
  <2>2. QED
    BY <2>1 DEF ExitShares, Least, AbsShares
<1>3. /\ mkt' \in [Symbols -> Int] /\ handled' \subseteq Symbols /\ fails' \in 0..MaxFails
  <2>1. CASE /\ Raises(0)
             /\ mkt' = [mkt EXCEPT ![s] = @ + ExitShares(s)] /\ handled' = handled \cup {s}
    BY <2>1, <1>2, RaisesCounts DEF OrdersTyped, MemoryTyped
  <2>2. CASE Raises(1) /\ UNCHANGED <<mkt, handled>>
    BY <2>2, RaisesCounts DEF OrdersTyped, MemoryTyped
  <2>3. QED
    BY <2>1, <2>2 DEF FlattenExit
<1>4. OrdersTyped'
  BY <1>1, <1>3 DEF OrdersTyped
<1>5. MemoryTyped'
  BY <1>1, <1>3 DEF MemoryTyped, memory
<1>6. Watched' /\ Matching'
  BY <1>1 DEF Watched, Matching, memory
<1>7. QED
  BY <1>4, <1>5, <1>6

LEMMA FlattenResidualKeeps ==
    ASSUME RestingInv, FlattenResidual
    PROVE  RestingInv'
<1> USE ConstantsTyped DEF RestingInv
<1>1. /\ fl' = "done"
      /\ UNCHANGED <<entry, told, legs, stray, held, memory, leaving, handled, seen, processed>>
  BY DEF FlattenResidual
<1>2. PICK lost \in SUBSET Residual :
          /\ Raises(Cardinality(lost))
          /\ mkt' = [s \in Symbols |-> mkt[s] + (IF s \in Residual \ lost THEN seen[s] ELSE 0)]
          /\ excused' = excused \cup lost \cup
                          {s \in Symbols \ handled :
                              seen[s] # held[s] \/ mkt[s] # 0 \/ legs[s] > 0 \/ stray[s] > 0}
  BY DEF FlattenResidual
<1>3. lost \in SUBSET Symbols
  BY <1>2 DEF Residual
<1>4. Cardinality(lost) \in Nat
  BY <1>3, LostCounts
<1>5. fails' \in 0..MaxFails
  BY <1>2, <1>4, RaisesCounts DEF MemoryTyped
<1>6. mkt' \in [Symbols -> Int]
  BY <1>2 DEF OrdersTyped
<1>7. OrdersTyped'
  BY <1>1, <1>6 DEF OrdersTyped
<1>8. MemoryTyped'
  BY <1>1, <1>2, <1>3, <1>5 DEF MemoryTyped, memory
<1>9. Watched' /\ Matching'
  BY <1>1 DEF Watched, Matching, memory
<1>10. QED
  BY <1>7, <1>8, <1>9

LEMMA StepKeeps == RestingInv /\ [Next]_vars => RestingInv'
<1> SUFFICES ASSUME RestingInv, [Next]_vars
             PROVE  RestingInv'
  OBVIOUS
<1>1. ASSUME NEW s \in Symbols,
             \/ Exchange(s) \/ Place(s) \/ PlaceFails(s) \/ PortfolioUpdate(s)
             \/ FillIgnored(s) \/ FillAccepted(s) \/ FillReversed(s) \/ FillUnprotected(s)
             \/ ExitNoticed(s) \/ FlattenExit(s)
      PROVE  RestingInv'
  BY <1>1, ExchangeKeeps, PlacingKeeps, ToldKeeps, AcceptedKeeps, NotKeptKeeps,
     BookingKeeps, FlattenExitKeeps
<1>2. CASE FlattenStart \/ FlattenBook \/ FlattenResidual
  BY <1>2, FlattenStartKeeps, BookingKeeps, FlattenResidualKeeps
<1>3. CASE Done \/ UNCHANGED vars
  <2>1. UNCHANGED <<entry, told, legs, stray, mkt, held, todo, resting, pos, row, killed,
                    fl, leaving, handled, seen, processed, excused, fails>>
    BY <1>3 DEF Done, vars, orders, memory, sweep
  <2>2. OrdersTyped' /\ MemoryTyped'
    BY <2>1 DEF RestingInv, OrdersTyped, MemoryTyped
  <2>3. Watched' /\ Matching'
    BY <2>1 DEF RestingInv, Watched, Matching, Matched
  <2>4. QED
    BY <2>2, <2>3 DEF RestingInv
<1>4. QED
  BY <1>1, <1>2, <1>3 DEF Next

(***************************************************************************)
(* The second invariant.                                                   *)
(***************************************************************************)

LEMMA InitSweep == Init => SweepInv
<1> SUFFICES ASSUME Init
             PROVE  SweepInv
  OBVIOUS
<1>1. Stages
  BY DEF Init, Stages
<1>2. ASSUME NEW s \in Symbols PROVE SymbolSweeps(s)
  BY DEF Init, SymbolSweeps, Unprocessed, NoPos, None
<1>3. QED
  BY <1>1, <1>2 DEF SweepInv

\* A step that leaves the orders and the position of a symbol alone keeps what is said
\* of it; that it may be excused only weakens it.
LEMMA OtherSymbol ==
    ASSUME NEW t \in Symbols, SymbolSweeps(t),
           /\ entry'[t] = entry[t] /\ legs'[t] = legs[t] /\ stray'[t] = stray[t]
           /\ mkt'[t] = mkt[t] /\ held'[t] = held[t] /\ pos'[t] = pos[t],
           t \in processed' <=> t \in processed,
           t \in handled' <=> t \in handled,
           excused \subseteq excused',
           t \in resting => t \in resting' \/ t \in excused',
           UNCHANGED <<fl, leaving>>
    PROVE  SymbolSweeps(t)'
BY DEF SymbolSweeps, Unprocessed, Exited, Protected

\* What the invariant says of one symbol's numbers.
LEMMA NumbersTyped ==
    ASSUME RestingInv, NEW s \in Symbols
    PROVE  /\ legs[s] \in Nat /\ stray[s] \in Nat /\ mkt[s] \in Int /\ held[s] \in Int
           /\ seen[s] \in Int /\ entry[s].filled \in Nat /\ Wanted[s] \in Nat
           /\ pos[s].shares \in Nat /\ entry[s].filled <= Wanted[s]
           /\ pos[s].st \in {None, "open"}
BY ConstantsTyped DEF RestingInv, OrdersTyped, MemoryTyped, EntryOrder

LEMMA EntryFillSweeps ==
    ASSUME RestingInv, SweepInv, NEW s \in Symbols, EntryFills(s)
    PROVE  SweepInv'
<1>1. PICK n \in 1..(Wanted[s] - entry[s].filled) :
          /\ entry' = [entry EXCEPT ![s].filled = @ + n,
                           ![s].st = IF entry[s].filled + n = Wanted[s] THEN "filled" ELSE @]
          /\ held' = [held EXCEPT ![s] = @ + n]
  BY DEF EntryFills
<1>2. n \in Nat /\ n >= 1 /\ n <= Wanted[s] - entry[s].filled
  BY <1>1, NumbersTyped
<1>3. /\ entry'[s].filled = entry[s].filled + n
      /\ entry'[s].st \in {entry[s].st, "filled"}
      /\ entry'[s].st = "working" => entry'[s].filled < Wanted[s]
      /\ held'[s] = held[s] + n
      /\ \A t \in Symbols : t # s => entry'[t] = entry[t] /\ held'[t] = held[t]
  <2>1. entry'[s] = [entry[s] EXCEPT !.filled = @ + n,
                          !.st = IF entry[s].filled + n = Wanted[s] THEN "filled" ELSE @]
    BY <1>1 DEF RestingInv, OrdersTyped
  <2>2. entry[s] \in [st: EntryStates, filled: Nat]
    BY DEF RestingInv, OrdersTyped, EntryOrder
  <2>3. /\ entry'[s].filled = entry[s].filled + n
        /\ entry'[s].st = IF entry[s].filled + n = Wanted[s] THEN "filled" ELSE entry[s].st
    BY <2>1, <2>2
  <2>4. entry[s].filled + n # Wanted[s] => entry[s].filled + n < Wanted[s]
    BY <1>2, NumbersTyped
  <2>5. /\ held'[s] = held[s] + n
        /\ \A t \in Symbols : t # s => entry'[t] = entry[t] /\ held'[t] = held[t]
    BY <1>1 DEF RestingInv, OrdersTyped
  <2>6. QED
    BY <2>3, <2>4, <2>5
<1>4. /\ UNCHANGED <<legs, stray, mkt, pos, resting, todo, fl, leaving, handled, processed>>
      /\ excused \subseteq excused'
      /\ fl # "idle" /\ entry[s].st = "cancelling" => s \in excused'
      /\ entry[s].st \in {"working", "cancelling"}
  BY DEF EntryFills, Against, memory, sweep
<1>5. Stages'
  BY <1>4 DEF SweepInv, Stages
<1>6. ASSUME NEW t \in Symbols, t # s PROVE SymbolSweeps(t)'
  BY <1>3, <1>4, <1>6, OtherSymbol DEF SweepInv
<1>7. SymbolSweeps(s)'
  <2>1. s \notin processed
    BY <1>2, NumbersTyped DEF SweepInv, SymbolSweeps
  <2>2. fl # "idle" => s \in excused'
    BY <1>4 DEF SweepInv, SymbolSweeps, Stages
  <2>3. fl = "idle" => s \notin handled /\ fl # "done"
    BY DEF SweepInv, Stages
  <2>4. fl # "done" => Unprocessed(s)'
    BY <1>2, <1>3, <1>4, <2>1, NumbersTyped DEF SweepInv, SymbolSweeps, Unprocessed
  <2>5. entry'[s].st = "working" => s \in resting' \cup excused' /\ entry'[s].filled < Wanted[s]
    BY <1>3, <1>4 DEF SweepInv, SymbolSweeps
  <2>6. pos[s].st # "open"
    BY <2>1 DEF SweepInv, SymbolSweeps
  <2>7. fl = "done" => pos[s].st = None
    BY DEF SweepInv, SymbolSweeps
  <2>8. QED
    BY <1>4, <2>1, <2>2, <2>3, <2>4, <2>5, <2>6, <2>7 DEF SymbolSweeps
<1>8. QED
  BY <1>5, <1>6, <1>7 DEF SweepInv

LEMMA EntryCancelSweeps ==
    ASSUME RestingInv, SweepInv, NEW s \in Symbols, EntryCancelled(s)
    PROVE  SweepInv'
<1>1. /\ entry' = [entry EXCEPT ![s].st = "cancelled"]
      /\ UNCHANGED <<legs, stray, mkt, held, pos, resting, todo, fl, leaving, handled,
                     processed, excused>>
  BY DEF EntryCancelled, memory, sweep
<1>2. /\ entry'[s].filled = entry[s].filled /\ entry'[s].st = "cancelled"
      /\ \A t \in Symbols : t # s => entry'[t] = entry[t]
  BY <1>1 DEF RestingInv, OrdersTyped, EntryOrder
<1>3. ASSUME NEW t \in Symbols PROVE SymbolSweeps(t)'
  <2>1. CASE t = s
    BY <1>1, <1>2, <2>1 DEF SweepInv, SymbolSweeps, Unprocessed, Exited, Protected
  <2>2. CASE t # s
    BY <1>1, <1>2, <2>2, OtherSymbol DEF SweepInv
  <2>3. QED
    BY <2>1, <2>2
<1>4. QED
  BY <1>1, <1>3 DEF SweepInv, Stages

\* A market exit fills where mkt is not zero: the symbol's fill was acted upon, or the
\* sweep is over; a leg that fills during the sweep is excused.
LEMMA ExitMovesSweep ==
    ASSUME RestingInv, SweepInv, NEW s \in Symbols,
           MarketFills(s) \/ LegFills(s) \/ LegsCancelled(s) \/ StrayFills(s)
    PROVE  SweepInv'
<1>1. /\ UNCHANGED <<entry, pos, resting, todo, fl, leaving, handled, processed>>
      /\ excused \subseteq excused'
      /\ \A t \in Symbols :
            t # s => legs'[t] = legs[t] /\ stray'[t] = stray[t]
                     /\ mkt'[t] = mkt[t] /\ held'[t] = held[t]
  BY DEF MarketFills, LegFills, LegsCancelled, StrayFills, Against, memory, sweep,
         RestingInv, OrdersTyped
<1>2. Stages'
  BY <1>1 DEF SweepInv, Stages
<1>3. ASSUME NEW t \in Symbols, t # s PROVE SymbolSweeps(t)'
  BY <1>1, <1>3, OtherSymbol DEF SweepInv
<1>4. SymbolSweeps(s)'
  <2>1. SymbolSweeps(s)
    BY DEF SweepInv
  <2>2. /\ legs[s] \in Nat /\ stray[s] \in Nat /\ mkt[s] \in Int /\ held[s] \in Int
    BY NumbersTyped
  <2>3. CASE MarketFills(s)
    <3>1. /\ mkt[s] # 0 /\ mkt'[s] = 0 /\ held'[s] = held[s] - mkt[s]
          /\ legs'[s] = legs[s] /\ UNCHANGED excused
      BY <2>3 DEF MarketFills, RestingInv, OrdersTyped
    <3>2. s \in processed \/ fl = "done"
      BY <2>1, <3>1 DEF SymbolSweeps, Unprocessed
    <3>3. s \notin excused /\ mkt[s] = held[s] => mkt'[s] = held'[s]
      BY <2>2, <3>1
    <3>4. QED
      BY <1>1, <2>1, <3>1, <3>2, <3>3 DEF SymbolSweeps, Exited, Protected
  <2>4. CASE LegFills(s)
    <3>1. /\ legs[s] > 0 /\ legs'[s] = 0 /\ UNCHANGED mkt
          /\ Left(s) => s \in excused'
      BY <2>4 DEF LegFills, Against, RestingInv, OrdersTyped
    <3>2. s \in processed \/ fl = "done"
      BY <2>1, <2>2, <3>1 DEF SymbolSweeps, Unprocessed
    <3>3. s \in handled \ excused => s \in excused'
      BY <2>1, <3>1 DEF SymbolSweeps, Exited, Left, SweepInv, Stages
    <3>4. fl = "done" => s \in excused'
      BY <2>1, <3>1 DEF SymbolSweeps, Left
    <3>5. QED
      BY <1>1, <2>1, <3>1, <3>2, <3>3, <3>4 DEF SymbolSweeps
  <2>5. CASE LegsCancelled(s)
    <3>1. /\ legs[s] > 0 /\ legs'[s] = 0 /\ UNCHANGED <<mkt, held, excused>>
      BY <2>5 DEF LegsCancelled, RestingInv, OrdersTyped
    <3>2. s \in processed \/ fl = "done"
      BY <2>1, <2>2, <3>1 DEF SymbolSweeps, Unprocessed
    <3>3. QED
      BY <1>1, <2>1, <3>1, <3>2 DEF SymbolSweeps, Exited
  <2>6. CASE StrayFills(s)
    <3>1. stray[s] > 0 /\ s \in excused' /\ UNCHANGED <<legs, mkt>>
      BY <2>6 DEF StrayFills
    <3>2. s \in processed \/ fl = "done"
      BY <2>1, <2>2, <3>1 DEF SymbolSweeps, Unprocessed
    <3>3. QED
      BY <1>1, <2>1, <3>1, <3>2 DEF SymbolSweeps
  <2>7. QED
    BY <2>3, <2>4, <2>5, <2>6
<1>5. QED
  BY <1>2, <1>3, <1>4 DEF SweepInv

LEMMA PlacingSweeps ==
    ASSUME RestingInv, SweepInv, NEW s \in Symbols, Place(s) \/ PlaceFails(s)
    PROVE  SweepInv'
<1>1. /\ fl = "idle" /\ todo' \subseteq todo /\ resting \subseteq resting'
      /\ UNCHANGED <<legs, stray, mkt, held, pos, fl, leaving, handled, processed, excused>>
  BY DEF Place, PlaceFails, orders, sweep
<1>2. Stages'
  BY <1>1 DEF SweepInv, Stages
<1>3. ASSUME NEW t \in Symbols PROVE SymbolSweeps(t)'
  <2>1. CASE entry'[t] = entry[t]
    BY <1>1, <2>1, OtherSymbol DEF SweepInv
  <2>2. CASE Place(s) /\ t = s
    <3>1. /\ s \in todo /\ s \in resting' /\ s \notin processed
          /\ entry[s].filled = 0 /\ entry'[s].filled = 0 /\ Wanted[s] \in Nat \ {0}
      BY <2>2, ConstantsTyped DEF Place, StopLimit, RestingInv, OrdersTyped, Watched
    <3>2. QED
      BY <1>1, <2>2, <3>1 DEF SweepInv, SymbolSweeps, Unprocessed, Exited, Protected
  <2>3. QED
    BY <2>1, <2>2 DEF Place, PlaceFails, orders, RestingInv, OrdersTyped
<1>4. QED
  BY <1>2, <1>3 DEF SweepInv

LEMMA ToldSweeps ==
    ASSUME RestingInv, SweepInv, NEW s \in Symbols, PortfolioUpdate(s) \/ FillIgnored(s)
    PROVE  SweepInv'
<1>1. UNCHANGED <<entry, legs, stray, mkt, held, pos, todo, resting, fl, leaving, handled,
                  processed, excused>>
  BY DEF PortfolioUpdate, FillIgnored, orders, memory, sweep
<1>2. ASSUME NEW t \in Symbols PROVE SymbolSweeps(t)'
  BY <1>1, OtherSymbol DEF SweepInv
<1>3. QED
  BY <1>1, <1>2 DEF SweepInv, Stages

\* A position booked is forgotten; the sweep books the one it has just exited.
LEMMA BookingSweeps ==
    ASSUME RestingInv, SweepInv, FlattenBook \/ \E s \in Symbols : ExitNoticed(s)
    PROVE  SweepInv'
<1>1. /\ UNCHANGED <<entry, legs, stray, mkt, held, todo, resting, fl, handled, processed,
                     excused>>
      /\ leaving' \in {leaving, None}
  BY DEF FlattenBook, ExitNoticed, orders, sweep
<1>2. PICK s \in Symbols : /\ pos' = [pos EXCEPT ![s] = NoPos]
                           /\ leaving' = leaving \/ leaving = s
  BY DEF FlattenBook, ExitNoticed, sweep, RestingInv, MemoryTyped
<1>3. Stages'
  BY <1>1 DEF SweepInv, Stages
<1>4. ASSUME NEW t \in Symbols PROVE SymbolSweeps(t)'
  <2>1. CASE t = s
    <3>1. pos'[s].st = None
      BY <1>2 DEF NoPos, RestingInv, MemoryTyped
    <3>2. QED
      BY <1>1, <2>1, <3>1 DEF SweepInv, SymbolSweeps, Unprocessed, Exited, None
  <2>2. CASE t # s
    <3>1. pos'[t] = pos[t] /\ (leaving = t => leaving' = t)
      BY <1>2, <2>2 DEF RestingInv, MemoryTyped
    <3>2. QED
      BY <1>1, <3>1 DEF SweepInv, SymbolSweeps, Unprocessed, Exited, Protected
  <2>3. QED
    BY <2>1, <2>2
<1>5. QED
  BY <1>3, <1>4 DEF SweepInv

LEMMA AcceptedSweeps ==
    ASSUME RestingInv, SweepInv, NEW s \in Symbols, FillAccepted(s)
    PROVE  SweepInv'
<1>1. /\ s \in resting /\ s \notin processed /\ entry[s].filled = Wanted[s]
  BY CompleteFill DEF FillAccepted
<1>2. fl = "idle" /\ handled = {}
  BY <1>1 DEF SweepInv, Stages
<1>3. /\ processed' = processed \cup {s}
      /\ legs' = [legs EXCEPT ![s] = Wanted[s]]
      /\ UNCHANGED <<stray, mkt, held, todo, fl, leaving, handled>>
  BY DEF FillAccepted, PairPlaced, sweep
<1>4. PICK cut \in SUBSET resting, lost \in SUBSET resting :
          /\ lost \subseteq cut /\ s \notin cut
          /\ resting' = resting \ (cut \cup {s})
          /\ entry' = Cancelled(entry, cut \ lost)
          /\ excused' = excused \cup lost
  <2>1. PICK price \in FillPrices(s) :
            LET cut == Unaffordable(Budget - Committed - Rate[s] * price * Wanted[s]) \ {s}
            IN  /\ resting' = Popped(cut \cup {s})
                /\ \E lost \in SUBSET cut :
                     /\ entry' = Cancelled(entry, cut \ lost)
                     /\ excused' = excused \cup lost
    BY DEF FillAccepted
  <2> DEFINE gone == Unaffordable(Budget - Committed - Rate[s] * price * Wanted[s]) \ {s}
  <2>2. gone \in SUBSET resting /\ s \notin gone
    BY DEF Unaffordable
  <2>3. resting' = resting \ (gone \cup {s})
    BY <2>1 DEF Popped
  <2>4. PICK lost \in SUBSET gone :
            entry' = Cancelled(entry, gone \ lost) /\ excused' = excused \cup lost
    BY <2>1
  <2> HIDE DEF gone
  <2>5. QED
    BY <2>2, <2>3, <2>4
<1>5. PICK price \in FillPrices(s) :
          pos' = [pos EXCEPT ![s] = [st |-> "open", shares |-> Wanted[s], price |-> price]]
  BY DEF FillAccepted
<1>6. Stages'
  BY <1>2, <1>3, <1>4 DEF SweepInv, Stages
<1>7. ASSUME NEW t \in Symbols PROVE SymbolSweeps(t)'
  <2>1. entry'[t].filled = entry[t].filled
    BY <1>4, CancelledKeeps DEF RestingInv, OrdersTyped
  <2>2. entry'[t].st = "working" => entry[t].st = "working" /\ t \notin cut \ lost
    <3>1. entry'[t] = IF t \in cut \ lost /\ entry[t].st = "working"
                      THEN [entry[t] EXCEPT !.st = "cancelling"] ELSE entry[t]
      BY <1>4 DEF Cancelled
    <3>2. entry[t] \in [st: EntryStates, filled: Nat]
      BY DEF RestingInv, OrdersTyped, EntryOrder
    <3>3. QED
      BY <3>1, <3>2
  <2>3. entry'[t].st = "working" => t \in resting' \cup excused' /\ entry'[t].filled < Wanted[t]
    <3>1. entry[s].st # "working"
      BY <1>1, NumbersTyped DEF SweepInv, SymbolSweeps
    <3>2. QED
      BY <1>4, <2>1, <2>2, <3>1 DEF SweepInv, SymbolSweeps
  <2>4. CASE t = s
    <3>1. pos'[s].st = "open" /\ pos'[s].shares = Wanted[s]
      BY <1>5 DEF RestingInv, MemoryTyped
    <3>2. Unprocessed(s)
      BY <1>1, <1>2 DEF SweepInv, SymbolSweeps
    <3>3. Protected(s)'
      BY <1>1, <1>3, <3>1, <3>2 DEF Protected, Unprocessed
    <3>4. QED
      BY <1>1, <1>2, <1>3, <2>1, <2>3, <2>4, <3>1, <3>3 DEF SymbolSweeps
  <2>5. CASE t # s
    <3>1. /\ pos'[t] = pos[t] /\ legs'[t] = legs[t]
          /\ t \in processed' <=> t \in processed
          /\ excused \subseteq excused'
      BY <1>3, <1>4, <1>5, <2>5 DEF RestingInv, MemoryTyped, OrdersTyped
    <3>2. QED
      BY <1>2, <1>3, <2>1, <2>3, <3>1 DEF SweepInv, SymbolSweeps, Unprocessed, Protected
  <2>6. QED
    BY <2>4, <2>5
<1>8. QED
  BY <1>6, <1>7 DEF SweepInv

LEMMA NotKeptSweeps ==
    ASSUME RestingInv, SweepInv, NEW s \in Symbols, FillReversed(s) \/ FillUnprotected(s)
    PROVE  SweepInv'
<1>1. FillCompletes(s)
  BY DEF FillReversed, FillUnprotected
<1>2. /\ s \in resting /\ s \notin processed /\ entry[s].filled = Wanted[s]
  BY <1>1, CompleteFill
<1>3. fl = "idle" /\ handled = {}
  BY <1>2 DEF SweepInv, Stages
<1>4. /\ processed' = processed \cup {s} /\ resting' = resting \ {s}
      /\ UNCHANGED <<entry, legs, held, todo, pos, fl, leaving, handled>>
      /\ excused \subseteq excused'
      /\ \A t \in Symbols : t # s => mkt'[t] = mkt[t] /\ stray'[t] = stray[t]
  BY DEF FillReversed, FillUnprotected, Popped, PairFails, SellsFill, sweep, RestingInv, OrdersTyped
<1>5. Stages'
  BY <1>3, <1>4 DEF SweepInv, Stages
<1>6. ASSUME NEW t \in Symbols, t # s PROVE SymbolSweeps(t)'
  BY <1>4, <1>6, OtherSymbol DEF SweepInv
<1>7. SymbolSweeps(s)'
  <2>1. pos[s].st # "open" /\ entry[s].st # "working"
    BY <1>2, NumbersTyped DEF SweepInv, SymbolSweeps
  <2>2. QED
    BY <1>2, <1>3, <1>4, <2>1 DEF SymbolSweeps
<1>8. QED
  BY <1>5, <1>6, <1>7 DEF SweepInv

LEMMA FlattenStartSweeps ==
    ASSUME RestingInv, SweepInv, FlattenStart
    PROVE  SweepInv'
<1>1. /\ fl = "idle" /\ fl' = "exiting" /\ resting' = {} /\ todo = {}
      /\ UNCHANGED <<legs, stray, mkt, held, todo, pos, leaving, handled, processed>>
  BY DEF FlattenStart, Popped
<1>2. PICK lost \in SUBSET resting :
          entry' = Cancelled(entry, resting \ lost) /\ excused' = excused \cup lost
  BY DEF FlattenStart, SweepCancels
<1>3. Stages'
  BY <1>1 DEF SweepInv, Stages
<1>4. ASSUME NEW t \in Symbols PROVE SymbolSweeps(t)'
  <2>1. SymbolSweeps(t) /\ handled = {}
    BY <1>1 DEF SweepInv, Stages
  <2>2. entry'[t].filled = entry[t].filled
    BY <1>2, CancelledKeeps DEF RestingInv, OrdersTyped
  <2>3. entry'[t].st = "working" => entry[t].st = "working" /\ t \notin resting \ lost
    <3>1. entry'[t] = IF t \in resting \ lost /\ entry[t].st = "working"
                      THEN [entry[t] EXCEPT !.st = "cancelling"] ELSE entry[t]
      BY <1>2 DEF Cancelled
    <3>2. entry[t] \in [st: EntryStates, filled: Nat]
      BY DEF RestingInv, OrdersTyped, EntryOrder
    <3>3. QED
      BY <3>1, <3>2
  <2>4. QED
    BY <1>1, <1>2, <2>1, <2>2, <2>3 DEF SymbolSweeps, Unprocessed, Protected
<1>5. QED
  BY <1>3, <1>4 DEF SweepInv

\* The exit of a protected position is for what the account holds, whether the
\* portfolio shows it or not: the step excuses a symbol whose portfolio lags.
LEMMA FlattenExitSweeps ==
    ASSUME RestingInv, SweepInv, NEW s \in Symbols, FlattenExit(s)
    PROVE  SweepInv'
<1>1. /\ fl = "exiting" /\ leaving = None /\ pos[s].st = "open" /\ leaving' = s
      /\ UNCHANGED <<entry, legs, stray, held, pos, todo, resting, fl, processed>>
      /\ excused \subseteq excused'
      /\ legs[s] = 0 \/ seen[s] # held[s] => s \in excused'
      /\ s # None
  BY ConstantsTyped, RestingAssumption DEF FlattenExit, Against, memory
<1>2. /\ \A t \in Symbols : t # s => mkt'[t] = mkt[t] /\ (t \in handled' <=> t \in handled)
      /\ \/ mkt'[s] = mkt[s] + ExitShares(s) /\ s \in handled'
         \/ UNCHANGED mkt /\ UNCHANGED handled
  BY DEF FlattenExit, RestingInv, OrdersTyped
<1>3. Stages'
  BY <1>1 DEF SweepInv, Stages
<1>4. ASSUME NEW t \in Symbols, t # s PROVE SymbolSweeps(t)'
  <2>1. SymbolSweeps(t) /\ leaving # t
    BY <1>1, RestingAssumption DEF SweepInv
  <2>2. QED
    BY <1>1, <1>2, <1>4, <2>1 DEF SymbolSweeps, Unprocessed, Exited, Protected
<1>5. SymbolSweeps(s)'
  <2>1. SymbolSweeps(s) /\ s \in processed
    BY <1>1 DEF SweepInv, SymbolSweeps
  <2>2. s \notin handled \ excused
    BY <1>1, <2>1 DEF SymbolSweeps, Exited, None
  <2>3. CASE mkt'[s] = mkt[s] + ExitShares(s) /\ s \in handled'
    <3>1. ASSUME s \notin excused' PROVE mkt'[s] = held'[s]
      <4>1. /\ legs[s] # 0 /\ seen[s] = held[s] /\ s \notin handled /\ s \notin excused
        BY <1>1, <2>2, <3>1
      <4>2. Protected(s)
        BY <1>1, <2>1, <4>1, NumbersTyped DEF SymbolSweeps
      <4>3. ExitShares(s) = held[s]
        BY <4>1, <4>2, NumbersTyped DEF ExitShares, Least, AbsShares, Protected
      <4>4. QED
        BY <1>1, <2>3, <4>2, <4>3, NumbersTyped DEF Protected
    <3>2. QED
      BY <1>1, <2>1, <2>3, <3>1 DEF SymbolSweeps, Exited
  <2>4. CASE UNCHANGED mkt /\ UNCHANGED handled
    BY <1>1, <2>1, <2>2, <2>4 DEF SymbolSweeps, Protected
  <2>5. QED
    BY <1>2, <2>3, <2>4
<1>6. QED
  BY <1>3, <1>4, <1>5 DEF SweepInv

\* The last step of the sweep: a symbol exited above is left alone, and of any other
\* the portfolio's position is sold, which is the account's unless it is excused.
LEMMA FlattenResidualSweeps ==
    ASSUME RestingInv, SweepInv, FlattenResidual
    PROVE  SweepInv'
<1>1. /\ fl = "exiting" /\ fl' = "done" /\ leaving = None /\ Live = {}
      /\ UNCHANGED <<entry, legs, stray, held, pos, todo, resting, leaving, handled, processed>>
  BY DEF FlattenResidual, memory
<1>2. PICK lost \in SUBSET Residual :
          /\ mkt' = [s \in Symbols |-> mkt[s] + (IF s \in Residual \ lost THEN seen[s] ELSE 0)]
          /\ excused' = excused \cup lost \cup
                          {s \in Symbols \ handled :
                              seen[s] # held[s] \/ mkt[s] # 0 \/ legs[s] > 0 \/ stray[s] > 0}
  BY DEF FlattenResidual
<1>3. Stages'
  BY <1>1 DEF SweepInv, Stages
<1>4. ASSUME NEW t \in Symbols PROVE SymbolSweeps(t)'
  <2>1. SymbolSweeps(t) /\ pos[t].st = None
    BY <1>1, NumbersTyped DEF SweepInv, Live
  <2>2. mkt'[t] = mkt[t] + (IF t \in Residual \ lost THEN seen[t] ELSE 0)
    BY <1>2
  <2>3. ASSUME t \notin excused' PROVE mkt'[t] = held[t]
    <3>1. /\ t \notin lost /\ t \notin excused
          /\ t \notin handled => seen[t] = held[t] /\ mkt[t] = 0
      BY <1>2, <2>3
    <3>2. CASE t \in handled
      BY <2>1, <2>2, <3>1, <3>2, NumbersTyped DEF SymbolSweeps, Exited, Residual
    <3>3. CASE t \notin handled
      BY <2>2, <3>1, <3>3, NumbersTyped DEF Residual
    <3>4. QED
      BY <3>2, <3>3
  <2>4. excused \subseteq excused'
    BY <1>2
  <2>5. QED
    BY <1>1, <2>1, <2>3, <2>4 DEF SymbolSweeps, Exited, None
<1>5. QED
  BY <1>3, <1>4 DEF SweepInv

LEMMA StepSweeps == RestingInv /\ SweepInv /\ [Next]_vars => SweepInv'
<1> SUFFICES ASSUME RestingInv, SweepInv, [Next]_vars
             PROVE  SweepInv'
  OBVIOUS
<1>1. ASSUME NEW s \in Symbols, Exchange(s) PROVE SweepInv'
  BY <1>1, EntryFillSweeps, EntryCancelSweeps, ExitMovesSweep DEF Exchange
<1>2. ASSUME NEW s \in Symbols,
             \/ Place(s) \/ PlaceFails(s) \/ PortfolioUpdate(s) \/ FillIgnored(s)
             \/ FillAccepted(s) \/ FillReversed(s) \/ FillUnprotected(s)
             \/ ExitNoticed(s) \/ FlattenExit(s)
      PROVE  SweepInv'
  BY <1>2, PlacingSweeps, ToldSweeps, AcceptedSweeps, NotKeptSweeps, BookingSweeps,
     FlattenExitSweeps
<1>3. CASE FlattenStart \/ FlattenBook \/ FlattenResidual
  BY <1>3, FlattenStartSweeps, BookingSweeps, FlattenResidualSweeps
<1>4. CASE Done \/ UNCHANGED vars
  <2>1. UNCHANGED <<entry, legs, stray, mkt, held, pos, todo, resting, fl, leaving, handled,
                    processed, excused>>
    BY <1>4 DEF Done, vars, orders, memory, sweep
  <2>2. ASSUME NEW t \in Symbols PROVE SymbolSweeps(t)'
    BY <2>1, OtherSymbol DEF SweepInv
  <2>3. QED
    BY <2>1, <2>2 DEF SweepInv, Stages
<1>5. QED
  BY <1>1, <1>2, <1>3, <1>4 DEF Next

(***************************************************************************)
(* Theorems.                                                               *)
(***************************************************************************)

\* The inductive invariant holds in every reachable state.
THEOREM RestingInvariance == Spec => []RestingInv
BY InitResting, StepKeeps, PTL DEF Spec

\* Every variable keeps its type, and a record in _resting_entries is of an order
\* that can still complete: not cancelled, and its complete fill not yet heard of.
THEOREM RestingTypes == Spec => []TypeOK
<1>1. RestingInv => TypeOK
  BY DEF RestingInv, OrdersTyped, MemoryTyped, Watched, EntryOrder, EntryStates, TypeOK
<1>2. QED
  BY <1>1, RestingInvariance, PTL

\* Until the sweep, and while no broker call has raised, no exit exceeds the shares
\* held, and a complete fill acted upon is covered to the share.
THEOREM ExitsMatch == Spec => []ExitsMatchHoldings
<1>1. RestingInv => ExitsMatchHoldings
  <2> SUFFICES ASSUME RestingInv, fl = "idle" /\ fails = 0, NEW s \in Symbols
               PROVE  /\ legs[s] + mkt[s] <= held[s]
                      /\ s \in processed => legs[s] + mkt[s] = held[s]
    BY DEF ExitsMatchHoldings
  <2>1. Matched(s)
    BY DEF RestingInv, Matching
  <2>2. /\ legs[s] \in Nat /\ mkt[s] \in Int /\ held[s] \in Int /\ entry[s].filled \in Nat
    BY DEF RestingInv, OrdersTyped, EntryOrder
  <2>3. QED
    BY <2>1, <2>2 DEF Matched
<1>2. QED
  BY <1>1, RestingInvariance, PTL

\* When the sweep is over and what was in flight has settled, nothing is held of any
\* symbol, except one where a call raised or the exchange outran an order of the sweep:
\* however many orders filled, were cut from the budget, refused, or cancelled by it.
THEOREM SweepEmptiesTheAccount == Spec => []SweepLeavesNothing
<1>1. RestingInv /\ SweepInv => SweepLeavesNothing
  BY DEF SweepInv, SymbolSweeps, SweepLeavesNothing, Settled
<1>2. Spec => []SweepInv
  BY InitSweep, StepSweeps, RestingInvariance, PTL DEF Spec
<1>3. QED
  BY <1>1, <1>2, RestingInvariance, PTL
(***************************************************************************)
(* The promises of EntryBook.                                              *)
(***************************************************************************)

\* A symbol without a position claims nothing, and the exit that waits for its quote
\* is of a position not dropped yet.
ClaimInv ==
    /\ \A s \in Symbols : pos[s].st = None => pos[s] = NoPos
    /\ leaving # None => pos[leaving].st = "open"

\* The margins of a book of claims, one for each symbol.
Margins(c) == [s \in Symbols |-> Rate[s] * c[s]]

LEMMA LimitsTyped ==
    /\ Budget \in Nat /\ MaxGross \in Nat /\ One \in Nat /\ None \notin Symbols
    /\ \A s \in Symbols : /\ Rate[s] \in Nat /\ Wanted[s] \in Nat /\ Wanted[s] >= 1
                          /\ Price[s] \in Nat /\ Price[s] > Slip
BY RestingAssumption

LEMMA PosTyped ==
    ASSUME RestingInv, NEW s \in Symbols
    PROVE  pos[s].st \in {None, "open"} /\ pos[s].shares \in Nat /\ pos[s].price \in Nat
BY DEF RestingInv, MemoryTyped

\* One symbol's record is replaced; the others keep theirs.
LEMMA PosBecomes ==
    ASSUME RestingInv, NEW s \in Symbols, NEW r, pos' = [pos EXCEPT ![s] = r]
    PROVE  pos'[s] = r /\ \A t \in Symbols : t # s => pos'[t] = pos[t]
BY DEF RestingInv, MemoryTyped

LEMMA Product ==
    ASSUME NEW a \in Nat, NEW b \in Nat
    PROVE  a * b \in Nat
OBVIOUS

LEMMA InitClaims == Init => ClaimInv
BY DEF Init, ClaimInv, NoPos

LEMMA StepClaims == RestingInv /\ ClaimInv /\ [Next]_vars => ClaimInv'
<1> SUFFICES ASSUME RestingInv, ClaimInv, [Next]_vars
             PROVE  ClaimInv'
  OBVIOUS
<1> USE DEF ClaimInv
<1>0. None \notin Symbols /\ leaving \in Symbols \cup {None} /\ None # "open"
  BY LimitsTyped DEF RestingInv, MemoryTyped, None
<1>1. ASSUME UNCHANGED <<pos, leaving>>
      PROVE  ClaimInv'
  BY <1>1
<1>2. ASSUME NEW s \in Symbols, FillAccepted(s)
      PROVE  ClaimInv'
  <2>1. PICK price \in FillPrices(s) :
            pos' = [pos EXCEPT ![s] = [st |-> "open", shares |-> Wanted[s], price |-> price]]
    BY <1>2 DEF FillAccepted
  <2>2. leaving' = leaving
    BY <1>2 DEF FillAccepted, sweep
  <2>3. pos'[s].st = "open" /\ \A t \in Symbols : t # s => pos'[t] = pos[t]
    <3> DEFINE r == [st |-> "open", shares |-> Wanted[s], price |-> price]
    <3>1. r.st = "open" /\ pos' = [pos EXCEPT ![s] = r]
      BY <2>1
    <3> HIDE DEF r
    <3>2. pos'[s] = r /\ \A t \in Symbols : t # s => pos'[t] = pos[t]
      BY <3>1, PosBecomes
    <3>3. QED
      BY <3>1, <3>2
  <2>4. QED
    BY <1>0, <2>2, <2>3
<1>3. ASSUME NEW s \in Symbols, ExitNoticed(s)
      PROVE  ClaimInv'
  <2>1. leaving' = leaving /\ s # leaving /\ pos' = [pos EXCEPT ![s] = NoPos]
    BY <1>3 DEF ExitNoticed, sweep
  <2>2. pos'[s] = NoPos /\ \A t \in Symbols : t # s => pos'[t] = pos[t]
    BY <2>1, PosBecomes
  <2>3. QED
    BY <1>0, <2>1, <2>2
<1>4. ASSUME NEW s \in Symbols, FlattenExit(s)
      PROVE  ClaimInv'
  BY <1>4 DEF FlattenExit, memory
<1>5. CASE FlattenBook
  <2>1. leaving \in Symbols /\ leaving' = None /\ pos' = [pos EXCEPT ![leaving] = NoPos]
    BY <1>0, <1>5 DEF FlattenBook
  <2>2. pos'[leaving] = NoPos /\ \A t \in Symbols : t # leaving => pos'[t] = pos[t]
    BY <2>1, PosBecomes
  <2>3. QED
    BY <2>1, <2>2
<1>6. ASSUME NEW s \in Symbols,
             \/ Exchange(s) \/ Place(s) \/ PlaceFails(s) \/ PortfolioUpdate(s)
             \/ FillIgnored(s) \/ FillReversed(s) \/ FillUnprotected(s)
      PROVE  ClaimInv'
  BY <1>1, <1>6 DEF Exchange, EntryFills, EntryCancelled, MarketFills, LegFills,
     LegsCancelled, StrayFills, Place, PlaceFails, PortfolioUpdate, FillIgnored,
     FillReversed, FillUnprotected, memory, sweep
<1>7. CASE FlattenStart \/ FlattenResidual \/ Done \/ UNCHANGED vars
  BY <1>1, <1>7 DEF FlattenStart, FlattenResidual, Done, vars, memory, sweep
<1>8. QED
  BY <1>2, <1>3, <1>4, <1>5, <1>6, <1>7 DEF Next

LEMMA StageIs ==
    /\ Stage = [s \in Symbols |-> Stage[s]] /\ Claimed = [s \in Symbols |-> Claimed[s]]
    /\ \A s \in Symbols :
        /\ Stage[s] = IF pos[s].st = "open" THEN "claimed" ELSE "none"
        /\ Claimed[s] = pos[s].price * pos[s].shares
BY DEF Stage, Claimed, Notional

LEMMA StageIsNext ==
    /\ Stage' = [s \in Symbols |-> Stage'[s]] /\ Claimed' = [s \in Symbols |-> Claimed'[s]]
    /\ \A s \in Symbols :
        /\ Stage'[s] = IF pos'[s].st = "open" THEN "claimed" ELSE "none"
        /\ Claimed'[s] = pos'[s].price * pos'[s].shares
BY DEF Stage, Claimed, Notional

\* One symbol's record is replaced, and with it its entry in the book.
LEMMA BookMoves ==
    ASSUME RestingInv, NEW s \in Symbols, NEW r, pos' = [pos EXCEPT ![s] = r]
    PROVE  /\ Stage' = [Stage EXCEPT ![s] = IF r.st = "open" THEN "claimed" ELSE "none"]
           /\ Claimed' = [Claimed EXCEPT ![s] = r.price * r.shares]
<1>1. pos'[s] = r /\ \A t \in Symbols : t # s => pos'[t] = pos[t]
  BY PosBecomes
<1>2. \A t \in Symbols : t # s => Stage'[t] = Stage[t] /\ Claimed'[t] = Claimed[t]
  BY <1>1, StageIs, StageIsNext
<1>3. /\ Stage'[s] = IF r.st = "open" THEN "claimed" ELSE "none"
      /\ Claimed'[s] = r.price * r.shares
  BY <1>1, StageIsNext
<1>4. QED
  BY <1>2, <1>3, StageIs, StageIsNext

\* Exposure and committed margin are sums over all symbols, those without a position
\* claiming nothing.
LEMMA SumsOfBook ==
    ASSUME RestingInv, ClaimInv
    PROVE  /\ \A s \in Symbols : Claimed[s] \in Nat /\ Rate[s] * Claimed[s] \in Nat
           /\ SumFunctionOnSet(Claimed, Symbols) = Exposure /\ Exposure \in Nat
           /\ SumFunctionOnSet(Margins(Claimed), Symbols) = Committed /\ Committed \in Nat
<1> DEFINE m == [s \in Symbols |-> Margin(s)]
<1>1. Live \in SUBSET Symbols /\ IsFiniteSet(Symbols)
  BY ConstantsTyped DEF Live
<1>2. \A s \in Symbols : Claimed[s] = Notional(s) /\ m[s] = Margin(s)
  BY DEF Claimed
<1>3. ASSUME NEW s \in Symbols
      PROVE  /\ Claimed[s] \in Nat /\ m[s] \in Nat /\ m[s] = Margins(Claimed)[s]
             /\ m[s] = Rate[s] * Claimed[s]
             /\ s \notin Live => Claimed[s] = 0 /\ m[s] = 0
  <2>1. Notional(s) \in Nat /\ Rate[s] \in Nat
    BY PosTyped, LimitsTyped, Product DEF Notional
  <2>2. Margin(s) \in Nat /\ Margin(s) = Rate[s] * Notional(s)
    BY <2>1, Product DEF Margin
  <2>3. Margins(Claimed)[s] = Rate[s] * Claimed[s]
    BY DEF Margins
  <2>4. ASSUME s \notin Live
        PROVE  Notional(s) = 0 /\ Margin(s) = 0
    <3>1. pos[s] = NoPos
      BY <2>4, PosTyped DEF Live, ClaimInv
    <3>2. Notional(s) = 0
      BY <3>1 DEF Notional, NoPos
    <3>3. QED
      BY <2>1, <2>2, <3>2
  <2> HIDE DEF m
  <2>5. QED
    BY <1>2, <2>1, <2>2, <2>3, <2>4
<1>4. Committed = SumFunctionOnSet(m, Live) /\ Exposure = SumFunctionOnSet(Claimed, Live)
  BY DEF Committed, Exposure, Claimed
<1> HIDE DEF m
<1>5. /\ SumFunctionOnSet(m, Live) = SumFunctionOnSet(m, Symbols)
      /\ SumFunctionOnSet(Claimed, Live) = SumFunctionOnSet(Claimed, Symbols)
  BY <1>1, <1>3, SumOfPart
<1>6. SumFunctionOnSet(m, Symbols) = SumFunctionOnSet(Margins(Claimed), Symbols)
  BY <1>1, <1>3, SumAgrees
<1>7. /\ SumFunctionOnSet(m, Symbols) \in Nat
      /\ SumFunctionOnSet(Claimed, Symbols) \in Nat
  BY <1>1, <1>3, SumIsNat
<1>8. \A s \in Symbols : Claimed[s] \in Nat /\ Rate[s] * Claimed[s] \in Nat
  BY <1>3
<1>9. QED
  BY <1>4, <1>5, <1>6, <1>7, <1>8

\* The book adds as the manager does.
LEMMA BookAdds == \A f, S : Book!SumFunctionOnSet(f, S) = SumFunctionOnSet(f, S)
BY DEF Book!SumFunctionOnSet, Book!FoldFunctionOnSet, Book!MapThenFoldSet,
       SumFunctionOnSet, FoldFunctionOnSet, MapThenFoldSet

\* A symbol that claims nothing may claim what the cap and the budget leave.
LEMMA BesideTheOthers ==
    ASSUME RestingInv, ClaimInv, NEW s \in Symbols, pos[s].st = None, NEW n \in Nat,
           Exposure + n <= MaxGross, Committed + Rate[s] * n <= Budget,
           NEW c, c = [Claimed EXCEPT ![s] = n]
    PROVE  Book!Fits(c)
<1>1. IsFiniteSet(Symbols)
  BY ConstantsTyped
<1>2. Claimed[s] = 0
  BY StageIs DEF ClaimInv, NoPos
<1>3. /\ \A t \in Symbols : Claimed[t] \in Nat /\ Rate[t] * Claimed[t] \in Nat
      /\ SumFunctionOnSet(Claimed, Symbols) = Exposure /\ Exposure \in Nat
      /\ SumFunctionOnSet(Margins(Claimed), Symbols) = Committed /\ Committed \in Nat
  BY SumsOfBook
<1>4. c[s] = n /\ \A t \in Symbols : t # s => c[t] = Claimed[t]
  BY StageIs
<1>5. /\ \A t \in Symbols : Claimed[t] \in Int /\ c[t] \in Int
      /\ \A t \in Symbols : t # s => Claimed[t] = c[t]
  BY <1>3, <1>4
<1>6. SumFunctionOnSet(c, Symbols) = Exposure + n
  <2>1. SumFunctionOnSet(c, Symbols) = SumFunctionOnSet(Claimed, Symbols) - Claimed[s] + c[s]
    BY ONLY s \in Symbols, <1>1, <1>5, SumChanges
  <2>2. QED
    BY <1>2, <1>3, <1>4, <2>1
<1>7. SumFunctionOnSet(Margins(c), Symbols) = Committed + Rate[s] * n
  <2> DEFINE f == Margins(Claimed)
             g == Margins(c)
  <2>1. \A t \in Symbols : f[t] = Rate[t] * Claimed[t] /\ g[t] = Rate[t] * c[t]
    BY DEF Margins
  <2>2. ASSUME NEW t \in Symbols
        PROVE  f[t] \in Int /\ (t # s => f[t] = g[t])
    <3>1. f[t] = Rate[t] * Claimed[t] /\ g[t] = Rate[t] * c[t]
      BY <2>1
    <3>2. Rate[t] * Claimed[t] \in Nat /\ (t # s => c[t] = Claimed[t])
      BY <1>3, <1>4
    <3> HIDE DEF f, g
    <3>3. QED
      BY <3>1, <3>2
  <2>3. f[s] = 0 /\ g[s] = Rate[s] * n /\ g[s] \in Int
    <3>1. f[s] = Rate[s] * Claimed[s] /\ g[s] = Rate[s] * c[s]
      BY <2>1
    <3>2. Rate[s] \in Nat /\ Rate[s] * n \in Nat /\ Claimed[s] = 0 /\ c[s] = n
      BY <1>2, <1>4, LimitsTyped, Product
    <3> HIDE DEF f, g
    <3>3. QED
      BY <3>1, <3>2
  <2>4. \A t \in Symbols : f[t] \in Int /\ g[t] \in Int
    BY <2>2, <2>3
  <2> HIDE DEF f, g
  <2>5. SumFunctionOnSet(g, Symbols) = SumFunctionOnSet(f, Symbols) - f[s] + g[s]
    BY <1>1, <2>2, <2>4, SumChanges
  <2>6. SumFunctionOnSet(f, Symbols) = Committed
    BY <1>3 DEF f
  <2>7. SumFunctionOnSet(g, Symbols) = Committed + Rate[s] * n
    BY <1>3, <2>3, <2>5, <2>6
  <2>8. QED
    BY <2>7 DEF g
<1>8. QED
  BY ONLY <1>6, <1>7, BookAdds, Exposure + n <= MaxGross, Committed + Rate[s] * n <= Budget
     DEF Book!Fits, Margins
\* The book does not move.
LEMMA BookStands ==
    ASSUME UNCHANGED <<pos, killed>>
    PROVE  UNCHANGED Book!vars
BY DEF Book!vars, Stage, Claimed, Notional

\* Where whatIf answered, the fill path reads the rate the committed margin uses;
\* elsewhere it takes One, which is enough where the table asks no more.
RatesCovered == \A s \in Symbols \ Prewarmed : Rate[s] <= One

\* A fill that is accepted fits, whatever else has filled.
LEMMA AcceptingClaims ==
    ASSUME RatesCovered, RestingInv, ClaimInv, NEW s \in Symbols, FillAccepted(s)
    PROVE  Book!Claim(s)
<1>1. PICK price \in FillPrices(s) :
          /\ Accepts(s, price)
          /\ pos' = [pos EXCEPT ![s] = [st |-> "open", shares |-> Wanted[s], price |-> price]]
  BY DEF FillAccepted
<1>2. ~killed /\ killed' = killed
  BY <1>1 DEF FillAccepted, Accepts, Authorized
<1>3. pos[s].st = None /\ Stage[s] = "none"
  BY <1>1, PosTyped, StageIs DEF Accepts, Authorized, Live, None
<1>4. /\ price \in Nat /\ price >= 1 /\ Wanted[s] \in Nat /\ Wanted[s] >= 1
      /\ Rate[s] \in Nat /\ FillRate(s) \in Nat /\ Rate[s] <= FillRate(s)
      /\ MaxGross \in Nat /\ Budget \in Nat
  <2>1. price \in Nat /\ price >= 1
    BY PricesNatural, LimitsTyped, ConstantsTyped DEF FillPrices
  <2>2. FillRate(s) \in Nat /\ Rate[s] <= FillRate(s)
    BY LimitsTyped DEF FillRate, RatesCovered
  <2>3. QED
    BY <2>1, <2>2, LimitsTyped
<1> DEFINE n == price * Wanted[s]
<1>5. Exposure + n <= MaxGross /\ Committed + FillRate(s) * price * Wanted[s] <= Budget
  BY <1>1 DEF Accepts, Authorized, Estimate
<1>6. Exposure \in Nat /\ Committed \in Nat
  BY SumsOfBook
<1>7. n \in Nat /\ n >= 1
  BY <1>4
<1>8. Rate[s] * n \in Nat /\ Rate[s] * n <= FillRate(s) * price * Wanted[s]
      /\ FillRate(s) * price * Wanted[s] \in Nat
  <2>1. FillRate(s) * price * Wanted[s] = FillRate(s) * n
    BY <1>4
  <2> HIDE DEF n
  <2>2. Rate[s] * n <= FillRate(s) * n /\ Rate[s] * n \in Nat /\ FillRate(s) * n \in Nat
    BY <1>4, <1>7
  <2>3. QED
    BY <2>1, <2>2
<1>9. Stage' = [Stage EXCEPT ![s] = "claimed"] /\ Claimed' = [Claimed EXCEPT ![s] = n]
  <2> DEFINE r == [st |-> "open", shares |-> Wanted[s], price |-> price]
  <2>1. r.st = "open" /\ r.price * r.shares = n /\ pos' = [pos EXCEPT ![s] = r]
    BY <1>1
  <2> HIDE DEF r, n
  <2>2. Stage' = [Stage EXCEPT ![s] = IF r.st = "open" THEN "claimed" ELSE "none"]
    BY <2>1, BookMoves
  <2>3. Claimed' = [Claimed EXCEPT ![s] = r.price * r.shares]
    BY <2>1, BookMoves
  <2>4. QED
    BY <2>1, <2>2, <2>3
<1> HIDE DEF n
<1>10. n \in 1..MaxGross /\ Committed + Rate[s] * n <= Budget
  BY <1>4, <1>5, <1>6, <1>7, <1>8
<1>11. Book!Fits(Claimed')
  BY <1>3, <1>5, <1>7, <1>9, <1>10, BesideTheOthers
<1>12. QED
  BY <1>2, <1>3, <1>9, <1>10, <1>11 DEF Book!Claim

\* A position dropped leaves the book.
LEMMA LeavingReleases ==
    ASSUME RestingInv, NEW s \in Symbols, pos[s].st = "open",
           pos' = [pos EXCEPT ![s] = NoPos], killed => killed'
    PROVE  Book!Release(s)
<1>1. Stage' = [Stage EXCEPT ![s] = "none"]
  <2>1. Stage' = [Stage EXCEPT ![s] = IF NoPos.st = "open" THEN "claimed" ELSE "none"]
    BY BookMoves
  <2>2. NoPos.st # "open"
    BY DEF NoPos, None
  <2>3. QED
    BY <2>1, <2>2
<1>2. Claimed' = [Claimed EXCEPT ![s] = 0]
  <2>1. Claimed' = [Claimed EXCEPT ![s] = NoPos.price * NoPos.shares]
    BY BookMoves
  <2>2. NoPos.price * NoPos.shares = 0
    BY DEF NoPos
  <2>3. QED
    BY <2>1, <2>2
<1>3. Stage[s] # "none"
  BY StageIs
<1>4. QED
  BY <1>1, <1>2, <1>3 DEF Book!Release

LEMMA BookInit == Init => Book!Init
<1> SUFFICES ASSUME Init
             PROVE  Book!Init
  OBVIOUS
<1>1. \A s \in Symbols : Stage[s] = "none" /\ Claimed[s] = 0
  BY StageIs DEF Init, NoPos, None
<1>2. Stage = [s \in Symbols |-> "none"] /\ Claimed = [s \in Symbols |-> 0]
  BY <1>1, StageIs
<1>3. killed = FALSE
  BY DEF Init
<1>4. QED
  BY <1>2, <1>3 DEF Book!Init

LEMMA BookNext ==
    ASSUME RatesCovered
    PROVE  RestingInv /\ ClaimInv /\ [Next]_vars => [Book!Next]_Book!vars
<1> SUFFICES ASSUME RestingInv, ClaimInv, [Next]_vars
             PROVE  Book!Next \/ UNCHANGED Book!vars
  OBVIOUS
<1>1. ASSUME NEW s \in Symbols, FillAccepted(s)
      PROVE  Book!Next
  BY <1>1, AcceptingClaims DEF Book!Next
<1>2. ASSUME NEW s \in Symbols, ExitNoticed(s)
      PROVE  Book!Next
  <2>1. /\ pos[s].st = "open" /\ pos' = [pos EXCEPT ![s] = NoPos]
        /\ killed' \in {killed, TRUE}
    BY <1>2 DEF ExitNoticed
  <2>2. killed => killed'
    BY ONLY <2>1, Zenon
  <2>3. Book!Release(s)
    BY <2>1, <2>2, LeavingReleases
  <2>4. QED
    BY <2>3 DEF Book!Next
<1>3. CASE FlattenBook
  <2>1. /\ leaving \in Symbols /\ pos' = [pos EXCEPT ![leaving] = NoPos]
        /\ killed' \in {killed, TRUE}
    BY <1>3 DEF FlattenBook, RestingInv, MemoryTyped
  <2>2. pos[leaving].st = "open"
    BY <1>3 DEF FlattenBook, ClaimInv
  <2>3. killed => killed'
    BY ONLY <2>1, Zenon
  <2>4. Book!Release(leaving)
    BY <2>1, <2>2, <2>3, LeavingReleases
  <2>5. QED
    BY <2>1, <2>4 DEF Book!Next
<1>4. ASSUME NEW s \in Symbols,
             \/ Exchange(s) \/ Place(s) \/ PlaceFails(s) \/ PortfolioUpdate(s)
             \/ FillIgnored(s) \/ FillReversed(s) \/ FillUnprotected(s) \/ FlattenExit(s)
      PROVE  UNCHANGED Book!vars
  BY <1>4, BookStands DEF Exchange, EntryFills, EntryCancelled, MarketFills, LegFills,
     LegsCancelled, StrayFills, Place, PlaceFails, PortfolioUpdate, FillIgnored,
     FillReversed, FillUnprotected, FlattenExit, memory, sweep
<1>5. CASE FlattenStart \/ FlattenResidual \/ Done \/ UNCHANGED vars
  BY <1>5, BookStands DEF FlattenStart, FlattenResidual, Done, vars, memory, sweep
<1>6. QED
  BY <1>1, <1>2, <1>3, <1>4, <1>5 DEF Next

\* However many orders fill before the first is processed, what is kept fits the cap and
\* the budget at the table's rates, where the table asks no more than One of a symbol
\* that was not prewarmed.  For a dearer one the fill path's own estimate is too low, and
\* the budget may be passed.
THEOREM RestingKeepsBook == ASSUME RatesCovered PROVE Spec => ImplementsBook
<1>1. Spec => []ClaimInv
  BY InitClaims, StepClaims, RestingInvariance, PTL DEF Spec
<1>2. QED
  BY <1>1, RestingInvariance, BookInit, BookNext, PTL DEF Spec, ImplementsBook, Book!Spec
=============================================================================
