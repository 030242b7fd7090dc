--------------------------- MODULE EntryGate_proofs ---------------------------
(***************************************************************************)
(* EntryGate for every set of symbols, every price, budget and limit, and  *)
(* any number of sessions: what the gate has recorded kills the day, no    *)
(* entry follows on that day, no exit sells more than is held, and the     *)
(* entries keep the promises of EntryBook.                                 *)
(***************************************************************************)
EXTENDS EntryGate, SumTheorems

(***************************************************************************)
(* The session kill.                                                       *)
(***************************************************************************)

\* pos maps each symbol to a record of the three fields.  The kill needs no more.
PosShape ==
    /\ pos = [s \in Symbols |-> pos[s]]
    /\ \A s \in Symbols :
        pos[s] = [st |-> pos[s].st, shares |-> pos[s].shares, price |-> pos[s].price]

CountersOK == realized \in Int

\* The gate's flag is the stored flag of the day: without this a restart could
\* forget a kill, and RecordedLossKills alone is not inductive.
KillAgrees == killed <=> day \in killDays

GateInv == PosShape /\ CountersOK /\ KillAgrees /\ RecordedLossKills

\* The gate's own state does not move.
GateIdle == UNCHANGED <<realized, killed, funded, killDays, day>>

LEMMA IdleKeeps ==
    ASSUME GateInv, GateIdle, PosShape'
    PROVE  GateInv'
BY DEF GateInv, GateIdle, CountersOK, KillAgrees, RecordedLossKills

\* Recording a leg's result sets flag and row together, as soon as the total
\* reaches the limit.
LEMMA RecordKeeps ==
    ASSUME GateInv, NEW r \in Int, Record(r), UNCHANGED <<funded, day>>, PosShape'
    PROVE  GateInv'
<1>1. realized' \in Int /\ realized' = realized + r
  BY DEF GateInv, CountersOK, Record
<1>2. CASE ~killed /\ funded /\ realized' <= -KillLoss
  <2>1. killed' = TRUE /\ killDays' = killDays \cup {day}
    BY <1>2 DEF Record
  <2>2. QED
    BY <1>1, <2>1 DEF GateInv, CountersOK, KillAgrees, RecordedLossKills
<1>3. CASE ~(~killed /\ funded /\ realized' <= -KillLoss)
  <2>1. killed' = killed /\ killDays' = killDays
    BY <1>3 DEF Record
  <2>2. QED
    BY <1>1, <1>3, <2>1 DEF GateInv, CountersOK, KillAgrees, RecordedLossKills
<1>4. QED
  BY <1>2, <1>3

\* A symbol's record is replaced.
LEMMA PosReplaced ==
    ASSUME PosShape, NEW s \in Symbols, NEW st, NEW n, NEW p,
           pos' = [pos EXCEPT ![s] = [st |-> st, shares |-> n, price |-> p]]
    PROVE  PosShape'
BY DEF PosShape

LEMMA InitGate == Init => GateInv
<1> SUFFICES ASSUME Init
             PROVE  GateInv
  OBVIOUS
<1>1. PosShape
  BY DEF Init, NoPos, PosShape
<1>2. CountersOK /\ KillAgrees
  BY DEF Init, CountersOK, KillAgrees
<1>3. RecordedLossKills
  BY GateAssumption DEF Init, RecordedLossKills
<1>4. QED
  BY <1>1, <1>2, <1>3 DEF GateInv

LEMMA NextGate == GateInv /\ [Next]_vars => GateInv'
<1> SUFFICES ASSUME GateInv, [Next]_vars
             PROVE  GateInv'
  OBVIOUS
<1>0. PosShape
  BY DEF GateInv
<1>1. ASSUME NEW s \in Symbols, OpenPosition(s)
      PROVE  GateInv'
  BY <1>0, <1>1, PosReplaced, IdleKeeps DEF OpenPosition, GateIdle
<1>2. ASSUME NEW s \in Symbols,
             EntryRefused(s) \/ LooseFills(s) \/ LooseDies(s)
      PROVE  GateInv'
  BY <1>2, IdleKeeps
     DEF EntryRefused, LooseFills, LooseDies, GateIdle, GateInv, PosShape
<1>3. ASSUME NEW s \in Symbols, EntryFills(s)
      PROVE  GateInv'
  <2>1. PICK n \in 1..pos[s].shares, d \in (-Slip)..Slip :
            pos' = [pos EXCEPT ![s] = [st |-> "open", shares |-> n, price |-> Price[s] + d]]
    BY <1>3 DEF EntryFills
  <2>2. PosShape'
    BY <1>0, <2>1, PosReplaced
  <2>3. QED
    BY <1>3, <2>2, IdleKeeps DEF EntryFills, GateIdle
<1>4. ASSUME NEW s \in Symbols, EntryRejected(s) \/ EntryTimesOut(s)
      PROVE  GateInv'
  BY <1>0, <1>4, PosReplaced, IdleKeeps DEF EntryRejected, EntryTimesOut, NoPos, GateIdle
<1>5. ASSUME NEW s \in Symbols, ExitRecorded(s)
      PROVE  GateInv'
  <2>1. PosShape'
    BY <1>0, <1>5, PosReplaced DEF ExitRecorded, Closes, NoPos
  <2>2. PICK r \in Results : Record(r)
    BY <1>5 DEF ExitRecorded
  <2>3. r \in Int
    BY GateAssumption
  <2>4. UNCHANGED <<funded, day>>
    BY <1>5 DEF ExitRecorded
  <2>5. QED
    BY <2>1, <2>2, <2>3, <2>4, RecordKeeps
<1>6. ASSUME NEW s \in Symbols, Tp1Partial(s)
      PROVE  GateInv'
  <2>1. PICK n \in 1..(pos[s].shares - 1), r \in Results :
            /\ pos' = [pos EXCEPT ![s] = [st |-> "open", shares |-> pos[s].shares - n,
                                          price |-> pos[s].price]]
            /\ Record(r)
    BY <1>6 DEF Tp1Partial
  <2>2. r \in Int
    BY GateAssumption
  <2>3. PosShape'
    BY <1>0, <2>1, PosReplaced
  <2>4. UNCHANGED <<funded, day>>
    BY <1>6 DEF Tp1Partial
  <2>5. QED
    BY <2>1, <2>2, <2>3, <2>4, RecordKeeps
<1>7. ASSUME NEW s \in Symbols, StopFires(s)
      PROVE  GateInv'
  BY <1>0, <1>7, PosReplaced, IdleKeeps DEF StopFires, Closes, NoPos, GateIdle
<1>8. CASE NewSession
  <2>1. PosShape'
    BY <1>8 DEF NewSession, NoPos, PosShape
  <2>2. killed' = (day' \in killDays) /\ realized' = 0 /\ killDays' = killDays
    BY <1>8 DEF NewSession, SessionStart
  <2>3. ~(realized' <= -KillLoss)
    BY <2>2, GateAssumption
  <2>4. CountersOK'
    BY <2>2 DEF CountersOK
  <2>5. KillAgrees'
    BY <2>2, Zenon DEF KillAgrees
  <2>6. RecordedLossKills'
    BY <2>3 DEF RecordedLossKills
  <2>7. QED
    BY <2>1, <2>4, <2>5, <2>6 DEF GateInv
<1>9. CASE Done \/ UNCHANGED vars
  BY <1>9, IdleKeeps DEF Done, vars, GateIdle, GateInv, PosShape
<1>10. QED
  BY <1>1, <1>2, <1>3, <1>4, <1>5, <1>6, <1>7, <1>8, <1>9 DEF Next

THEOREM GateInvariance == Spec => []GateInv
BY InitGate, NextGate, PTL DEF Spec

\* When the gate knows the starting equity, a recorded loss at the limit has
\* killed the session in memory and in the database.
THEOREM LossKills == Spec => []RecordedLossKills
<1>1. GateInv => RecordedLossKills
  BY DEF GateInv
<1>2. QED
  BY <1>1, GateInvariance, PTL

\* The only step that takes a symbol from no position to an entering one is
\* open_position, and the gate refuses it on a killed day.
LEMMA OnlyAliveAdmits == GateInv /\ [Next]_vars => (Admits => day \notin killDays)
<1> SUFFICES ASSUME GateInv, [Next]_vars, Admits
             PROVE  day \notin killDays
  OBVIOUS
<1> USE DEF GateInv
<1>1. PICK t \in Symbols : pos[t].st = "none" /\ pos'[t].st = "entering"
  BY DEF Admits
<1>2. ASSUME NEW s \in Symbols, OpenPosition(s)
      PROVE  day \notin killDays
  BY <1>2 DEF OpenPosition, Authorized, KillAgrees
<1>3. ASSUME NEW s \in Symbols,
             \/ EntryRefused(s) \/ LooseFills(s) \/ LooseDies(s)
             \/ Done \/ UNCHANGED vars
      PROVE  FALSE
  BY <1>1, <1>3 DEF EntryRefused, LooseFills, LooseDies, Done, vars
<1>4. ASSUME NEW s \in Symbols, EntryFills(s) \/ Tp1Partial(s)
      PROVE  FALSE
  <2>1. \E n, p : pos' = [pos EXCEPT ![s] = [st |-> "open", shares |-> n, price |-> p]]
    BY <1>4 DEF EntryFills, Tp1Partial
  <2>2. pos'[t].st = IF t = s THEN "open" ELSE pos[t].st
    BY <2>1 DEF PosShape
  <2>3. QED
    BY <1>1, <2>2
<1>5. ASSUME NEW s \in Symbols,
             EntryRejected(s) \/ EntryTimesOut(s) \/ ExitRecorded(s) \/ StopFires(s)
      PROVE  FALSE
  <2>1. pos' = [pos EXCEPT ![s] = [st |-> "none", shares |-> 0, price |-> 0]]
    BY <1>5 DEF EntryRejected, EntryTimesOut, ExitRecorded, StopFires, Closes, NoPos
  <2>2. pos'[t].st = IF t = s THEN "none" ELSE pos[t].st
    BY <2>1 DEF PosShape
  <2>3. QED
    BY <1>1, <2>2
<1>6. CASE NewSession
  BY <1>1, <1>6 DEF NewSession, NoPos
<1>7. QED
  BY <1>2, <1>3, <1>4, <1>5, <1>6 DEF Next

\* Once a day is killed no entry is submitted on it: not by another symbol, and
\* not after a restart, whose counters start from zero.
THEOREM KillIsFinal == Spec => KillSticks
<1>1. GateInv /\ [Next]_vars => [Admits => day \notin killDays]_vars
  BY OnlyAliveAdmits
<1>2. QED
  BY <1>1, GateInvariance, PTL DEF Spec, KillSticks
(***************************************************************************)
(* What the positions hold.                                                *)
(***************************************************************************)

\* A symbol without a position claims nothing, an entering one is priced at its entry
\* price and no larger than was wanted, and an open one is covered by what is held.
Sound(s) ==
    /\ pos[s].st = "none" => pos[s] = NoPos
    /\ pos[s].st = "entering" => pos[s].price = Price[s] /\ pos[s].shares \in 1..Wanted[s]
    /\ pos[s].st = "open" => pos[s].price >= 1 /\ pos[s].shares \in 1..held[s]

HoldInv == TypeOK /\ \A s \in Symbols : Sound(s)

LEMMA ConstantsTyped ==
    /\ IsFiniteSet(Symbols) /\ Slip \in Nat
    /\ Budget \in Nat /\ MaxGross \in Nat /\ MaxSessions \in Nat
    /\ \A s \in Symbols : /\ Price[s] \in Nat /\ Price[s] >= 1 /\ Slip < Price[s]
                          /\ Wanted[s] \in Nat /\ Wanted[s] >= 1
                          /\ Rate[s] \in Nat /\ Rate[s] >= 1
    /\ \A r \in Results : r \in Int
BY GateAssumption

\* What pos says, symbol by symbol.
LEMMA PosTyped ==
    ASSUME TypeOK, NEW s \in Symbols
    PROVE  /\ pos[s].st \in Status /\ pos[s].shares \in Nat /\ pos[s].price \in Nat
           /\ pos[s] = [st |-> pos[s].st, shares |-> pos[s].shares, price |-> pos[s].price]
           /\ held[s] \in Nat /\ loose[s] \in Nat
BY DEF TypeOK

\* One symbol's record is replaced; the others keep theirs.
LEMMA PosBecomes ==
    ASSUME TypeOK, NEW s \in Symbols, NEW st \in Status, NEW n \in Nat, NEW p \in Nat,
           pos' = [pos EXCEPT ![s] = [st |-> st, shares |-> n, price |-> p]]
    PROVE  /\ pos' \in [Symbols -> [st: Status, shares: Nat, price: Nat]]
           /\ pos'[s] = [st |-> st, shares |-> n, price |-> p]
           /\ \A t \in Symbols : t # s => pos'[t] = pos[t]
BY DEF TypeOK

\* The same for a count of shares.
LEMMA SharesBecome ==
    ASSUME NEW f \in [Symbols -> Nat], NEW g, NEW s \in Symbols, NEW n \in Nat,
           g = [f EXCEPT ![s] = n]
    PROVE  /\ g \in [Symbols -> Nat] /\ g[s] = n
           /\ \A t \in Symbols : t # s => g[t] = f[t]
OBVIOUS

LEMMA Quotient ==
    ASSUME NEW a \in Int, NEW b \in Nat, b >= 1
    PROVE  a \div b \in Int /\ b * (a \div b) <= a
OBVIOUS

LEMMA Product ==
    ASSUME NEW a \in Nat, NEW b \in Nat
    PROVE  a * b \in Nat
OBVIOUS

\* Margins and notionals are naturals, and so are their sums over the live symbols.
LEMMA SumsTyped ==
    ASSUME TypeOK
    PROVE  /\ \A s \in Symbols : Notional(s) \in Nat /\ Margin(s) \in Nat
           /\ Committed \in Nat /\ Exposure \in Nat
<1>1. \A s \in Symbols : Notional(s) \in Nat /\ Margin(s) \in Nat
  BY PosTyped, ConstantsTyped, Product DEF Notional, Margin
<1> DEFINE m == [s \in Symbols |-> Margin(s)]
           n == [s \in Symbols |-> Notional(s)]
<1>2. \A s \in Live : m[s] \in Nat /\ n[s] \in Nat
  BY <1>1 DEF Live
<1>3. IsFiniteSet(Live)
  BY ConstantsTyped, FS_Subset DEF Live
<1>4. Committed = SumFunctionOnSet(m, Live) /\ Exposure = SumFunctionOnSet(n, Live)
  BY DEF Committed, Exposure
<1> HIDE DEF m, n
<1>5. QED
  BY <1>1, <1>2, <1>3, <1>4, SumIsNat

\* What is submitted is a number of shares the budget has room for.
LEMMA SizedFits ==
    ASSUME TypeOK, NEW s \in Symbols, Worthwhile(s)
    PROVE  /\ Sized(s) \in Nat /\ Sized(s) >= 1 /\ Sized(s) <= Wanted[s]
           /\ ShareMargin(s) * Sized(s) <= MarginRoom
<1> DEFINE q == MarginRoom \div ShareMargin(s)
<1>1. MarginRoom \in Int /\ ShareMargin(s) \in Nat /\ ShareMargin(s) >= 1
  <2>1. MarginRoom \in Int
    BY SumsTyped, ConstantsTyped DEF MarginRoom
  <2>2. Rate[s] \in Nat /\ Price[s] \in Nat /\ Rate[s] >= 1 /\ Price[s] >= 1
    BY ConstantsTyped
  <2>3. Rate[s] * Price[s] \in Nat /\ Rate[s] * Price[s] >= 1
    BY <2>2
  <2>4. QED
    BY <2>1, <2>3 DEF ShareMargin
<1>2. q \in Int /\ ShareMargin(s) * q <= MarginRoom
  BY <1>1, Quotient
<1>3. Sized(s) = IF q < Wanted[s] THEN q ELSE Wanted[s]
  BY DEF Sized
<1>4. Sized(s) >= 1 /\ Wanted[s] \in Nat
  BY ConstantsTyped DEF Worthwhile
<1> HIDE DEF q
<1>5. Sized(s) \in Nat /\ Sized(s) <= Wanted[s] /\ Sized(s) <= q
  BY <1>2, <1>3, <1>4
<1>6. ShareMargin(s) * Sized(s) <= ShareMargin(s) * q
  BY <1>1, <1>2, <1>5
<1>7. ShareMargin(s) * Sized(s) \in Int /\ ShareMargin(s) * q \in Int
  BY <1>1, <1>2, <1>5
<1>8. QED
  BY <1>1, <1>2, <1>4, <1>5, <1>6, <1>7
\* TypeOK in two parts: what is held in each symbol, and the rest.
ShareTypes ==
    /\ pos \in [Symbols -> [st: Status, shares: Nat, price: Nat]]
    /\ loose \in [Symbols -> Nat]
    /\ held \in [Symbols -> Nat]
OtherTypes ==
    /\ armed \subseteq Symbols
    /\ realized \in Int /\ booked \in Int
    /\ killed \in BOOLEAN /\ funded \in BOOLEAN
    /\ killDays \subseteq Nat /\ day \in Nat
    /\ sessions \in 1..MaxSessions

LEMMA TypesSplit == TypeOK <=> ShareTypes /\ OtherTypes
BY DEF TypeOK, ShareTypes, OtherTypes

\* What an action on s leaves alone.
Elsewhere(s) == \A t \in Symbols : t # s => pos'[t] = pos[t] /\ held'[t] = held[t]
Outside == UNCHANGED <<realized, booked, killed, funded, killDays, day, sessions>>

LEMMA OutsideTyped ==
    ASSUME OtherTypes, Outside, armed' \subseteq armed
    PROVE  OtherTypes'
BY DEF OtherTypes, Outside

LEMMA RecordTyped ==
    ASSUME OtherTypes, NEW r \in Int, Record(r), booked' = booked + r,
           UNCHANGED <<armed, funded, day, sessions>>
    PROVE  OtherTypes'
<1>1. realized' \in Int /\ booked' \in Int
  BY DEF OtherTypes, Record
<1>2. killed' \in BOOLEAN /\ killDays' \subseteq Nat
  <2>1. CASE ~killed /\ funded /\ realized' <= -KillLoss
    BY <2>1, Zenon DEF OtherTypes, Record
  <2>2. CASE ~(~killed /\ funded /\ realized' <= -KillLoss)
    BY <2>2, Zenon DEF OtherTypes, Record
  <2>3. QED
    BY <2>1, <2>2
<1>3. QED
  BY <1>1, <1>2 DEF OtherTypes

LEMMA HoldsFrom ==
    ASSUME HoldInv, NEW s \in Symbols, ShareTypes', OtherTypes', Sound(s)', Elsewhere(s)
    PROVE  HoldInv'
<1>1. ASSUME NEW t \in Symbols, t # s
      PROVE  Sound(t)'
  BY <1>1 DEF HoldInv, Sound, Elsewhere, NoPos
<1>2. TypeOK'
  BY DEF TypeOK, ShareTypes, OtherTypes
<1>3. QED
  BY <1>1, <1>2 DEF HoldInv

\* A symbol's position becomes a given record, and what is held of it n shares.
LEMMA ReplacedHolds ==
    ASSUME HoldInv, NEW s \in Symbols, NEW st \in Status, NEW n \in Nat, NEW p \in Nat,
           pos' = [pos EXCEPT ![s] = [st |-> st, shares |-> n, price |-> p]],
           NEW h \in Nat, held' = [held EXCEPT ![s] = h],
           loose' \in [Symbols -> Nat], OtherTypes',
           st = "none" => n = 0 /\ p = 0,
           st = "entering" => p = Price[s] /\ n \in 1..Wanted[s],
           st = "open" => p >= 1 /\ n \in 1..h
    PROVE  HoldInv'
<1>1. TypeOK /\ held \in [Symbols -> Nat]
  BY DEF HoldInv, TypeOK
<1>2. /\ pos' \in [Symbols -> [st: Status, shares: Nat, price: Nat]]
      /\ pos'[s] = [st |-> st, shares |-> n, price |-> p]
      /\ \A t \in Symbols : t # s => pos'[t] = pos[t]
  BY <1>1, PosBecomes
<1>3. /\ held' \in [Symbols -> Nat] /\ held'[s] = h
      /\ \A t \in Symbols : t # s => held'[t] = held[t]
  BY <1>1, SharesBecome
<1>4. Sound(s)'
  BY <1>2, <1>3 DEF Sound, NoPos
<1>5. ShareTypes' /\ Elsewhere(s)
  BY <1>2, <1>3 DEF ShareTypes, Elsewhere
<1>6. QED
  BY <1>4, <1>5, HoldsFrom

LEMMA InitHolds == Init => HoldInv
<1> SUFFICES ASSUME Init
             PROVE  HoldInv
  OBVIOUS
<1>1. ShareTypes
  BY DEF Init, ShareTypes, NoPos, Status
<1>2. OtherTypes
  <2>1. 1 \in 1..MaxSessions
    BY GateAssumption
  <2>2. realized \in Int /\ booked \in Int /\ day \in Nat /\ sessions \in 1..MaxSessions
    BY <2>1 DEF Init
  <2>3. armed \subseteq Symbols /\ killed \in BOOLEAN /\ funded \in BOOLEAN
        /\ killDays \subseteq Nat
    BY Zenon DEF Init
  <2>4. QED
    BY <2>2, <2>3 DEF OtherTypes
<1>3. \A s \in Symbols : Sound(s)
  BY DEF Init, Sound, NoPos
<1>4. QED
  BY <1>1, <1>2, <1>3, TypesSplit DEF HoldInv

\* Entries: a sized entry is submitted, fills, or is given up.
LEMMA EntriesHold ==
    ASSUME HoldInv, NEW s \in Symbols,
           \/ OpenPosition(s) \/ EntryRefused(s) \/ EntryFills(s)
           \/ EntryRejected(s) \/ EntryTimesOut(s)
    PROVE  HoldInv'
<1>0. TypeOK /\ OtherTypes /\ ShareTypes /\ Sound(s)
  BY TypesSplit DEF HoldInv
<1>t. /\ held[s] \in Nat /\ loose[s] \in Nat /\ pos[s].shares \in Nat
      /\ held = [held EXCEPT ![s] = held[s]] /\ loose \in [Symbols -> Nat]
  BY <1>0, PosTyped DEF ShareTypes
<1>1. CASE OpenPosition(s)
  <2>1. Sized(s) \in Nat /\ Sized(s) \in 1..Wanted[s] /\ Price[s] \in Nat
    BY <1>0, <1>1, SizedFits, ConstantsTyped DEF OpenPosition
  <2>2. OtherTypes'
    BY <1>0, <1>1, OutsideTyped DEF OpenPosition, Outside
  <2>3. /\ pos' = [pos EXCEPT ![s] = [st |-> "entering", shares |-> Sized(s),
                                      price |-> Price[s]]]
        /\ held' = held /\ loose' = loose
    BY <1>1 DEF OpenPosition
  <2>4. "entering" \in Status
    BY DEF Status
  <2>5. QED
    BY <1>t, <2>1, <2>2, <2>3, <2>4, ReplacedHolds
<1>2. CASE EntryRefused(s)
  <2>1. OtherTypes'
    BY <1>0, <1>2, OutsideTyped DEF EntryRefused, Outside
  <2>2. UNCHANGED <<pos, loose, held>>
    BY <1>2 DEF EntryRefused
  <2>3. ShareTypes' /\ Sound(s)' /\ Elsewhere(s)
    BY <1>0, <2>2 DEF ShareTypes, Sound, Elsewhere, NoPos
  <2>4. QED
    BY <2>1, <2>3, HoldsFrom
<1>3. CASE EntryFills(s)
  <2>1. PICK n \in 1..pos[s].shares, d \in (-Slip)..Slip :
            /\ pos' = [pos EXCEPT ![s] = [st |-> "open", shares |-> n,
                                          price |-> Price[s] + d]]
            /\ held' = [held EXCEPT ![s] = @ + n]
            /\ loose' = [loose EXCEPT ![s] = @ + pos[s].shares - n]
    BY <1>3 DEF EntryFills
  <2>2. n \in Nat /\ n >= 1 /\ n <= pos[s].shares /\ d \in Int /\ d >= -Slip
    BY <1>t, ConstantsTyped
  <2>3. Price[s] + d \in Nat /\ Price[s] + d >= 1
    BY <2>2, ConstantsTyped
  <2>4. held[s] + n \in Nat /\ n \in 1..(held[s] + n) /\ loose[s] + pos[s].shares - n \in Nat
    BY <1>t, <2>2
  <2>5. loose' \in [Symbols -> Nat] /\ held' = [held EXCEPT ![s] = held[s] + n]
    BY <1>t, <2>1, <2>4
  <2>6. OtherTypes'
    BY <1>0, <1>3, OutsideTyped DEF EntryFills, Outside
  <2>7. "open" \in Status
    BY DEF Status
  <2>8. QED
    BY <2>1, <2>2, <2>3, <2>4, <2>5, <2>6, <2>7, ReplacedHolds
<1>4. CASE EntryRejected(s) \/ EntryTimesOut(s)
  <2>1. /\ pos' = [pos EXCEPT ![s] = [st |-> "none", shares |-> 0, price |-> 0]]
        /\ held' = held
    BY <1>4 DEF EntryRejected, EntryTimesOut, NoPos
  <2>2. loose' \in [Symbols -> Nat]
    BY <1>t, <1>4 DEF EntryRejected, EntryTimesOut
  <2>3. OtherTypes'
    BY <1>0, <1>4, OutsideTyped DEF EntryRejected, EntryTimesOut, Outside
  <2>4. "none" \in Status
    BY DEF Status
  <2>5. QED
    BY <1>t, <2>1, <2>2, <2>3, <2>4, ReplacedHolds
<1>5. QED
  BY <1>1, <1>2, <1>3, <1>4

\* What the broker still fills or drops of an order given up.
LEMMA LooseHolds ==
    ASSUME HoldInv, NEW s \in Symbols, LooseFills(s) \/ LooseDies(s)
    PROVE  HoldInv'
<1>0. TypeOK /\ OtherTypes /\ ShareTypes /\ Sound(s)
  BY TypesSplit DEF HoldInv
<1>t. /\ held[s] \in Nat /\ loose[s] \in Nat /\ held \in [Symbols -> Nat]
      /\ loose \in [Symbols -> Nat] /\ pos[s].shares \in Nat
  BY <1>0, PosTyped DEF ShareTypes
<1>1. OtherTypes'
  BY <1>0, OutsideTyped DEF LooseFills, LooseDies, Outside
<1>2. PICK h \in Nat : h >= held[s] /\ held' = [held EXCEPT ![s] = h]
  <2>1. CASE LooseFills(s)
    <3>1. held[s] + loose[s] \in Nat /\ held[s] + loose[s] >= held[s]
      BY <1>t
    <3>2. held' = [held EXCEPT ![s] = held[s] + loose[s]]
      BY <2>1 DEF LooseFills
    <3>3. QED
      BY <3>1, <3>2
  <2>2. CASE LooseDies(s)
    <3>1. held' = [held EXCEPT ![s] = held[s]] /\ held[s] >= held[s]
      BY <1>t, <2>2 DEF LooseDies
    <3>2. QED
      BY <1>t, <3>1
  <2>3. QED
    BY <2>1, <2>2
<1>3. /\ held' \in [Symbols -> Nat] /\ held'[s] = h
      /\ \A t \in Symbols : t # s => held'[t] = held[t]
  BY <1>t, <1>2
<1>4. pos' = pos /\ loose' \in [Symbols -> Nat]
  BY <1>t DEF LooseFills, LooseDies
<1>5. Sound(s)'
  BY <1>0, <1>t, <1>2, <1>3, <1>4 DEF Sound, NoPos
<1>6. ShareTypes' /\ Elsewhere(s)
  BY <1>0, <1>3, <1>4 DEF ShareTypes, Elsewhere
<1>7. QED
  BY <1>1, <1>5, <1>6, HoldsFrom

\* An exit sells no more than is held.
LEMMA ExitsHold ==
    ASSUME HoldInv, NEW s \in Symbols, ExitRecorded(s) \/ Tp1Partial(s) \/ StopFires(s)
    PROVE  HoldInv'
<1>0. TypeOK /\ OtherTypes /\ ShareTypes /\ Sound(s)
  BY TypesSplit DEF HoldInv
<1>t. /\ held[s] \in Nat /\ pos[s].shares \in Nat /\ pos[s].price \in Nat
      /\ pos[s].st = "open" => pos[s].shares <= held[s] /\ pos[s].price >= 1
  <2>1. held[s] \in Nat /\ pos[s].shares \in Nat /\ pos[s].price \in Nat
    BY <1>0, PosTyped
  <2>2. pos[s].st = "open" => pos[s].price >= 1 /\ pos[s].shares \in 1..held[s]
    BY <1>0 DEF Sound
  <2>3. QED
    BY <2>1, <2>2
<1>l. loose' \in [Symbols -> Nat]
  BY <1>0 DEF ShareTypes, ExitRecorded, Tp1Partial, StopFires
<1>1. ASSUME Closes(s), OtherTypes'
      PROVE  HoldInv'
  <2>1. /\ pos' = [pos EXCEPT ![s] = [st |-> "none", shares |-> 0, price |-> 0]]
        /\ held' = [held EXCEPT ![s] = held[s] - pos[s].shares]
    BY <1>1 DEF Closes, NoPos
  <2>2. held[s] - pos[s].shares \in Nat
    BY <1>t, <1>1 DEF Closes
  <2>3. "none" \in Status
    BY DEF Status
  <2>4. QED
    BY <1>1, <1>l, <2>1, <2>2, <2>3, ReplacedHolds
<1>2. CASE ExitRecorded(s)
  <2>1. PICK r \in Results : Record(r) /\ booked' = booked + r
    BY <1>2 DEF ExitRecorded
  <2>2. OtherTypes'
    BY <1>0, <1>2, <2>1, RecordTyped, ConstantsTyped DEF ExitRecorded
  <2>3. QED
    BY <1>1, <1>2, <2>2 DEF ExitRecorded
<1>3. CASE StopFires(s)
  <2>1. PICK r \in Results : booked' = booked + r
    BY <1>3 DEF StopFires
  <2>2. r \in Int
    BY ConstantsTyped
  <2>3. OtherTypes'
    BY <1>0, <1>3, <2>1, <2>2 DEF StopFires, OtherTypes
  <2>4. QED
    BY <1>1, <1>3, <2>3 DEF StopFires
<1>4. CASE Tp1Partial(s)
  <2>1. PICK n \in 1..(pos[s].shares - 1), r \in Results :
            /\ pos' = [pos EXCEPT ![s] = [st |-> "open", shares |-> pos[s].shares - n,
                                          price |-> pos[s].price]]
            /\ held' = [held EXCEPT ![s] = @ - n]
            /\ Record(r)
            /\ booked' = booked + r
    BY <1>4 DEF Tp1Partial
  <2>2. pos[s].st = "open"
    BY <1>4 DEF Tp1Partial
  <2>3. /\ pos[s].shares - n \in Nat /\ held[s] - n \in Nat
        /\ pos[s].shares - n \in 1..(held[s] - n)
    BY <1>t, <2>2
  <2>4. held' = [held EXCEPT ![s] = held[s] - n]
    BY <2>1
  <2>5. OtherTypes'
    BY <1>0, <1>4, <2>1, RecordTyped, ConstantsTyped DEF Tp1Partial
  <2>6. "open" \in Status
    BY DEF Status
  <2>7. QED
    BY <1>t, <1>l, <2>1, <2>2, <2>3, <2>4, <2>5, <2>6, ReplacedHolds
<1>5. QED
  BY <1>2, <1>3, <1>4

\* A new session starts with no position, and sells what the database calls open.
LEMMA SessionHolds ==
    ASSUME HoldInv, NewSession
    PROVE  HoldInv'
<1>0. TypeOK /\ OtherTypes /\ ShareTypes /\ \A s \in Symbols : Sound(s)
  BY TypesSplit DEF HoldInv
<1>t. \A s \in Symbols :
        /\ held[s] \in Nat /\ loose[s] \in Nat /\ pos[s].shares \in Nat
        /\ pos[s].st = "open" => held[s] - pos[s].shares \in Nat
  <2> TAKE s \in Symbols
  <2>1. held[s] \in Nat /\ loose[s] \in Nat /\ pos[s].shares \in Nat
    BY <1>0, PosTyped
  <2>2. pos[s].st = "open" => pos[s].shares \in 1..held[s]
    BY <1>0 DEF Sound
  <2>3. QED
    BY <2>1, <2>2
<1>1. pos' = [s \in Symbols |-> NoPos]
  BY DEF NewSession
<1>2. held' \in [Symbols -> Nat]
  <2>1. \A s \in Symbols :
          held[s] - (IF pos[s].st = "open" THEN pos[s].shares ELSE 0) \in Nat
    BY <1>t
  <2>2. QED
    BY <2>1 DEF NewSession
<1>3. loose' \in [Symbols -> Nat]
  <2>1. \A s \in Symbols :
          loose[s] + (IF pos[s].st = "entering" THEN pos[s].shares ELSE 0) \in Nat
    BY <1>t
  <2>2. QED
    BY <2>1 DEF NewSession
<1>4. ShareTypes' /\ \A s \in Symbols : Sound(s)'
  BY <1>1, <1>2, <1>3 DEF ShareTypes, Sound, NoPos, Status
<1>5. OtherTypes'
  <2>1. killed' \in BOOLEAN /\ funded' \in BOOLEAN /\ armed' \subseteq Symbols
    <3>1. killed' = (day' \in killDays)
      BY Zenon DEF NewSession, SessionStart
    <3>2. killed' \in BOOLEAN
      BY ONLY <3>1, SMT
    <3>3. funded' \in BOOLEAN /\ armed' \subseteq Symbols
      BY DEF NewSession
    <3>4. QED
      BY <3>2, <3>3
  <2>2. /\ realized' \in Int /\ booked' \in Int /\ killDays' \subseteq Nat /\ day' \in Nat
        /\ sessions' \in 1..MaxSessions
    BY <1>0, ConstantsTyped DEF NewSession, SessionStart, OtherTypes
  <2>3. QED
    BY <2>1, <2>2 DEF OtherTypes
<1>6. QED
  BY <1>4, <1>5 DEF HoldInv, TypeOK, ShareTypes, OtherTypes

LEMMA NextHolds == HoldInv /\ [Next]_vars => HoldInv'
<1> SUFFICES ASSUME HoldInv, [Next]_vars
             PROVE  HoldInv'
  OBVIOUS
<1>1. CASE Done \/ UNCHANGED vars
  <2>1. UNCHANGED vars
    BY <1>1 DEF Done
  <2>2. QED
    BY <2>1 DEF HoldInv, TypeOK, Sound, vars
<1>2. QED
  BY <1>1, EntriesHold, LooseHolds, ExitsHold, SessionHolds DEF Next

THEOREM HoldInvariance == Spec => []HoldInv
BY InitHolds, NextHolds, PTL DEF Spec

\* Every variable keeps its type; the shares of a symbol stay a natural number, so
\* no exit sells more than is held.
THEOREM GateTypes == Spec => []TypeOK
<1>1. HoldInv => TypeOK
  BY DEF HoldInv
<1>2. QED
  BY <1>1, HoldInvariance, PTL
(***************************************************************************)
(* The promises of EntryBook.                                              *)
(***************************************************************************)

\* The margins of a book of claims, one for each symbol.
Margins(c) == [s \in Symbols |-> Rate[s] * c[s]]

LEMMA StageIs ==
    /\ Stage = [s \in Symbols |-> Stage[s]] /\ Claimed = [s \in Symbols |-> Claimed[s]]
    /\ \A s \in Symbols :
        /\ pos[s].st = "none" => Stage[s] = "none"
        /\ pos[s].st = "entering" => Stage[s] = "claimed"
        /\ pos[s].st = "open" => Stage[s] = "settled"
        /\ Claimed[s] = pos[s].price * pos[s].shares
<1>1. Stage = [s \in Symbols |-> Stage[s]] /\ Claimed = [s \in Symbols |-> Claimed[s]]
  BY DEF Stage, Claimed
<1>2. ASSUME NEW s \in Symbols
      PROVE  /\ pos[s].st = "none" => Stage[s] = "none"
             /\ pos[s].st = "entering" => Stage[s] = "claimed"
             /\ pos[s].st = "open" => Stage[s] = "settled"
  BY DEF Stage
<1>3. \A s \in Symbols : Claimed[s] = pos[s].price * pos[s].shares
  BY DEF Claimed, Notional
<1>4. QED
  BY <1>1, <1>2, <1>3

LEMMA StageIsNext ==
    /\ Stage' = [s \in Symbols |-> Stage'[s]] /\ Claimed' = [s \in Symbols |-> Claimed'[s]]
    /\ \A s \in Symbols :
        /\ pos'[s].st = "none" => Stage'[s] = "none"
        /\ pos'[s].st = "entering" => Stage'[s] = "claimed"
        /\ pos'[s].st = "open" => Stage'[s] = "settled"
        /\ Claimed'[s] = pos'[s].price * pos'[s].shares
<1>1. Stage' = [s \in Symbols |-> Stage'[s]] /\ Claimed' = [s \in Symbols |-> Claimed'[s]]
  BY DEF Stage, Claimed
<1>2. ASSUME NEW s \in Symbols
      PROVE  /\ pos'[s].st = "none" => Stage'[s] = "none"
             /\ pos'[s].st = "entering" => Stage'[s] = "claimed"
             /\ pos'[s].st = "open" => Stage'[s] = "settled"
  BY DEF Stage
<1>3. \A s \in Symbols : Claimed'[s] = pos'[s].price * pos'[s].shares
  BY DEF Claimed, Notional
<1>4. QED
  BY <1>1, <1>2, <1>3

\* One symbol's record is replaced, and with it its entry in the book.
LEMMA BookMoves ==
    ASSUME HoldInv, NEW s \in Symbols, NEW st \in Status, NEW n \in Nat, NEW p \in Nat,
           pos' = [pos EXCEPT ![s] = [st |-> st, shares |-> n, price |-> p]]
    PROVE  /\ st = "none" => Stage' = [Stage EXCEPT ![s] = "none"]
           /\ st = "entering" => Stage' = [Stage EXCEPT ![s] = "claimed"]
           /\ st = "open" => Stage' = [Stage EXCEPT ![s] = "settled"]
           /\ Claimed' = [Claimed EXCEPT ![s] = p * n]
<1>1. /\ pos'[s] = [st |-> st, shares |-> n, price |-> p]
      /\ \A t \in Symbols : t # s => pos'[t] = pos[t]
  BY PosBecomes DEF HoldInv
<1>2. \A t \in Symbols : t # s => Stage'[t] = Stage[t] /\ Claimed'[t] = Claimed[t]
  BY <1>1 DEF Stage, Claimed, Notional
<1>3. /\ st = "none" => Stage'[s] = "none"
      /\ st = "entering" => Stage'[s] = "claimed"
      /\ st = "open" => Stage'[s] = "settled"
      /\ Claimed'[s] = p * n
  BY <1>1, StageIsNext
<1>4. QED
  BY <1>2, <1>3, StageIs, StageIsNext

\* Exposure and committed margin are sums over all symbols, those without a position
\* claiming nothing.
LEMMA SumsOfBook ==
    ASSUME HoldInv
    PROVE  /\ SumFunctionOnSet(Claimed, Symbols) = Exposure
           /\ SumFunctionOnSet(Margins(Claimed), Symbols) = Committed
<1> DEFINE m == [s \in Symbols |-> Margin(s)]
<1>1. TypeOK /\ \A s \in Symbols : Sound(s)
  BY DEF HoldInv
<1>2. Live \in SUBSET Symbols /\ IsFiniteSet(Symbols)
  BY ConstantsTyped DEF Live
<1>3. ASSUME NEW s \in Symbols
      PROVE  /\ Claimed[s] \in Int /\ m[s] \in Int /\ m[s] = Margins(Claimed)[s]
             /\ s \notin Live => Claimed[s] = 0 /\ m[s] = 0
  <2>1. Notional(s) \in Nat /\ Margin(s) \in Nat
    BY <1>1, SumsTyped
  <2>2. Claimed[s] = Notional(s) /\ m[s] = Margin(s) /\ Margins(Claimed)[s] = Margin(s)
    BY DEF Claimed, Margins, Margin
  <2>3. ASSUME s \notin Live
        PROVE  Notional(s) = 0 /\ Margin(s) = 0
    <3>1. pos[s].st = "none"
      BY <1>1, <2>3, PosTyped DEF Live, Status
    <3>2. pos[s].price = 0 /\ pos[s].shares = 0
      BY <1>1, <3>1 DEF Sound, NoPos
    <3>3. Notional(s) = 0
      BY <3>2 DEF Notional
    <3>4. QED
      BY <3>3, ConstantsTyped DEF Margin
  <2>4. QED
    BY <2>1, <2>2, <2>3
<1>4. Committed = SumFunctionOnSet(m, Live) /\ Exposure = SumFunctionOnSet(Claimed, Live)
  BY DEF Committed, Exposure, Claimed
<1> HIDE DEF m
<1>5. /\ SumFunctionOnSet(m, Live) = SumFunctionOnSet(m, Symbols)
      /\ SumFunctionOnSet(Claimed, Live) = SumFunctionOnSet(Claimed, Symbols)
  BY <1>2, <1>3, SumOfPart
<1>6. SumFunctionOnSet(m, Symbols) = SumFunctionOnSet(Margins(Claimed), Symbols)
  BY <1>2, <1>3, SumAgrees
<1>7. QED
  BY <1>4, <1>5, <1>6

\* The book adds as the gate does.
LEMMA BookAdds == \A f, S : Book!SumFunctionOnSet(f, S) = SumFunctionOnSet(f, S)
BY DEF Book!SumFunctionOnSet, Book!FoldFunctionOnSet, Book!MapThenFoldSet,
       SumFunctionOnSet, FoldFunctionOnSet, MapThenFoldSet

\* A symbol that claims nothing may claim what the cap and the budget leave.
LEMMA BesideTheOthers ==
    ASSUME HoldInv, NEW s \in Symbols, pos[s].st = "none", NEW n \in Nat,
           Exposure + n <= MaxGross, Committed + Rate[s] * n <= Budget,
           NEW c, c = [Claimed EXCEPT ![s] = n]
    PROVE  Book!Fits(c)
<1>1. TypeOK /\ Sound(s) /\ IsFiniteSet(Symbols)
  BY ConstantsTyped DEF HoldInv
<1>2. Claimed[s] = 0
  BY <1>1 DEF Sound, NoPos, Claimed, Notional
<1>3. \A t \in Symbols : Claimed[t] \in Nat /\ Rate[t] \in Nat /\ Rate[t] * Claimed[t] \in Nat
  BY <1>1, SumsTyped, ConstantsTyped, Product DEF Claimed
<1>4. c[s] = n /\ \A t \in Symbols : t # s => c[t] = Claimed[t]
  BY StageIs
<1>5. /\ \A t \in Symbols : Claimed[t] \in Int /\ c[t] \in Int
      /\ \A t \in Symbols : t # s => Claimed[t] = c[t]
  BY <1>3, <1>4
<1>6. SumFunctionOnSet(c, Symbols) = Exposure + n
  <2>1. SumFunctionOnSet(c, Symbols) = SumFunctionOnSet(Claimed, Symbols) - Claimed[s] + c[s]
    BY ONLY s \in Symbols, <1>1, <1>5, SumChanges
  <2>2. SumFunctionOnSet(Claimed, Symbols) = Exposure /\ Exposure \in Nat
    BY <1>1, SumsOfBook, SumsTyped
  <2>3. QED
    BY <1>2, <1>4, <2>1, <2>2
<1>7. SumFunctionOnSet(Margins(c), Symbols) = Committed + Rate[s] * n
  <2> DEFINE f == Margins(Claimed)
             g == Margins(c)
  <2>1. \A t \in Symbols : f[t] = Rate[t] * Claimed[t] /\ g[t] = Rate[t] * c[t]
    BY DEF Margins
  <2>2. ASSUME NEW t \in Symbols
        PROVE  f[t] \in Int /\ (t # s => f[t] = g[t])
    <3>1. f[t] = Rate[t] * Claimed[t] /\ g[t] = Rate[t] * c[t]
      BY <2>1
    <3>2. Rate[t] * Claimed[t] \in Nat /\ (t # s => c[t] = Claimed[t])
      BY <1>3, <1>4
    <3> HIDE DEF f, g
    <3>3. QED
      BY <3>1, <3>2
  <2>3. f[s] = 0 /\ g[s] = Rate[s] * n /\ g[s] \in Int
    <3>1. f[s] = Rate[s] * Claimed[s] /\ g[s] = Rate[s] * c[s]
      BY <2>1
    <3>2. Rate[s] \in Nat /\ Rate[s] * n \in Nat /\ Claimed[s] = 0 /\ c[s] = n
      BY <1>2, <1>3, <1>4, Product
    <3> HIDE DEF f, g
    <3>3. QED
      BY <3>1, <3>2
  <2>4. \A t \in Symbols : f[t] \in Int /\ g[t] \in Int
    BY <2>2, <2>3
  <2> HIDE DEF f, g
  <2>5. SumFunctionOnSet(g, Symbols) = SumFunctionOnSet(f, Symbols) - f[s] + g[s]
    BY <1>1, <2>2, <2>4, SumChanges
  <2>6. SumFunctionOnSet(f, Symbols) = Committed /\ Committed \in Nat
    BY <1>1, SumsOfBook, SumsTyped DEF f
  <2>7. SumFunctionOnSet(g, Symbols) = Committed + Rate[s] * n
    BY <2>3, <2>5, <2>6
  <2>8. QED
    BY <2>7 DEF g
<1>8. QED
  BY ONLY <1>6, <1>7, BookAdds, Exposure + n <= MaxGross, Committed + Rate[s] * n <= Budget
     DEF Book!Fits, Margins
\* The book does not move.
LEMMA BookStands ==
    ASSUME UNCHANGED <<pos, killed>>
    PROVE  UNCHANGED Book!vars
BY DEF Book!vars, Stage, Claimed, Notional

\* open_position makes a claim: its notional fits under the cap because what was
\* intended does, and its margin because it was sized by what is left of the budget.
LEMMA OpeningClaims ==
    ASSUME HoldInv, NEW s \in Symbols, OpenPosition(s)
    PROVE  Book!Claim(s)
<1>0. TypeOK /\ Sound(s)
  BY DEF HoldInv
<1> DEFINE z == Sized(s)
           n == Price[s] * z
<1>1. /\ z \in Nat /\ z >= 1 /\ z <= Wanted[s]
      /\ ShareMargin(s) * z <= MarginRoom
  BY <1>0, SizedFits DEF OpenPosition
<1>2. /\ Price[s] \in Nat /\ Price[s] >= 1 /\ Wanted[s] \in Nat /\ Rate[s] \in Nat
      /\ MaxGross \in Nat /\ Budget \in Nat /\ Committed \in Nat /\ Exposure \in Nat
  BY <1>0, ConstantsTyped, SumsTyped
<1>3. pos[s].st = "none" /\ Stage[s] = "none"
  <2>1. pos[s].st = "none"
    BY <1>0, PosTyped DEF OpenPosition, Authorized, Live, Status
  <2>2. QED
    BY <2>1, StageIs
<1>4. ~killed /\ killed' = killed /\ Exposure + Intended(s) <= MaxGross
  BY DEF OpenPosition, Authorized
<1>5. /\ pos' = [pos EXCEPT ![s] = [st |-> "entering", shares |-> z, price |-> Price[s]]]
      /\ "entering" \in Status
  BY DEF OpenPosition, Status
<1> HIDE DEF z
<1>6. n \in Nat /\ n >= 1 /\ n <= Intended(s) /\ Intended(s) \in Nat
  <2>1. Price[s] * z \in Nat /\ Price[s] * z >= 1
    BY <1>1, <1>2
  <2>2. Price[s] * z <= Price[s] * Wanted[s] /\ Price[s] * Wanted[s] \in Nat
    BY <1>1, <1>2
  <2>3. QED
    BY <2>1, <2>2 DEF Intended
<1>7. Rate[s] * n <= Budget - Committed
  <2>1. Rate[s] * n = ShareMargin(s) * z
    BY <1>1, <1>2 DEF ShareMargin
  <2>2. QED
    BY <1>1, <2>1 DEF MarginRoom
<1>8. /\ Stage' = [Stage EXCEPT ![s] = "claimed"]
      /\ Claimed' = [Claimed EXCEPT ![s] = n]
  <2>1. PICK k \in Nat : k = z
    BY <1>1
  <2>2. /\ pos' = [pos EXCEPT ![s] = [st |-> "entering", shares |-> k, price |-> Price[s]]]
        /\ "entering" \in Status /\ Price[s] \in Nat
    BY <1>2, <1>5, <2>1
  <2>3. Stage' = [Stage EXCEPT ![s] = "claimed"]
    BY <2>2, BookMoves
  <2>4. Claimed' = [Claimed EXCEPT ![s] = Price[s] * k]
    BY <2>2, BookMoves
  <2>5. QED
    BY <2>1, <2>3, <2>4
<1> HIDE DEF n
<1>9. n \in 1..MaxGross /\ Exposure + n <= MaxGross /\ Committed + Rate[s] * n <= Budget
  <2>1. Rate[s] * n \in Nat
    BY <1>2, <1>6, Product
  <2>2. QED
    BY <1>2, <1>4, <1>6, <1>7, <2>1
<1>10. Book!Fits(Claimed')
  BY <1>3, <1>6, <1>8, <1>9, BesideTheOthers
<1>11. QED
  BY <1>3, <1>4, <1>8, <1>9, <1>10 DEF Book!Claim

\* A fill is of no more shares than were submitted, at a price at most Slip dearer.
LEMMA FillSettles ==
    ASSUME HoldInv, NEW s \in Symbols, EntryFills(s)
    PROVE  Book!Settle(s)
<1>0. TypeOK /\ Sound(s)
  BY DEF HoldInv
<1>1. PICK n \in 1..pos[s].shares, d \in (-Slip)..Slip :
          pos' = [pos EXCEPT ![s] = [st |-> "open", shares |-> n, price |-> Price[s] + d]]
  BY DEF EntryFills
<1>2. pos[s].st = "entering" /\ killed' = killed
  BY DEF EntryFills
<1>3. /\ pos[s].price = Price[s] /\ pos[s].shares \in Nat /\ pos[s].shares <= Wanted[s]
      /\ Price[s] \in Nat /\ Wanted[s] \in Nat /\ Slip \in Nat /\ Slip < Price[s]
  BY <1>0, <1>2, PosTyped, ConstantsTyped DEF Sound
<1> DEFINE p == Price[s] + d
           q == pos[s].shares
<1>4. /\ n \in Nat /\ n >= 1 /\ n <= q /\ p \in Nat /\ p >= 1 /\ p <= Price[s] + Slip
      /\ q \in Nat /\ q <= Wanted[s]
  BY <1>3
<1>5. /\ Stage' = [Stage EXCEPT ![s] = "settled"]
      /\ Claimed' = [Claimed EXCEPT ![s] = p * n]
  BY <1>1, <1>4, BookMoves DEF Status
<1>6. Claimed[s] = Price[s] * q /\ Slippage[s] = Slip * Wanted[s]
  BY <1>3, StageIs DEF Slippage
<1> HIDE DEF p, q
<1>7. p * n \in Nat /\ p * n >= 1
  BY <1>4
<1>8. p * n <= Price[s] * q + Slip * Wanted[s]
  <2>1. p * n <= p * q
    BY <1>4
  <2>2. p * q <= (Price[s] + Slip) * q
    BY <1>3, <1>4
  <2>3. (Price[s] + Slip) * q = Price[s] * q + Slip * q
    BY <1>3, <1>4
  <2>4. Slip * q <= Slip * Wanted[s]
    BY <1>3, <1>4
  <2>5. /\ p * n \in Int /\ p * q \in Int /\ Price[s] * q \in Int /\ Slip * q \in Int
        /\ Slip * Wanted[s] \in Int
    BY <1>3, <1>4
  <2>6. QED
    BY <2>1, <2>2, <2>3, <2>4, <2>5
<1>9. Price[s] * q \in Int /\ Slip * Wanted[s] \in Int
  BY <1>3, <1>4
<1>10. p * n \in 1..(Claimed[s] + Slippage[s])
  BY <1>6, <1>7, <1>8, <1>9
<1>11. Stage[s] = "claimed"
  BY <1>2, StageIs
<1>12. QED
  BY <1>2, <1>5, <1>10, <1>11 DEF Book!Settle

\* An entry given up, or a position sold, leaves the book.
LEMMA LeavingReleases ==
    ASSUME HoldInv, NEW s \in Symbols, pos[s].st \in {"entering", "open"},
           pos' = [pos EXCEPT ![s] = NoPos], killed => killed'
    PROVE  Book!Release(s)
<1>1. /\ Stage' = [Stage EXCEPT ![s] = "none"]
      /\ Claimed' = [Claimed EXCEPT ![s] = 0 * 0]
  BY BookMoves DEF NoPos, Status
<1>2. Stage[s] # "none" /\ 0 * 0 = 0
  BY StageIs
<1>3. QED
  BY <1>1, <1>2 DEF Book!Release

\* Part of TP1 leaves a smaller claim.
LEMMA PartialReduces ==
    ASSUME HoldInv, NEW s \in Symbols, Tp1Partial(s)
    PROVE  Book!Reduce(s)
<1>0. TypeOK /\ Sound(s)
  BY DEF HoldInv
<1>1. PICK k \in 1..(pos[s].shares - 1), r \in Results :
          /\ pos' = [pos EXCEPT ![s] = [st |-> "open", shares |-> pos[s].shares - k,
                                        price |-> pos[s].price]]
          /\ Record(r)
  BY DEF Tp1Partial
<1> DEFINE p == pos[s].price
           q == pos[s].shares
           n == q - k
<1>2. /\ p \in Nat /\ p >= 1 /\ q \in Nat /\ n \in Nat /\ n >= 1 /\ n <= q - 1
      /\ pos[s].st = "open"
  <2>1. p \in Nat /\ q \in Nat
    BY <1>0, PosTyped
  <2>2. pos[s].st = "open" /\ p >= 1
    BY <1>0 DEF Tp1Partial, Sound
  <2>3. QED
    BY <2>1, <2>2
<1>3. killed => killed'
  BY <1>1, Zenon DEF Record
<1>4. Stage[s] = "settled" /\ Stage = [t \in Symbols |-> Stage[t]] /\ Claimed[s] = p * q
  BY <1>2, StageIs
<1>5. /\ Stage' = [Stage EXCEPT ![s] = "settled"]
      /\ Claimed' = [Claimed EXCEPT ![s] = p * n]
  BY <1>1, <1>2, BookMoves DEF Status
<1>6. Stage' = Stage
  BY <1>4, <1>5
<1> HIDE DEF p, q, n
<1>7. p * n \in 1..(p * q - 1)
  <2>1. p * n \in Int /\ p * n >= 1
    BY <1>2
  <2>2. p * n <= p * (q - 1) /\ p * (q - 1) = p * q - p /\ p * q \in Int
    BY <1>2
  <2>3. QED
    BY <1>2, <2>1, <2>2
<1>8. QED
  BY <1>3, <1>4, <1>5, <1>6, <1>7 DEF Book!Reduce

\* A new session forgets the book.
LEMMA SessionForgets ==
    ASSUME HoldInv, NewSession
    PROVE  Book!Forget
<1>1. pos' = [s \in Symbols |-> NoPos]
  BY DEF NewSession
<1>2. \A s \in Symbols : Stage'[s] = "none" /\ Claimed'[s] = 0
  BY <1>1, StageIsNext DEF NoPos
<1>3. Stage' = [s \in Symbols |-> "none"] /\ Claimed' = [s \in Symbols |-> 0]
  BY <1>2, StageIsNext
<1>4. killed' \in BOOLEAN
  BY SessionHolds DEF HoldInv, TypeOK
<1>5. QED
  BY <1>3, <1>4 DEF Book!Forget

LEMMA BookInit == Init => Book!Init
<1> SUFFICES ASSUME Init
             PROVE  Book!Init
  OBVIOUS
<1>1. \A s \in Symbols : Stage[s] = "none" /\ Claimed[s] = 0
  BY StageIs DEF Init, NoPos
<1>2. Stage = [s \in Symbols |-> "none"] /\ Claimed = [s \in Symbols |-> 0]
  BY <1>1, StageIs
<1>3. killed = FALSE
  BY DEF Init
<1>4. QED
  BY <1>2, <1>3 DEF Book!Init

LEMMA BookNext == HoldInv /\ [Next]_vars => [Book!Next]_Book!vars
<1> SUFFICES ASSUME HoldInv, [Next]_vars
             PROVE  Book!Next \/ UNCHANGED Book!vars
  OBVIOUS
<1>1. ASSUME NEW s \in Symbols, OpenPosition(s)
      PROVE  Book!Next
  BY <1>1, OpeningClaims DEF Book!Next
<1>2. ASSUME NEW s \in Symbols, EntryFills(s)
      PROVE  Book!Next
  BY <1>2, FillSettles DEF Book!Next
<1>3. ASSUME NEW s \in Symbols, Tp1Partial(s)
      PROVE  Book!Next
  BY <1>3, PartialReduces DEF Book!Next
<1>4. ASSUME NEW s \in Symbols,
             EntryRejected(s) \/ EntryTimesOut(s) \/ ExitRecorded(s) \/ StopFires(s)
      PROVE  Book!Next
  <2>1. pos[s].st \in {"entering", "open"} /\ pos' = [pos EXCEPT ![s] = NoPos]
    BY <1>4 DEF EntryRejected, EntryTimesOut, ExitRecorded, StopFires, Closes
  <2>2. killed => killed'
    BY <1>4, Zenon DEF EntryRejected, EntryTimesOut, ExitRecorded, StopFires, Record
  <2>3. Book!Release(s)
    BY <2>1, <2>2, LeavingReleases
  <2>4. QED
    BY <2>3 DEF Book!Next
<1>5. ASSUME NEW s \in Symbols, EntryRefused(s) \/ LooseFills(s) \/ LooseDies(s)
      PROVE  UNCHANGED Book!vars
  BY <1>5, BookStands DEF EntryRefused, LooseFills, LooseDies
<1>6. CASE NewSession
  BY <1>6, SessionForgets DEF Book!Next
<1>7. CASE Done \/ UNCHANGED vars
  BY <1>7, BookStands DEF Done, vars
<1>8. QED
  BY <1>1, <1>2, <1>3, <1>4, <1>5, <1>6, <1>7 DEF Next

\* The gate and the margin budget implement EntryBook: whatever the prices, sizes and
\* limits, every entry fits beside all that is entering or open.
THEOREM GateKeepsBook == Spec => ImplementsBook
BY BookInit, BookNext, HoldInvariance, PTL DEF Spec, ImplementsBook, Book!Spec
=============================================================================
