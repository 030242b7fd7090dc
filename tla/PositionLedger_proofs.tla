------------------------- MODULE PositionLedger_proofs -------------------------
(***************************************************************************)
(* What holds of PositionManager's closed_trades rows for every entry      *)
(* size, every bound and every set of refusable orders; that what the      *)
(* first session bought is covered, where orders fill whole; and that an   *)
(* entry never stacks on another.                                          *)
(***************************************************************************)
EXTENDS PositionManager_proofs, SumTheorems

\* An order that reads as filled has fills; a free slot has no order; no order is its
\* own parent.
Sound(f, n) ==
    \A o \in OrderIds :
        /\ f[o].parent # o
        /\ f[o].st \in {"Filled", "PartiallyFilled"} => f[o].filled > 0
        /\ o >= n => f[o].filled = 0 /\ f[o].qty = 0

\* No order loses its fills.
FillsStay(f, g) == \A o \in OrderIds : f[o].filled > 0 => g[o].filled > 0

\* A row of an exit leg names an order that exists.
LegsExist == \A r \in ledger : r.by \in {"watcher", "poll"} => r.leg \in OrderIds

ExecsBacked == \A o \in execs : ord[o].filled > 0

LedgerInv == Sound(ord, nxt) /\ ExecsBacked /\ LegsExist /\ LedgerIsBacked

(***************************************************************************)
(* What is sent.                                                           *)
(***************************************************************************)

LEMMA CancelSound ==
    ASSUME NEW f, NEW S, NEW n \in Nat, OrdersOK(f), Sound(f, n)
    PROVE  Sound(CancelSent(f, S), n) /\ FillsStay(f, CancelSent(f, S))
<1>1. ASSUME NEW o \in OrderIds
      PROVE  /\ CancelSent(f, S)[o].filled = f[o].filled
             /\ CancelSent(f, S)[o].qty = f[o].qty /\ CancelSent(f, S)[o].parent = f[o].parent
             /\ CancelSent(f, S)[o].st \in {f[o].st, "PendingCancel"}
  BY DEF CancelSent, OrdersOK, Order
<1>2. QED
  BY <1>1 DEF Sound, FillsStay

LEMMA PlacedSound ==
    ASSUME NEW f, NEW n \in OrderIds, NEW kind, NEW side, NEW qty, OrdersOK(f), Sound(f, n)
    PROVE  /\ Sound(Placed(f, n, kind, side, qty), n + 1)
           /\ FillsStay(f, Placed(f, n, kind, side, qty))
<1>0. n \in Nat /\ \A o \in OrderIds : o \in Nat /\ o # 0
  BY GatewayAssumption DEF OrderIds
<1>1. ASSUME NEW o \in OrderIds
      PROVE  Placed(f, n, kind, side, qty)[o] = IF o = n THEN NewOrder(kind, side, qty, 0) ELSE f[o]
  BY DEF Placed, OrdersOK
<1>2. NewOrder(kind, side, qty, 0).st = "Submitted" /\ NewOrder(kind, side, qty, 0).parent = 0
  BY DEF NewOrder
<1>3. f[n].filled = 0
  BY <1>0 DEF Sound
<1>4. QED
  BY <1>0, <1>1, <1>2, <1>3 DEF Sound, FillsStay

LEMMA BracketSound ==
    ASSUME NEW f, NEW n \in Nat \ {0}, n + 2 <= MaxOrders, OrdersOK(f), Sound(f, n)
    PROVE  /\ Sound(BracketPlaced(f, n, EntryQty), n + 3)
           /\ FillsStay(f, BracketPlaced(f, n, EntryQty))
<1> DEFINE g == BracketPlaced(f, n, EntryQty)
<1>0. {n, n + 1, n + 2} \subseteq OrderIds /\ \A o \in OrderIds : o \in Nat /\ o # 0
  BY GatewayAssumption DEF OrderIds
<1>1. /\ g[n].st = "Submitted"
      /\ g[n + 1].st = "PreSubmitted" /\ g[n + 2].st = "PreSubmitted"
      /\ g[n].parent = 0 /\ g[n + 1].parent = n /\ g[n + 2].parent = n
      /\ \A o \in OrderIds : o \notin {n, n + 1, n + 2} => g[o] = f[o]
  BY <1>0 DEF BracketPlaced, OrdersOK, NewOrder
<1>2. f[n].filled = 0 /\ f[n + 1].filled = 0 /\ f[n + 2].filled = 0
  BY <1>0 DEF Sound
<1> HIDE DEF g
<1>3. Sound(g, n + 3)
  BY <1>0, <1>1 DEF Sound
<1>4. FillsStay(f, g)
  BY <1>0, <1>1, <1>2 DEF FillsStay
<1>5. QED
  BY <1>3, <1>4 DEF g

LEMMA RefusedSound ==
    ASSUME NEW o \in OrderIds, NEW n \in Nat, OrdersOK(ord), Sound(ord, n)
    PROVE  Sound(Refused(o), n) /\ FillsStay(ord, Refused(o))
<1>1. ASSUME NEW p \in OrderIds
      PROVE  /\ Refused(o)[p].filled = ord[p].filled
             /\ Refused(o)[p].qty = ord[p].qty /\ Refused(o)[p].parent = ord[p].parent
             /\ Refused(o)[p].st \in {ord[p].st, "Inactive", "Cancelled"}
  BY DEF Refused, OrdersOK, Order
<1>2. QED
  BY <1>1 DEF Sound, FillsStay

LEMMA ExpiredSound ==
    ASSUME NEW n \in Nat, OrdersOK(ord), Sound(ord, n)
    PROVE  Sound(Expired(ord), n) /\ FillsStay(ord, Expired(ord))
<1>1. ASSUME NEW p \in OrderIds
      PROVE  /\ Expired(ord)[p].filled = ord[p].filled
             /\ Expired(ord)[p].qty = ord[p].qty /\ Expired(ord)[p].parent = ord[p].parent
             /\ Expired(ord)[p].st \in {ord[p].st, "Cancelled"}
  BY DEF Expired, OrdersOK, Order
<1>2. QED
  BY <1>1 DEF Sound, FillsStay

(***************************************************************************)
(* The exchange.                                                           *)
(***************************************************************************)

\* Only a fill makes an order read as filled, and it has a share at least.
LEMMA FillSound ==
    ASSUME NEW o \in OrderIds, Fill(o), OrdersOK(ord), Sound(ord, nxt), nxt \in Nat
    PROVE  /\ Sound(ord', nxt) /\ FillsStay(ord, ord')
           /\ execs' = execs \/ (execs' = execs \cup {o} /\ ord'[o].filled > 0)
<1>1. PICK n \in 1..Unfilled(o) :
        /\ \E s \in FillStatus(o, n) : ord' = FillResult(o, n, s)
        /\ execs' = execs \/ execs' = execs \cup {o}
  BY DEF Fill
<1>2. PICK s \in FillStatus(o, n) : ord' = FillResult(o, n, s)
  BY <1>1
<1>3. \A p \in OrderIds : ord[p] \in Order /\ ord[p].filled \in Nat /\ ord[p].qty \in Nat
  BY DEF OrdersOK, Order
<1>4. n \in Nat /\ n >= 1 /\ Unfilled(o) >= 1
  BY <1>1, <1>3 DEF Unfilled
<1>5. o < nxt
  BY <1>3, <1>4, GatewayAssumption DEF Sound, Unfilled, OrderIds
<1>6. ASSUME NEW p \in OrderIds
      PROVE  /\ ord'[p].parent = ord[p].parent
             /\ p = o => ord'[p].filled = ord[p].filled + n
             /\ p # o => /\ ord'[p].filled = ord[p].filled /\ ord'[p].qty = ord[p].qty
                         /\ ord'[p].st \in {ord[p].st, "Submitted"}
  <2> DEFINE a == [ord[p] EXCEPT !.filled = @ + n, !.st = s, !.live = FALSE]
             b == [ord[p] EXCEPT !.filled = @ + n, !.st = s]
             c == [ord[p] EXCEPT !.st = "Submitted", !.live = TRUE]
             d == [ord[p] EXCEPT !.live = FALSE]
  <2>1. ord'[p] = CASE p = o /\ n = Unfilled(o) -> a
                    [] p = o /\ n # Unfilled(o) -> b
                    [] p \in Children(o) /\ n = Unfilled(o) /\ ord[p].st = "PreSubmitted" -> c
                    [] p \in Siblings(o) -> d
                    [] OTHER -> ord[p]
    BY <1>2, Zenon DEF FillResult
  <2>2. CASE p = o
    <3>1. ord'[p] = a \/ ord'[p] = b
      <4>1. p \notin Children(o) /\ p \notin Siblings(o)
        BY <2>2 DEF Sound, Children, Siblings
      <4> HIDE DEF a, b, c, d
      <4>2. QED
        BY <2>1, <2>2, <4>1
    <3>2. /\ a.filled = ord[p].filled + n /\ b.filled = ord[p].filled + n
          /\ a.parent = ord[p].parent /\ b.parent = ord[p].parent
      BY <1>3 DEF Order
    <3>3. QED
      BY <2>2, <3>1, <3>2
  <2>3. CASE p # o
    <3>1. ord'[p] = c \/ ord'[p] = d \/ ord'[p] = ord[p]
      <4> HIDE DEF a, b, c, d
      <4>1. QED
        BY <2>1, <2>3
    <3>2. /\ c.filled = ord[p].filled /\ c.qty = ord[p].qty /\ c.st = "Submitted"
          /\ d.filled = ord[p].filled /\ d.qty = ord[p].qty /\ d.st = ord[p].st
          /\ c.parent = ord[p].parent /\ d.parent = ord[p].parent
      BY <1>3 DEF Order
    <3>3. QED
      BY <2>3, <3>1, <3>2
  <2>4. QED
    BY <2>2, <2>3
<1>7. ord'[o].filled > 0
  BY <1>3, <1>4, <1>6
<1>8. Sound(ord', nxt)
  <2> SUFFICES ASSUME NEW p \in OrderIds
               PROVE  /\ ord'[p].parent # p
                      /\ ord'[p].st \in {"Filled", "PartiallyFilled"} => ord'[p].filled > 0
                      /\ p >= nxt => ord'[p].filled = 0 /\ ord'[p].qty = 0
    BY DEF Sound
  <2>1. CASE p = o
    <3>1. ord'[p].parent # p /\ ord'[p].filled > 0
      BY <1>6, <1>7, <2>1 DEF Sound
    <3>2. ~(p >= nxt)
      BY <1>5, <2>1, GatewayAssumption DEF OrderIds
    <3>3. QED
      BY <3>1, <3>2
  <2>2. CASE p # o
    BY <1>6, <2>2 DEF Sound
  <2>3. QED
    BY <2>1, <2>2
<1>9. FillsStay(ord, ord')
  BY <1>3, <1>6, <1>7 DEF FillsStay
<1>10. QED
  BY <1>1, <1>7, <1>8, <1>9

LEMMA ExchangeSound ==
    ASSUME Exchange, OrdersOK(ord), Sound(ord, nxt), nxt \in Nat, ExecsBacked, execs \subseteq OrderIds
    PROVE  Sound(ord', nxt') /\ FillsStay(ord, ord') /\ ExecsBacked'
<1>1. ASSUME NEW o \in OrderIds, Fill(o)
      PROVE  Sound(ord', nxt') /\ FillsStay(ord, ord') /\ ExecsBacked'
  <2>1. nxt' = nxt
    BY <1>1 DEF Fill
  <2>2. QED
    BY <1>1, <2>1, FillSound DEF FillsStay, ExecsBacked
<1>2. ASSUME NEW o \in OrderIds, CancelAck(o)
      PROVE  Sound(ord', nxt') /\ FillsStay(ord, ord') /\ ExecsBacked'
  <2>1. ASSUME NEW p \in OrderIds
        PROVE  /\ ord'[p].filled = ord[p].filled /\ ord'[p].qty = ord[p].qty
               /\ ord'[p].parent = ord[p].parent
               /\ ord'[p].st \in {ord[p].st, "Submitted", "Cancelled"}
    <3> DEFINE a == [ord[o] EXCEPT !.st = "Cancelled", !.live = FALSE]
               b == [ord[p] EXCEPT !.st = "Submitted", !.live = TRUE]
               c == [ord[p] EXCEPT !.st = "Cancelled"]
    <3>1. PICK keep \in {FALSE, ord[o].filled > 0} :
            ord'[p] = CASE p = o -> a
                        [] p \in Children(o) /\ ord[p].st = "PreSubmitted" -> IF keep THEN b ELSE c
                        [] OTHER -> ord[p]
      BY <1>2, Zenon DEF CancelAck
    <3>2. (p = o /\ ord'[p] = a) \/ ord'[p] = b \/ ord'[p] = c \/ ord'[p] = ord[p]
      <4> HIDE DEF a, b, c
      <4>1. QED
        BY <3>1
    <3>3. ord[o] \in Order /\ ord[p] \in Order
      BY DEF OrdersOK
    <3>4. /\ a.filled = ord[o].filled /\ a.qty = ord[o].qty /\ a.st = "Cancelled"
          /\ b.filled = ord[p].filled /\ b.qty = ord[p].qty /\ b.st = "Submitted"
          /\ c.filled = ord[p].filled /\ c.qty = ord[p].qty /\ c.st = "Cancelled"
          /\ a.parent = ord[o].parent /\ b.parent = ord[p].parent /\ c.parent = ord[p].parent
      BY <3>3 DEF Order
    <3>5. QED
      BY <3>2, <3>4
  <2>2. nxt' = nxt /\ execs' = execs
    BY <1>2 DEF CancelAck
  <2>3. QED
    BY <2>1, <2>2 DEF Sound, FillsStay, ExecsBacked
<1>3. ASSUME NEW o \in OrderIds, OcaReport(o)
      PROVE  Sound(ord', nxt') /\ FillsStay(ord, ord') /\ ExecsBacked'
  <2>1. ASSUME NEW p \in OrderIds
        PROVE  /\ ord'[p].filled = ord[p].filled /\ ord'[p].qty = ord[p].qty
               /\ ord'[p].parent = ord[p].parent
               /\ ord'[p].st \in {ord[p].st, "Cancelled"}
    BY <1>3 DEF OcaReport, OrdersOK, Order
  <2>2. nxt' = nxt /\ execs' = execs
    BY <1>3 DEF OcaReport
  <2>3. QED
    BY <2>1, <2>2 DEF Sound, FillsStay, ExecsBacked
<1>4. ASSUME NEW o \in OrderIds, Refuse(o)
      PROVE  Sound(ord', nxt') /\ FillsStay(ord, ord') /\ ExecsBacked'
  BY <1>4, RefusedSound DEF Refuse, FillsStay, ExecsBacked
<1>5. CASE PortfolioUpdate
  BY <1>5 DEF PortfolioUpdate, Sound, FillsStay, ExecsBacked
<1>6. QED
  BY <1>1, <1>2, <1>3, <1>4, <1>5 DEF Exchange

(***************************************************************************)
(* Every step of the program.                                              *)
(***************************************************************************)

OrdersStay == Sound(ord', nxt') /\ FillsStay(ord, ord')

LEMMA SlotsAre ==
    ASSUME IInv
    PROVE  /\ nxt \in Nat \ {0} /\ MaxOrders \in Nat /\ OrdersOK(ord)
           /\ \A k \in Nat : Room(k) => nxt + k <= MaxOrders + 1
           /\ Room(1) => nxt \in OrderIds
<1>1. nxt \in 1..(MaxOrders + 1) /\ MaxOrders \in Nat
  BY GatewayAssumption DEF IInv, TypeOK, GatewayTypeOK
<1>2. QED
  BY <1>1 DEF IInv, Room, OrderIds

LEMMA OrdersUntouched ==
    ASSUME Sound(ord, nxt), UNCHANGED <<ord, nxt>>
    PROVE  OrdersStay
BY DEF OrdersStay, Sound, FillsStay

\* Orders cancelled, and perhaps one placed.
LEMMA OneSent ==
    ASSUME IInv, Sound(ord, nxt), NEW f, OrdersOK(f), Sound(f, nxt), FillsStay(ord, f),
           NEW kind, NEW side, NEW qty,
           \/ ord' = f /\ nxt' = nxt
           \/ Room(1) /\ ord' = Placed(f, nxt, kind, side, qty) /\ nxt' = nxt + 1
    PROVE  OrdersStay
<1>1. CASE ord' = f /\ nxt' = nxt
  BY <1>1 DEF OrdersStay
<1>2. CASE Room(1) /\ ord' = Placed(f, nxt, kind, side, qty) /\ nxt' = nxt + 1
  <2>1. nxt \in OrderIds
    BY <1>2, SlotsAre
  <2>2. Sound(ord', nxt') /\ FillsStay(f, ord')
    BY <1>2, <2>1, PlacedSound
  <2>3. QED
    BY <2>2 DEF OrdersStay, FillsStay
<1>3. QED
  BY <1>1, <1>2

LEMMA CancelledThenSent ==
    ASSUME IInv, Sound(ord, nxt), NEW S, NEW kind, NEW side, NEW qty,
           \/ ord' = CancelSent(ord, S) /\ nxt' = nxt
           \/ Room(1) /\ ord' = Placed(CancelSent(ord, S), nxt, kind, side, qty) /\ nxt' = nxt + 1
    PROVE  OrdersStay
<1>1. nxt \in Nat /\ OrdersOK(ord)
  BY SlotsAre
<1>2. /\ OrdersOK(CancelSent(ord, S)) /\ Sound(CancelSent(ord, S), nxt)
      /\ FillsStay(ord, CancelSent(ord, S))
  BY <1>1, CancelSound, CancelSentKeeps
<1>3. QED
  BY <1>2, OneSent

LEMMA StepStays ==
    ASSUME IInv, Sound(ord, nxt), [Next]_vars, ~Exchange
    PROVE  OrdersStay
<1>0. nxt \in Nat \ {0} /\ MaxOrders \in Nat /\ OrdersOK(ord)
  BY SlotsAre
<1>1. CASE \E ok \in BOOLEAN : OpenPosition(ok)
  <2>1. \/ Room(3) /\ ord' = BracketPlaced(ord, nxt, EntryQty) /\ nxt' = nxt + 3
        \/ UNCHANGED <<ord, nxt>>
    BY <1>1 DEF OpenPosition
  <2>2. Room(3) => nxt + 2 <= MaxOrders
    BY <1>0 DEF Room
  <2>3. QED
    BY <1>0, <2>1, <2>2, BracketSound, OrdersUntouched DEF OrdersStay
<1>2. CASE CheckPendingEntry
  <2>1. CASE NoPendingEntry \/ EntryCompletes \/ EntryDropped \/ EntryStillPending
    BY <2>1, OrdersUntouched
       DEF NoPendingEntry, EntryCompletes, EntryDropped, EntryStillPending, gatewayVars
  <2>2. CASE EntryCompletesPartly
    BY <2>2, CancelledThenSent DEF EntryCompletesPartly
  <2>3. CASE \E ok \in BOOLEAN : EntryStopFails(ok)
    <3>1. \/ ord' = CancelSent(ord, Bracket) /\ nxt' = nxt
          \/ /\ Room(1) /\ nxt' = nxt + 1
             /\ ord' = Placed(CancelSent(ord, Bracket), nxt, "market", -1, Bought)
      BY <2>3 DEF EntryStopFails
    <3>2. QED
      BY <3>1, CancelledThenSent
  <2>4. CASE EntryTimesOut
    <3>1. ord' = CancelSent(ord, {pend}) /\ nxt' = nxt
      BY <2>4 DEF EntryTimesOut, CancelEntry
    <3>2. QED
      BY <3>1, CancelledThenSent
  <2>5. QED
    BY <1>2, <2>1, <2>2, <2>3, <2>4 DEF CheckPendingEntry
<1>3. CASE ManageOpen
  <2>1. CASE NothingOpen \/ HandleStopFired \/ EodNothingLeft \/ Tp1TakesAll \/ NoExitDue
    BY <2>1, OrdersUntouched
       DEF NothingOpen, HandleStopFired, EodNothingLeft, Tp1TakesAll, NoExitDue, gatewayVars
  <2>2. CASE \E ok \in BOOLEAN : EodExit(ok)
    <3>1. \/ ord' = CancelSent(ord, Legs) /\ nxt' = nxt
          \/ /\ Room(1) /\ nxt' = nxt + 1
             /\ ord' = Placed(CancelSent(ord, Legs), nxt, "market", -1, ExitQty)
      BY <2>2 DEF EodExit, SendMarket
    <3>2. QED
      BY <3>1, CancelledThenSent
  <2>3. CASE \E ok \in BOOLEAN : Tp1ByBar(ok)
    <3>1. \/ ord' = CancelSent(ord, {pos.stop}) /\ nxt' = nxt
          \/ /\ Room(1) /\ nxt' = nxt + 1
             /\ ord' = Placed(CancelSent(ord, {pos.stop}), nxt, "market", -1, pos.rem)
      BY <2>3 DEF Tp1ByBar, SendMarket
    <3>2. QED
      BY <3>1, CancelledThenSent
  <2>4. CASE Tp1Partial \/ \E ok \in BOOLEAN : Tp1PartialStopFails(ok)
    <3>1. \/ ord' = ord /\ nxt' = nxt
          \/ \E kind \in {"stop", "market"} :
                Room(1) /\ ord' = Placed(ord, nxt, kind, -1, AfterTp1.rem) /\ nxt' = nxt + 1
      BY <2>4 DEF Tp1Partial, Tp1PartialStopFails
    <3>2. FillsStay(ord, ord)
      BY DEF FillsStay
    <3>3. QED
      BY <1>0, <3>1, <3>2, OneSent
  <2>5. QED
    BY <1>3, <2>1, <2>2, <2>3, <2>4 DEF ManageOpen
<1>4. CASE \E o \in OrderIds : OrderRejected(o)
  <2>1. PICK o \in OrderIds : OrderRejected(o)
    BY <1>4
  <2>2. Sound(Refused(o), nxt) /\ FillsStay(ord, Refused(o)) /\ OrdersOK(Refused(o))
    BY <1>0, RefusedSound, RefusedKeeps
  <2>3. nxt' = nxt
    BY <2>1 DEF OrderRejected
  <2>4. CASE ord' = Refused(o)
    BY <2>2, <2>3, <2>4 DEF OrdersStay
  <2>5. CASE ord' = [p \in OrderIds |-> IF p \in Legs THEN CancelSent(Refused(o), Legs)[p]
                                                      ELSE Refused(o)[p]]
    <3>1. /\ Sound(CancelSent(Refused(o), Legs), nxt)
          /\ FillsStay(Refused(o), CancelSent(Refused(o), Legs))
      BY <1>0, <2>2, CancelSound
    <3>2. \A p \in OrderIds : ord'[p] = CancelSent(Refused(o), Legs)[p] \/ ord'[p] = Refused(o)[p]
      BY <2>5
    <3>3. QED
      BY <2>2, <2>3, <3>1, <3>2 DEF OrdersStay, Sound, FillsStay
  <2>6. QED
    BY <2>1, <2>4, <2>5 DEF OrderRejected
<1>5. CASE Flatten
  <2>1. CASE FlattenNoExit \/ FlattenBook \/ Unsubscribe
    BY <2>1, OrdersUntouched DEF FlattenNoExit, FlattenBook, Unsubscribe, gatewayVars
  <2>2. CASE \E ok \in BOOLEAN : FlattenExit(ok)
    <3>1. \/ ord' = CancelSent(ord, Legs) /\ nxt' = nxt
          \/ /\ Room(1) /\ nxt' = nxt + 1
             /\ ord' = Placed(CancelSent(ord, Legs), nxt, "market", -1, ExitQty)
      BY <2>2 DEF FlattenExit, SendMarket
    <3>2. QED
      BY <3>1, CancelledThenSent
  <2>3. CASE \E ok \in BOOLEAN : FlattenTail(ok)
    <3>1. \/ ord' = CancelSent(ord, {pend}) /\ nxt' = nxt
          \/ /\ Room(1) /\ nxt' = nxt + 1
             /\ ord' = Placed(CancelSent(ord, {pend}), nxt, "market",
                              IF seen > 0 THEN -1 ELSE 1, AbsQty(seen))
      BY <2>3 DEF FlattenTail, SendMarket, CancelEntry
    <3>2. QED
      BY <3>1, CancelledThenSent
  <2>4. QED
    BY <1>5, <2>1, <2>2, <2>3 DEF Flatten
<1>6. CASE DayEnds
  BY <1>0, <1>6, ExpiredSound DEF DayEnds, OrdersStay
<1>7. CASE \E ok \in BOOLEAN : StartSession(ok)
  <2>1. \/ UNCHANGED <<ord, nxt>>
        \/ ord' = CancelSent(ord, {row.tp1, row.stop}) /\ nxt' = nxt
        \/ /\ Room(1) /\ nxt' = nxt + 1
           /\ ord' = Placed(CancelSent(ord, {row.tp1, row.stop}), nxt, "market", -1, AbsQty(seen))
    BY <1>7 DEF StartSession, Reconcile, SendMarket
  <2>2. QED
    BY <2>1, CancelledThenSent, OrdersUntouched
<1>8. CASE EntryRefused \/ (\E o \in OrderIds : FillWatcher(o)) \/ EntryOverdue \/ BarsReachEod
           \/ Crash \/ Done \/ UNCHANGED vars
  BY <1>8, OrdersUntouched
     DEF EntryRefused, FillWatcher, EntryOverdue, BarsReachEod, Crash, Done, vars, gatewayVars
<1>9. QED
  BY <1>1, <1>2, <1>3, <1>4, <1>5, <1>6, <1>7, <1>8 DEF Next, Callback

(***************************************************************************)
(* The rows.                                                               *)
(***************************************************************************)

\* A new row is of an exit the manager sent itself, or of a leg with fills; a poll
\* books no leg that a watcher has booked.
Booked(r) ==
    \/ r.by = "exit"
    \/ /\ r.leg \in OrderIds /\ ord[r.leg].filled > 0
       /\ r.by = "poll" => r.leg \notin recorded

LEMMA NewRows ==
    ASSUME IInv, Sound(ord, nxt), ExecsBacked, [Next]_vars
    PROVE  \A r \in ledger' : r \in ledger \/ Booked(r)
<1>0. pos \in Position /\ execs \subseteq OrderIds
  BY DEF IInv, TypeOK, GatewayTypeOK
<1>1. CASE HandleStopFired
  <2>1. \/ ledger' = ledger
        \/ pos.stop \notin recorded /\ ledger' = ledger \cup {[leg |-> pos.stop, by |-> "poll"]}
    BY <1>1 DEF HandleStopFired, Book, ToBook
  <2>2. pos.stop \in OrderIds
    BY <1>0, <1>1, GatewayAssumption DEF HandleStopFired, StopFired, Position, OrderIds
  <2>3. ord[pos.stop].st \in {"Filled", "PartiallyFilled"}
    BY <1>1, <2>2 DEF HandleStopFired, StopFired, OrderStatus, NormalizeStatus, IInv, OrdersOK,
                      Order, RawStatus
  <2>4. QED
    BY <2>1, <2>2, <2>3 DEF Sound, Booked
<1>2. CASE Tp1TakesAll
  <2>1. \/ ledger' = ledger
        \/ pos.tp1 \notin recorded /\ ledger' = ledger \cup {[leg |-> pos.tp1, by |-> "poll"]}
    BY <1>2 DEF Tp1TakesAll, Book, ToBook
  <2>2. pos.tp1 \in OrderIds /\ pos.booked \in Nat
    BY <1>0, <1>2, GatewayAssumption DEF Tp1TakesAll, Tp1Fills, Position, OrderIds
  <2>3. ord[pos.tp1].filled > 0
    <3>1. ord[pos.tp1].filled > pos.booked /\ ord[pos.tp1].filled \in Nat
      BY <1>2, <2>2 DEF Tp1TakesAll, Tp1Fills, IInv, OrdersOK, Order
    <3>2. QED
      BY <2>2, <3>1
  <2>4. QED
    BY <2>1, <2>2, <2>3 DEF Booked
<1>3. CASE \E o \in OrderIds : FillWatcher(o)
  <2>1. PICK o \in OrderIds : FillWatcher(o)
    BY <1>3
  <2>2. o \in execs /\ (ledger' = ledger \/ ledger' = ledger \cup {[leg |-> o, by |-> "watcher"]})
    BY <2>1 DEF FillWatcher, Book
  <2>3. QED
    BY <2>2 DEF ExecsBacked, Booked
<1>4. CASE FlattenBook \/ \E ok \in BOOLEAN : EodExit(ok) \/ Tp1ByBar(ok)
  <2>1. \E leg : ledger' = ledger \cup {[leg |-> leg, by |-> "exit"]}
    BY <1>4 DEF FlattenBook, EodExit, Tp1ByBar, Book
  <2>2. QED
    BY <2>1 DEF Booked
<1>5. CASE UNCHANGED ledger
  BY <1>5
<1>6. \/ HandleStopFired \/ Tp1TakesAll \/ (\E o \in OrderIds : FillWatcher(o))
      \/ FlattenBook \/ (\E ok \in BOOLEAN : EodExit(ok) \/ Tp1ByBar(ok))
      \/ UNCHANGED ledger
  <2>1. CASE Callback
    <3>1. CASE CheckPendingEntry
      BY <3>1 DEF CheckPendingEntry, NoPendingEntry, EntryCompletes, EntryCompletesPartly,
                  EntryStopFails, EntryDropped, EntryTimesOut, EntryStillPending, managerVars
    <3>2. CASE ManageOpen
      BY <3>2 DEF ManageOpen, NothingOpen, EodNothingLeft, Tp1Partial, Tp1PartialStopFails,
                  NoExitDue, managerVars
    <3>3. CASE EntryRefused \/ \E ok \in BOOLEAN : OpenPosition(ok)
      BY <3>3 DEF EntryRefused, OpenPosition, managerVars
    <3>4. CASE \E o \in OrderIds : FillWatcher(o) \/ OrderRejected(o)
      BY <3>4 DEF OrderRejected
    <3>5. QED
      BY <2>1, <3>1, <3>2, <3>3, <3>4 DEF Callback
  <2>2. CASE Flatten
    BY <2>2 DEF Flatten, FlattenExit, FlattenNoExit, FlattenTail, Unsubscribe, managerVars
  <2>3. CASE EntryOverdue \/ BarsReachEod \/ Crash \/ DayEnds \/ Done \/ UNCHANGED vars
             \/ \E ok \in BOOLEAN : StartSession(ok)
    BY <2>3 DEF EntryOverdue, BarsReachEod, Crash, DayEnds, Done, vars, StartSession, managerVars
  <2>4. CASE Exchange /\ UNCHANGED <<managerVars, controlVars, fails>>
    BY <2>4 DEF managerVars
  <2>5. QED
    BY <2>1, <2>2, <2>3, <2>4 DEF Next
<1>7. QED
  BY <1>1, <1>2, <1>3, <1>4, <1>5, <1>6

LEMMA LedgerKept ==
    ASSUME IInv, LedgerInv, [Next]_vars
    PROVE  LedgerInv'
<1>0. execs \subseteq OrderIds /\ nxt \in Nat
  BY SlotsAre DEF IInv, TypeOK, GatewayTypeOK
<1>1. OrdersStay /\ (~Exchange => execs' \subseteq execs)
  <2>1. CASE Exchange
    BY <1>0, <2>1, ExchangeSound DEF OrdersStay, LedgerInv, IInv
  <2>2. CASE ~Exchange
    <3>1. execs' \subseteq execs
      <4>1. CASE Callback
        BY <4>1 DEF Callback, CheckPendingEntry, NoPendingEntry, EntryCompletes,
              EntryCompletesPartly, EntryStopFails, EntryDropped, EntryTimesOut, EntryStillPending,
              ManageOpen, NothingOpen, HandleStopFired, EodExit, EodNothingLeft, Tp1TakesAll,
              Tp1Partial, Tp1PartialStopFails, Tp1ByBar, NoExitDue, EntryRefused, OpenPosition,
              FillWatcher, OrderRejected, gatewayVars
      <4>2. CASE Flatten
        BY <4>2 DEF Flatten, FlattenExit, FlattenNoExit, FlattenBook, FlattenTail, Unsubscribe,
                    gatewayVars
      <4>3. CASE EntryOverdue \/ BarsReachEod \/ Crash \/ DayEnds \/ Done \/ UNCHANGED vars
                 \/ \E ok \in BOOLEAN : StartSession(ok)
        BY <4>3 DEF EntryOverdue, BarsReachEod, Crash, DayEnds, Done, vars, StartSession, gatewayVars
      <4>4. QED
        BY <2>2, <4>1, <4>2, <4>3 DEF Next
    <3>2. QED
      BY <2>2, <3>1, StepStays DEF LedgerInv
  <2>3. QED
    BY <2>1, <2>2
<1>2. ExecsBacked'
  <2>1. CASE Exchange
    BY <1>0, <2>1, ExchangeSound DEF LedgerInv, IInv
  <2>2. CASE ~Exchange
    BY <1>0, <1>1, <2>2 DEF LedgerInv, ExecsBacked, OrdersStay, FillsStay
  <2>3. QED
    BY <2>1, <2>2
<1>3. ASSUME NEW r \in ledger', r.by \in {"watcher", "poll"}
      PROVE  r.leg \in OrderIds /\ ord'[r.leg].filled > 0
  <2>1. r.leg \in OrderIds /\ ord[r.leg].filled > 0
    <3>1. CASE r \in ledger
      BY <1>3, <3>1 DEF LedgerInv, LegsExist, LedgerIsBacked
    <3>2. CASE Booked(r)
      BY <1>3, <3>2 DEF Booked
    <3>3. QED
      BY <3>1, <3>2, NewRows DEF LedgerInv
  <2>2. QED
    BY <1>1, <2>1 DEF OrdersStay, FillsStay
<1>4. QED
  BY <1>1, <1>2, <1>3 DEF LedgerInv, OrdersStay, LegsExist, LedgerIsBacked

(***************************************************************************)
(* The theorems.                                                           *)
(***************************************************************************)

\* The inductive invariant of the rows: an order keeps its fills, and its slot.
THEOREM LedgerInvariance == Spec => []LedgerInv
<1>1. Init => LedgerInv
  <2> SUFFICES ASSUME Init
               PROVE  LedgerInv
    OBVIOUS
  <2>1. ord = [o \in OrderIds |-> NoOrder] /\ execs = {} /\ ledger = {}
    BY DEF Init, GatewayInit, ManagerInit
  <2>2. \A o \in OrderIds : o # 0
    BY GatewayAssumption DEF OrderIds
  <2>3. QED
    BY <2>1, <2>2 DEF LedgerInv, Sound, NoOrder, ExecsBacked, LegsExist, LedgerIsBacked
<1>2. IInv /\ LedgerInv /\ [Next]_vars => LedgerInv'
  BY LedgerKept
<1>3. QED
  BY <1>1, <1>2, Invariance, PTL DEF Spec

\* A trade booked for a leg of the bracket has shares of that leg behind it, whatever
\* was cancelled, refused, raised or lost in a crash.
THEOREM RowsAreBacked == Spec => []LedgerIsBacked
<1>1. LedgerInv => LedgerIsBacked
  BY DEF LedgerInv
<1>2. QED
  BY <1>1, LedgerInvariance, PTL

(***************************************************************************)
(* The cover of what a first session buys, where orders fill whole, IB     *)
(* refuses only entries and no submission raises.                          *)
(***************************************************************************)

FirstTrading == phase = "trading" /\ sessions = 1

NothingSent ==
    /\ nxt = 1 /\ net = 0 /\ seen = 0 /\ pend = 0 /\ pos = NoPos
    /\ ord = [o \in OrderIds |-> NoOrder]

\* The bracket has slots 1 to 3; what is sent after it sells.
BracketSent ==
    /\ nxt >= 4 /\ MaxOrders >= 3
    /\ ord[1].kind = "entry" /\ ord[1].side = 1 /\ ord[1].parent = 0
    /\ \A o \in {1, 2, 3} : ord[o].qty = EntryQty /\ ord[o].filled \in {0, EntryQty}
    /\ \A o \in {2, 3} : ord[o].side = -1 /\ ord[o].parent = 1 /\ ord[o].kind # "entry"
    /\ \A o \in OrderIds : o > 3 =>
          /\ ord[o].parent = 0 /\ ord[o].kind # "entry"
          /\ ord[o].live => ord[o].side = -1 /\ o < nxt

\* The children wait for the entry.
ChildrenWait ==
    \/ ord[1].filled = EntryQty /\ ord[1].st = "Filled" /\ ~ord[1].live
    \/ /\ ord[1].filled = 0
       /\ \A o \in {2, 3} : /\ ord[o].filled = 0 /\ ~ord[o].live
                            /\ ord[1].live => ord[o].st = "PreSubmitted"

\* Until the manager sends an exit, the legs are not cancelled, one of them fills at
\* most, and both work while neither has.
LegsCover ==
    nxt = 4 =>
      /\ ord[2].st # "PendingCancel" /\ ord[3].st # "PendingCancel"
      /\ net = ord[1].filled - ord[2].filled - ord[3].filled /\ seen \in {0, EntryQty}
      /\ ord[2].filled = EntryQty => ord[3].filled = 0 /\ ~ord[3].live
      /\ ord[3].filled = EntryQty => ord[2].filled = 0 /\ ~ord[2].live
      /\ ord[1].filled = EntryQty /\ ord[2].filled = 0 /\ ord[3].filled = 0 => ord[2].live

\* The first exit it sends is for the whole entry, and nothing cancels it.
ExitCovers ==
    nxt >= 5 =>
      /\ MaxOrders >= 4 /\ ord[1].filled = EntryQty
      /\ ord[4].qty = EntryQty /\ ord[4].side = -1 /\ ord[4].filled \in {0, EntryQty}
      /\ ord[4].filled = 0 => ord[4].live /\ ord[4].st = "Submitted"
      /\ net + ord[4].filled <= EntryQty

\* The manager knows of this bracket or of nothing.
BracketKnown ==
    /\ pend \in {0, 1}
    /\ \/ pos = NoPos
       \/ pos.st = "entering" /\ pos.tp1 = 2 /\ pos.stop = 3
       \/ /\ pos.st = "open" /\ pos.tp1 = 2 /\ pos.stop = 3
          /\ ord[1].filled = EntryQty
          /\ pos.booked \in {0, EntryQty} /\ pos.rem = EntryQty - pos.booked

OneBracket == BracketSent /\ ChildrenWait /\ LegsCover /\ ExitCovers /\ BracketKnown
CoverInv == FirstTrading => NothingSent \/ (~armed /\ OneBracket)

LEMMA BracketSlots ==
    ASSUME BracketSent
    PROVE  /\ {1, 2, 3} \subseteq OrderIds
           /\ \A o \in OrderIds : o \in Nat /\ (o \in {1, 2, 3} \/ o > 3)
           /\ nxt >= 5 /\ MaxOrders >= 4 => 4 \in OrderIds
BY GatewayAssumption DEF BracketSent, OrderIds

\* A whole fill, field by field.
Traded(o) ==
    /\ ord[o].live /\ Unfilled(o) > 0 /\ nxt' = nxt /\ seen' = seen
    /\ ord[o].side = 1 => net' = net + Unfilled(o)
    /\ ord[o].side = -1 => net' = net - Unfilled(o)
    /\ ord'[o].filled = ord[o].qty /\ ord'[o].st = "Filled" /\ ~ord'[o].live
SentAs(p) ==
    /\ ord'[p].kind = ord[p].kind /\ ord'[p].side = ord[p].side
    /\ ord'[p].qty = ord[p].qty /\ ord'[p].parent = ord[p].parent
Touched(o, p) ==
    /\ ord'[p].filled = ord[p].filled
    /\ IF p \in Children(o) /\ ord[p].st = "PreSubmitted"
       THEN ord'[p].st = "Submitted" /\ ord'[p].live
       ELSE /\ ord'[p].st = ord[p].st
            /\ ord'[p].live <=> ord[p].live /\ p \notin Siblings(o)

LEMMA WholeFill ==
    ASSUME PartialFills = FALSE, OrdersOK(ord), net \in Int, NEW o \in OrderIds, Fill(o),
           ord[o].parent # o
    PROVE  Traded(o) /\ \A p \in OrderIds : SentAs(p) /\ (p # o => Touched(o, p))
<1>1. \A p \in OrderIds : /\ ord[p] \in Order /\ ord[p].qty \in Nat /\ ord[p].filled \in Nat
                          /\ ord[p].side \in {1, -1} /\ ord[p].live \in BOOLEAN
  BY DEF OrdersOK, Order
<1> DEFINE n == Unfilled(o)
<1>2. /\ n \in Nat /\ n > 0 /\ net' = net + ord[o].side * n
      /\ ord' = FillResult(o, n, "Filled") /\ ord[o].filled + n = ord[o].qty
      /\ ord[o].live /\ nxt' = nxt /\ seen' = seen
  <2>1. PICK m \in 1..n : /\ m = n
                          /\ \E s \in FillStatus(o, m) : ord' = FillResult(o, m, s)
                          /\ net' = net + ord[o].side * m
    BY DEF Fill
  <2>2. ord' = FillResult(o, n, "Filled")
    BY <2>1 DEF FillStatus
  <2>3. n \in Int /\ ord[o].filled + n = ord[o].qty
    BY <1>1 DEF Unfilled
  <2>4. ord[o].live /\ nxt' = nxt /\ seen' = seen
    BY DEF Fill
  <2> HIDE DEF n
  <2>5. QED
    BY <2>1, <2>2, <2>3, <2>4
<1>3. ASSUME NEW p \in OrderIds
      PROVE  /\ p = o => ord'[p] = [ord[p] EXCEPT !.filled = @ + n, !.st = "Filled", !.live = FALSE]
             /\ p # o => ord'[p] =
                  IF p \in Children(o) /\ ord[p].st = "PreSubmitted"
                  THEN [ord[p] EXCEPT !.st = "Submitted", !.live = TRUE]
                  ELSE IF p \in Siblings(o) THEN [ord[p] EXCEPT !.live = FALSE] ELSE ord[p]
  <2> DEFINE a == [ord[p] EXCEPT !.filled = @ + n, !.st = "Filled", !.live = FALSE]
             b == [ord[p] EXCEPT !.filled = @ + n, !.st = "Filled"]
             c == [ord[p] EXCEPT !.st = "Submitted", !.live = TRUE]
             d == [ord[p] EXCEPT !.live = FALSE]
  <2>1. ord'[p] = CASE p = o /\ n = Unfilled(o) -> a
                    [] p = o /\ n # Unfilled(o) -> b
                    [] p \in Children(o) /\ n = Unfilled(o) /\ ord[p].st = "PreSubmitted" -> c
                    [] p \in Siblings(o) -> d
                    [] OTHER -> ord[p]
    BY <1>2, Zenon DEF FillResult
  <2>2. n = Unfilled(o)
    OBVIOUS
  <2>3. p \in Children(o) => p \notin Siblings(o) /\ p # o
    BY DEF Children, Siblings
  <2>4. o \notin Siblings(o)
    BY DEF Siblings
  <2> HIDE DEF a, b, c, d, n
  <2>5. CASE p = o
    <3>1. ord'[p] = a
      BY <2>1, <2>2, <2>3, <2>4, <2>5
    <3>2. QED
      BY <2>5, <3>1 DEF a
  <2>6. CASE p # o
    <3>1. ord'[p] = IF p \in Children(o) /\ ord[p].st = "PreSubmitted"
                    THEN c ELSE IF p \in Siblings(o) THEN d ELSE ord[p]
      BY <2>1, <2>2, <2>3, <2>6
    <3>2. QED
      BY <2>6, <3>1 DEF c, d
  <2>7. QED
    BY <2>5, <2>6
<1>4. Traded(o)
  <2>1. ord'[o] = [ord[o] EXCEPT !.filled = @ + n, !.st = "Filled", !.live = FALSE]
    BY <1>3
  <2>2. ord'[o].filled = ord[o].qty /\ ord'[o].st = "Filled" /\ ~ord'[o].live
    BY <1>1, <1>2, <2>1 DEF Order
  <2>3. /\ ord[o].side = 1 => net' = net + n
        /\ ord[o].side = -1 => net' = net - n
    <3> HIDE DEF n
    <3>1. ASSUME ord[o].side = 1 PROVE net' = net + n
      BY <1>2, <3>1
    <3>2. ASSUME ord[o].side = -1 PROVE net' = net - n
      BY <1>2, <3>2
    <3>3. QED
      BY <3>1, <3>2
  <2>4. QED
    BY <1>2, <2>2, <2>3 DEF Traded
<1>5. ASSUME NEW p \in OrderIds
      PROVE  SentAs(p) /\ (p # o => Touched(o, p))
  <2>0. ord[p] \in Order
    BY <1>1
  <2> HIDE DEF n
  <2>1. CASE p = o
    <3>1. ord'[p] = [ord[p] EXCEPT !.filled = @ + n, !.st = "Filled", !.live = FALSE]
      BY <1>3, <2>1
    <3>2. QED
      BY <2>0, <2>1, <3>1 DEF Order, SentAs
  <2>2. CASE p # o /\ p \in Children(o) /\ ord[p].st = "PreSubmitted"
    <3>1. ord'[p] = [ord[p] EXCEPT !.st = "Submitted", !.live = TRUE]
      BY <1>3, <2>2
    <3>2. QED
      BY <2>0, <2>2, <3>1 DEF Order, SentAs, Touched
  <2>3. CASE p # o /\ ~(p \in Children(o) /\ ord[p].st = "PreSubmitted") /\ p \in Siblings(o)
    <3>1. ord'[p] = [ord[p] EXCEPT !.live = FALSE]
      BY <1>3, <2>3
    <3>2. QED
      BY <2>0, <2>3, <3>1 DEF Order, SentAs, Touched
  <2>4. CASE p # o /\ ~(p \in Children(o) /\ ord[p].st = "PreSubmitted") /\ p \notin Siblings(o)
    <3>1. ord'[p] = ord[p]
      BY <1>3, <2>4
    <3>2. QED
      BY <2>4, <3>1 DEF SentAs, Touched
  <2>5. QED
    BY <2>1, <2>2, <2>3, <2>4
<1>6. QED
  BY <1>4, <1>5

\* Who a fill touches.
LEMMA Relatives ==
    ASSUME BracketSent, OrdersOK(ord), NEW o \in OrderIds
    PROVE  /\ o = 1 => Children(o) = {2, 3} /\ Siblings(o) = {}
           /\ o # 1 => Children(o) = {}
           /\ o = 2 => Siblings(o) = {3}
           /\ o = 3 => Siblings(o) = {2}
           /\ o > 3 => Siblings(o) = {}
BY BracketSlots DEF BracketSent, Children, Siblings

LEMMA FillCovers ==
    ASSUME PartialFills = FALSE, OrdersOK(ord), net \in Int, nxt \in Nat,
           OneBracket, NEW o \in OrderIds, Fill(o), UNCHANGED <<pos, pend>>
    PROVE  OneBracket'
<1>0. /\ EntryQty \in Nat /\ EntryQty > 0 /\ {1, 2, 3} \subseteq OrderIds
      /\ \A p \in OrderIds : p \in Nat /\ (p \in {1, 2, 3} \/ p > 3)
      /\ nxt >= 5 => 4 \in OrderIds
      /\ \A p \in OrderIds : ord[p].filled \in Nat /\ ord[p].qty \in Nat
  BY BracketSlots, GatewayAssumption DEF OneBracket, ExitCovers, OrdersOK, Order
<1>f. Traded(o) /\ \A p \in OrderIds : SentAs(p) /\ (p # o => Touched(o, p))
  <2>1. ord[o].parent # o
    BY <1>0 DEF OneBracket, BracketSent
  <2>2. QED
    BY <2>1, WholeFill
<1> USE DEF OneBracket
<1>1. BracketSent'
  <2>1. ASSUME NEW p \in OrderIds, p > 3
        PROVE  /\ ord'[p].parent = 0 /\ ord'[p].kind # "entry"
               /\ ord'[p].live => ord'[p].side = -1 /\ p < nxt'
    <3>1. p \notin Children(o)
      BY <1>0, <2>1, Relatives
    <3>2. QED
      BY <2>1, <3>1, <1>f DEF BracketSent, Traded, SentAs, Touched
  <2>2. QED
    BY <1>0, <2>1, <1>f DEF BracketSent, Traded, SentAs, Touched
<1>2. CASE o = 1
  <2>1. /\ ord[1].filled = 0 /\ nxt = 4 /\ Unfilled(1) = EntryQty
        /\ \A p \in {2, 3} : ord[p].filled = 0 /\ ~ord[p].live /\ ord[p].st = "PreSubmitted"
    BY <1>0, <1>2, <1>f DEF ChildrenWait, ExitCovers, BracketSent, Unfilled, Traded, SentAs, Touched
  <2>2. \A p \in {2, 3} : p \in Children(o) /\ p # o
    BY <1>2, Relatives
  <2>3. /\ ord'[1].filled = EntryQty /\ ord'[1].st = "Filled" /\ ~ord'[1].live
        /\ \A p \in {2, 3} : ord'[p].filled = 0 /\ ord'[p].live /\ ord'[p].st = "Submitted"
        /\ net' = net + EntryQty /\ nxt' = 4 /\ seen' = seen
    BY <1>0, <1>2, <2>1, <2>2, <1>f DEF BracketSent, Traded, SentAs, Touched
  <2>4. ChildrenWait' /\ ExitCovers'
    BY <2>3 DEF ChildrenWait, ExitCovers
  <2>5. LegsCover'
    BY <1>0, <2>1, <2>3 DEF LegsCover
  <2>6. BracketKnown'
    BY <1>0, <2>3 DEF BracketKnown
  <2>7. QED
    BY <1>1, <2>4, <2>5, <2>6
<1>3. CASE o \in {2, 3}
  <2>1. /\ ord[o].filled = 0 /\ Unfilled(o) = EntryQty /\ ord[1].filled = EntryQty
        /\ ord[1].st = "Filled" /\ ~ord[1].live
    BY <1>0, <1>3, <1>f DEF ChildrenWait, BracketSent, Unfilled, Traded, SentAs, Touched
  <2>2. /\ ord'[1].filled = EntryQty /\ ord'[1].st = "Filled" /\ ~ord'[1].live
    BY <1>0, <1>3, <2>1, <1>f, Relatives DEF Touched, Traded, SentAs
  <2>3. /\ ord'[o].filled = EntryQty /\ ord'[o].st = "Filled" /\ net' = net - EntryQty
        /\ ~ord'[o].live
    BY <1>0, <1>3, <2>1, <1>f DEF BracketSent, Traded, SentAs, Touched
  <2>4. ASSUME NEW p \in {2, 3}, p # o
        PROVE  ord'[p].filled = ord[p].filled /\ ord'[p].st = ord[p].st /\ ~ord'[p].live
    <3>1. p \notin Children(o) /\ p \in Siblings(o)
      BY <1>0, <1>3, <2>4, Relatives
    <3>2. QED
      BY <1>0, <2>4, <3>1, <1>f DEF Traded, SentAs, Touched
  <2>5. ChildrenWait'
    BY <2>2 DEF ChildrenWait
  <2>6. LegsCover'
    <3> SUFFICES ASSUME nxt' = 4
                 PROVE  LegsCover'
      BY DEF LegsCover
    <3>0. nxt = 4 /\ seen' \in {0, EntryQty} /\ ord[o].live
      BY <1>f DEF LegsCover, Traded
    <3>1. /\ ord[2].st # "PendingCancel" /\ ord[3].st # "PendingCancel"
          /\ net = EntryQty - ord[2].filled - ord[3].filled
          /\ ord[2].filled = EntryQty => ~ord[3].live
          /\ ord[3].filled = EntryQty => ~ord[2].live
      BY <2>1, <3>0 DEF LegsCover
    <3>2. ord[2].filled \in {0, EntryQty} /\ ord[3].filled \in {0, EntryQty}
      BY DEF BracketSent
    <3>3. CASE o = 2
      <4>1. ord[3].filled = 0 /\ ord[2].filled = 0
        BY <2>1, <3>0, <3>1, <3>2, <3>3
      <4>2. /\ ord'[3].filled = 0 /\ ord'[3].st = ord[3].st /\ ~ord'[3].live
            /\ ord'[2].filled = EntryQty /\ ord'[2].st = "Filled" /\ net' = 0
        BY <1>0, <2>3, <2>4, <3>1, <3>3, <4>1
      <4>3. QED
        BY <1>0, <2>2, <3>0, <3>1, <4>2 DEF LegsCover
    <3>4. CASE o = 3
      <4>1. ord[3].filled = 0 /\ ord[2].filled = 0
        BY <2>1, <3>0, <3>1, <3>2, <3>4
      <4>2. /\ ord'[2].filled = 0 /\ ord'[2].st = ord[2].st /\ ~ord'[2].live
            /\ ord'[3].filled = EntryQty /\ ord'[3].st = "Filled" /\ net' = 0
        BY <1>0, <2>3, <2>4, <3>1, <3>4, <4>1
      <4>3. QED
        BY <1>0, <2>2, <3>0, <3>1, <4>2 DEF LegsCover
    <3>5. QED
      BY <1>3, <3>3, <3>4
  <2>7. ExitCovers'
    <3>1. ASSUME nxt >= 5
          PROVE  /\ ord'[4].filled = ord[4].filled /\ ord'[4].st = ord[4].st
                 /\ ord'[4].qty = ord[4].qty /\ ord'[4].side = ord[4].side
                 /\ ord[4].live => ord'[4].live
      <4>1. 4 \in OrderIds /\ 4 \notin Children(o) /\ 4 \notin Siblings(o) /\ 4 # o
        BY <1>0, <1>3, <3>1, Relatives
      <4>2. QED
        BY <4>1, <1>f DEF Traded, SentAs, Touched
    <3>2. QED
      BY <1>0, <2>2, <2>3, <3>1, <1>f DEF ExitCovers, Traded, SentAs, Touched
  <2>8. BracketKnown'
    BY <1>0, <2>2 DEF BracketKnown
  <2>9. QED
    BY <1>1, <2>5, <2>6, <2>7, <2>8
<1>4. CASE o > 3
  <2>1. nxt >= 5 /\ ord[o].side = -1 /\ net' = net - Unfilled(o) /\ Unfilled(o) > 0
    BY <1>0, <1>4, <1>f DEF BracketSent, Traded, SentAs, Touched
  <2>2. \A p \in OrderIds : p \notin Children(o) /\ p \notin Siblings(o)
    BY <1>0, <1>4, Relatives
  <2>3. \A p \in OrderIds : p # o =>
            ord'[p].filled = ord[p].filled /\ ord'[p].st = ord[p].st /\ (ord'[p].live <=> ord[p].live)
    BY <2>2, <1>f DEF Traded, SentAs, Touched
  <2>4. ChildrenWait' /\ BracketKnown' /\ ord'[1].filled = ord[1].filled
    BY <1>0, <1>4, <2>3 DEF ChildrenWait, BracketKnown
  <2>5. LegsCover'
    BY <2>1, <1>f DEF LegsCover, Traded, SentAs, Touched
  <2>6. ExitCovers'
    <3>1. 4 \in OrderIds /\ MaxOrders >= 4 /\ ord[1].filled = EntryQty
      BY <1>0, <2>1 DEF ExitCovers
    <3>2. /\ ord'[4].qty = EntryQty /\ ord'[4].side = -1
      BY <2>1, <3>1, <1>f DEF ExitCovers, Traded, SentAs, Touched
    <3>3. CASE o = 4
      <4>1. ord'[4].filled = EntryQty /\ Unfilled(4) = EntryQty - ord[4].filled
        BY <2>1, <3>1, <3>3, <1>f DEF ExitCovers, Unfilled, Traded, SentAs, Touched
      <4>2. net' + ord'[4].filled <= EntryQty
        BY <1>0, <2>1, <3>1, <3>3, <4>1 DEF ExitCovers
      <4>3. QED
        BY <1>0, <2>4, <3>1, <3>2, <4>1, <4>2 DEF ExitCovers
    <3>4. CASE o # 4
      <4>1. ord'[4].filled = ord[4].filled /\ ord'[4].st = ord[4].st /\ (ord'[4].live <=> ord[4].live)
        BY <2>3, <3>1, <3>4
      <4>2. Unfilled(o) \in Int
        BY <1>0 DEF Unfilled
      <4>3. net' + ord'[4].filled <= EntryQty
        BY <1>0, <2>1, <3>1, <4>1, <4>2 DEF ExitCovers
      <4>4. QED
        BY <2>1, <2>4, <3>1, <3>2, <4>1, <4>3 DEF ExitCovers
    <3>5. QED
      BY <3>3, <3>4
  <2>7. QED
    BY <1>1, <2>4, <2>5, <2>6
<1>5. QED
  BY <1>0, <1>2, <1>3, <1>4

\* Steps that trade nothing and send nothing: orders only fade.
Fades ==
    /\ \A p \in OrderIds : SentAs(p) /\ ord'[p].filled = ord[p].filled
                           /\ (ord'[p].live => ord[p].live)
    /\ ord[1].filled = EntryQty => ord'[1].st = ord[1].st
    /\ ord'[1].live => ord'[2].st = ord[2].st /\ ord'[3].st = ord[3].st
    /\ nxt = 4 => \A p \in {2, 3} :
          /\ ord'[p].st # "PendingCancel"
          /\ ord[1].filled = EntryQty /\ ord[2].filled = 0 /\ ord[3].filled = 0 /\ ord[p].live
                => ord'[p].live
    /\ nxt >= 5 /\ ord[4].filled = 0 => ord'[4].st = ord[4].st /\ ord'[4].live = ord[4].live
    /\ net' = net /\ nxt' = nxt /\ seen' \in {seen, net}

LEMMA FadeCovers ==
    ASSUME OneBracket, Fades, BracketKnown', net \in Int, nxt \in Nat
    PROVE  OneBracket'
<1>0. /\ {1, 2, 3} \subseteq OrderIds /\ EntryQty \in Nat /\ EntryQty > 0
      /\ nxt >= 5 => 4 \in OrderIds
  BY BracketSlots, GatewayAssumption DEF OneBracket, ExitCovers
<1>1. BracketSent'
  BY <1>0 DEF OneBracket, BracketSent, Fades, SentAs
<1>2. ChildrenWait'
  BY <1>0 DEF OneBracket, ChildrenWait, Fades
<1>3. LegsCover'
  <2> SUFFICES ASSUME nxt = 4
               PROVE  LegsCover'
    BY DEF LegsCover, Fades
  <2>1. /\ net = ord[1].filled - ord[2].filled - ord[3].filled /\ seen \in {0, EntryQty}
        /\ ord[2].filled = EntryQty => ord[3].filled = 0 /\ ~ord[3].live
        /\ ord[3].filled = EntryQty => ord[2].filled = 0 /\ ~ord[2].live
        /\ ord[1].filled = EntryQty /\ ord[2].filled = 0 /\ ord[3].filled = 0 => ord[2].live
    BY DEF OneBracket, LegsCover
  <2>2. net \in {0, EntryQty}
    <3>1. \A o \in {1, 2, 3} : ord[o].filled \in {0, EntryQty}
      BY DEF OneBracket, BracketSent
    <3>2. ord[1].filled = 0 => ord[2].filled = 0 /\ ord[3].filled = 0
      BY <1>0 DEF OneBracket, ChildrenWait
    <3>3. QED
      BY <1>0, <2>1, <3>1, <3>2
  <2>3. \A o \in {1, 2, 3} : ord'[o].filled = ord[o].filled /\ (ord'[o].live => ord[o].live)
    BY <1>0 DEF Fades
  <2>4. \A p \in {2, 3} : ord'[p].st # "PendingCancel"
    BY DEF Fades
  <2>5. ord'[1].filled = EntryQty /\ ord'[2].filled = 0 /\ ord'[3].filled = 0 => ord'[2].live
    BY <2>1, <2>3 DEF Fades
  <2>6. seen' \in {0, EntryQty} /\ net' = net
    BY <2>1, <2>2 DEF Fades
  <2>7. QED
    BY <2>1, <2>3, <2>4, <2>5, <2>6 DEF LegsCover
<1>4. ExitCovers'
  <2> SUFFICES ASSUME nxt >= 5
               PROVE  ExitCovers'
    BY DEF ExitCovers, Fades
  <2>1. SentAs(4) /\ ord'[4].filled = ord[4].filled /\ ord'[1].filled = ord[1].filled
    BY <1>0 DEF Fades
  <2>2. QED
    BY <2>1 DEF OneBracket, ExitCovers, Fades, SentAs
<1>5. QED
  BY <1>1, <1>2, <1>3, <1>4 DEF OneBracket

LEMMA KnownStays ==
    ASSUME BracketKnown, UNCHANGED <<pos, pend>>, ord'[1].filled = ord[1].filled
    PROVE  BracketKnown'
BY DEF BracketKnown

\* A refusal is of the entry, before it traded.
LEMMA RefusalFades ==
    ASSUME Rejects \subseteq {"entry"}, OrdersOK(ord), nxt \in Nat, OneBracket,
           NEW o \in OrderIds, Refusable(o),
           \A p \in OrderIds : ord'[p] = Refused(o)[p] \/
                               (p \in {0, 2, 3} /\ ord'[p] = CancelSent(Refused(o), {0, 2, 3})[p]),
           net' = net, nxt' = nxt, seen' = seen
    PROVE  o = 1 /\ Fades
<1>0. /\ {1, 2, 3} \subseteq OrderIds /\ EntryQty \in Nat /\ EntryQty > 0
      /\ \A p \in OrderIds : p \in Nat /\ (p \in {1, 2, 3} \/ p > 3)
      /\ \A p \in OrderIds : ord[p] \in Order
      /\ nxt >= 5 => 4 \in OrderIds
  BY BracketSlots, GatewayAssumption DEF OneBracket, ExitCovers, OrdersOK
<1>1. o = 1 /\ ord[1].filled = 0
  BY <1>0 DEF Refusable, OneBracket, BracketSent
<1>2. Children(o) = {2, 3} /\ nxt = 4
  BY <1>0, <1>1, Relatives DEF OneBracket, ExitCovers, BracketSent
<1>3. ASSUME NEW p \in OrderIds
      PROVE  /\ p = 1 => ord'[p] = [ord[p] EXCEPT !.st = "Inactive", !.live = FALSE]
             /\ p \in {2, 3} => \/ ord'[p] = [ord[p] EXCEPT !.st = "Cancelled", !.live = FALSE]
                                \/ ord'[p] = ord[p]
             /\ p > 3 => ord'[p] = ord[p]
  <2>0. ord[p] \in Order
    BY <1>0
  <2>1. Refused(o)[p] = CASE p = o -> [ord[o] EXCEPT !.st = "Inactive", !.live = FALSE]
                          [] p \in Children(o) /\ ord[p].st \notin Terminal ->
                                [ord[p] EXCEPT !.st = "Cancelled", !.live = FALSE]
                          [] OTHER -> ord[p]
    BY Zenon DEF Refused
  <2>2. p = 1 => Refused(o)[p] = [ord[p] EXCEPT !.st = "Inactive", !.live = FALSE]
    BY <1>1, <1>2, <2>1
  <2>3. p > 3 => Refused(o)[p] = ord[p]
    BY <1>0, <1>1, <1>2, <2>1
  <2>4. p \in {2, 3} => IF ord[p].st \in Terminal THEN Refused(o)[p] = ord[p]
                        ELSE Refused(o)[p] = [ord[p] EXCEPT !.st = "Cancelled", !.live = FALSE]
    BY <1>1, <1>2, <2>1
  <2>5. p \in {2, 3} => Refused(o)[p].st \in Terminal
    BY <2>0, <2>4 DEF Terminal, Order
  <2>6. p \in {2, 3} => CancelSent(Refused(o), {0, 2, 3})[p] = Refused(o)[p]
    BY <2>5 DEF CancelSent
  <2>7. ord'[p] = Refused(o)[p]
    BY <1>0, <2>6
  <2>8. QED
    BY <2>2, <2>3, <2>4, <2>7
<1>4. ASSUME NEW p \in OrderIds
      PROVE  /\ SentAs(p) /\ ord'[p].filled = ord[p].filled /\ (ord'[p].live => ord[p].live)
             /\ p = 1 => ~ord'[p].live
             /\ p \in {2, 3} => ord'[p].st \in {"Cancelled", ord[p].st}
  <2>1. ord[p] \in Order /\ (p \in {1, 2, 3} \/ p > 3)
    BY <1>0
  <2>2. QED
    BY <1>3, <2>1 DEF Order, SentAs
<1>5. QED
  BY <1>0, <1>1, <1>2, <1>4 DEF Fades, OneBracket, LegsCover

LEMMA ExchangeCovers ==
    ASSUME PartialFills = FALSE, Rejects \subseteq {"entry"}, OrdersOK(ord), net \in Int,
           nxt \in Nat, OneBracket, Exchange, UNCHANGED <<pos, pend>>
    PROVE  OneBracket'
<1>0. /\ {1, 2, 3} \subseteq OrderIds /\ EntryQty \in Nat /\ EntryQty > 0
      /\ \A p \in OrderIds : p \in Nat /\ (p \in {1, 2, 3} \/ p > 3)
      /\ nxt >= 5 => 4 \in OrderIds
      /\ \A p \in OrderIds : ord[p] \in Order
  BY BracketSlots, GatewayAssumption DEF OneBracket, ExitCovers, OrdersOK
<1>1. ASSUME NEW o \in OrderIds, Fill(o)
      PROVE  OneBracket'
  BY <1>1, FillCovers
<1>2. ASSUME NEW o \in OrderIds, CancelAck(o)
      PROVE  Fades
  <2>0. ord[o].st = "PendingCancel" /\ net' = net /\ nxt' = nxt /\ seen' = seen
    BY <1>2 DEF CancelAck
  <2>1. o = 1 => ord[1].filled = 0
    BY <2>0 DEF OneBracket, ChildrenWait
  <2>2. o \in {2, 3} => nxt # 4
    BY <2>0 DEF OneBracket, LegsCover
  <2>3. nxt >= 5 /\ o = 4 => ord[4].filled # 0
    BY <2>0 DEF OneBracket, ExitCovers
  <2>4. ASSUME NEW p \in OrderIds
        PROVE  /\ p = o => ord'[p] = [ord[p] EXCEPT !.st = "Cancelled", !.live = FALSE]
               /\ p # o => ord'[p] = IF p \in Children(o) /\ ord[p].st = "PreSubmitted"
                                     THEN [ord[p] EXCEPT !.st = "Cancelled"] ELSE ord[p]
    <3>1. PICK keep \in {FALSE, ord[o].filled > 0} : ord' = [q \in OrderIds |->
            CASE q = o -> [ord[o] EXCEPT !.st = "Cancelled", !.live = FALSE]
              [] q \in Children(o) /\ ord[q].st = "PreSubmitted" ->
                    IF keep THEN [ord[q] EXCEPT !.st = "Submitted", !.live = TRUE]
                            ELSE [ord[q] EXCEPT !.st = "Cancelled"]
              [] OTHER -> ord[q]]
      BY <1>2 DEF CancelAck
    <3>2. ord'[p] =
            CASE p = o -> [ord[o] EXCEPT !.st = "Cancelled", !.live = FALSE]
              [] p \in Children(o) /\ ord[p].st = "PreSubmitted" ->
                    IF keep THEN [ord[p] EXCEPT !.st = "Submitted", !.live = TRUE]
                            ELSE [ord[p] EXCEPT !.st = "Cancelled"]
              [] OTHER -> ord[p]
      BY <3>1, Zenon
    <3>3. Children(o) # {} => ~keep
      <4>1. Children(o) # {} => o = 1
        BY Relatives DEF OneBracket
      <4>2. o = 1 => ~(ord[o].filled > 0)
        BY <2>1
      <4>3. QED
        BY <4>1, <4>2
    <3>4. p = o => p \notin Children(o)
      BY <1>0, Relatives DEF OneBracket
    <3>5. QED
      BY <3>2, <3>3, <3>4
  <2>5. ASSUME NEW p \in OrderIds
        PROVE  /\ SentAs(p) /\ ord'[p].filled = ord[p].filled /\ (ord'[p].live => ord[p].live)
               /\ p = o => ~ord'[p].live /\ ord'[p].st = "Cancelled"
               /\ p # o => ord'[p].live = ord[p].live
               /\ p # o /\ p \notin Children(o) => ord'[p].st = ord[p].st
               /\ ord'[p].st \in {"Cancelled", ord[p].st}
    <3>1. ord[p] \in Order
      BY <1>0
    <3>2. CASE p = o
      BY <2>4, <3>1, <3>2 DEF Order, SentAs
    <3>3. CASE p # o /\ p \in Children(o) /\ ord[p].st = "PreSubmitted"
      <4>1. ord'[p] = [ord[p] EXCEPT !.st = "Cancelled"]
        BY <2>4, <3>3
      <4>2. QED
        BY <3>1, <3>3, <4>1 DEF Order, SentAs
    <3>4. CASE p # o /\ ~(p \in Children(o) /\ ord[p].st = "PreSubmitted")
      <4>1. ord'[p] = ord[p]
        BY <2>4, <3>4
      <4>2. QED
        BY <3>4, <4>1 DEF SentAs
    <3>5. QED
      BY <3>2, <3>3, <3>4
  <2>6. ord[1].filled = EntryQty => ord'[1].st = ord[1].st
    BY <1>0, <2>1, <2>5, Relatives DEF OneBracket
  <2>7. ord'[1].live => ord'[2].st = ord[2].st /\ ord'[3].st = ord[3].st
    <3>1. CASE o = 1
      BY <1>0, <2>5, <3>1
    <3>2. CASE o # 1
      <4>1. Children(o) = {}
        BY <3>2, Relatives DEF OneBracket
      <4>2. ord'[1].live => o \notin {2, 3}
        <5>1. ord[1].live => ord[2].st = "PreSubmitted" /\ ord[3].st = "PreSubmitted"
          BY DEF OneBracket, ChildrenWait
        <5>2. QED
          BY <1>0, <2>0, <2>5, <5>1
      <4>3. QED
        BY <1>0, <2>5, <4>1, <4>2
    <3>3. QED
      BY <3>1, <3>2
  <2>8. nxt = 4 => \A p \in {2, 3} :
          /\ ord'[p].st # "PendingCancel" /\ (ord[p].live => ord'[p].live)
    BY <1>0, <2>2, <2>5 DEF OneBracket, LegsCover
  <2>9. nxt >= 5 /\ ord[4].filled = 0 => ord'[4].st = ord[4].st /\ ord'[4].live = ord[4].live
    <3> SUFFICES ASSUME nxt >= 5, ord[4].filled = 0
                 PROVE  ord'[4].st = ord[4].st /\ ord'[4].live = ord[4].live
      OBVIOUS
    <3>1. 4 \in OrderIds /\ o # 4 /\ 4 \notin Children(o)
      BY <1>0, <2>3, Relatives DEF OneBracket
    <3>2. QED
      BY <2>5, <3>1
  <2>10. QED
    BY <2>0, <2>5, <2>6, <2>7, <2>8, <2>9 DEF Fades
<1>3. ASSUME NEW o \in OrderIds, OcaReport(o)
      PROVE  Fades
  <2>1. /\ ~ord[o].live /\ ord' = [ord EXCEPT ![o].st = "Cancelled"]
        /\ net' = net /\ nxt' = nxt /\ seen' = seen
        /\ \E p \in Siblings(o) : ord[p].filled > 0
    BY <1>3 DEF OcaReport
  <2>2. o \in {2, 3} /\ ~ord[1].live
    <3>1. Siblings(o) # {}
      BY <2>1
    <3>2. o \in {2, 3} /\ Siblings(o) \subseteq {2, 3}
      BY <1>0, <3>1, Relatives DEF OneBracket
    <3>3. QED
      BY <1>0, <2>1, <3>2 DEF OneBracket, ChildrenWait
  <2>3. ASSUME NEW p \in OrderIds
        PROVE  /\ SentAs(p) /\ ord'[p].filled = ord[p].filled /\ ord'[p].live = ord[p].live
               /\ ord'[p].st = IF p = o THEN "Cancelled" ELSE ord[p].st
    <3>1. ord[p] \in Order
      BY <1>0
    <3>2. QED
      BY <2>1, <3>1 DEF OrdersOK, Order, SentAs
  <2>4. QED
    BY <1>0, <2>1, <2>2, <2>3 DEF Fades, OneBracket, LegsCover
<1>4. ASSUME NEW o \in OrderIds, Refuse(o)
      PROVE  Fades
  <2>1. ord' = Refused(o) /\ net' = net /\ nxt' = nxt /\ seen' = seen /\ Refusable(o)
    BY <1>4 DEF Refuse
  <2>2. QED
    BY <2>1, RefusalFades
<1>5. ASSUME PortfolioUpdate
      PROVE  Fades
  BY <1>0, <1>5 DEF PortfolioUpdate, Fades, SentAs, OneBracket, LegsCover
<1>6. ASSUME Fades
      PROVE  OneBracket'
  <2>1. BracketKnown'
    BY <1>0, <1>6, KnownStays DEF OneBracket, Fades
  <2>2. QED
    BY <1>6, <2>1, FadeCovers
<1>7. QED
  BY <1>1, <1>2, <1>3, <1>4, <1>5, <1>6 DEF Exchange

\* The first exit is for the whole entry; the ones after it leave it alone.
LEMMA ExitSent ==
    ASSUME OrdersOK(ord), net \in Int, nxt \in Nat, OneBracket, IsOpen, pos.rem > 0,
           MaxFails = 0, fails \in Nat, NEW ok \in BOOLEAN,
           SendMarket(CancelSent(ord, Legs), ok, -1, ExitQty), BracketKnown', seen' = seen, net' = net
    PROVE  OneBracket'
<1>0. /\ {1, 2, 3} \subseteq OrderIds /\ EntryQty \in Nat /\ EntryQty > 0
      /\ \A p \in OrderIds : p \in Nat /\ (p \in {1, 2, 3} \/ p > 3)
      /\ \A p \in OrderIds : ord[p] \in Order
  BY BracketSlots, GatewayAssumption DEF OneBracket, OrdersOK
<1>1. /\ Legs = {2, 3} /\ ord[1].filled = EntryQty /\ pos.rem = EntryQty
  BY <1>0 DEF OneBracket, BracketKnown, IsOpen, NoPos, Holding, Legs
<1>2. /\ nxt \in OrderIds /\ nxt >= 4 /\ nxt' = nxt + 1
      /\ ord' = Placed(CancelSent(ord, {2, 3}), nxt, "market", -1, ExitQty)
  BY <1>1, GatewayAssumption DEF SendMarket, Submits, Room, OneBracket, BracketSent, OrderIds
<1>3. ASSUME NEW p \in OrderIds, p # nxt
      PROVE  /\ SentAs(p) /\ ord'[p].filled = ord[p].filled /\ ord'[p].live = ord[p].live
             /\ p \notin {2, 3} => ord'[p] = ord[p]
  <2>1. ord'[p] = CancelSent(ord, {2, 3})[p]
    BY <1>2, <1>3 DEF Placed, CancelSent
  <2>2. ord[p] \in Order
    BY <1>0
  <2>3. QED
    BY <2>1, <2>2 DEF CancelSent, Order, SentAs
<1>4. ord'[nxt] = NewOrder("market", -1, ExitQty, 0)
  BY <1>2 DEF Placed, CancelSent
<1>5. /\ ord'[nxt].kind = "market" /\ ord'[nxt].side = -1 /\ ord'[nxt].qty = ExitQty
      /\ ord'[nxt].filled = 0 /\ ord'[nxt].live /\ ord'[nxt].st = "Submitted"
      /\ ord'[nxt].parent = 0
  <2>1. \A q : LET m == NewOrder("market", -1, q, 0)
               IN  /\ m.kind = "market" /\ m.side = -1 /\ m.qty = q /\ m.filled = 0
                   /\ m.live /\ m.st = "Submitted" /\ m.parent = 0
    BY DEF NewOrder
  <2>2. QED
    BY <1>4, <2>1
<1>6. BracketSent'
  <2>1. \A p \in {1, 2, 3} : p # nxt /\ p \in OrderIds
    BY <1>0, <1>2
  <2>2. ASSUME NEW p \in OrderIds, p > 3
        PROVE  /\ ord'[p].parent = 0 /\ ord'[p].kind # "entry"
               /\ ord'[p].live => ord'[p].side = -1 /\ p < nxt'
    <3>1. CASE p = nxt
      BY <1>2, <1>5, <3>1
    <3>2. CASE p # nxt
      <4>1. ord'[p] = ord[p]
        <5>1. p \notin {2, 3}
          BY <1>0, <2>2
        <5>2. QED
          BY <1>3, <2>2, <3>2, <5>1
      <4>2. /\ ord[p].parent = 0 /\ ord[p].kind # "entry"
            /\ ord[p].live => ord[p].side = -1 /\ p < nxt
        BY <2>2 DEF OneBracket, BracketSent
      <4>3. p \in Nat /\ nxt \in Nat /\ nxt' = nxt + 1
        BY <1>0, <1>2
      <4>4. QED
        BY <4>1, <4>2, <4>3
    <3>3. QED
      BY <3>1, <3>2
  <2>3. QED
    BY <1>2, <1>3, <2>1, <2>2 DEF OneBracket, BracketSent, SentAs
<1>7. ord[1].st = "Filled" /\ ~ord[1].live
  BY <1>0, <1>1 DEF OneBracket, ChildrenWait
<1>8. ord'[1] = ord[1]
  BY <1>0, <1>2, <1>3
<1>9. ChildrenWait' /\ LegsCover'
  BY <1>1, <1>2, <1>7, <1>8 DEF ChildrenWait, LegsCover
<1>10. ExitCovers'
  <2>1. CASE nxt = 4
    <3>1. seen \in {0, EntryQty} /\ net <= EntryQty
      <4>1. /\ \A o \in {1, 2, 3} : ord[o].filled \in {0, EntryQty}
            /\ net = ord[1].filled - ord[2].filled - ord[3].filled /\ seen \in {0, EntryQty}
        BY <2>1 DEF OneBracket, BracketSent, LegsCover
      <4>2. QED
        BY <1>0, <4>1
    <3>2. ExitQty = EntryQty
      BY <1>0, <1>1, <3>1 DEF ExitQty, PositionKnown, AbsQty
    <3>3. /\ ord'[4].qty = EntryQty /\ ord'[4].side = -1 /\ ord'[4].filled = 0
          /\ ord'[4].live /\ ord'[4].st = "Submitted"
      BY <1>5, <2>1, <3>2
    <3>4. net' + ord'[4].filled <= EntryQty
      BY <1>0, <3>1, <3>3
    <3>5. MaxOrders >= 4
      BY <1>2, <2>1, GatewayAssumption DEF OrderIds
    <3>6. QED
      BY <1>1, <1>8, <3>3, <3>4, <3>5 DEF ExitCovers
  <2>2. CASE nxt # 4
    <3>1. nxt >= 5 /\ 4 \in OrderIds
      BY <1>2, <2>2, GatewayAssumption DEF OrderIds
    <3>2. ord'[4] = ord[4]
      BY <1>3, <2>2, <3>1
    <3>3. QED
      BY <1>8, <3>1, <3>2 DEF OneBracket, ExitCovers
  <2>3. QED
    BY <2>1, <2>2
<1>11. QED
  BY <1>6, <1>9, <1>10 DEF OneBracket

\* Steps of the manager that send nothing.
LEMMA QuietCovers ==
    ASSUME OneBracket, OrdersOK(ord), net \in Int, nxt \in Nat, UNCHANGED <<ord, nxt, net, seen>>,
           BracketKnown'
    PROVE  OneBracket'
<1>1. /\ {1, 2, 3} \subseteq OrderIds
      /\ nxt >= 5 => 4 \in OrderIds
  BY BracketSlots DEF OneBracket, ExitCovers
<1>2. Fades
  BY <1>1 DEF Fades, SentAs, OneBracket, LegsCover
<1>3. QED
  BY <1>2, FadeCovers

\* A timed-out entry's cancel.
LEMMA TimeoutCovers ==
    ASSUME OneBracket, OrdersOK(ord), net \in Int, nxt \in Nat, pend = 1,
           ord' = CancelEntry, UNCHANGED <<nxt, net, seen>>, BracketKnown'
    PROVE  OneBracket'
<1>1. /\ {1, 2, 3} \subseteq OrderIds
      /\ nxt >= 5 => 4 \in OrderIds
      /\ \A p \in OrderIds : ord[p] \in Order
  BY BracketSlots DEF OneBracket, ExitCovers, OrdersOK
<1>2. ASSUME NEW p \in OrderIds
      PROVE  /\ SentAs(p) /\ ord'[p].filled = ord[p].filled /\ ord'[p].live = ord[p].live
             /\ p # 1 => ord'[p].st = ord[p].st
             /\ ord[p].st \in Terminal => ord'[p].st = ord[p].st
  <2>1. ord'[p] = CancelSent(ord, {1})[p] /\ ord[p] \in Order
    BY <1>1 DEF CancelEntry
  <2>2. QED
    BY <2>1 DEF CancelSent, Order, SentAs
<1>3. ord[1].filled = EntryQty => ord[1].st = "Filled"
  BY GatewayAssumption DEF OneBracket, ChildrenWait
<1>4. Fades
  <2>1. ord[1].filled = EntryQty => ord'[1].st = ord[1].st
    BY <1>1, <1>2, <1>3 DEF Terminal
  <2>2. ord'[2].st = ord[2].st /\ ord'[3].st = ord[3].st
        /\ (nxt >= 5 => ord'[4].st = ord[4].st /\ ord'[4].live = ord[4].live)
    BY <1>1, <1>2
  <2>3. nxt = 4 => \A p \in {2, 3} : ord[p].st # "PendingCancel"
    BY DEF OneBracket, LegsCover
  <2>4. \A p \in {2, 3} : ord'[p].live = ord[p].live
    BY <1>1, <1>2
  <2>5. \A p \in OrderIds : SentAs(p) /\ ord'[p].filled = ord[p].filled /\ (ord'[p].live => ord[p].live)
    BY <1>2
  <2>6. QED
    BY <2>1, <2>2, <2>3, <2>4, <2>5 DEF Fades
<1>5. QED
  BY <1>4, FadeCovers

\* The one bracket of the session.
LEMMA BracketBegins ==
    ASSUME NothingSent, MaxFails = 0, fails \in Nat, NEW ok \in BOOLEAN, OpenPosition(ok)
    PROVE  OneBracket' /\ ~armed'
<1>0. EntryQty \in Nat /\ EntryQty > 0 /\ MaxOrders \in Nat
  BY GatewayAssumption
<1>1. /\ ok /\ MaxOrders >= 3
      /\ ord' = BracketPlaced(ord, 1, EntryQty) /\ nxt' = 4 /\ pend' = 1
      /\ pos' = Holding("entering", EntryQty, 2, 3) /\ net' = 0 /\ seen' = 0 /\ ~armed'
  BY <1>0 DEF OpenPosition, NothingSent, Submits, Room
<1>2. {1, 2, 3} \subseteq OrderIds
  BY <1>0, <1>1 DEF OrderIds
<1>3. ASSUME NEW p \in OrderIds
      PROVE  ord'[p] = IF p = 1 THEN NewOrder("entry", 1, EntryQty, 0)
                       ELSE IF p = 2 THEN NewOrder("tp1", -1, EntryQty, 1)
                       ELSE IF p = 3 THEN NewOrder("stop", -1, EntryQty, 1) ELSE NoOrder
  BY <1>1, <1>2 DEF NothingSent, BracketPlaced
<1>4. /\ ord'[1].kind = "entry" /\ ord'[1].side = 1 /\ ord'[1].parent = 0
      /\ ord'[1].qty = EntryQty /\ ord'[1].filled = 0
  BY <1>2, <1>3 DEF NewOrder
<1>5. \A p \in {2, 3} : /\ ord'[p].kind # "entry" /\ ord'[p].side = -1 /\ ord'[p].parent = 1
                        /\ ord'[p].qty = EntryQty /\ ord'[p].filled = 0
                        /\ ord'[p].st = "PreSubmitted" /\ ~ord'[p].live
  <2>1. /\ ord'[2] = NewOrder("tp1", -1, EntryQty, 1)
        /\ ord'[3] = NewOrder("stop", -1, EntryQty, 1)
    BY <1>2, <1>3
  <2>2. \A k : NewOrder(k, -1, EntryQty, 1) =
                [kind |-> k, side |-> -1, qty |-> EntryQty, filled |-> 0,
                 st |-> "PreSubmitted", live |-> FALSE, parent |-> 1]
    <3>1. (1 = 0) = FALSE
      OBVIOUS
    <3>2. QED
      BY <3>1 DEF NewOrder
  <2>3. QED
    BY <2>1, <2>2
<1>6. ASSUME NEW p \in OrderIds, p > 3
      PROVE  ord'[p].parent = 0 /\ ord'[p].kind # "entry" /\ ~ord'[p].live
  <2>1. ord'[p] = NoOrder
    BY <1>3, <1>6
  <2>2. QED
    BY <2>1 DEF NoOrder
<1>7. BracketSent'
  BY <1>1, <1>4, <1>5, <1>6 DEF BracketSent
<1>8. ChildrenWait' /\ LegsCover' /\ ExitCovers'
  BY <1>0, <1>1, <1>4, <1>5 DEF ChildrenWait, LegsCover, ExitCovers
<1>9. BracketKnown'
  BY <1>1 DEF BracketKnown, Holding
<1>10. QED
  BY <1>1, <1>7, <1>8, <1>9 DEF OneBracket

\* Before the bracket nothing can happen to orders.
LEMMA NothingMoves ==
    ASSUME NothingSent
    PROVE  /\ ~Exchange
           /\ \A o \in OrderIds : ~OrderRejected(o)
           /\ pend = 0 /\ ~IsOpen
<1>1. \A o \in OrderIds : ord[o].st = "Inactive" /\ ~ord[o].live
  BY DEF NothingSent, NoOrder
<1>2. \A o \in OrderIds : ~Fill(o) /\ ~CancelAck(o) /\ ~OcaReport(o) /\ ~Refusable(o)
  BY <1>1 DEF Fill, CancelAck, OcaReport, Refusable, Terminal
<1>3. ~PortfolioUpdate
  BY DEF NothingSent, PortfolioUpdate
<1>4. pend = 0 /\ ~IsOpen
  BY DEF NothingSent, IsOpen, NoPos, Holding
<1>5. QED
  BY <1>2, <1>3, <1>4 DEF Exchange, Refuse, OrderRejected

\* Steps that keep the session trading, and what they do to the engine.
LEMMA StillFirst ==
    ASSUME IInv, [Next]_vars, FirstTrading'
    PROVE  /\ FirstTrading /\ (armed' => armed)
           /\ ~(\E ok \in BOOLEAN : FlattenTail(ok) \/ StartSession(ok))
           /\ ~Unsubscribe /\ ~Crash /\ ~DayEnds
<1>1. sessions \in Nat /\ sessions >= 1
  BY ManagerAssumption DEF IInv, TypeOK
<1>2. ~(\E ok \in BOOLEAN : FlattenTail(ok) \/ StartSession(ok)) /\ ~Unsubscribe /\ ~Crash
  BY <1>1 DEF FirstTrading, FlattenTail, StartSession, Unsubscribe, Crash
<1>3. ~DayEnds
  BY DEF DayEnds, controlVars, FirstTrading
<1>4. phase' = phase /\ sessions' = sessions /\ (armed' => armed)
  <2>1. CASE Callback
    BY <2>1 DEF Callback, EntryRefused, OpenPosition, CheckPendingEntry, NoPendingEntry,
          EntryCompletes, EntryCompletesPartly, EntryStopFails, EntryDropped, EntryTimesOut,
          EntryStillPending, BarArrives, ManageOpen, NothingOpen, HandleStopFired, EodExit,
          EodNothingLeft, Tp1TakesAll, Tp1Partial, Tp1PartialStopFails, Tp1ByBar, NoExitDue,
          ManageEnds, FillWatcher, OrderRejected, controlVars
  <2>2. CASE Flatten
    BY <1>2, <2>2 DEF Flatten, FlattenExit, FlattenNoExit, FlattenBook
  <2>3. CASE Exchange /\ UNCHANGED <<managerVars, controlVars, fails>>
    BY <2>3 DEF controlVars
  <2>4. CASE EntryOverdue \/ BarsReachEod \/ Done \/ UNCHANGED vars
    BY <2>4 DEF EntryOverdue, BarsReachEod, Done, vars, controlVars
  <2>5. QED
    BY <1>2, <1>3, <2>1, <2>2, <2>3, <2>4 DEF Next
<1>5. QED
  BY <1>2, <1>3, <1>4 DEF FirstTrading

LEMMA NothingKept ==
    ASSUME IInv, MaxFails = 0, [Next]_vars, FirstTrading', NothingSent
    PROVE  NothingSent' \/ (~armed' /\ OneBracket')
<1>0. fails \in Nat
  BY ManagerAssumption DEF IInv, TypeOK
<1>1. CASE \E ok \in BOOLEAN : OpenPosition(ok)
  BY <1>0, <1>1, BracketBegins
<1>2. CASE CheckPendingEntry \/ ManageOpen \/ EntryRefused \/ (\E o \in OrderIds : FillWatcher(o))
  <2>1. UNCHANGED <<ord, nxt, net, seen, pend, pos>>
    BY <1>2, NothingMoves DEF CheckPendingEntry, NoPendingEntry, EntryCompletes,
        EntryCompletesPartly, EntryStopFails, EntryDropped, EntryTimesOut, EntryStillPending,
        EntryFilled, EntryDead, ManageOpen, NothingOpen, HandleStopFired, StopFired, EodExit,
        EodNothingLeft, Tp1TakesAll, Tp1Partial, Tp1PartialStopFails, Tp1Fills, Tp1ByBar, BarCross,
        NoExitDue, EntryRefused, FillWatcher, gatewayVars, managerVars
  <2>2. QED
    BY <2>1 DEF NothingSent
<1>3. CASE EntryOverdue \/ BarsReachEod \/ Done \/ UNCHANGED vars \/ Flatten
  <2>1. UNCHANGED <<ord, nxt, net, seen, pend>> /\ pos' \in {pos, NoPos}
    BY <1>3, NothingMoves, StillFirst DEF EntryOverdue, BarsReachEod, Done, vars, Flatten,
        FlattenExit, FlattenNoExit, FlattenBook, Forget, gatewayVars, managerVars
  <2>2. QED
    BY <2>1 DEF NothingSent
<1>4. QED
  BY <1>1, <1>2, <1>3, NothingMoves, StillFirst DEF Next, Callback

\* Nothing bought in part, nothing left over by a TP1.
LEMMA WholeOnly ==
    ASSUME OneBracket, pos \in Position
    PROVE  /\ EntryFilled => ord[1].filled = EntryQty /\ pend = 1
           /\ Tp1Fills => /\ AfterTp1.rem = 0 /\ AfterTp1.booked = EntryQty
                          /\ AfterTp1.st = "open" /\ AfterTp1.tp1 = 2 /\ AfterTp1.stop = 3
           /\ ~BarCross
           /\ IsOpen => ord[1].filled = EntryQty
<1>0. EntryQty \in Nat /\ EntryQty > 0
  BY GatewayAssumption
<1>1. EntryFilled => ord[1].filled = EntryQty /\ pend = 1
  BY <1>0 DEF EntryFilled, OneBracket, BracketSent, BracketKnown
<1>2. IsOpen => /\ pos.st = "open" /\ pos.tp1 = 2 /\ pos.stop = 3 /\ ord[1].filled = EntryQty
                /\ pos.booked \in {0, EntryQty} /\ pos.rem = EntryQty - pos.booked
  BY DEF IsOpen, OneBracket, BracketKnown, NoPos, Holding
<1>3. ASSUME Tp1Fills
      PROVE  /\ AfterTp1.rem = 0 /\ AfterTp1.booked = EntryQty
             /\ AfterTp1.st = "open" /\ AfterTp1.tp1 = 2 /\ AfterTp1.stop = 3
  <2>1. IsOpen /\ ord[2].filled > pos.booked
    BY <1>2, <1>3 DEF Tp1Fills
  <2>2. ord[2].filled = EntryQty /\ pos.booked = 0 /\ pos.rem = EntryQty
    BY <1>0, <1>2, <2>1 DEF OneBracket, BracketSent
  <2>3. QED
    BY <1>0, <1>2, <2>1, <2>2 DEF AfterTp1, Position
<1>4. ~BarCross
  BY <1>2 DEF BarCross
<1>5. QED
  BY <1>1, <1>2, <1>3, <1>4

LEMMA BracketKept ==
    ASSUME IInv, PartialFills = FALSE, Rejects \subseteq {"entry"}, MaxFails = 0,
           [Next]_vars, FirstTrading', ~armed, OneBracket
    PROVE  OneBracket'
<1>0. /\ OrdersOK(ord) /\ net \in Int /\ nxt \in Nat /\ fails \in Nat /\ pos \in Position
      /\ EntryQty \in Nat /\ BracketKnown
  BY GatewayAssumption, ManagerAssumption DEF IInv, TypeOK, GatewayTypeOK, OneBracket
<1>1. CASE Exchange /\ UNCHANGED <<managerVars, controlVars, fails>>
  BY <1>0, <1>1, ExchangeCovers DEF managerVars
<1>2. ASSUME UNCHANGED <<ord, nxt, net, seen>>, pend' \in {0, pend}, pos' \in {pos, NoPos}
      PROVE  OneBracket'
  <2>1. BracketKnown'
    BY <1>0, <1>2 DEF BracketKnown
  <2>2. QED
    BY <1>0, <1>2, <2>1, QuietCovers
<1>3. CASE CheckPendingEntry
  <2>1. CASE NoPendingEntry \/ EntryDropped \/ EntryStillPending
    BY <1>2, <2>1 DEF NoPendingEntry, EntryDropped, EntryStillPending, Forget, gatewayVars,
                      managerVars
  <2>2. CASE EntryCompletes
    <3>1. /\ ord[1].filled = EntryQty /\ pend = 1 /\ pend' = 0
          /\ pos' = Holding("open", EntryQty, 2, 3) /\ UNCHANGED <<ord, nxt, net, seen>>
      BY <1>0, <2>2, WholeOnly DEF EntryCompletes, Bought, gatewayVars
    <3>2. BracketKnown'
      BY <1>0, <3>1 DEF BracketKnown, Holding
    <3>3. QED
      BY <1>0, <3>1, <3>2, QuietCovers
  <2>3. CASE EntryCompletesPartly \/ \E ok \in BOOLEAN : EntryStopFails(ok)
    <3>1. EntryFilled /\ Bought < EntryQty
      BY <2>3 DEF EntryCompletesPartly, EntryStopFails
    <3>2. QED
      BY <1>0, <3>1, WholeOnly DEF Bought
  <2>4. CASE EntryTimesOut
    <3>1. /\ pend = 1 /\ ord' = CancelEntry /\ pos' = NoPos /\ pend' = 0
          /\ UNCHANGED <<nxt, net, seen>>
      BY <1>0, <2>4 DEF EntryTimesOut, Forget, BracketKnown
    <3>2. BracketKnown'
      BY <3>1 DEF BracketKnown
    <3>3. QED
      BY <1>0, <3>1, <3>2, TimeoutCovers
  <2>5. QED
    BY <1>3, <2>1, <2>2, <2>3, <2>4 DEF CheckPendingEntry
<1>4. ASSUME NEW ok \in BOOLEAN, IsOpen, pos.rem > 0,
             SendMarket(CancelSent(ord, Legs), ok, -1, ExitQty),
             pend' = pend, pos' \in {pos, NoPos}, UNCHANGED <<net, seen>>
      PROVE  OneBracket'
  <2>1. {1, 2, 3} \subseteq OrderIds /\ nxt >= 4
    BY BracketSlots DEF OneBracket, BracketSent
  <2>2. ord'[1].filled = ord[1].filled
    <3>1. ord' = Placed(CancelSent(ord, Legs), nxt, "market", -1, ExitQty)
          \/ ord' = CancelSent(ord, Legs)
      BY <1>4 DEF SendMarket
    <3>2. CancelSent(ord, Legs)[1].filled = ord[1].filled
      BY <1>0, <2>1 DEF CancelSent, OrdersOK, Order
    <3>3. nxt # 1 /\ CancelSent(ord, Legs) = [p \in OrderIds |-> CancelSent(ord, Legs)[p]]
      BY <1>0, <2>1 DEF CancelSent
    <3>4. QED
      BY <2>1, <3>1, <3>2, <3>3 DEF Placed
  <2>3. BracketKnown'
    BY <1>0, <1>4, <2>2 DEF BracketKnown
  <2>4. QED
    BY <1>0, <1>4, <2>3, ExitSent
<1>5. CASE ManageOpen
  <2>1. CASE NothingOpen \/ HandleStopFired \/ EodNothingLeft \/ NoExitDue
    BY <1>2, <2>1 DEF NothingOpen, HandleStopFired, EodNothingLeft, NoExitDue, Forget, gatewayVars,
                      managerVars
  <2>2. ASSUME NEW ok \in BOOLEAN, EodExit(ok)
        PROVE  OneBracket'
    BY <1>4, <2>2 DEF EodExit, Forget
  <2>3. CASE Tp1TakesAll
    <3>1. Tp1Fills /\ UNCHANGED <<ord, nxt, net, seen, pend>> /\ pos' \in {NoPos, AfterTp1}
      BY <2>3 DEF Tp1TakesAll, Forget, gatewayVars
    <3>2. BracketKnown'
      BY <1>0, <3>1, WholeOnly DEF BracketKnown, Tp1Fills
    <3>3. QED
      BY <1>0, <3>1, <3>2, QuietCovers
  <2>4. CASE Tp1Partial \/ (\E ok \in BOOLEAN : Tp1PartialStopFails(ok) \/ Tp1ByBar(ok))
    BY <1>0, <2>4, WholeOnly DEF Tp1Partial, Tp1PartialStopFails, Tp1ByBar
  <2>5. QED
    BY <1>5, <2>1, <2>2, <2>3, <2>4 DEF ManageOpen
<1>6. CASE EntryRefused \/ \E o \in OrderIds : FillWatcher(o)
  BY <1>2, <1>6 DEF EntryRefused, FillWatcher, gatewayVars, managerVars
<1>7. ASSUME NEW o \in OrderIds, OrderRejected(o)
      PROVE  OneBracket'
  <2>1. /\ Refusable(o) /\ UNCHANGED <<nxt, net, seen>>
        /\ pend' \in {0, pend} /\ pos' \in {pos, NoPos}
    BY <1>7 DEF OrderRejected, Forget
  <2>2. ASSUME NEW p \in OrderIds
        PROVE  ord'[p] = Refused(o)[p] \/
               (p \in {0, 2, 3} /\ ord'[p] = CancelSent(Refused(o), {0, 2, 3})[p])
    <3>1. CASE pos.st = "entering"
      <4>1. Legs = {2, 3}
        BY <1>0, <3>1 DEF BracketKnown, NoPos, Holding, Legs
      <4>2. ord'[p] = IF p \in Legs THEN CancelSent(Refused(o), Legs)[p] ELSE Refused(o)[p]
        BY <1>7, <3>1 DEF OrderRejected
      <4>3. p \in {2, 3} => CancelSent(Refused(o), {2, 3})[p] = CancelSent(Refused(o), {0, 2, 3})[p]
        BY DEF CancelSent
      <4>4. QED
        BY <4>1, <4>2, <4>3
    <3>2. CASE pos.st # "entering"
      BY <1>7, <3>2 DEF OrderRejected
    <3>3. QED
      BY <3>1, <3>2
  <2>3. Fades
    BY <1>0, <2>1, <2>2, RefusalFades
  <2>4. BracketKnown'
    <3>1. ord'[1].filled = ord[1].filled
      BY <2>3, BracketSlots DEF Fades, OneBracket
    <3>2. QED
      BY <1>0, <2>1, <3>1 DEF BracketKnown
  <2>5. QED
    BY <1>0, <2>3, <2>4, FadeCovers
<1>8. CASE EntryOverdue \/ BarsReachEod \/ Done \/ UNCHANGED vars
  BY <1>2, <1>8 DEF EntryOverdue, BarsReachEod, Done, vars, gatewayVars, managerVars
<1>9. CASE Flatten
  <2>1. ASSUME NEW ok \in BOOLEAN, FlattenExit(ok)
        PROVE  OneBracket'
    BY <1>4, <2>1 DEF FlattenExit, managerVars
  <2>2. CASE FlattenNoExit \/ FlattenBook
    BY <1>2, <2>2 DEF FlattenNoExit, FlattenBook, Forget, gatewayVars, managerVars
  <2>3. QED
    BY <1>9, <2>1, <2>2, StillFirst DEF Flatten
<1>10. ~ \E ok \in BOOLEAN : OpenPosition(ok)
  BY DEF OpenPosition
<1>11. QED
  BY <1>1, <1>3, <1>5, <1>6, <1>7, <1>8, <1>9, <1>10, StillFirst DEF Next, Callback

LEMMA CoverIs ==
    ASSUME IInv, CoverInv
    PROVE  HoldingsCovered
<1> SUFFICES ASSUME FirstTrading, net > 0
             PROVE  \E o \in OrderIds : Covers(o)
  BY DEF HoldingsCovered, FirstTrading
<1>1. OneBracket
  BY DEF CoverInv, NothingSent
<1>2. /\ {1, 2, 3} \subseteq OrderIds /\ nxt >= 4 /\ EntryQty \in Nat /\ EntryQty > 0
      /\ \A o \in {1, 2, 3} : ord[o].qty = EntryQty /\ ord[o].filled \in {0, EntryQty}
      /\ \A o \in {2, 3} : ord[o].side = -1
      /\ ord[1].filled = 0 => ord[2].filled = 0 /\ ord[3].filled = 0
  BY <1>1, BracketSlots, GatewayAssumption DEF OneBracket, BracketSent, ChildrenWait
<1>3. CASE nxt = 4
  <2>1. net = ord[1].filled - ord[2].filled - ord[3].filled
    BY <1>1, <1>3 DEF OneBracket, LegsCover
  <2>2. ord[1].filled = EntryQty /\ ord[2].filled = 0 /\ ord[3].filled = 0 /\ net = EntryQty
    BY <1>2, <2>1
  <2>3. ord[2].live
    BY <1>1, <1>3, <2>2 DEF OneBracket, LegsCover
  <2>4. Covers(2)
    BY <1>2, <2>2, <2>3 DEF Covers, Unfilled
  <2>5. QED
    BY <1>2, <2>4
<1>4. CASE nxt >= 5
  <2>1. /\ 4 \in OrderIds /\ ord[4].qty = EntryQty /\ ord[4].side = -1
        /\ ord[4].filled \in {0, EntryQty} /\ net + ord[4].filled <= EntryQty
        /\ ord[4].filled = 0 => ord[4].live
    BY <1>1, <1>4, BracketSlots DEF OneBracket, ExitCovers
  <2>2. net \in Int
    BY DEF IInv, TypeOK, GatewayTypeOK
  <2>3. ord[4].filled = 0
    BY <1>2, <2>1, <2>2
  <2>4. Covers(4)
    BY <1>2, <2>1, <2>2, <2>3 DEF Covers, Unfilled
  <2>5. QED
    BY <2>1, <2>4
<1>5. nxt \in Nat
  BY GatewayAssumption DEF IInv, TypeOK, GatewayTypeOK
<1>6. QED
  BY <1>2, <1>3, <1>4, <1>5

\* While a first session trades, what it bought is covered by one order that can trade:
\* where orders fill whole, only entries are refused, and no submission raises.
THEOREM FirstDayCovered ==
    ASSUME PartialFills = FALSE, Rejects \subseteq {"entry"}, MaxFails = 0
    PROVE  Spec => []HoldingsCovered
<1>1. Init => CoverInv
  BY DEF Init, GatewayInit, ManagerInit, CoverInv, NothingSent
<1>2. IInv /\ CoverInv /\ [Next]_vars => CoverInv'
  <2> SUFFICES ASSUME IInv, CoverInv, [Next]_vars, FirstTrading'
               PROVE  NothingSent' \/ (~armed' /\ OneBracket')
    BY DEF CoverInv
  <2>1. NothingSent \/ (~armed /\ OneBracket)
    BY StillFirst DEF CoverInv
  <2>2. CASE NothingSent
    BY <2>2, NothingKept
  <2>3. CASE ~armed /\ OneBracket
    BY <2>3, BracketKept, StillFirst
  <2>4. QED
    BY <2>1, <2>2, <2>3
<1>3. IInv /\ CoverInv => HoldingsCovered
  BY CoverIs
<1>4. QED
  BY <1>1, <1>2, <1>3, Invariance, PTL DEF Spec

(***************************************************************************)
(* An entry never stacks on another.                                       *)
(***************************************************************************)

\* What each order can still buy, and what all of them can.
ToBuyOf(f) ==
    [o \in OrderIds |-> IF f[o].live /\ f[o].side = 1 THEN f[o].qty - f[o].filled ELSE 0]
ToBuy(f) == SumFunctionOnSet(ToBuyOf(f), OrderIds)

\* What the entries can still buy less what was bought back: an order's claim on the
\* shares that are not covered by a purchase against shares oversold.
ClaimOf(f) ==
    [o \in OrderIds |->
        IF f[o].kind = "entry" THEN IF f[o].live THEN f[o].qty - f[o].filled ELSE 0
        ELSE IF f[o].kind = "market" /\ f[o].side = 1 THEN 0 - f[o].filled ELSE 0]
Claims(f) == SumFunctionOnSet(ClaimOf(f), OrderIds)

\* No entry can trade.
NoEntry(f) == \A o \in OrderIds : f[o].kind = "entry" => ~f[o].live

\* An order that can trade reads as working; the children of a bracket sell, its entry
\* buys, and nothing else but a market order does.
Shaped(f) ==
    \A o \in OrderIds :
        /\ f[o].live => f[o].st \notin Terminal \cup {"PreSubmitted"}
        /\ f[o].parent # 0 => f[o].side = -1
        /\ f[o].kind = "entry" => f[o].side = 1
        /\ f[o].live /\ f[o].side = 1 => f[o].kind \in {"entry", "market"}

\* An order keeps what it is, loses no fill, and does not begin to buy.
Sheds(a, b) ==
    /\ b.kind = a.kind /\ b.side = a.side /\ b.qty = a.qty
    /\ a.filled <= b.filled
    /\ b.live /\ b.side = 1 => a.live

LEMMA SlotsFinite == IsFiniteSet(OrderIds)
  BY GatewayAssumption, FS_Interval DEF OrderIds

LEMMA OrderIs ==
    ASSUME NEW f, OrdersOK(f), NEW o \in OrderIds
    PROVE  /\ f[o].qty \in Nat /\ f[o].filled \in Nat /\ f[o].filled <= f[o].qty
           /\ ToBuyOf(f)[o] = IF f[o].live /\ f[o].side = 1 THEN f[o].qty - f[o].filled ELSE 0
           /\ f[o].kind = "entry" =>
                ClaimOf(f)[o] = IF f[o].live THEN f[o].qty - f[o].filled ELSE 0
           /\ f[o].kind = "market" /\ f[o].side = 1 => ClaimOf(f)[o] = 0 - f[o].filled
           /\ f[o].kind # "entry" /\ ~(f[o].kind = "market" /\ f[o].side = 1) => ClaimOf(f)[o] = 0
<1>1. f[o].qty \in Nat /\ f[o].filled \in Nat /\ f[o].filled <= f[o].qty
  BY DEF OrdersOK, Order
<1>2. ToBuyOf(f)[o] = IF f[o].live /\ f[o].side = 1 THEN f[o].qty - f[o].filled ELSE 0
  BY DEF ToBuyOf
<1>3. ClaimOf(f)[o] =
        IF f[o].kind = "entry" THEN IF f[o].live THEN f[o].qty - f[o].filled ELSE 0
        ELSE IF f[o].kind = "market" /\ f[o].side = 1 THEN 0 - f[o].filled ELSE 0
  BY DEF ClaimOf
<1>4. QED
  BY <1>1, <1>2, <1>3

LEMMA BuyingIs ==
    ASSUME NEW f, OrdersOK(f)
    PROVE  /\ \A o \in OrderIds : /\ f[o].qty \in Nat /\ f[o].filled \in Nat
                                  /\ f[o].filled <= f[o].qty /\ ToBuyOf(f)[o] \in Nat
                                  /\ ClaimOf(f)[o] \in Int
           /\ ToBuy(f) \in Nat /\ Claims(f) \in Int
<1>1. ASSUME NEW o \in OrderIds
      PROVE  /\ f[o].qty \in Nat /\ f[o].filled \in Nat
             /\ f[o].filled <= f[o].qty /\ ToBuyOf(f)[o] \in Nat /\ ClaimOf(f)[o] \in Int
  BY OrderIs
<1>2. ToBuy(f) \in Nat
  BY <1>1, SlotsFinite, SumIsNat DEF ToBuy
<1>3. Claims(f) \in Int
  BY <1>1, SlotsFinite, SumIsInt DEF Claims
<1>4. QED
  BY <1>1, <1>2, <1>3

\* An order that does not begin to buy has no more to buy, and no greater claim.
LEMMA ShedsLess ==
    ASSUME NEW f, NEW g, OrdersOK(f), OrdersOK(g), Shaped(f), NEW o \in OrderIds,
           Sheds(f[o], g[o])
    PROVE  ToBuyOf(g)[o] <= ToBuyOf(f)[o] /\ ClaimOf(g)[o] <= ClaimOf(f)[o]
<1>1. /\ g[o].kind = f[o].kind /\ g[o].side = f[o].side /\ g[o].qty = f[o].qty
      /\ f[o].filled <= g[o].filled /\ (g[o].live /\ g[o].side = 1 => f[o].live)
      /\ f[o].kind = "entry" => f[o].side = 1
  BY DEF Sheds, Shaped
<1>2. ToBuyOf(g)[o] <= ToBuyOf(f)[o]
  BY <1>1, OrderIs
<1>3. ClaimOf(g)[o] <= ClaimOf(f)[o]
  BY <1>1, OrderIs
<1>4. QED
  BY <1>2, <1>3

\* Orders that no longer trade, and fills, leave less to buy.
LEMMA LessToBuy ==
    ASSUME NEW f, NEW g, OrdersOK(f), OrdersOK(g), Shaped(f),
           \A o \in OrderIds : Sheds(f[o], g[o])
    PROVE  /\ ToBuy(g) <= ToBuy(f) /\ Claims(g) <= Claims(f)
           /\ NoEntry(f) => NoEntry(g)
<1>1. \A o \in OrderIds :
        /\ ToBuyOf(g)[o] \in Int /\ ToBuyOf(f)[o] \in Int /\ ToBuyOf(g)[o] <= ToBuyOf(f)[o]
        /\ ClaimOf(g)[o] \in Int /\ ClaimOf(f)[o] \in Int /\ ClaimOf(g)[o] <= ClaimOf(f)[o]
  BY BuyingIs, ShedsLess
<1>2. ToBuy(g) <= ToBuy(f)
  BY <1>1, SlotsFinite, SumMonotone DEF ToBuy
<1>3. Claims(g) <= Claims(f)
  BY <1>1, SlotsFinite, SumMonotone DEF Claims
<1>4. NoEntry(f) => NoEntry(g)
  BY DEF NoEntry, Sheds, Shaped
<1>5. QED
  BY <1>2, <1>3, <1>4

\* Where no entry can trade, nothing is claimed.
LEMMA NoClaim ==
    ASSUME NEW f, OrdersOK(f), NoEntry(f)
    PROVE  Claims(f) <= 0
<1> DEFINE z == [o \in OrderIds |-> 0]
<1>1. \A o \in OrderIds : z[o] = 0 /\ z[o] \in Int
  OBVIOUS
<1> HIDE DEF z
<1>2. ASSUME NEW o \in OrderIds
      PROVE  ClaimOf(f)[o] \in Int /\ ClaimOf(f)[o] <= z[o]
  <2>1. ClaimOf(f)[o] \in Int
    BY BuyingIs
  <2>2. f[o].kind = "entry" => ~f[o].live
    BY DEF NoEntry
  <2>3. ClaimOf(f)[o] <= 0
    BY <2>1, <2>2, OrderIs
  <2>4. QED
    BY <1>1, <2>1, <2>3
<1>3. Claims(f) <= SumFunctionOnSet(z, OrderIds)
  BY <1>1, <1>2, SlotsFinite, SumMonotone DEF Claims
<1>4. SumFunctionOnSet(z, {}) = SumFunctionOnSet(z, OrderIds)
  BY <1>1, SlotsFinite, SumOfPart
<1>5. QED
  BY <1>3, <1>4, SumEmpty

LEMMA CancelBuys ==
    ASSUME NEW f, NEW S, OrdersOK(f), Shaped(f)
    PROVE  /\ Shaped(CancelSent(f, S)) /\ ToBuy(CancelSent(f, S)) <= ToBuy(f)
           /\ Claims(CancelSent(f, S)) <= Claims(f)
           /\ NoEntry(f) => NoEntry(CancelSent(f, S))
<1> DEFINE g == CancelSent(f, S)
<1>1. ASSUME NEW o \in OrderIds
      PROVE  /\ g[o].filled = f[o].filled /\ g[o].qty = f[o].qty
             /\ g[o].live = f[o].live /\ g[o].side = f[o].side
             /\ g[o].parent = f[o].parent /\ g[o].kind = f[o].kind
             /\ g[o].st \in {f[o].st, "PendingCancel"}
  BY DEF CancelSent, OrdersOK, Order
<1>2. OrdersOK(g)
  BY CancelSentKeeps
<1> HIDE DEF g
<1>3. Shaped(g)
  BY <1>1 DEF Shaped, Terminal
<1>4. \A o \in OrderIds : Sheds(f[o], g[o])
  <2>1. \A o \in OrderIds : f[o].filled \in Nat
    BY BuyingIs
  <2>2. QED
    BY <1>1, <2>1 DEF Sheds
<1>5. QED
  BY <1>2, <1>3, <1>4, LessToBuy DEF g

\* An order placed in a free slot adds what it buys, and claims nothing.
LEMMA PlacedBuys ==
    ASSUME NEW f, NEW n \in OrderIds, NEW kind \in {"stop", "market"}, NEW side \in {1, -1},
           side = 1 => kind = "market",
           NEW qty \in Nat, OrdersOK(f), Shaped(f), Sound(f, n)
    PROVE  /\ Shaped(Placed(f, n, kind, side, qty))
           /\ ToBuy(Placed(f, n, kind, side, qty)) = ToBuy(f) + (IF side = 1 THEN qty ELSE 0)
           /\ Claims(Placed(f, n, kind, side, qty)) = Claims(f)
           /\ NoEntry(f) => NoEntry(Placed(f, n, kind, side, qty))
<1> DEFINE g == Placed(f, n, kind, side, qty)
           r == NewOrder(kind, side, qty, 0)
<1>1. /\ r.kind = kind /\ r.side = side /\ r.qty = qty /\ r.filled = 0 /\ r.st = "Submitted"
      /\ r.live = TRUE /\ r.parent = 0
  BY DEF NewOrder
<1>2. \A o \in OrderIds : g[o] = IF o = n THEN r ELSE f[o]
  BY DEF Placed, OrdersOK
<1>3. OrdersOK(g)
  BY PlacedKeeps DEF Kinds
<1>4. f[n].qty = 0 /\ f[n].filled = 0
  BY GatewayAssumption DEF Sound, OrderIds
<1> HIDE DEF g, r
<1>5. Shaped(g)
  BY <1>1, <1>2 DEF Shaped, Terminal
<1>6. ToBuyOf(f)[n] = 0 /\ ToBuyOf(g)[n] = IF side = 1 THEN qty ELSE 0
  BY <1>1, <1>2, <1>4 DEF ToBuyOf
<1>7. \A o \in OrderIds : o # n => ToBuyOf(f)[o] = ToBuyOf(g)[o]
  BY <1>2 DEF ToBuyOf
<1>8. \A o \in OrderIds : /\ ToBuyOf(f)[o] \in Int /\ ToBuyOf(g)[o] \in Int
                          /\ ClaimOf(f)[o] \in Int /\ ClaimOf(g)[o] \in Int
  BY <1>3, BuyingIs
<1>9. ToBuy(g) = ToBuy(f) - ToBuyOf(f)[n] + ToBuyOf(g)[n]
  BY <1>7, <1>8, SlotsFinite, SumChanges DEF ToBuy
<1>10. ToBuy(f) \in Nat
  BY BuyingIs
<1>11. Claims(g) = Claims(f)
  <2>1. g[n].kind = kind /\ g[n].filled = 0
    BY <1>1, <1>2
  <2>2. ClaimOf(f)[n] = 0 /\ ClaimOf(g)[n] = 0
    BY <1>3, <1>4, <2>1, OrderIs
  <2>3. \A o \in OrderIds : o # n => ClaimOf(f)[o] = ClaimOf(g)[o]
    BY <1>2 DEF ClaimOf
  <2>4. \A o \in OrderIds : ClaimOf(f)[o] = ClaimOf(g)[o]
    BY <2>2, <2>3
  <2>5. QED
    BY <2>4, SlotsFinite, SumAgrees DEF Claims
<1>12. NoEntry(f) => NoEntry(g)
  BY <1>1, <1>2 DEF NoEntry
<1>13. QED
  BY <1>5, <1>6, <1>9, <1>10, <1>11, <1>12 DEF g

\* A bracket adds the entry's size: its children wait, and sell.
LEMMA BracketBuys ==
    ASSUME NEW f, NEW n \in Nat \ {0}, n + 2 <= MaxOrders, OrdersOK(f), Shaped(f), Sound(f, n)
    PROVE  /\ Shaped(BracketPlaced(f, n, EntryQty))
           /\ ToBuy(BracketPlaced(f, n, EntryQty)) = ToBuy(f) + EntryQty
           /\ Claims(BracketPlaced(f, n, EntryQty)) = Claims(f) + EntryQty
<1> DEFINE g == BracketPlaced(f, n, EntryQty)
<1>0. {n, n + 1, n + 2} \subseteq OrderIds /\ \A o \in OrderIds : o \in Nat /\ o # 0
  BY GatewayAssumption DEF OrderIds
<1>1. /\ g[n] = NewOrder("entry", 1, EntryQty, 0)
      /\ g[n + 1] = NewOrder("tp1", -1, EntryQty, n)
      /\ g[n + 2] = NewOrder("stop", -1, EntryQty, n)
      /\ \A o \in OrderIds : o \notin {n, n + 1, n + 2} => g[o] = f[o]
  BY <1>0 DEF BracketPlaced, OrdersOK
<1>2. /\ g[n].kind = "entry" /\ g[n].side = 1 /\ g[n].qty = EntryQty /\ g[n].filled = 0
      /\ g[n].st = "Submitted" /\ g[n].live = TRUE /\ g[n].parent = 0
      /\ g[n + 1].kind = "tp1" /\ g[n + 1].side = -1 /\ g[n + 1].live = FALSE
      /\ g[n + 2].kind = "stop" /\ g[n + 2].side = -1 /\ g[n + 2].live = FALSE
  <2>1. (n = 0) = FALSE /\ (0 = 0) = TRUE
    OBVIOUS
  <2> HIDE DEF g
  <2>2. /\ g[n].kind = "entry" /\ g[n].side = 1 /\ g[n].qty = EntryQty /\ g[n].filled = 0
        /\ g[n].st = "Submitted" /\ g[n].live = (0 = 0) /\ g[n].parent = 0
    BY <1>1 DEF NewOrder
  <2>3. /\ g[n + 1].kind = "tp1" /\ g[n + 1].side = -1 /\ g[n + 1].live = (n = 0)
        /\ g[n + 2].kind = "stop" /\ g[n + 2].side = -1 /\ g[n + 2].live = (n = 0)
    BY <1>1 DEF NewOrder
  <2>4. QED
    BY <2>1, <2>2, <2>3
<1>3. OrdersOK(g)
  BY BracketPlacedKeeps
<1>4. \A o \in {n, n + 1, n + 2} : f[o].qty = 0 /\ f[o].filled = 0
  BY <1>0 DEF Sound
<1> HIDE DEF g
<1>5. Shaped(g)
  BY <1>0, <1>1, <1>2 DEF Shaped, Terminal
<1>6. ToBuyOf(f)[n] = 0 /\ ToBuyOf(g)[n] = EntryQty
  BY <1>0, <1>2, <1>4, GatewayAssumption DEF ToBuyOf
<1>7. \A o \in OrderIds : o # n => ToBuyOf(f)[o] = ToBuyOf(g)[o]
  BY <1>0, <1>1, <1>2, <1>4 DEF ToBuyOf
<1>8. \A o \in OrderIds : /\ ToBuyOf(f)[o] \in Int /\ ToBuyOf(g)[o] \in Int
                          /\ ClaimOf(f)[o] \in Int /\ ClaimOf(g)[o] \in Int
  BY <1>3, BuyingIs
<1>9. ToBuy(g) = ToBuy(f) - ToBuyOf(f)[n] + ToBuyOf(g)[n]
  BY <1>0, <1>7, <1>8, SlotsFinite, SumChanges DEF ToBuy
<1>10. ToBuy(f) \in Nat /\ Claims(f) \in Int
  BY BuyingIs
<1>11. Claims(g) = Claims(f) + EntryQty
  <2>1. \A o \in {n, n + 1, n + 2} : ClaimOf(f)[o] = 0
    BY <1>0, <1>4, OrderIs
  <2>2. ClaimOf(g)[n] = EntryQty /\ ClaimOf(g)[n + 1] = 0 /\ ClaimOf(g)[n + 2] = 0
    BY <1>0, <1>2, <1>3, OrderIs, GatewayAssumption
  <2>3. \A o \in OrderIds : o \notin {n, n + 1, n + 2} => ClaimOf(f)[o] = ClaimOf(g)[o]
    BY <1>1 DEF ClaimOf
  <2>4. \A o \in OrderIds : o # n => ClaimOf(f)[o] = ClaimOf(g)[o]
    BY <2>1, <2>2, <2>3
  <2>5. Claims(g) = Claims(f) - ClaimOf(f)[n] + ClaimOf(g)[n]
    BY <1>0, <1>8, <2>4, SlotsFinite, SumChanges DEF Claims
  <2>6. QED
    BY <1>0, <1>10, <2>1, <2>2, <2>5, GatewayAssumption
<1>12. QED
  BY <1>5, <1>6, <1>9, <1>10, <1>11, GatewayAssumption DEF g

LEMMA RefusedBuys ==
    ASSUME NEW o \in OrderIds, OrdersOK(ord), Shaped(ord)
    PROVE  /\ Shaped(Refused(o)) /\ ToBuy(Refused(o)) <= ToBuy(ord)
           /\ Claims(Refused(o)) <= Claims(ord) /\ (NoEntry(ord) => NoEntry(Refused(o)))
<1> DEFINE g == Refused(o)
<1>1. ASSUME NEW p \in OrderIds
      PROVE  /\ g[p].filled = ord[p].filled /\ g[p].qty = ord[p].qty
             /\ g[p].side = ord[p].side /\ g[p].parent = ord[p].parent
             /\ g[p].kind = ord[p].kind
             /\ g[p].live => ord[p].live /\ g[p].st = ord[p].st
  BY DEF Refused, OrdersOK, Order
<1>2. OrdersOK(g)
  BY RefusedKeeps
<1> HIDE DEF g
<1>3. Shaped(g)
  BY <1>1 DEF Shaped
<1>4. \A p \in OrderIds : Sheds(ord[p], g[p])
  <2>1. \A p \in OrderIds : ord[p].filled \in Nat
    BY BuyingIs
  <2>2. QED
    BY <1>1, <2>1 DEF Sheds
<1>5. QED
  BY <1>2, <1>3, <1>4, LessToBuy DEF g

LEMMA ExpiredBuys ==
    ASSUME OrdersOK(ord), Shaped(ord)
    PROVE  /\ Shaped(Expired(ord)) /\ ToBuy(Expired(ord)) <= ToBuy(ord)
           /\ Claims(Expired(ord)) <= Claims(ord) /\ (NoEntry(ord) => NoEntry(Expired(ord)))
<1> DEFINE g == Expired(ord)
<1>1. ASSUME NEW p \in OrderIds
      PROVE  /\ g[p].filled = ord[p].filled /\ g[p].qty = ord[p].qty
             /\ g[p].side = ord[p].side /\ g[p].parent = ord[p].parent
             /\ g[p].kind = ord[p].kind
             /\ g[p].live => ord[p].live /\ g[p].st = ord[p].st
  BY DEF Expired, OrdersOK, Order
<1>2. OrdersOK(g)
  BY ExpiredKeeps
<1> HIDE DEF g
<1>3. Shaped(g)
  BY <1>1 DEF Shaped
<1>4. \A p \in OrderIds : Sheds(ord[p], g[p])
  <2>1. \A p \in OrderIds : ord[p].filled \in Nat
    BY BuyingIs
  <2>2. QED
    BY <1>1, <2>1 DEF Sheds
<1>5. QED
  BY <1>2, <1>3, <1>4, LessToBuy DEF g

\* What is left to buy does not grow, alone or with what is held, nor do the claims
\* with what is held; no entry begins to trade.
Eases ==
    /\ Shaped(ord')
    /\ ToBuy(ord') \in Nat /\ ToBuy(ord') <= ToBuy(ord)
    /\ net' \in Int /\ ToBuy(ord') + net' <= ToBuy(ord) + net
    /\ Claims(ord') \in Int /\ Claims(ord') + net' <= Claims(ord) + net
    /\ NoEntry(ord) => NoEntry(ord')

\* Orders rewritten, nothing traded.
LEMMA QuietEases ==
    ASSUME OrdersOK(ord), OrdersOK(ord'), Shaped(ord'), ToBuy(ord') <= ToBuy(ord),
           Claims(ord') <= Claims(ord), NoEntry(ord) => NoEntry(ord'),
           net \in Int, net' = net
    PROVE  Eases
<1>1. /\ ToBuy(ord) \in Nat /\ ToBuy(ord') \in Nat
      /\ Claims(ord) \in Int /\ Claims(ord') \in Int
  BY BuyingIs
<1>2. QED
  BY <1>1 DEF Eases

\* A fill of a buying order moves its shares from what is left to what is held; a fill
\* of a selling one lets what is held go.  The children a fill activates sell.
LEMMA FillEases ==
    ASSUME NEW o \in OrderIds, Fill(o), OrdersOK(ord), OrdersOK(ord'), Shaped(ord),
           Sound(ord, nxt), net \in Int
    PROVE  Eases
<1>1. PICK n \in 1..Unfilled(o) :
        \E s \in FillStatus(o, n) : ord' = FillResult(o, n, s) /\ net' = net + ord[o].side * n
  BY DEF Fill
<1>2. PICK s \in FillStatus(o, n) : ord' = FillResult(o, n, s) /\ net' = net + ord[o].side * n
  BY <1>1
<1>3. \A p \in OrderIds : /\ ord[p] \in Order /\ ord[p].filled \in Nat /\ ord[p].qty \in Nat
                          /\ ord[p].side \in {1, -1} /\ ord[p].live \in BOOLEAN
  BY DEF OrdersOK, Order
<1>4. n \in Nat /\ n >= 1 /\ ord[o].live
  BY <1>1, <1>3 DEF Unfilled, Fill
<1>5. ASSUME NEW p \in OrderIds
      PROVE  /\ ord'[p].parent = ord[p].parent /\ ord'[p].kind = ord[p].kind
             /\ ord'[p].side = ord[p].side /\ ord'[p].qty = ord[p].qty
             /\ p = o => /\ ord'[p].filled = ord[p].filled + n
                         /\ ord'[p].live => ord'[p].st \notin Terminal \cup {"PreSubmitted"}
             /\ p # o => /\ ord'[p].filled = ord[p].filled
                         /\ \/ ord'[p].st = "Submitted" /\ ord[p].parent = o
                            \/ ~ord'[p].live
                            \/ ord'[p].st = ord[p].st /\ ord'[p].live = ord[p].live
  <2> DEFINE a == [ord[p] EXCEPT !.filled = @ + n, !.st = s, !.live = FALSE]
             b == [ord[p] EXCEPT !.filled = @ + n, !.st = s]
             c == [ord[p] EXCEPT !.st = "Submitted", !.live = TRUE]
             d == [ord[p] EXCEPT !.live = FALSE]
  <2>1. ord'[p] = CASE p = o /\ n = Unfilled(o) -> a
                    [] p = o /\ n # Unfilled(o) -> b
                    [] p \in Children(o) /\ n = Unfilled(o) /\ ord[p].st = "PreSubmitted" -> c
                    [] p \in Siblings(o) -> d
                    [] OTHER -> ord[p]
    BY <1>2, Zenon DEF FillResult
  <2>2. CASE p = o
    <3>1. ord'[p] = a \/ (ord'[p] = b /\ n # Unfilled(o))
      <4>1. p \notin Children(o) /\ p \notin Siblings(o)
        BY <2>2 DEF Sound, Children, Siblings
      <4> HIDE DEF a, b, c, d
      <4>2. QED
        BY <2>1, <2>2, <4>1
    <3>2. /\ a.filled = ord[p].filled + n /\ b.filled = ord[p].filled + n
          /\ a.parent = ord[p].parent /\ b.parent = ord[p].parent
          /\ a.kind = ord[p].kind /\ b.kind = ord[p].kind
          /\ a.side = ord[p].side /\ b.side = ord[p].side
          /\ a.qty = ord[p].qty /\ b.qty = ord[p].qty
          /\ a.live = FALSE /\ b.st = s
      BY <1>3 DEF Order
    <3>3. n # Unfilled(o) => s \notin Terminal \cup {"PreSubmitted"}
      BY <1>2 DEF FillStatus, Terminal
    <3> HIDE DEF a, b, c, d
    <3>4. QED
      BY <2>2, <3>1, <3>2, <3>3
  <2>3. CASE p # o
    <3>1. (ord'[p] = c /\ p \in Children(o)) \/ ord'[p] = d \/ ord'[p] = ord[p]
      <4> HIDE DEF a, b, c, d
      <4>1. QED
        BY <2>1, <2>3
    <3>2. /\ c.filled = ord[p].filled /\ c.qty = ord[p].qty /\ c.st = "Submitted"
          /\ d.filled = ord[p].filled /\ d.qty = ord[p].qty /\ d.live = FALSE
          /\ c.parent = ord[p].parent /\ d.parent = ord[p].parent
          /\ c.kind = ord[p].kind /\ d.kind = ord[p].kind
          /\ c.side = ord[p].side /\ d.side = ord[p].side
      BY <1>3 DEF Order
    <3>3. p \in Children(o) => ord[p].parent = o
      BY DEF Children
    <3> HIDE DEF a, b, c, d
    <3>4. QED
      BY <2>3, <3>1, <3>2, <3>3
  <2>4. QED
    BY <2>2, <2>3
<1>6. \A p \in OrderIds : p # 0 /\ (ord[p].parent = o => ord[p].side = -1)
  BY GatewayAssumption DEF Shaped, OrderIds
<1>7. Shaped(ord')
  <2>1. ASSUME NEW p \in OrderIds
        PROVE  ord'[p].live /\ ord'[p].side = 1 => ord[p].live /\ ord[p].side = 1
    BY <1>3, <1>4, <1>5, <1>6
  <2>2. \A p \in OrderIds : ord'[p].live /\ ord'[p].side = 1 => ord'[p].kind \in {"entry", "market"}
    BY <1>5, <2>1 DEF Shaped
  <2>3. \A p \in OrderIds : /\ ord'[p].live => ord'[p].st \notin Terminal \cup {"PreSubmitted"}
                            /\ ord'[p].parent # 0 => ord'[p].side = -1
                            /\ ord'[p].kind = "entry" => ord'[p].side = 1
    BY <1>5 DEF Shaped, Terminal
  <2>4. QED
    BY <2>2, <2>3 DEF Shaped
<1>8. ASSUME NEW p \in OrderIds, p # o
      PROVE  Sheds(ord[p], ord'[p])
  BY <1>3, <1>5, <1>6, <1>8 DEF Sheds
<1>9. /\ ToBuy(ord') \in Nat /\ ToBuy(ord) \in Nat /\ Claims(ord') \in Int /\ Claims(ord) \in Int
      /\ \A p \in OrderIds : /\ ToBuyOf(ord)[p] \in Int /\ ToBuyOf(ord')[p] \in Int
                             /\ ClaimOf(ord)[p] \in Int /\ ClaimOf(ord')[p] \in Int
  BY BuyingIs
<1>10. Sheds(ord[o], ord'[o])
  BY <1>3, <1>4, <1>5 DEF Sheds
<1>11. ToBuy(ord') <= ToBuy(ord) /\ Claims(ord') <= Claims(ord) /\ (NoEntry(ord) => NoEntry(ord'))
  BY <1>8, <1>10, LessToBuy
<1>12. CASE ord[o].side = -1
  <2>1. net' = net - n
    BY <1>2, <1>4, <1>12
  <2>2. ToBuy(ord') + net' <= ToBuy(ord) + net /\ Claims(ord') + net' <= Claims(ord) + net
    BY <1>4, <1>9, <1>11, <2>1
  <2>3. QED
    BY <1>7, <1>9, <1>11, <2>1, <2>2, <1>4 DEF Eases
<1>13. CASE ord[o].side = 1
  <2>1. \A p \in OrderIds : p # o => /\ ToBuyOf(ord')[p] <= ToBuyOf(ord)[p]
                                     /\ ClaimOf(ord')[p] <= ClaimOf(ord)[p]
    BY <1>8, ShedsLess
  <2>2. /\ ord[o].kind \in {"entry", "market"} /\ ord'[o].kind = ord[o].kind
        /\ ord'[o].side = 1 /\ ord'[o].qty = ord[o].qty /\ ord'[o].filled = ord[o].filled + n
    BY <1>4, <1>5, <1>13 DEF Shaped
  <2>3. /\ ord[o].filled \in Nat /\ ord[o].qty \in Nat /\ ord'[o].filled <= ord'[o].qty
    BY BuyingIs
  <2>4. ToBuyOf(ord')[o] <= ToBuyOf(ord)[o] - n
    BY <1>4, <1>13, <2>2, <2>3, OrderIs
  <2>5. ClaimOf(ord')[o] <= ClaimOf(ord)[o] - n
    <3>1. CASE ord[o].kind = "entry"
      BY <1>4, <2>2, <2>3, <3>1, OrderIs
    <3>2. CASE ord[o].kind = "market"
      BY <1>4, <1>13, <2>2, <2>3, <3>2, OrderIs
    <3>3. QED
      BY <2>2, <3>1, <3>2
  <2>6. ToBuy(ord') <= ToBuy(ord) - n
    BY <1>4, <1>9, <2>1, <2>4, SlotsFinite, SumFalls DEF ToBuy
  <2>7. Claims(ord') <= Claims(ord) - n
    BY <1>4, <1>9, <2>1, <2>5, SlotsFinite, SumFalls DEF Claims
  <2>8. net' = net + n
    BY <1>2, <1>4, <1>13
  <2>9. QED
    BY <1>4, <1>7, <1>9, <1>11, <2>6, <2>7, <2>8 DEF Eases
<1>14. QED
  BY <1>3, <1>12, <1>13

\* Whatever the exchange does.
LEMMA ExchangeEases ==
    ASSUME Exchange, OrdersOK(ord), OrdersOK(ord'), Shaped(ord), Sound(ord, nxt), net \in Int
    PROVE  Eases
<1>1. ASSUME NEW o \in OrderIds, Fill(o)
      PROVE  Eases
  BY <1>1, FillEases
<1>2. ASSUME NEW o \in OrderIds, CancelAck(o)
      PROVE  Eases
  <2>1. ASSUME NEW p \in OrderIds
        PROVE  /\ ord'[p].filled = ord[p].filled /\ ord'[p].qty = ord[p].qty
               /\ ord'[p].side = ord[p].side /\ ord'[p].kind = ord[p].kind
               /\ ord'[p].parent = ord[p].parent
               /\ \/ ord'[p].st = "Submitted" /\ ord[p].parent = o
                  \/ ~ord'[p].live
                  \/ ord'[p].st = ord[p].st /\ ord'[p].live = ord[p].live
    <3> DEFINE a == [ord[o] EXCEPT !.st = "Cancelled", !.live = FALSE]
               b == [ord[p] EXCEPT !.st = "Submitted", !.live = TRUE]
               c == [ord[p] EXCEPT !.st = "Cancelled"]
    <3>1. PICK keep \in {FALSE, ord[o].filled > 0} :
            ord'[p] = CASE p = o -> a
                        [] p \in Children(o) /\ ord[p].st = "PreSubmitted" -> IF keep THEN b ELSE c
                        [] OTHER -> ord[p]
      BY <1>2, Zenon DEF CancelAck
    <3>2. \/ p = o /\ ord'[p] = a
          \/ ord'[p] = b /\ p \in Children(o)
          \/ ord'[p] = c /\ ord[p].st = "PreSubmitted"
          \/ ord'[p] = ord[p]
      <4> HIDE DEF a, b, c
      <4>1. QED
        BY <3>1
    <3>3. ord[o] \in Order /\ ord[p] \in Order
      BY DEF OrdersOK
    <3>4. /\ a.filled = ord[o].filled /\ a.qty = ord[o].qty /\ a.live = FALSE
          /\ b.filled = ord[p].filled /\ b.qty = ord[p].qty /\ b.st = "Submitted"
          /\ c.filled = ord[p].filled /\ c.qty = ord[p].qty /\ c.live = ord[p].live
          /\ a.parent = ord[o].parent /\ b.parent = ord[p].parent /\ c.parent = ord[p].parent
          /\ a.side = ord[o].side /\ b.side = ord[p].side /\ c.side = ord[p].side
          /\ a.kind = ord[o].kind /\ b.kind = ord[p].kind /\ c.kind = ord[p].kind
      BY <3>3 DEF Order
    <3>5. p \in Children(o) => ord[p].parent = o
      BY DEF Children
    <3>6. ord[p].st = "PreSubmitted" => ord[p].live = FALSE
      BY <3>3 DEF Shaped, Order
    <3> HIDE DEF a, b, c
    <3>7. QED
      BY <3>2, <3>4, <3>5, <3>6
  <2>2. \A p \in OrderIds : p # 0 /\ (ord[p].parent = o => ord[p].side = -1)
    BY GatewayAssumption DEF Shaped, OrderIds
  <2>3. \A p \in OrderIds : /\ ord[p].filled \in Nat /\ ord[p].side \in {1, -1}
                            /\ ord[p].live \in BOOLEAN /\ ord'[p].live \in BOOLEAN
    BY DEF OrdersOK, Order
  <2>4. Shaped(ord')
    <3>1. \A p \in OrderIds : ord'[p].live /\ ord'[p].side = 1 => ord[p].live /\ ord[p].side = 1
      BY <2>1, <2>2, <2>3
    <3>2. \A p \in OrderIds :
            ord'[p].live /\ ord'[p].side = 1 => ord'[p].kind \in {"entry", "market"}
      BY <2>1, <3>1 DEF Shaped
    <3>3. \A p \in OrderIds : /\ ord'[p].live => ord'[p].st \notin Terminal \cup {"PreSubmitted"}
                              /\ ord'[p].parent # 0 => ord'[p].side = -1
                              /\ ord'[p].kind = "entry" => ord'[p].side = 1
      BY <2>1 DEF Shaped, Terminal
    <3>4. QED
      BY <3>2, <3>3 DEF Shaped
  <2>5. \A p \in OrderIds : Sheds(ord[p], ord'[p])
    BY <2>1, <2>2, <2>3 DEF Sheds
  <2>6. net' = net
    BY <1>2 DEF CancelAck
  <2>7. QED
    BY <2>4, <2>5, <2>6, LessToBuy, QuietEases
<1>3. ASSUME NEW o \in OrderIds, OcaReport(o)
      PROVE  Eases
  <2>1. ASSUME NEW p \in OrderIds
        PROVE  /\ ord'[p].filled = ord[p].filled /\ ord'[p].qty = ord[p].qty
               /\ ord'[p].side = ord[p].side /\ ord'[p].kind = ord[p].kind
               /\ ord'[p].parent = ord[p].parent /\ ord'[p].live = ord[p].live
               /\ ord[p].live => ord'[p].st = ord[p].st
    BY <1>3 DEF OcaReport, OrdersOK, Order
  <2>2. Shaped(ord')
    BY <2>1 DEF Shaped, Terminal
  <2>3. \A p \in OrderIds : ord[p].filled \in Nat
    BY BuyingIs
  <2>4. \A p \in OrderIds : Sheds(ord[p], ord'[p])
    BY <2>1, <2>3 DEF Sheds
  <2>5. net' = net
    BY <1>3 DEF OcaReport
  <2>6. QED
    BY <2>2, <2>4, <2>5, LessToBuy, QuietEases
<1>4. ASSUME NEW o \in OrderIds, Refuse(o)
      PROVE  Eases
  <2>1. ord' = Refused(o) /\ net' = net
    BY <1>4 DEF Refuse
  <2>2. /\ Shaped(ord') /\ ToBuy(ord') <= ToBuy(ord)
        /\ Claims(ord') <= Claims(ord) /\ (NoEntry(ord) => NoEntry(ord'))
    BY <2>1, RefusedBuys
  <2>3. QED
    BY <2>1, <2>2, QuietEases
<1>5. CASE PortfolioUpdate
  <2>1. ord' = ord /\ net' = net
    BY <1>5 DEF PortfolioUpdate
  <2>2. ToBuy(ord) \in Nat /\ Claims(ord) \in Int
    BY BuyingIs
  <2>3. QED
    BY <2>1, <2>2 DEF Eases
<1>6. QED
  BY <1>1, <1>2, <1>3, <1>4, <1>5 DEF Exchange

\* Before a session is started within the day of another.  While the session trades,
\* what can still be bought and what is held stay within one entry of what the client
\* sees; while an entry is still allowed, nothing can be bought and no more is held
\* than the client sees.  The sweep buys back what is seen short, so an entry after it
\* has room if what is held and left to buy is nothing.
DaysApart ==
    /\ ToBuy(ord) + net <= EntryQty
    /\ phase = "trading" =>
          /\ ToBuy(ord) <= EntryQty
          /\ ToBuy(ord) + net <= seen + EntryQty
          /\ armed => ToBuy(ord) = 0 /\ net <= seen
    /\ phase = "closing" /\ armed =>
          (ToBuy(ord) = 0 /\ net <= seen) \/ ToBuy(ord) + net <= 0

\* A session started within the day of another brings one more entry: while that entry
\* is still allowed its room is free, unless no entry can trade and what is claimed and
\* held shows in what the client sees.
StackInv ==
    /\ Shaped(ord)
    /\ fl # "idle" => phase = "trading"
    /\ overlaps = 0 => DaysApart
    /\ Claims(ord) + net <= EntryQty * (1 + overlaps)
    /\ armed => \/ Claims(ord) + net <= EntryQty * overlaps
                \/ NoEntry(ord) /\ Claims(ord) + net <= seen

\* One entry more.
LEMMA OneMore ==
    \A e \in Nat, k \in Nat : /\ e * (1 + (k + 1)) = e * (1 + k) + e
                              /\ e * (1 + k) = e * k + e
                              /\ e * (k + 1) = e * (1 + k)
                              /\ e * k \in Nat /\ e * (1 + k) \in Nat
  OBVIOUS

\* Orders cancelled, and perhaps one placed.
LEMMA SentBuys ==
    ASSUME IInv, OrdersOK(ord'), Sound(ord, nxt), Shaped(ord), NEW f, NEW S,
           f = ord \/ f = CancelSent(ord, S),
           NEW kind \in {"stop", "market"}, NEW side \in {1, -1}, NEW qty,
           side = 1 => kind = "market",
           \/ ord' = f
           \/ Room(1) /\ ord' = Placed(f, nxt, kind, side, qty)
    PROVE  /\ Shaped(ord') /\ ToBuy(ord') \in Nat
           /\ Claims(ord') \in Int /\ Claims(ord') <= Claims(ord)
           /\ NoEntry(ord) => NoEntry(ord')
           /\ \/ ToBuy(ord') <= ToBuy(ord)
              \/ side = 1 /\ qty \in Nat /\ ToBuy(ord') <= ToBuy(ord) + qty
<1>0. nxt \in Nat \ {0} /\ OrdersOK(ord)
  BY SlotsAre
<1>1. ToBuy(ord) \in Nat /\ ToBuy(ord') \in Nat /\ Claims(ord) \in Int /\ Claims(ord') \in Int
  BY <1>0, BuyingIs
<1>2. /\ OrdersOK(f) /\ Shaped(f) /\ Sound(f, nxt) /\ ToBuy(f) <= ToBuy(ord)
      /\ Claims(f) <= Claims(ord) /\ (NoEntry(ord) => NoEntry(f))
  <2>1. CASE f = ord
    BY <1>0, <1>1, <2>1
  <2>2. CASE f = CancelSent(ord, S)
    BY <1>0, <2>2, CancelBuys, CancelSound, CancelSentKeeps
  <2>3. QED
    BY <2>1, <2>2
<1>3. CASE ord' = f
  BY <1>1, <1>2, <1>3
<1>4. CASE Room(1) /\ ord' = Placed(f, nxt, kind, side, qty)
  <2>1. nxt \in OrderIds
    BY <1>4, SlotsAre
  <2>2. qty \in Nat
    <3>1. ord'[nxt] = NewOrder(kind, side, qty, 0)
      BY <1>2, <1>4, <2>1 DEF Placed, OrdersOK
    <3>2. ord'[nxt].qty = qty
      BY <3>1 DEF NewOrder
    <3>3. QED
      BY <2>1, <3>2, BuyingIs
  <2>3. /\ Shaped(ord') /\ ToBuy(ord') = ToBuy(f) + (IF side = 1 THEN qty ELSE 0)
        /\ Claims(ord') = Claims(f) /\ (NoEntry(f) => NoEntry(ord'))
    BY <1>2, <1>4, <2>1, <2>2, PlacedBuys
  <2>4. ToBuy(f) \in Nat /\ Claims(f) \in Int
    BY <1>2, BuyingIs
  <2>5. QED
    BY <1>1, <1>2, <2>2, <2>3, <2>4
<1>5. QED
  BY <1>3, <1>4

\* Exits do not buy.
LEMMA SalesEase ==
    ASSUME IInv, OrdersOK(ord'), Sound(ord, nxt), Shaped(ord), net' = net, NEW f, NEW S,
           f = ord \/ f = CancelSent(ord, S), NEW kind \in {"stop", "market"}, NEW qty,
           \/ ord' = f
           \/ Room(1) /\ ord' = Placed(f, nxt, kind, -1, qty)
    PROVE  Eases
<1> DEFINE down == -1
<1>1. down \in {1, -1} /\ down # 1
      /\ (ord' = f \/ (Room(1) /\ ord' = Placed(f, nxt, kind, down, qty)))
  OBVIOUS
<1> HIDE DEF down
<1>2. /\ Shaped(ord') /\ ToBuy(ord') \in Nat /\ ToBuy(ord') <= ToBuy(ord)
      /\ Claims(ord') <= Claims(ord) /\ (NoEntry(ord) => NoEntry(ord'))
  BY <1>1, SentBuys
<1>3. net \in Int /\ OrdersOK(ord)
  BY DEF IInv, TypeOK, GatewayTypeOK
<1>4. QED
  BY <1>2, <1>3, QuietEases

LEMMA UntouchedEases ==
    ASSUME IInv, Shaped(ord), UNCHANGED <<ord, net>>
    PROVE  Eases
<1>1. net \in Int /\ OrdersOK(ord)
  BY DEF IInv, TypeOK, GatewayTypeOK
<1>2. ToBuy(ord) \in Nat /\ Claims(ord) \in Int
  BY <1>1, BuyingIs
<1>3. QED
  BY <1>1, <1>2 DEF Eases

\* The steps that may buy: an entry, the sweep's market order against what is seen, and
\* the first exit of a session.
Buys == \E ok \in BOOLEAN : OpenPosition(ok) \/ FlattenTail(ok) \/ StartSession(ok)

\* No other step leaves more to buy.
LEMMA StepEases ==
    ASSUME IInv, OrdersOK(ord'), Sound(ord, nxt), Shaped(ord), [Next]_vars, ~Buys
    PROVE  Eases
<1>0. OrdersOK(ord) /\ net \in Int
  BY DEF IInv, TypeOK, GatewayTypeOK
<1>1. CASE Exchange
  BY <1>0, <1>1, ExchangeEases
<1>2. CASE CheckPendingEntry
  <2>1. CASE NoPendingEntry \/ EntryCompletes \/ EntryDropped \/ EntryStillPending
    BY <2>1, UntouchedEases
       DEF NoPendingEntry, EntryCompletes, EntryDropped, EntryStillPending, gatewayVars
  <2>2. CASE EntryCompletesPartly
    BY <2>2, SalesEase DEF EntryCompletesPartly
  <2>3. CASE \E ok \in BOOLEAN : EntryStopFails(ok)
    <3>1. net' = net /\ \/ ord' = CancelSent(ord, Bracket)
                        \/ /\ Room(1)
                           /\ ord' = Placed(CancelSent(ord, Bracket), nxt, "market", -1, Bought)
      BY <2>3 DEF EntryStopFails
    <3>2. QED
      BY <3>1, SalesEase
  <2>4. CASE EntryTimesOut
    <3>1. ord' = CancelSent(ord, {pend}) /\ net' = net
      BY <2>4 DEF EntryTimesOut, CancelEntry
    <3>2. QED
      BY <3>1, SalesEase
  <2>5. QED
    BY <1>2, <2>1, <2>2, <2>3, <2>4 DEF CheckPendingEntry
<1>3. CASE ManageOpen
  <2>1. CASE NothingOpen \/ HandleStopFired \/ EodNothingLeft \/ Tp1TakesAll \/ NoExitDue
    BY <2>1, UntouchedEases
       DEF NothingOpen, HandleStopFired, EodNothingLeft, Tp1TakesAll, NoExitDue, gatewayVars
  <2>2. CASE \E ok \in BOOLEAN : EodExit(ok)
    <3>1. net' = net /\ \/ ord' = CancelSent(ord, Legs)
                        \/ /\ Room(1)
                           /\ ord' = Placed(CancelSent(ord, Legs), nxt, "market", -1, ExitQty)
      BY <2>2 DEF EodExit, SendMarket
    <3>2. QED
      BY <3>1, SalesEase
  <2>3. CASE \E ok \in BOOLEAN : Tp1ByBar(ok)
    <3>1. net' = net /\ \/ ord' = CancelSent(ord, {pos.stop})
                        \/ /\ Room(1)
                           /\ ord' = Placed(CancelSent(ord, {pos.stop}), nxt, "market", -1,
                                            pos.rem)
      BY <2>3 DEF Tp1ByBar, SendMarket
    <3>2. QED
      BY <3>1, SalesEase
  <2>4. CASE Tp1Partial \/ \E ok \in BOOLEAN : Tp1PartialStopFails(ok)
    <3>1. net' = net /\ \/ ord' = ord
                        \/ \E kind \in {"stop", "market"} :
                              Room(1) /\ ord' = Placed(ord, nxt, kind, -1, AfterTp1.rem)
      BY <2>4 DEF Tp1Partial, Tp1PartialStopFails
    <3>2. QED
      BY <3>1, SalesEase
  <2>5. QED
    BY <1>3, <2>1, <2>2, <2>3, <2>4 DEF ManageOpen
<1>4. CASE \E o \in OrderIds : OrderRejected(o)
  <2>1. PICK o \in OrderIds : OrderRejected(o)
    BY <1>4
  <2>2. /\ OrdersOK(Refused(o)) /\ Shaped(Refused(o)) /\ ToBuy(Refused(o)) <= ToBuy(ord)
        /\ Claims(Refused(o)) <= Claims(ord) /\ (NoEntry(ord) => NoEntry(Refused(o)))
    BY <1>0, RefusedBuys, RefusedKeeps
  <2>3. net' = net
    BY <2>1 DEF OrderRejected
  <2>4. CASE ord' = Refused(o)
    BY <1>0, <2>2, <2>3, <2>4, QuietEases
  <2>5. CASE ord' = [p \in OrderIds |-> IF p \in Legs THEN CancelSent(Refused(o), Legs)[p]
                                                      ELSE Refused(o)[p]]
    <3>1. ord' = CancelSent(Refused(o), Legs)
      <4>1. \A p \in OrderIds : ord'[p] = CancelSent(Refused(o), Legs)[p]
        BY <2>5 DEF CancelSent
      <4>2. QED
        BY <2>5, <4>1 DEF CancelSent
    <3>2. /\ Shaped(ord') /\ ToBuy(ord') <= ToBuy(Refused(o))
          /\ Claims(ord') <= Claims(Refused(o)) /\ (NoEntry(Refused(o)) => NoEntry(ord'))
      BY <2>2, <3>1, CancelBuys
    <3>3. /\ ToBuy(ord) \in Nat /\ ToBuy(ord') \in Nat /\ ToBuy(Refused(o)) \in Nat
          /\ Claims(ord) \in Int /\ Claims(ord') \in Int /\ Claims(Refused(o)) \in Int
      BY <1>0, <2>2, BuyingIs
    <3>4. QED
      BY <1>0, <2>2, <2>3, <3>2, <3>3, QuietEases
  <2>6. QED
    BY <2>1, <2>4, <2>5 DEF OrderRejected
<1>5. CASE FlattenNoExit \/ FlattenBook \/ Unsubscribe
  BY <1>5, UntouchedEases DEF FlattenNoExit, FlattenBook, Unsubscribe, gatewayVars
<1>6. CASE \E ok \in BOOLEAN : FlattenExit(ok)
  <2>1. net' = net /\ \/ ord' = CancelSent(ord, Legs)
                      \/ /\ Room(1)
                         /\ ord' = Placed(CancelSent(ord, Legs), nxt, "market", -1, ExitQty)
    BY <1>6 DEF FlattenExit, SendMarket
  <2>2. QED
    BY <2>1, SalesEase
<1>7. CASE DayEnds
  <2>1. ord' = Expired(ord) /\ net' = net
    BY <1>7 DEF DayEnds
  <2>2. QED
    BY <1>0, <2>1, ExpiredBuys, QuietEases
<1>8. CASE EntryRefused \/ (\E o \in OrderIds : FillWatcher(o)) \/ EntryOverdue \/ BarsReachEod
           \/ Crash \/ Done \/ UNCHANGED vars
  BY <1>8, UntouchedEases
     DEF EntryRefused, FillWatcher, EntryOverdue, BarsReachEod, Crash, Done, vars, gatewayVars
<1>9. QED
  BY <1>1, <1>2, <1>3, <1>4, <1>5, <1>6, <1>7, <1>8 DEF Next, Callback, Flatten, Buys

\* Nor does it arm the engine, start a session, or move what the client sees while
\* orders change.
Calm ==
    /\ phase' = phase \/ phase' \in {"closed", "down"}
    /\ armed' => armed
    /\ overlaps' = overlaps
    /\ fl' # "idle" => phase' = "trading"
    /\ \/ seen' = seen
       \/ seen' = net /\ net' = net /\ (ord' = ord \/ phase' \in {"closed", "down"})

LEMMA StepIsCalm ==
    ASSUME [Next]_vars, ~Buys, fl # "idle" => phase = "trading"
    PROVE  Calm
<1>1. CASE Exchange /\ UNCHANGED <<managerVars, controlVars, fails>>
  <2>1. UNCHANGED <<armed, fl, phase, overlaps>>
    BY <1>1 DEF controlVars
  <2>2. seen' = seen \/ (seen' = net /\ ord' = ord /\ net' = net)
    BY <1>1 DEF Exchange, Fill, CancelAck, OcaReport, Refuse, PortfolioUpdate
  <2>3. QED
    BY <2>1, <2>2 DEF Calm
<1>2. CASE CheckPendingEntry
  BY <1>2 DEF Calm, CheckPendingEntry, NoPendingEntry, EntryCompletes, EntryCompletesPartly,
              EntryStopFails, EntryDropped, EntryTimesOut, EntryStillPending, BarArrives,
              gatewayVars
<1>3. CASE ManageOpen
  BY <1>3 DEF Calm, ManageOpen, NothingOpen, HandleStopFired, EodExit, EodNothingLeft,
              Tp1TakesAll, Tp1Partial, Tp1PartialStopFails, Tp1ByBar, NoExitDue, ManageEnds,
              gatewayVars
<1>4. CASE EntryRefused \/ \E o \in OrderIds : FillWatcher(o) \/ OrderRejected(o)
  BY <1>4 DEF Calm, EntryRefused, FillWatcher, OrderRejected, gatewayVars, controlVars
<1>5. CASE EntryOverdue \/ BarsReachEod \/ Done \/ UNCHANGED vars
  BY <1>5 DEF Calm, EntryOverdue, BarsReachEod, Done, vars, gatewayVars, controlVars
<1>6. CASE FlattenNoExit \/ FlattenBook \/ Unsubscribe
           \/ \E ok \in BOOLEAN : FlattenExit(ok)
  BY <1>6 DEF Calm, FlattenNoExit, FlattenBook, Unsubscribe, FlattenExit, FlattenGuard,
              gatewayVars
<1>7. CASE Crash \/ DayEnds
  BY <1>7 DEF Calm, Crash, DayEnds, controlVars
<1>8. QED
  BY <1>1, <1>2, <1>3, <1>4, <1>5, <1>6, <1>7 DEF Next, Callback, Flatten, Buys

LEMMA Easing ==
    \A b \in Nat, c \in Nat, n \in Int, m \in Int, s \in Int, e \in Nat :
        c <= b /\ c + m <= b + n =>
            /\ b = 0 /\ n <= s => c = 0 /\ m <= s
            /\ b + n <= s + e => c + m <= s + e
            /\ b <= e => c <= e
            /\ b + n <= 0 => c + m <= 0
  OBVIOUS

LEMMA DaysCalm ==
    ASSUME IInv, DaysApart, Eases, Calm
    PROVE  DaysApart'
<1>1. net \in Int /\ seen \in Int /\ OrdersOK(ord) /\ EntryQty \in Nat
  BY GatewayAssumption DEF IInv, TypeOK, GatewayTypeOK
<1>2. ToBuy(ord) \in Nat
  BY <1>1, BuyingIs
<1>3. /\ ToBuy(ord') \in Nat /\ ToBuy(ord') <= ToBuy(ord)
      /\ net' \in Int /\ ToBuy(ord') + net' <= ToBuy(ord) + net
  BY DEF Eases
<1>4. /\ ToBuy(ord) + net <= EntryQty
      /\ phase = "trading" => /\ ToBuy(ord) <= EntryQty /\ ToBuy(ord) + net <= seen + EntryQty
                              /\ armed => ToBuy(ord) = 0 /\ net <= seen
      /\ phase = "closing" /\ armed => (ToBuy(ord) = 0 /\ net <= seen) \/ ToBuy(ord) + net <= 0
  BY DEF DaysApart
<1>5. ToBuy(ord') + net' <= EntryQty
  BY <1>1, <1>2, <1>3, <1>4
<1>6. ord' = ord => ToBuy(ord') = ToBuy(ord)
  OBVIOUS
<1>7. /\ ToBuy(ord) = 0 /\ net <= seen => ToBuy(ord') = 0 /\ net' <= seen
      /\ ToBuy(ord) + net <= seen + EntryQty => ToBuy(ord') + net' <= seen + EntryQty
      /\ ToBuy(ord) <= EntryQty => ToBuy(ord') <= EntryQty
      /\ ToBuy(ord) + net <= 0 => ToBuy(ord') + net' <= 0
  BY <1>1, <1>2, <1>3, Easing
<1>8. ASSUME phase' = "trading"
      PROVE  /\ ToBuy(ord') <= EntryQty /\ ToBuy(ord') + net' <= seen' + EntryQty
             /\ armed' => ToBuy(ord') = 0 /\ net' <= seen'
  <2>1. phase = "trading" /\ (armed' => armed)
    BY <1>8 DEF Calm
  <2>2. CASE seen' = seen
    BY <1>4, <1>7, <2>1, <2>2
  <2>3. CASE seen' = net /\ ord' = ord /\ net' = net
    BY <1>1, <1>2, <1>3, <1>4, <1>6, <2>1, <2>3
  <2>4. QED
    BY <1>8, <2>2, <2>3 DEF Calm
<1>9. ASSUME phase' = "closing", armed'
      PROVE  (ToBuy(ord') = 0 /\ net' <= seen') \/ ToBuy(ord') + net' <= 0
  <2>1. phase = "closing" /\ armed
    BY <1>9 DEF Calm
  <2>2. CASE seen' = seen
    BY <1>4, <1>7, <2>1, <2>2
  <2>3. CASE seen' = net /\ ord' = ord /\ net' = net
    BY <1>1, <1>2, <1>3, <1>4, <1>6, <2>1, <2>3
  <2>4. QED
    BY <1>9, <2>2, <2>3 DEF Calm
<1>10. QED
  BY <1>5, <1>8, <1>9 DEF DaysApart

LEMMA CalmKeeps ==
    ASSUME IInv, OrdersOK(ord'), StackInv, Eases, Calm
    PROVE  StackInv'
<1>1. /\ net \in Int /\ seen \in Int /\ OrdersOK(ord)
      /\ EntryQty * overlaps \in Int /\ EntryQty * (1 + overlaps) \in Int
  BY GatewayAssumption, OneMore DEF IInv, TypeOK, GatewayTypeOK
<1>2. Claims(ord) \in Int /\ Claims(ord') \in Int
  BY <1>1, BuyingIs
<1>3. /\ net' \in Int /\ Claims(ord') + net' <= Claims(ord) + net
      /\ NoEntry(ord) => NoEntry(ord')
  BY DEF Eases
<1>4. overlaps' = overlaps /\ (armed' => armed) /\ (seen' = seen \/ (seen' = net /\ net' = net))
  BY DEF Calm
<1>5. Claims(ord') + net' <= EntryQty * (1 + overlaps')
  <2>1. Claims(ord) + net <= EntryQty * (1 + overlaps)
    BY DEF StackInv
  <2>2. QED
    BY <1>1, <1>2, <1>3, <1>4, <2>1
<1>6. ASSUME armed'
      PROVE  \/ Claims(ord') + net' <= EntryQty * overlaps'
             \/ NoEntry(ord') /\ Claims(ord') + net' <= seen'
  <2>1. CASE Claims(ord) + net <= EntryQty * overlaps
    BY <1>1, <1>2, <1>3, <1>4, <2>1
  <2>2. CASE NoEntry(ord) /\ Claims(ord) + net <= seen
    <3>1. NoEntry(ord') /\ Claims(ord') <= 0
      BY <1>3, <2>2, NoClaim
    <3>2. CASE seen' = seen
      BY <1>1, <1>2, <1>3, <2>2, <3>1, <3>2
    <3>3. CASE seen' = net /\ net' = net
      BY <1>1, <1>2, <3>1, <3>3
    <3>4. QED
      BY <1>4, <3>2, <3>3
  <2>3. QED
    BY <1>4, <1>6, <2>1, <2>2 DEF StackInv
<1>7. overlaps' = 0 => DaysApart'
  BY <1>4, DaysCalm DEF StackInv
<1>8. Shaped(ord') /\ (fl' # "idle" => phase' = "trading")
  BY DEF Eases, Calm
<1>9. QED
  BY <1>5, <1>6, <1>7, <1>8 DEF StackInv

\* The entry is allowed when nothing is left to buy, or nothing is held and left to
\* buy: it takes the whole room.
LEMMA EntryKeeps ==
    ASSUME IInv, Sound(ord, nxt), StackInv, NEW ok \in BOOLEAN, OpenPosition(ok)
    PROVE  StackInv'
<1>1. nxt \in Nat \ {0} /\ MaxOrders \in Nat /\ OrdersOK(ord)
  BY SlotsAre
<1>2. /\ net \in Int /\ seen = 0 /\ EntryQty \in Nat /\ armed /\ phase \in {"trading", "closing"}
      /\ EntryQty * overlaps \in Nat /\ EntryQty * (1 + overlaps) = EntryQty * overlaps + EntryQty
  BY GatewayAssumption, OneMore
     DEF IInv, TypeOK, GatewayTypeOK, OpenPosition, MayEnter, CallbacksRun
<1>3. Shaped(ord) /\ ToBuy(ord) \in Nat /\ Claims(ord) \in Int
  BY <1>1, BuyingIs DEF StackInv
<1>4. UNCHANGED <<net, seen, phase, fl, overlaps>> /\ armed' = FALSE
  BY DEF OpenPosition
<1>5. /\ Shaped(ord') /\ ToBuy(ord') \in Nat /\ Claims(ord') \in Int
      /\ \/ ToBuy(ord') = ToBuy(ord) /\ Claims(ord') = Claims(ord)
         \/ ToBuy(ord') = ToBuy(ord) + EntryQty /\ Claims(ord') = Claims(ord) + EntryQty
  <2>1. CASE ord' = ord
    BY <1>3, <2>1
  <2>2. CASE Room(3) /\ ord' = BracketPlaced(ord, nxt, EntryQty)
    <3>1. nxt + 2 <= MaxOrders
      BY <1>1, <2>2 DEF Room
    <3>2. /\ Shaped(ord') /\ ToBuy(ord') = ToBuy(ord) + EntryQty
          /\ Claims(ord') = Claims(ord) + EntryQty
      BY <1>1, <1>3, <2>2, <3>1, BracketBuys
    <3>3. QED
      BY <1>2, <1>3, <3>2
  <2>3. QED
    BY <2>1, <2>2 DEF OpenPosition
<1>6. Claims(ord') + net' <= EntryQty * (1 + overlaps')
  <2>1. Claims(ord) + net <= EntryQty * overlaps \/ Claims(ord) + net <= 0
    BY <1>2 DEF StackInv
  <2>2. Claims(ord') + net <= EntryQty * overlaps + EntryQty
    BY <1>2, <1>3, <1>5, <2>1
  <2>3. QED
    BY <1>2, <1>4, <2>2
<1>7. overlaps' = 0 => DaysApart'
  <2> SUFFICES ASSUME DaysApart
               PROVE  DaysApart'
    BY <1>4 DEF StackInv
  <2>1. ToBuy(ord) + net <= 0 /\ (phase = "trading" => ToBuy(ord) = 0)
    BY <1>2, <1>3 DEF DaysApart
  <2>2. ToBuy(ord') + net' <= EntryQty
    BY <1>2, <1>3, <1>4, <1>5, <2>1
  <2>3. phase' = "trading" => ToBuy(ord') <= EntryQty /\ ToBuy(ord') + net' <= seen' + EntryQty
    BY <1>2, <1>3, <1>4, <1>5, <2>1, <2>2
  <2>4. QED
    BY <1>4, <2>2, <2>3 DEF DaysApart
<1>8. QED
  BY <1>4, <1>5, <1>6, <1>7 DEF StackInv

\* The sweep buys no more than it sees short.
LEMMA SweepKeeps ==
    ASSUME IInv, OrdersOK(ord'), Sound(ord, nxt), StackInv, NEW ok \in BOOLEAN, FlattenTail(ok)
    PROVE  StackInv'
<1> DEFINE side == IF seen > 0 THEN -1 ELSE 1
           f == CancelSent(ord, {pend})
<1>1. /\ net \in Int /\ seen \in Int /\ OrdersOK(ord) /\ EntryQty \in Nat
      /\ EntryQty * overlaps \in Int /\ EntryQty * (1 + overlaps) \in Int
  BY GatewayAssumption, OneMore DEF IInv, TypeOK, GatewayTypeOK
<1>2. ToBuy(ord) \in Nat /\ Claims(ord) \in Int
  BY <1>1, BuyingIs
<1>3. /\ UNCHANGED <<net, seen, armed, overlaps>> /\ fl = "tail" /\ fl' = "idle"
      /\ phase' = "closing"
      /\ ord' = f \/ (Room(1) /\ ord' = Placed(f, nxt, "market", side, AbsQty(seen)))
  BY DEF FlattenTail, SendMarket, CancelEntry
<1>4. side \in {1, -1} /\ (side = 1 => ~(seen > 0))
  OBVIOUS
<1>5. f = CancelSent(ord, {pend})
  OBVIOUS
<1> HIDE DEF side, f
<1>6. Shaped(ord) /\ phase = "trading"
  BY <1>3 DEF StackInv
<1>7. /\ Shaped(ord') /\ ToBuy(ord') \in Nat
      /\ \/ ToBuy(ord') <= ToBuy(ord)
         \/ side = 1 /\ AbsQty(seen) \in Nat /\ ToBuy(ord') <= ToBuy(ord) + AbsQty(seen)
      /\ Claims(ord') \in Int /\ Claims(ord') <= Claims(ord) /\ (NoEntry(ord) => NoEntry(ord'))
  BY <1>3, <1>4, <1>5, <1>6, SentBuys
<1>8. overlaps' = 0 => DaysApart'
  <2> SUFFICES ASSUME DaysApart
               PROVE  DaysApart'
    BY <1>3 DEF StackInv
  <2>1. /\ ToBuy(ord) + net <= EntryQty /\ ToBuy(ord) + net <= seen + EntryQty
        /\ armed => ToBuy(ord) = 0 /\ net <= seen
    BY <1>6 DEF DaysApart
  <2>2. ToBuy(ord') <= ToBuy(ord) \/ (~(seen > 0) /\ ToBuy(ord') <= ToBuy(ord) - seen)
    <3>1. side = 1 => AbsQty(seen) = -seen
      BY <1>1, <1>4 DEF AbsQty
    <3>2. QED
      BY <1>1, <1>2, <1>4, <1>7, <3>1
  <2>3. ToBuy(ord') + net' <= EntryQty
    BY <1>1, <1>2, <1>3, <1>7, <2>1, <2>2
  <2>4. armed' => (ToBuy(ord') = 0 /\ net' <= seen') \/ ToBuy(ord') + net' <= 0
    BY <1>1, <1>2, <1>3, <1>7, <2>1, <2>2
  <2>5. QED
    BY <1>3, <2>3, <2>4 DEF DaysApart
<1>9. Claims(ord') + net' <= EntryQty * (1 + overlaps')
  <2>1. Claims(ord) + net <= EntryQty * (1 + overlaps)
    BY DEF StackInv
  <2>2. QED
    BY <1>1, <1>2, <1>3, <1>7, <2>1
<1>10. ASSUME armed'
       PROVE  \/ Claims(ord') + net' <= EntryQty * overlaps'
              \/ NoEntry(ord') /\ Claims(ord') + net' <= seen'
  <2>1. \/ Claims(ord) + net <= EntryQty * overlaps
        \/ NoEntry(ord) /\ Claims(ord) + net <= seen
    BY <1>3, <1>10 DEF StackInv
  <2>2. QED
    BY <1>1, <1>2, <1>3, <1>7, <2>1
<1>11. QED
  BY <1>3, <1>7, <1>8, <1>9, <1>10 DEF StackInv

\* When the day is over no order can trade.
LEMMA NothingTrades ==
    ASSUME OrdersOK(ord), Shaped(ord), DayOver
    PROVE  /\ \A o \in OrderIds : ~ord[o].live
           /\ ToBuy(ord) = 0 /\ NoEntry(ord)
<1>1. ASSUME NEW o \in OrderIds
      PROVE  ~ord[o].live
  <2>1. ASSUME ord[o].st \notin Terminal
        PROVE  FALSE
    <3>1. ord[o] = [ord[o] EXCEPT !.st = "Cancelled", !.live = FALSE] /\ ord[o] \in Order
      BY <2>1 DEF DayOver, Expired, OrdersOK
    <3>2. ord[o].st = "Cancelled"
      BY <3>1 DEF Order
    <3>3. QED
      BY <2>1, <3>2 DEF Terminal
  <2>2. QED
    BY <2>1 DEF Shaped
<1>2. \A o \in OrderIds : ToBuyOf(ord)[o] \in Int /\ (o \notin {} => ToBuyOf(ord)[o] = 0)
  BY <1>1 DEF ToBuyOf
<1>3. ToBuy(ord) = SumFunctionOnSet(ToBuyOf(ord), {})
  BY <1>2, SlotsFinite, SumOfPart DEF ToBuy
<1>4. QED
  BY <1>1, <1>3, SumEmpty DEF NoEntry

\* The exit startup_reconcile sends sells.
LEMMA ReconcileEases ==
    ASSUME IInv, OrdersOK(ord'), Sound(ord, nxt), StackInv, NEW ok \in BOOLEAN, StartSession(ok)
    PROVE  Eases
<1>1. Shaped(ord) /\ net' = net
  BY DEF StackInv, StartSession
<1>2. \/ ord' = ord
      \/ ord' = CancelSent(ord, {row.tp1, row.stop})
      \/ /\ Room(1)
         /\ ord' = Placed(CancelSent(ord, {row.tp1, row.stop}), nxt, "market", -1, AbsQty(seen))
  BY DEF StartSession, Reconcile, SendMarket
<1>3. CASE ord' = ord
  BY <1>1, <1>3, UntouchedEases
<1>4. CASE ord' # ord
  BY <1>1, <1>2, <1>4, SalesEase
<1>5. QED
  BY <1>3, <1>4

\* A session of the next day finds no order that can trade, and sees what is held; one
\* started within the day of another brings the room of one more entry.
LEMMA SessionKeeps ==
    ASSUME IInv, OrdersOK(ord'), Sound(ord, nxt), StackInv, NEW ok \in BOOLEAN, StartSession(ok)
    PROVE  StackInv'
<1>1. /\ net \in Int /\ seen \in Int /\ OrdersOK(ord) /\ EntryQty \in Nat /\ overlaps \in Nat
  BY GatewayAssumption DEF IInv, TypeOK, GatewayTypeOK
<1>2. /\ UNCHANGED <<net, seen, fl>> /\ phase \in {"closed", "down"} /\ phase' = "trading"
      /\ (DayOver /\ overlaps' = overlaps) \/ overlaps' = overlaps + 1
  BY DEF StartSession, StartsNextDay, StartsInDay
<1>3. Shaped(ord) /\ (fl # "idle" => phase = "trading")
  BY DEF StackInv
<1>4. ToBuy(ord) \in Nat /\ Claims(ord) \in Int /\ ToBuy(ord') \in Nat /\ Claims(ord') \in Int
  BY <1>1, BuyingIs
<1>5. /\ Shaped(ord') /\ ToBuy(ord') <= ToBuy(ord) /\ Claims(ord') + net' <= Claims(ord) + net
      /\ NoEntry(ord) => NoEntry(ord')
  BY ReconcileEases DEF Eases
<1>6. Claims(ord) + net <= EntryQty * (1 + overlaps)
  BY DEF StackInv
<1>7. EntryQty * overlaps' \in Nat /\ EntryQty * (1 + overlaps) \in Nat /\ EntryQty * (1 + overlaps') \in Nat
  BY <1>1, <1>2, OneMore
<1>8. CASE DayOver /\ overlaps' = overlaps
  <2>1. ToBuy(ord) = 0 /\ NoEntry(ord) /\ seen = net
    BY <1>1, <1>3, <1>8, NothingTrades DEF DayOver
  <2>2. Claims(ord) <= 0
    BY <1>1, <2>1, NoClaim
  <2>3. Claims(ord') + net' <= EntryQty * (1 + overlaps')
    BY <1>1, <1>2, <1>4, <1>5, <1>6, <1>7, <1>8
  <2>4. NoEntry(ord') /\ Claims(ord') + net' <= seen'
    BY <1>1, <1>2, <1>4, <1>5, <2>1, <2>2
  <2>5. overlaps' = 0 => DaysApart'
    <3> SUFFICES ASSUME DaysApart
                 PROVE  DaysApart'
      BY <1>8 DEF StackInv
    <3>1. net <= EntryQty
      BY <1>1, <2>1 DEF DaysApart
    <3>2. ToBuy(ord') = 0
      BY <1>4, <1>5, <2>1
    <3>3. /\ ToBuy(ord') + net' <= EntryQty /\ ToBuy(ord') <= EntryQty
          /\ ToBuy(ord') + net' <= seen' + EntryQty /\ net' <= seen'
      BY <1>1, <1>2, <2>1, <3>1, <3>2
    <3>4. QED
      BY <1>2, <3>2, <3>3 DEF DaysApart
  <2>6. QED
    BY <1>2, <1>3, <1>5, <2>3, <2>4, <2>5 DEF StackInv
<1>9. CASE overlaps' = overlaps + 1
  <2>1. EntryQty * overlaps' = EntryQty * (1 + overlaps)
        /\ EntryQty * (1 + overlaps') = EntryQty * (1 + overlaps) + EntryQty
    BY <1>1, <1>9, OneMore
  <2>2. Claims(ord') + net' <= EntryQty * overlaps'
    BY <1>1, <1>2, <1>4, <1>5, <1>6, <1>7, <2>1
  <2>3. Claims(ord') + net' <= EntryQty * (1 + overlaps')
    BY <1>1, <1>2, <1>4, <1>7, <2>1, <2>2
  <2>4. overlaps' # 0
    BY <1>1, <1>9
  <2>5. QED
    BY <1>2, <1>3, <1>5, <2>2, <2>3, <2>4 DEF StackInv
<1>10. QED
  BY <1>2, <1>8, <1>9

\* What the entries can still buy is part of what all orders can, and less what was
\* bought back it is what is claimed.
LEMMA StackIs ==
    ASSUME IInv, StackInv
    PROVE  EntryNeverStacks
<1> DEFINE E == EntriesOutstanding
           B == BuyBacks
           fills == [o \in OrderIds |-> ord[o].filled]
           h == [o \in OrderIds |-> IF o \in E THEN Outstanding[o] ELSE 0]
           g == [o \in OrderIds |-> IF o \in B THEN fills[o] ELSE 0]
<1>1. net \in Int /\ OrdersOK(ord) /\ EntryQty \in Nat
  BY GatewayAssumption DEF IInv, TypeOK, GatewayTypeOK
<1>2. ASSUME NEW o \in OrderIds
      PROVE  /\ Outstanding[o] \in Int /\ ToBuyOf(ord)[o] \in Nat /\ fills[o] \in Nat
             /\ o \in E => /\ Outstanding[o] = ToBuyOf(ord)[o] /\ Outstanding[o] = ClaimOf(ord)[o]
                           /\ o \notin B
             /\ o \in B => ClaimOf(ord)[o] = 0 - fills[o]
             /\ o \notin E /\ o \notin B => ClaimOf(ord)[o] = 0
  <2>1. ord[o].qty \in Nat /\ ord[o].filled \in Nat /\ ToBuyOf(ord)[o] \in Nat
    BY <1>1, BuyingIs
  <2>2. Outstanding[o] = ord[o].qty - ord[o].filled /\ fills[o] = ord[o].filled
    BY DEF Outstanding, Unfilled
  <2>3. /\ o \in E <=> ord[o].kind = "entry" /\ ord[o].live
        /\ o \in B <=> ord[o].kind = "market" /\ ord[o].side = 1
        /\ ord[o].kind = "entry" => ord[o].side = 1
    BY DEF EntriesOutstanding, BuyBacks, StackInv, Shaped
  <2> HIDE DEF E, B, fills
  <2>4. o \in E => /\ Outstanding[o] = ToBuyOf(ord)[o] /\ Outstanding[o] = ClaimOf(ord)[o]
                   /\ o \notin B
    BY <1>1, <2>1, <2>2, <2>3, OrderIs
  <2>5. o \in B => ClaimOf(ord)[o] = 0 - fills[o]
    BY <1>1, <2>1, <2>2, <2>3, OrderIs
  <2>6. o \notin E /\ o \notin B => ClaimOf(ord)[o] = 0
    BY <1>1, <2>1, <2>2, <2>3, OrderIs
  <2>7. QED
    BY <2>1, <2>2, <2>4, <2>5, <2>6
<1>3. E \in SUBSET OrderIds /\ B \in SUBSET OrderIds
  BY DEF EntriesOutstanding, BuyBacks
<1>4. BoughtBack = SumFunctionOnSet(fills, B)
  BY DEF BoughtBack
<1>5. Exposure = SumFunctionOnSet(Outstanding, E) + net
  BY DEF Exposure
<1> HIDE DEF E, B, fills
<1>6. \A o \in OrderIds :
        /\ h[o] \in Int /\ ToBuyOf(ord)[o] \in Int /\ h[o] <= ToBuyOf(ord)[o] /\ g[o] \in Int
        /\ o \notin E => h[o] = 0
        /\ o \in E => h[o] = Outstanding[o]
        /\ o \notin B => g[o] = 0
        /\ o \in B => g[o] = fills[o]
  BY <1>2
<1>7. \A o \in OrderIds : ClaimOf(ord)[o] = h[o] - g[o]
  BY <1>2, <1>6
<1> HIDE DEF h, g
<1>8. SumFunctionOnSet(h, OrderIds) <= ToBuy(ord)
  BY <1>6, SlotsFinite, SumMonotone DEF ToBuy
<1>9. Claims(ord) = SumFunctionOnSet(h, OrderIds) - SumFunctionOnSet(g, OrderIds)
  BY <1>6, <1>7, SlotsFinite, SumDiffers DEF Claims
<1>10. SumFunctionOnSet(h, E) = SumFunctionOnSet(h, OrderIds)
  BY <1>3, <1>6, SlotsFinite, SumOfPart
<1>11. SumFunctionOnSet(g, B) = SumFunctionOnSet(g, OrderIds)
  BY <1>3, <1>6, SlotsFinite, SumOfPart
<1>12. SumFunctionOnSet(Outstanding, E) = SumFunctionOnSet(h, E)
  <2>1. IsFiniteSet(E) /\ \A o \in E : Outstanding[o] = h[o]
    BY <1>3, <1>6, SlotsFinite, FS_Subset
  <2>2. QED
    BY <2>1, SumAgrees
<1>13. SumFunctionOnSet(fills, B) = SumFunctionOnSet(g, B)
  <2>1. IsFiniteSet(B) /\ \A o \in B : fills[o] = g[o]
    BY <1>3, <1>6, SlotsFinite, FS_Subset
  <2>2. QED
    BY <2>1, SumAgrees
<1>14. /\ SumFunctionOnSet(h, OrderIds) \in Int /\ SumFunctionOnSet(g, OrderIds) \in Int
       /\ ToBuy(ord) \in Nat
  BY <1>1, <1>6, SlotsFinite, SumIsInt, BuyingIs
<1>15. overlaps = 0 => Exposure <= EntryQty
  <2>1. overlaps = 0 => ToBuy(ord) + net <= EntryQty
    BY DEF StackInv, DaysApart
  <2>2. QED
    BY <1>1, <1>5, <1>8, <1>10, <1>12, <1>14, <2>1
<1>16. Exposure - BoughtBack <= EntryQty * (1 + overlaps)
  <2>1. Claims(ord) + net <= EntryQty * (1 + overlaps)
    BY DEF StackInv
  <2>2. Exposure - BoughtBack = Claims(ord) + net
    BY <1>1, <1>4, <1>5, <1>9, <1>10, <1>11, <1>12, <1>13, <1>14
  <2>3. QED
    BY <2>1, <2>2
<1>17. QED
  BY <1>15, <1>16 DEF EntryNeverStacks

\* A second entry waits until the first is gone: over any number of sessions and
\* crashes, what the entries of the symbol can still buy and what it holds stay within
\* one entry while no session is started before the day of the last one is over.  Every
\* session that is (the daemon runs a day again after a lost socket, the service manager
\* restarts a dead process) finds the orders of the first at work and adds one entry at
\* most, what was bought back against an oversold position left out.
THEOREM EntriesNeverStack == Spec => []EntryNeverStacks
<1>1. Init => StackInv
  <2> SUFFICES ASSUME Init
               PROVE  StackInv
    OBVIOUS
  <2>1. /\ ord = [o \in OrderIds |-> NoOrder] /\ net = 0 /\ seen = 0 /\ fl = "idle"
        /\ phase = "trading" /\ overlaps = 0
    BY DEF Init, GatewayInit
  <2>2. \A o \in OrderIds : ~ord[o].live /\ ord[o].parent = 0 /\ ord[o].kind = "none"
    BY <2>1 DEF NoOrder
  <2>3. \A o \in OrderIds : /\ ToBuyOf(ord)[o] \in Int
                            /\ o \notin {} => ToBuyOf(ord)[o] = 0
    BY <2>2 DEF ToBuyOf
  <2>4. SumFunctionOnSet(ToBuyOf(ord), {}) = ToBuy(ord)
    BY <2>3, SlotsFinite, SumOfPart DEF ToBuy
  <2>5. ToBuy(ord) = 0
    BY <2>4, SumEmpty
  <2>6. Shaped(ord) /\ NoEntry(ord)
    BY <2>2 DEF Shaped, NoEntry
  <2>7. OrdersOK(ord)
    BY InitIInv DEF IInv
  <2>8. Claims(ord) <= 0 /\ Claims(ord) \in Int
    BY <2>6, <2>7, NoClaim, BuyingIs
  <2>9. DaysApart
    BY <2>1, <2>5, GatewayAssumption DEF DaysApart
  <2>10. EntryQty * (1 + overlaps) = EntryQty
    BY <2>1, GatewayAssumption
  <2>11. Claims(ord) + net <= EntryQty * (1 + overlaps) /\ Claims(ord) + net <= seen
    BY <2>1, <2>8, <2>10, GatewayAssumption
  <2>12. QED
    BY <2>1, <2>6, <2>9, <2>11 DEF StackInv
<1>2. IInv /\ IInv' /\ LedgerInv /\ StackInv /\ [Next]_vars => StackInv'
  <2> SUFFICES ASSUME IInv, IInv', LedgerInv, StackInv, [Next]_vars
               PROVE  StackInv'
    OBVIOUS
  <2>1. OrdersOK(ord') /\ Sound(ord, nxt) /\ Shaped(ord)
    BY DEF IInv, LedgerInv, StackInv
  <2>2. CASE Buys
    BY <2>1, <2>2, EntryKeeps, SweepKeeps, SessionKeeps DEF Buys
  <2>3. CASE ~Buys
    <3>1. Eases
      BY <2>1, <2>3, StepEases
    <3>2. Calm
      BY <2>3, StepIsCalm DEF StackInv
    <3>3. QED
      BY <2>1, <3>1, <3>2, CalmKeeps
  <2>4. QED
    BY <2>2, <2>3
<1>3. IInv /\ StackInv => EntryNeverStacks
  BY StackIs
<1>4. QED
  BY <1>1, <1>2, <1>3, Invariance, LedgerInvariance, PTL DEF Spec
=============================================================================
