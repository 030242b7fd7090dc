------------------------ MODULE PositionManager_proofs ------------------------
(***************************************************************************)
(* What holds of PositionManager for every entry size, every bound and     *)
(* every set of refusable orders: every variable keeps its type, the row   *)
(* in the database is the position in memory, an entering position is      *)
(* polled, and the shares of a bracket position are accounted for.         *)
(***************************************************************************)
EXTENDS PositionManager, TLAPS

(***************************************************************************)
(* Orders: what the gateway's operators keep.                              *)
(***************************************************************************)

OrdersOK(f) ==
    /\ f \in [OrderIds -> Order]
    /\ \A o \in OrderIds : f[o].filled <= f[o].qty

\* Slots below n keep their kind and size, and lose no fill.
Kept(f, g, n) ==
    \A o \in OrderIds : o < n =>
        /\ g[o].kind = f[o].kind
        /\ g[o].qty = f[o].qty
        /\ f[o].filled <= g[o].filled

\* A cancel request changes statuses only.
LEMMA CancelSentKeeps ==
    ASSUME NEW f, NEW S, NEW n \in Nat, OrdersOK(f)
    PROVE  OrdersOK(CancelSent(f, S)) /\ Kept(f, CancelSent(f, S), n)
<1>1. ASSUME NEW o \in OrderIds
      PROVE  /\ CancelSent(f, S)[o] \in Order
             /\ CancelSent(f, S)[o].kind = f[o].kind
             /\ CancelSent(f, S)[o].qty = f[o].qty
             /\ CancelSent(f, S)[o].filled = f[o].filled
  BY DEF OrdersOK, CancelSent, Order, RawStatus
<1>2. CancelSent(f, S) \in [OrderIds -> Order]
  BY <1>1 DEF CancelSent
<1>3. \A o \in OrderIds : f[o].filled \in Nat
  BY DEF OrdersOK, Order
<1>4. QED
  BY <1>1, <1>2, <1>3 DEF OrdersOK, Kept

\* A new order takes its slot and leaves the others alone.
LEMMA PlacedKeeps ==
    ASSUME NEW f, NEW id \in OrderIds, NEW kind \in Kinds, NEW side \in {1, -1},
           NEW qty \in Nat, OrdersOK(f)
    PROVE  /\ OrdersOK(Placed(f, id, kind, side, qty))
           /\ Kept(f, Placed(f, id, kind, side, qty), id)
<1>1. NewOrder(kind, side, qty, 0) \in Order
  BY DEF NewOrder, Order, RawStatus
<1>2. Placed(f, id, kind, side, qty) \in [OrderIds -> Order]
  BY <1>1 DEF Placed, OrdersOK
<1>3. ASSUME NEW o \in OrderIds
      PROVE  Placed(f, id, kind, side, qty)[o]
                = IF o = id THEN NewOrder(kind, side, qty, 0) ELSE f[o]
  BY DEF Placed, OrdersOK
<1>4. NewOrder(kind, side, qty, 0).filled = 0 /\ NewOrder(kind, side, qty, 0).qty = qty
  BY DEF NewOrder
<1>5. \A o \in OrderIds : f[o].filled \in Nat /\ o \in Nat
  BY GatewayAssumption DEF OrdersOK, Order, OrderIds
<1>6. QED
  BY <1>2, <1>3, <1>4, <1>5 DEF OrdersOK, Kept, OrderIds

\* A bracket takes three slots: all three for the entry's size.
LEMMA BracketPlacedKeeps ==
    ASSUME NEW f, NEW id \in Nat \ {0}, id + 2 <= MaxOrders, OrdersOK(f)
    PROVE  /\ OrdersOK(BracketPlaced(f, id, EntryQty))
           /\ Kept(f, BracketPlaced(f, id, EntryQty), id)
           /\ BracketPlaced(f, id, EntryQty)[id].kind = "entry"
           /\ BracketPlaced(f, id, EntryQty)[id].qty = EntryQty
           /\ BracketPlaced(f, id, EntryQty)[id + 1].kind = "tp1"
           /\ BracketPlaced(f, id, EntryQty)[id + 1].qty = EntryQty
<1> DEFINE g == BracketPlaced(f, id, EntryQty)
<1>1. \A k \in Kinds, d \in {1, -1}, p \in Nat : NewOrder(k, d, EntryQty, p) \in Order
  BY GatewayAssumption DEF NewOrder, Order, RawStatus
<1>2. {id, id + 1, id + 2} \subseteq OrderIds
  BY GatewayAssumption DEF OrderIds
<1>3. g \in [OrderIds -> Order]
  BY <1>1, <1>2, GatewayAssumption DEF BracketPlaced, OrdersOK, Kinds
<1>4. /\ g[id] = NewOrder("entry", 1, EntryQty, 0)
      /\ g[id + 1] = NewOrder("tp1", -1, EntryQty, id)
      /\ g[id + 2] = NewOrder("stop", -1, EntryQty, id)
      /\ \A o \in OrderIds : o \notin {id, id + 1, id + 2} => g[o] = f[o]
  BY <1>2 DEF BracketPlaced, OrdersOK
<1>5. \A k \in Kinds, d \in {1, -1}, p \in Nat :
        /\ NewOrder(k, d, EntryQty, p).kind = k
        /\ NewOrder(k, d, EntryQty, p).qty = EntryQty
        /\ NewOrder(k, d, EntryQty, p).filled = 0
  BY DEF NewOrder
<1>6. \A o \in OrderIds : f[o].filled \in Nat /\ o \in Nat
  BY GatewayAssumption DEF OrdersOK, Order, OrderIds
<1>7. \A o \in OrderIds : g[o].filled <= g[o].qty
  BY <1>4, <1>5, <1>6, GatewayAssumption DEF OrdersOK, Kinds
<1>8. Kept(f, g, id)
  BY <1>4, <1>6 DEF Kept
<1>9. QED
  BY <1>3, <1>4, <1>5, <1>7, <1>8, GatewayAssumption DEF OrdersOK, Kinds

\* A refusal changes no size and no fill.
LEMMA RefusedKeeps ==
    ASSUME NEW o \in OrderIds, NEW n \in Nat, OrdersOK(ord)
    PROVE  OrdersOK(Refused(o)) /\ Kept(ord, Refused(o), n)
<1>1. ASSUME NEW p \in OrderIds
      PROVE  /\ Refused(o)[p] \in Order
             /\ Refused(o)[p].kind = ord[p].kind
             /\ Refused(o)[p].qty = ord[p].qty
             /\ Refused(o)[p].filled = ord[p].filled
  BY DEF OrdersOK, Refused, Order, RawStatus
<1>2. Refused(o) \in [OrderIds -> Order]
  BY <1>1 DEF Refused
<1>3. \A p \in OrderIds : ord[p].filled \in Nat
  BY DEF OrdersOK, Order
<1>4. QED
  BY <1>1, <1>2, <1>3 DEF OrdersOK, Kept

\* Nor does the close of the day.
LEMMA ExpiredKeeps ==
    ASSUME NEW n \in Nat, OrdersOK(ord)
    PROVE  OrdersOK(Expired(ord)) /\ Kept(ord, Expired(ord), n)
<1>1. ASSUME NEW p \in OrderIds
      PROVE  /\ Expired(ord)[p] \in Order
             /\ Expired(ord)[p].kind = ord[p].kind
             /\ Expired(ord)[p].qty = ord[p].qty
             /\ Expired(ord)[p].filled = ord[p].filled
  BY DEF OrdersOK, Expired, Order, RawStatus
<1>2. Expired(ord) \in [OrderIds -> Order]
  BY <1>1 DEF Expired
<1>3. \A p \in OrderIds : ord[p].filled \in Nat
  BY DEF OrdersOK, Order
<1>4. QED
  BY <1>1, <1>2, <1>3 DEF OrdersOK, Kept

\* The ways a step of the exchange may rewrite one order.
LEMMA OrderUpdates ==
    ASSUME NEW r \in Order, NEW s \in RawStatus, NEW b \in BOOLEAN, NEW m \in Nat
    PROVE  /\ [r EXCEPT !.st = s, !.live = b] \in Order
           /\ [r EXCEPT !.live = b] \in Order
           /\ [r EXCEPT !.filled = m, !.st = s, !.live = b] \in Order
  BY DEF Order

\* A fill that leaves the order working, named so that a proof can pass it on
\* unexpanded.
Working(r, m, s) == [r EXCEPT !.filled = m, !.st = s]

LEMMA OrderFills ==
    ASSUME NEW r \in Order, NEW s \in RawStatus, NEW m \in Nat
    PROVE  /\ Working(r, m, s) \in Order
           /\ Working(r, m, s).kind = r.kind
           /\ Working(r, m, s).qty = r.qty
           /\ Working(r, m, s).filled = m
  BY DEF Order, Working

\* A step of the exchange adds fills, up to the size of the order, and changes
\* no slot's kind or size.
LEMMA ExchangeKeeps ==
    ASSUME GatewayTypeOK, OrdersOK(ord), Exchange
    PROVE  GatewayTypeOK' /\ OrdersOK(ord') /\ Kept(ord, ord', nxt) /\ nxt' = nxt
<1> USE DEF GatewayTypeOK
<1>0. /\ nxt \in Nat
      /\ \A p \in OrderIds : ord[p] \in Order /\ ord[p].filled \in Nat /\ ord[p].qty \in Nat
                               /\ ord[p].side \in Int
  BY GatewayAssumption DEF OrdersOK, Order
<1>1. ASSUME NEW o \in OrderIds, Fill(o)
      PROVE  GatewayTypeOK' /\ OrdersOK(ord') /\ Kept(ord, ord', nxt) /\ nxt' = nxt
  <2>0. PICK n \in 1..Unfilled(o) :
          \E s \in FillStatus(o, n) :
            /\ ord' = FillResult(o, n, s)
            /\ net' = net + ord[o].side * n
    BY <1>1 DEF Fill, FillResult
  <2>1. PICK s \in FillStatus(o, n) :
          ord' = FillResult(o, n, s) /\ net' = net + ord[o].side * n
    BY <2>0
  <2>2. n \in Nat /\ ord[o].filled + n <= ord[o].qty /\ s \in RawStatus
    BY <1>0, <2>0, <2>1 DEF Unfilled, FillStatus, RawStatus
  <2>3. ASSUME NEW p \in OrderIds
        PROVE  /\ ord'[p] \in Order
               /\ ord'[p].kind = ord[p].kind
               /\ ord'[p].qty = ord[p].qty
               /\ ord[p].filled <= ord'[p].filled
               /\ ord'[p].filled <= ord'[p].qty
    <3>1. \/ p = o /\ ord'[p] = [ord[p] EXCEPT !.filled = @ + n, !.st = s, !.live = FALSE]
          \/ p = o /\ ord'[p] = [ord[p] EXCEPT !.filled = @ + n, !.st = s]
          \/ ord'[p] = [ord[p] EXCEPT !.st = "Submitted", !.live = TRUE]
          \/ ord'[p] = [ord[p] EXCEPT !.live = FALSE]
          \/ ord'[p] = ord[p]
      <4> DEFINE a == [ord[p] EXCEPT !.filled = @ + n, !.st = s, !.live = FALSE]
                 b == [ord[p] EXCEPT !.filled = @ + n, !.st = s]
                 c == [ord[p] EXCEPT !.st = "Submitted", !.live = TRUE]
                 d == [ord[p] EXCEPT !.live = FALSE]
      <4>1. ord'[p] = CASE p = o /\ n = Unfilled(o) -> a
                        [] p = o /\ n # Unfilled(o) -> b
                        [] p \in Children(o) /\ n = Unfilled(o) /\ ord[p].st = "PreSubmitted" -> c
                        [] p \in Siblings(o) -> d
                        [] OTHER -> ord[p]
        BY <2>1, Zenon DEF FillResult
      <4> HIDE DEF a, b, c, d
      <4>2. (p = o /\ ord'[p] = a) \/ (p = o /\ ord'[p] = b) \/ ord'[p] = c \/ ord'[p] = d \/ ord'[p] = ord[p]
        BY <4>1
      <4>3. QED
        BY <4>2 DEF a, b, c, d
    <3>2. ord[p] \in Order /\ ord[p].filled <= ord[p].qty
      BY DEF OrdersOK
    <3>3. \/ ord'[p] = [ord[p] EXCEPT !.st = "Submitted", !.live = TRUE]
          \/ ord'[p] = [ord[p] EXCEPT !.live = FALSE]
          \/ ord'[p] = ord[p]
          => /\ ord'[p] \in Order
             /\ ord'[p].kind = ord[p].kind
             /\ ord'[p].qty = ord[p].qty
             /\ ord[p].filled <= ord'[p].filled
             /\ ord'[p].filled <= ord'[p].qty
      <4>1. "Submitted" \in RawStatus /\ TRUE \in BOOLEAN /\ FALSE \in BOOLEAN
        BY DEF RawStatus
      <4>2. CASE ord'[p] = [ord[p] EXCEPT !.st = "Submitted", !.live = TRUE]
        <5>1. ord'[p] \in Order
          BY <3>2, <4>1, <4>2, OrderUpdates
        <5>2. ord'[p].kind = ord[p].kind /\ ord'[p].qty = ord[p].qty /\ ord'[p].filled = ord[p].filled
          BY <3>2, <4>2 DEF Order
        <5>3. QED
          BY <1>0, <3>2, <5>1, <5>2
      <4>3. CASE ord'[p] = [ord[p] EXCEPT !.live = FALSE]
        <5>1. ord'[p] \in Order
          BY <3>2, <4>1, <4>3, OrderUpdates
        <5>2. ord'[p].kind = ord[p].kind /\ ord'[p].qty = ord[p].qty /\ ord'[p].filled = ord[p].filled
          BY <3>2, <4>3 DEF Order
        <5>3. QED
          BY <1>0, <3>2, <5>1, <5>2
      <4>4. CASE ord'[p] = ord[p]
        BY <1>0, <3>2, <4>4
      <4>5. QED
        BY <4>2, <4>3, <4>4
    <3>4. CASE p = o
      <4>1. ord[p].filled + n \in Nat /\ ord[p].filled + n <= ord[p].qty
        BY <1>0, <2>2, <3>4
      <4> DEFINE m == ord[p].filled + n
      <4> HIDE DEF m
      <4>2. m \in Nat /\ m <= ord[p].qty /\ ord[p].filled <= m
        BY <1>0, <2>2, <4>1 DEF m
      <4>3. \/ ord'[p] = [ord[p] EXCEPT !.filled = m, !.st = s, !.live = FALSE]
            \/ ord'[p] = Working(ord[p], m, s)
            \/ ord'[p] = [ord[p] EXCEPT !.st = "Submitted", !.live = TRUE]
            \/ ord'[p] = [ord[p] EXCEPT !.live = FALSE]
            \/ ord'[p] = ord[p]
        BY <3>1, Zenon DEF m, Working
      <4>4. CASE ord'[p] = [ord[p] EXCEPT !.filled = m, !.st = s, !.live = FALSE]
        <5>1. ord'[p] \in Order
          BY <2>2, <3>2, <4>2, <4>4, OrderUpdates
        <5>2. ord'[p].kind = ord[p].kind /\ ord'[p].qty = ord[p].qty /\ ord'[p].filled = m
          BY <3>2, <4>4 DEF Order
        <5>3. QED
          BY <4>2, <5>1, <5>2
      <4>5. CASE ord'[p] = Working(ord[p], m, s)
        <5>1. ord[p] \in Order /\ s \in RawStatus /\ m \in Nat
          BY <2>2, <3>2, <4>2
        <5>2. /\ Working(ord[p], m, s) \in Order
              /\ Working(ord[p], m, s).kind = ord[p].kind
              /\ Working(ord[p], m, s).qty = ord[p].qty
              /\ Working(ord[p], m, s).filled = m
          BY <5>1, OrderFills
        <5>3. QED
          BY <4>2, <4>5, <5>2
      <4>6. QED
        BY <1>0, <3>2, <3>3, <4>3, <4>4, <4>5
    <3>5. CASE p # o
      BY <1>0, <3>1, <3>2, <3>5, <3>3
    <3>6. QED
      BY <3>4, <3>5
  <2>4. ord' \in [OrderIds -> Order]
    BY <2>1, <2>3 DEF FillResult
  <2>5. net' \in Int
    BY <1>0, <2>1, <2>2 DEF Order
  <2>6. execs' \subseteq OrderIds /\ nxt' = nxt /\ seen' = seen
    BY <1>1 DEF Fill
  <2>7. QED
    BY <2>3, <2>4, <2>5, <2>6 DEF OrdersOK, Kept
<1>2. ASSUME NEW o \in OrderIds, CancelAck(o)
      PROVE  GatewayTypeOK' /\ OrdersOK(ord') /\ Kept(ord, ord', nxt) /\ nxt' = nxt
  <2>1. PICK keep \in {FALSE, ord[o].filled > 0} :
          ord' = [p \in OrderIds |->
            CASE p = o -> [ord[o] EXCEPT !.st = "Cancelled", !.live = FALSE]
              [] p \in Children(o) /\ ord[p].st = "PreSubmitted" ->
                    IF keep THEN [ord[p] EXCEPT !.st = "Submitted", !.live = TRUE]
                            ELSE [ord[p] EXCEPT !.st = "Cancelled"]
              [] OTHER -> ord[p]]
    BY <1>2 DEF CancelAck
  <2>2. ASSUME NEW p \in OrderIds
        PROVE  /\ ord'[p] \in Order
               /\ ord'[p].kind = ord[p].kind
               /\ ord'[p].qty = ord[p].qty
               /\ ord'[p].filled = ord[p].filled
    <3>1. ord'[p] \in {ord[p], [ord[p] EXCEPT !.st = "Cancelled", !.live = FALSE],
                       [ord[p] EXCEPT !.st = "Submitted", !.live = TRUE],
                       [ord[p] EXCEPT !.st = "Cancelled"]}
      BY <2>1
    <3>2. QED
      BY <1>0, <3>1 DEF Order, RawStatus
  <2>3. ord' \in [OrderIds -> Order]
    BY <2>1, <2>2
  <2>4. OrdersOK(ord') /\ Kept(ord, ord', nxt)
    BY <1>0, <2>2, <2>3 DEF OrdersOK, Kept
  <2>5. nxt' = nxt /\ net' = net /\ seen' = seen /\ execs' = execs
    BY <1>2 DEF CancelAck
  <2>6. QED
    BY <2>3, <2>4, <2>5
<1>3. ASSUME NEW o \in OrderIds, OcaReport(o)
      PROVE  GatewayTypeOK' /\ OrdersOK(ord') /\ Kept(ord, ord', nxt) /\ nxt' = nxt
  <2>1. ASSUME NEW p \in OrderIds
        PROVE  /\ ord'[p] \in Order
               /\ ord'[p].kind = ord[p].kind
               /\ ord'[p].qty = ord[p].qty
               /\ ord'[p].filled = ord[p].filled
    <3>1. ord'[p] \in {ord[p], [ord[p] EXCEPT !.st = "Cancelled"]}
      BY <1>3 DEF OcaReport, OrdersOK
    <3>2. QED
      BY <1>0, <3>1 DEF Order, RawStatus
  <2>2. ord' \in [OrderIds -> Order]
    BY <1>3, <2>1 DEF OcaReport, OrdersOK
  <2>3. QED
    BY <1>0, <1>3, <2>1, <2>2 DEF OrdersOK, Kept, OcaReport
<1>4. ASSUME NEW o \in OrderIds, Refuse(o)
      PROVE  GatewayTypeOK' /\ OrdersOK(ord') /\ Kept(ord, ord', nxt) /\ nxt' = nxt
  BY <1>0, <1>4, RefusedKeeps DEF Refuse, OrdersOK
<1>5. ASSUME PortfolioUpdate
      PROVE  GatewayTypeOK' /\ OrdersOK(ord') /\ Kept(ord, ord', nxt) /\ nxt' = nxt
  BY <1>0, <1>5 DEF PortfolioUpdate, OrdersOK, Kept
<1>6. QED
  BY <1>1, <1>2, <1>3, <1>4, <1>5 DEF Exchange
(***************************************************************************)
(* The inductive invariant.                                                *)
(***************************************************************************)

\* The orders the manager refers to are slots in use, and those of a bracket
\* have the entry's size.
SlotsOK ==
    /\ pend # 0 => pend + 2 < nxt /\ ord[pend].qty = EntryQty
                                  /\ ord[pend + 1].qty = EntryQty
    /\ pos.tp1 # 0 => pos.tp1 < nxt /\ ord[pos.tp1].qty = EntryQty
    /\ IsOpen /\ pos.tp1 # 0 => pos.shares = EntryQty

\* In the first session, whose memory starts empty, there is one entry: while it
\* is pending the position is entering, and flatten_all holds an open one.
FirstSession ==
    sessions = 1 =>
        /\ pend # 0 => pos.st = "entering"
        /\ pos # NoPos \/ fl = "pump" => ~armed
        /\ fl = "pump" => pend = 0

\* A dead process is in no flatten_all.
DownIsIdle == phase = "down" => fl = "idle"

IInv ==
    /\ TypeOK
    /\ OrdersOK(ord)
    /\ SlotsOK
    /\ FirstSession
    /\ DownIsIdle
    /\ RowsAreCurrent
    /\ EnteringIsPolled
    /\ RemainingAccounts

(***************************************************************************)
(* Facts about positions and rows.                                         *)
(***************************************************************************)

LEMMA NoPosIs ==
    /\ NoPos \in Position /\ NoRow \in Row
    /\ NoPos.st = "none" /\ NoPos.tp1 = 0 /\ RowOf(NoPos) = NoRow
  BY GatewayAssumption DEF NoPos, Holding, NoRow, RowOf, Position, Row, Statuses

LEMMA RowOfIs ==
    ASSUME NEW p \in Position
    PROVE  RowOf(p) \in Row /\ RowOf(p).st = p.st
  BY GatewayAssumption DEF RowOf, Position, Row

LEMMA PersistedIs ==
    ASSUME NEW p \in Position
    PROVE  /\ Persisted(p) \in Row
           /\ row = NoRow => Persisted(p) = NoRow
           /\ row # NoRow => Persisted(p) = RowOf(p)
<1>1. CASE row = NoRow
  BY <1>1, NoPosIs DEF Persisted
<1>2. CASE row # NoRow
  BY <1>2, RowOfIs DEF Persisted
<1>3. QED
  BY <1>1, <1>2

LEMMA HoldingIs ==
    ASSUME NEW st \in Statuses, NEW n \in Nat,
           NEW a \in 0..MaxOrders, NEW b \in 0..MaxOrders
    PROVE  /\ Holding(st, n, a, b) \in Position
           /\ Holding(st, n, a, b).st = st
           /\ Holding(st, n, a, b).shares = n
           /\ Holding(st, n, a, b).rem = n
           /\ Holding(st, n, a, b).booked = 0
           /\ Holding(st, n, a, b).tp1 = a
  BY DEF Holding, Position

\* A step that leaves the position and the pending entry, or drops them, keeps
\* what holds of their orders.
LEMMA SlotsKept ==
    ASSUME IInv, Kept(ord, ord', nxt), OrdersOK(ord'), nxt' \in Nat, nxt' >= nxt,
           pos' = pos \/ pos' = NoPos, pend' = pend \/ pend' = 0
    PROVE  SlotsOK' /\ RemainingAccounts'
<1>1. /\ nxt \in 1..(MaxOrders + 1) /\ pend \in 0..MaxOrders /\ pos \in Position
      /\ pos.tp1 \in 0..MaxOrders /\ pos.booked \in Nat
  BY DEF IInv, TypeOK, GatewayTypeOK, Position
<1>2. \A o \in OrderIds : ord[o].filled \in Nat /\ ord'[o].filled \in Nat
  BY DEF IInv, OrdersOK, Order
<1>3. pend' # 0 => pend' + 2 < nxt' /\ ord'[pend'].qty = EntryQty
                                    /\ ord'[pend' + 1].qty = EntryQty
  BY <1>1, GatewayAssumption DEF IInv, SlotsOK, Kept, OrderIds
<1>4. CASE pos' = NoPos
  BY <1>3, <1>4, NoPosIs DEF SlotsOK, RemainingAccounts, IsOpen
<1>5. CASE pos' = pos
  <2>1. pos.tp1 # 0 => /\ pos.tp1 < nxt' /\ ord'[pos.tp1].qty = EntryQty
                       /\ ord[pos.tp1].filled <= ord'[pos.tp1].filled
                       /\ pos.tp1 \in OrderIds
    BY <1>1, GatewayAssumption DEF IInv, SlotsOK, Kept, OrderIds
  <2>2. QED
    BY <1>1, <1>2, <1>3, <1>5, <2>1 DEF IInv, SlotsOK, RemainingAccounts, IsOpen
<1>6. QED
  BY <1>4, <1>5

LEMMA KeptTrans ==
    ASSUME NEW f, NEW g, NEW h, NEW n \in Nat, OrdersOK(f), OrdersOK(g), OrdersOK(h),
           Kept(f, g, n), Kept(g, h, n)
    PROVE  Kept(f, h, n)
<1>1. \A o \in OrderIds : f[o].filled \in Nat /\ g[o].filled \in Nat /\ h[o].filled \in Nat
  BY DEF OrdersOK, Order
<1>2. QED
  BY <1>1 DEF Kept

\* What a submission does to the slots: nothing, or one new order.
Submitted(f, kind, side, qty) ==
    \/ ord' = f /\ nxt' = nxt
    \/ Room(1) /\ ord' = Placed(f, nxt, kind, side, qty) /\ nxt' = nxt + 1

SlotsGrow ==
    /\ OrdersOK(ord')
    /\ Kept(ord, ord', nxt)
    /\ nxt' \in 1..(MaxOrders + 1)
    /\ nxt' >= nxt

LEMMA SubmittedGrows ==
    ASSUME GatewayTypeOK, OrdersOK(ord), NEW f, OrdersOK(f), Kept(ord, f, nxt),
           NEW kind \in Kinds, NEW side \in {1, -1}, NEW qty \in Nat,
           Submitted(f, kind, side, qty)
    PROVE  SlotsGrow
<1>1. nxt \in Nat /\ nxt \in 1..(MaxOrders + 1) /\ MaxOrders \in Nat
  BY GatewayAssumption DEF GatewayTypeOK
<1>2. CASE ord' = f /\ nxt' = nxt
  BY <1>1, <1>2 DEF SlotsGrow
<1>3. CASE Room(1) /\ ord' = Placed(f, nxt, kind, side, qty) /\ nxt' = nxt + 1
  <2>1. nxt \in OrderIds /\ nxt' \in 1..(MaxOrders + 1) /\ nxt' >= nxt
    BY <1>1, <1>3 DEF Room, OrderIds
  <2>2. OrdersOK(ord') /\ Kept(f, ord', nxt)
    BY <1>3, <2>1, PlacedKeeps
  <2>3. Kept(ord, ord', nxt)
    BY <1>1, <2>2, KeptTrans
  <2>4. QED
    BY <2>1, <2>2, <2>3 DEF SlotsGrow
<1>4. QED
  BY <1>2, <1>3 DEF Submitted

\* A market order, sent or not, counts at most one failure.
LEMMA MarketSends ==
    ASSUME TypeOK, NEW f, NEW ok \in BOOLEAN, NEW side, NEW qty,
           SendMarket(f, ok, side, qty)
    PROVE  /\ Submitted(f, "market", side, qty)
           /\ fails' \in 0..MaxFails
           /\ nxt \in OrderIds
<1>1. nxt \in 1..(MaxOrders + 1) /\ fails \in 0..MaxFails
  BY DEF TypeOK, GatewayTypeOK
<1>2. fails' \in 0..MaxFails
  BY <1>1, ManagerAssumption DEF SendMarket, Submits
<1>3. nxt \in OrderIds
  BY <1>1, GatewayAssumption DEF SendMarket, Room, OrderIds
<1>4. QED
  BY <1>2, <1>3 DEF SendMarket, Submitted

LEMMA QtyIsNat ==
    ASSUME TypeOK
    PROVE  AbsQty(seen) \in Nat /\ ExitQty \in Nat
<1>1. seen \in Int /\ pos.rem \in Nat
  BY DEF TypeOK, GatewayTypeOK, Position
<1>2. AbsQty(seen) \in Nat
  BY <1>1 DEF AbsQty
<1>3. QED
  BY <1>1, <1>2 DEF ExitQty

(***************************************************************************)
(* Steps that leave the position and the pending entry, or drop them.      *)
(***************************************************************************)

Dropped ==
    /\ Forget
    /\ \/ pend' = 0
       \/ pend' = pend /\ (IsOpen \/ fl = "pump")
Untouched == pos' = pos /\ row' = row /\ pend' = pend

QuietControl ==
    /\ sessions' = sessions
    /\ phase = "down" => phase' = "down"
    /\ phase' = "down" => phase = "down" /\ fl' = fl
    /\ armed' => armed
    /\ fl' = "pump" => fl = "pump" \/ IsOpen

LEMMA QuietStep ==
    ASSUME IInv, TypeOK', SlotsGrow, QuietControl, Dropped \/ Untouched
    PROVE  IInv'
<1>1. nxt' \in Nat /\ nxt' >= nxt
  BY GatewayAssumption DEF SlotsGrow
<1>2. pos' = pos \/ pos' = NoPos
  BY DEF Dropped, Untouched, Forget
<1>3. pend' = pend \/ pend' = 0
  BY DEF Dropped, Untouched
<1>4. SlotsOK' /\ RemainingAccounts'
  BY <1>1, <1>2, <1>3, SlotsKept DEF SlotsGrow
<1>5. NoPos.st # "entering" /\ NoPos.st # "open"
  BY NoPosIs
<1>6. EnteringIsPolled'
  BY <1>5 DEF IInv, EnteringIsPolled, Dropped, Untouched, Forget
<1>7. RowsAreCurrent'
  <2>1. CASE Dropped
    BY <2>1, NoPosIs DEF RowsAreCurrent, Dropped, Forget
  <2>2. CASE Untouched
    BY <2>2 DEF IInv, RowsAreCurrent, Untouched, QuietControl, RowOf
  <2>3. QED
    BY <2>1, <2>2
<1>8. FirstSession'
  <2> SUFFICES ASSUME sessions = 1
               PROVE  /\ pend' # 0 => pos'.st = "entering"
                      /\ pos' # NoPos \/ fl' = "pump" => ~armed'
                      /\ fl' = "pump" => pend' = 0
    BY DEF FirstSession, QuietControl
  <2>1. /\ pend # 0 => pos.st = "entering"
        /\ pos # NoPos \/ fl = "pump" => ~armed
        /\ fl = "pump" => pend = 0
    BY DEF IInv, FirstSession
  <2>2. IsOpen => pend = 0 /\ ~armed
    BY <1>5, <2>1 DEF IsOpen
  <2>3. QED
    BY <2>1, <2>2 DEF QuietControl, Dropped, Untouched, Forget
<1>9. DownIsIdle'
  BY DEF IInv, DownIsIdle, QuietControl
<1>10. QED
  BY <1>4, <1>6, <1>7, <1>8, <1>9 DEF IInv, SlotsGrow

LEMMA SameSlots ==
    ASSUME IInv, ord' = ord, nxt' = nxt
    PROVE  SlotsGrow
<1>1. \A o \in OrderIds : ord[o].filled \in Nat
  BY DEF IInv, OrdersOK, Order
<1>2. nxt \in 1..(MaxOrders + 1)
  BY DEF IInv, TypeOK, GatewayTypeOK
<1>3. QED
  BY <1>1, <1>2, GatewayAssumption DEF IInv, SlotsGrow, OrdersOK, Kept

\* The same for new statuses in the same slots.
LEMMA CancelGrows ==
    ASSUME IInv, NEW S, ord' = CancelSent(ord, S), nxt' = nxt
    PROVE  SlotsGrow
<1>1. nxt \in Nat /\ nxt \in 1..(MaxOrders + 1)
  BY GatewayAssumption DEF IInv, TypeOK, GatewayTypeOK
<1>2. QED
  BY <1>1, CancelSentKeeps DEF IInv, SlotsGrow

\* A market order after a cancel request for S.
LEMMA MarketGrows ==
    ASSUME IInv, NEW S, NEW ok \in BOOLEAN, NEW side \in {1, -1}, NEW qty \in Nat,
           SendMarket(CancelSent(ord, S), ok, side, qty)
    PROVE  /\ SlotsGrow
           /\ fails' \in 0..MaxFails
           /\ nxt \in OrderIds
<1>1. nxt \in Nat
  BY GatewayAssumption DEF IInv, TypeOK, GatewayTypeOK
<1>2. OrdersOK(CancelSent(ord, S)) /\ Kept(ord, CancelSent(ord, S), nxt)
  BY <1>1, CancelSentKeeps DEF IInv
<1>3. Submitted(CancelSent(ord, S), "market", side, qty)
  BY MarketSends DEF IInv
<1>4. SlotsGrow
  BY <1>2, <1>3, SubmittedGrows DEF IInv, TypeOK, Kinds
<1>5. QED
  BY <1>4, MarketSends DEF IInv

\* _check_pending_entry, the branches that fill nothing.
LEMMA PendingStep ==
    ASSUME IInv, NoPendingEntry \/ EntryDropped \/ EntryTimesOut \/ EntryStillPending
    PROVE  IInv'
<1>0. TypeOK /\ NoPos \in Position /\ NoRow \in Row /\ 0 \in 0..MaxOrders
  BY NoPosIs, GatewayAssumption DEF IInv
<1>1. CASE NoPendingEntry \/ EntryStillPending
  <2>1. TypeOK'
    BY <1>0, <1>1 DEF NoPendingEntry, EntryStillPending, BarArrives, managerVars,
        gatewayVars, TypeOK, GatewayTypeOK
  <2>2. SlotsGrow
    BY <1>1, SameSlots DEF NoPendingEntry, EntryStillPending, gatewayVars
  <2>3. QuietControl /\ Untouched
    BY <1>1 DEF NoPendingEntry, EntryStillPending, BarArrives, managerVars,
        QuietControl, Untouched
  <2>4. QED
    BY <2>1, <2>2, <2>3, QuietStep
<1>2. CASE EntryDropped
  <2>1. TypeOK'
    BY <1>0, <1>2 DEF EntryDropped, Forget, BarArrives, gatewayVars, TypeOK, GatewayTypeOK
  <2>2. SlotsGrow
    BY <1>2, SameSlots DEF EntryDropped, gatewayVars
  <2>3. QuietControl /\ Dropped
    <3>1. QuietControl
      BY <1>2 DEF EntryDropped, BarArrives, QuietControl
    <3>2. Dropped
      BY <1>2 DEF EntryDropped, Dropped
    <3>3. QED
      BY <3>1, <3>2
  <2>4. QED
    BY <2>1, <2>2, <2>3, QuietStep
<1>3. CASE EntryTimesOut
  <2>1. SlotsGrow
    BY <1>3, CancelGrows DEF EntryTimesOut, CancelEntry
  <2>2. TypeOK'
    BY <1>0, <1>3, <2>1 DEF EntryTimesOut, Forget, BarArrives, TypeOK, GatewayTypeOK,
        SlotsGrow, OrdersOK
  <2>3. QuietControl /\ Dropped
    <3>1. QuietControl
      BY <1>3 DEF EntryTimesOut, BarArrives, QuietControl
    <3>2. Dropped
      BY <1>3 DEF EntryTimesOut, Dropped
    <3>3. QED
      BY <3>1, <3>2
  <2>4. QED
    BY <2>1, <2>2, <2>3, QuietStep
<1>4. QED
  BY <1>1, <1>2, <1>3

\* on_bar's second half, the branches that leave the position alone.
LEMMA NothingDueStep ==
    ASSUME IInv, NothingOpen \/ EodNothingLeft \/ NoExitDue
    PROVE  IInv'
<1>1. TypeOK'
  BY DEF NothingOpen, EodNothingLeft, NoExitDue, ManageEnds, managerVars, gatewayVars,
      IInv, TypeOK, GatewayTypeOK
<1>2. SlotsGrow
  BY SameSlots DEF NothingOpen, EodNothingLeft, NoExitDue, gatewayVars
<1>3. QuietControl /\ Untouched
  BY DEF NothingOpen, EodNothingLeft, NoExitDue, ManageEnds, managerVars,
      QuietControl, Untouched
<1>4. QED
  BY <1>1, <1>2, <1>3, QuietStep

\* What AfterTp1 holds, with a new stop or without: the two records are named so
\* that proofs can pass them on unexpanded.
Tp1Booked(p, r, k, h) == [p EXCEPT !.rem = r, !.booked = k, !.tp1hit = h]
Restopped(p, b) == [p EXCEPT !.stop = b]

LEMMA StopUpdate ==
    ASSUME NEW p \in Position, NEW b \in 0..MaxOrders
    PROVE  /\ Restopped(p, b) \in Position
           /\ Restopped(p, b).st = p.st
           /\ Restopped(p, b).tp1 = p.tp1
           /\ Restopped(p, b).shares = p.shares
           /\ Restopped(p, b).rem = p.rem
           /\ Restopped(p, b).booked = p.booked
  BY DEF Position, Restopped

\* After a TP1 fill, what remains is the entry less the shares TP1 has sold.
LEMMA AfterTp1Is ==
    ASSUME IInv, Tp1Fills
    PROVE  /\ pos.tp1 \in OrderIds
           /\ ord[pos.tp1].filled \in Nat
           /\ AfterTp1 \in Position
           /\ AfterTp1.st = "open"
           /\ AfterTp1.tp1 = pos.tp1
           /\ AfterTp1.shares = EntryQty
           /\ AfterTp1.rem = EntryQty - ord[pos.tp1].filled
           /\ AfterTp1.booked = ord[pos.tp1].filled
<1> DEFINE k == ord[pos.tp1].filled
           r == pos.rem - (k - pos.booked)
<1>1. /\ pos \in Position /\ pos.tp1 \in 0..MaxOrders /\ pos.rem \in Nat
      /\ pos.booked \in Nat /\ pos.shares \in Nat
  BY DEF IInv, TypeOK, Position
<1>2. IsOpen /\ pos.st = "open" /\ pos.tp1 # 0 /\ pos.tp1 \in OrderIds
  BY <1>1, GatewayAssumption DEF Tp1Fills, IsOpen, OrderIds
<1>3. k \in Nat /\ k <= EntryQty
  BY <1>2 DEF IInv, OrdersOK, Order, SlotsOK
<1>4. pos.rem = pos.shares - pos.booked /\ pos.shares = EntryQty
  BY <1>2 DEF IInv, RemainingAccounts, SlotsOK
<1>5. r = EntryQty - k /\ r \in Nat
  BY <1>1, <1>3, <1>4, GatewayAssumption
<1>6. \E h \in BOOLEAN : AfterTp1 = Tp1Booked(pos, r, k, h)
  BY Zenon DEF AfterTp1, Tp1Booked
<1>7. PICK h \in BOOLEAN : AfterTp1 = Tp1Booked(pos, r, k, h)
  BY <1>6
<1> HIDE DEF k, r
<1> DEFINE q == Tp1Booked(pos, r, k, h)
<1>8. /\ q \in Position /\ q.st = pos.st /\ q.tp1 = pos.tp1
      /\ q.shares = pos.shares /\ q.rem = r /\ q.booked = k
  BY <1>1, <1>3, <1>5 DEF Position, Tp1Booked
<1>9. AfterTp1 = q
  BY <1>7
<1> HIDE DEF q
<1>10. QED
  BY <1>2, <1>3, <1>4, <1>5, <1>8, <1>9 DEF k

\* The exits of an open position.
LEMMA ExitStep ==
    ASSUME IInv, NEW ok \in BOOLEAN,
           HandleStopFired \/ EodExit(ok) \/ Tp1ByBar(ok) \/ Tp1PartialStopFails(ok)
    PROVE  IInv'
<1>0. /\ TypeOK /\ NoPos \in Position /\ NoRow \in Row /\ ExitQty \in Nat
      /\ 0 \in 0..MaxOrders /\ OrderIds \subseteq 0..MaxOrders /\ pos.rem \in Nat
      /\ pos.stop \in 0..MaxOrders
  BY NoPosIs, QtyIsNat, GatewayAssumption DEF IInv, OrderIds, TypeOK, Position
<1>1. CASE HandleStopFired
  <2>1. TypeOK'
    BY <1>0, <1>1 DEF HandleStopFired, Book, LedgerRow, Forget, ManageEnds, gatewayVars,
        TypeOK, GatewayTypeOK
  <2>2. SlotsGrow
    BY <1>1, SameSlots DEF HandleStopFired, gatewayVars
  <2>3. QuietControl /\ Dropped
    BY <1>1 DEF HandleStopFired, StopFired, ManageEnds, QuietControl, Dropped
  <2>4. QED
    BY <2>1, <2>2, <2>3, QuietStep
<1>2. CASE EodExit(ok)
  <2>1. SlotsGrow /\ fails' \in 0..MaxFails /\ nxt \in OrderIds
    BY <1>0, <1>2, MarketGrows DEF EodExit
  <2>2. TypeOK'
    BY <1>0, <1>2, <2>1 DEF EodExit, Book, LedgerRow, Forget, ManageEnds, TypeOK,
        GatewayTypeOK, SlotsGrow, OrdersOK
  <2>3. QuietControl /\ Dropped
    BY <1>2 DEF EodExit, ManageEnds, QuietControl, Dropped
  <2>4. QED
    BY <2>1, <2>2, <2>3, QuietStep
<1>3. CASE Tp1ByBar(ok)
  <2>1. SlotsGrow /\ fails' \in 0..MaxFails /\ nxt \in OrderIds
    BY <1>0, <1>3, MarketGrows DEF Tp1ByBar
  <2>2. TypeOK'
    BY <1>0, <1>3, <2>1 DEF Tp1ByBar, Book, LedgerRow, Forget, ManageEnds, TypeOK,
        GatewayTypeOK, SlotsGrow, OrdersOK
  <2>3. QuietControl /\ Dropped
    BY <1>3 DEF Tp1ByBar, BarCross, ManageEnds, QuietControl, Dropped
  <2>4. QED
    BY <2>1, <2>2, <2>3, QuietStep
<1>4. CASE Tp1PartialStopFails(ok)
  <2>1. /\ AfterTp1.rem \in Nat /\ nxt \in Nat
        /\ IsOpen
    BY <1>4, AfterTp1Is, GatewayAssumption DEF Tp1PartialStopFails, Tp1Fills, IInv,
        TypeOK, GatewayTypeOK, Position
  <2>2. OrdersOK(ord) /\ Kept(ord, ord, nxt) /\ GatewayTypeOK
    BY DEF IInv, TypeOK, OrdersOK, Kept, Order
  <2>3. Submitted(ord, "market", -1, AfterTp1.rem)
    BY <1>4 DEF Tp1PartialStopFails, Submitted
  <2>4. SlotsGrow
    BY <2>1, <2>2, <2>3, SubmittedGrows DEF Kinds
  <2>5. fails' \in 0..MaxFails
    BY <1>0, <1>4, ManagerAssumption DEF Tp1PartialStopFails, TypeOK
  <2>6. TypeOK'
    BY <1>0, <1>4, <2>4, <2>5 DEF Tp1PartialStopFails, Forget, ManageEnds, TypeOK,
        GatewayTypeOK, SlotsGrow, OrdersOK
  <2>7. QuietControl /\ Dropped
    BY <1>4, <2>1 DEF Tp1PartialStopFails, ManageEnds, QuietControl, Dropped
  <2>8. QED
    BY <2>4, <2>6, <2>7, QuietStep
<1>5. QED
  BY <1>1, <1>2, <1>3, <1>4

(***************************************************************************)
(* Steps that write a position.                                            *)
(***************************************************************************)

\* An update of the row keeps it current as long as there is a row to update.
LEMMA PersistedCurrent ==
    ASSUME IInv, pos' \in Position, row' = Persisted(pos'), phase' = phase,
           sessions' = sessions, pos.st # "none" \/ sessions # 1
    PROVE  RowsAreCurrent' /\ row' \in Row
<1>1. row' \in Row
  BY PersistedIs
<1>2. pos \in Position /\ sessions \in Nat /\ sessions # 0
  BY ManagerAssumption DEF IInv, TypeOK
<1>3. CASE row = NoRow /\ sessions > 1
  BY <1>1, <1>3, PersistedIs DEF RowsAreCurrent
<1>4. CASE row = RowOf(pos) /\ row # NoRow
  <2>1. row' = RowOf(pos')
    BY <1>4, PersistedIs
  <2>2. QED
    BY <1>1, <2>1 DEF RowsAreCurrent, RowOf
<1>5. CASE row = RowOf(pos) /\ row = NoRow /\ sessions = 1
  BY <1>2, <1>5, RowOfIs, NoPosIs
<1>6. QED
  BY <1>1, <1>2, <1>3, <1>4, <1>5 DEF IInv, RowsAreCurrent

\* What an entry that is pending tells.
LEMMA PendingIs ==
    ASSUME IInv, pend # 0
    PROVE  /\ pend \in OrderIds /\ pend + 1 \in OrderIds /\ pend + 2 \in OrderIds
           /\ pend + 1 \in 0..MaxOrders /\ pend + 2 \in 0..MaxOrders
           /\ pend + 2 < nxt
           /\ ord[pend].qty = EntryQty /\ ord[pend + 1].qty = EntryQty
           /\ ord[pend + 1].filled \in Nat
           /\ Bought \in Nat /\ Bought <= EntryQty
           /\ sessions = 1 => pos.st = "entering" /\ ~armed /\ fl # "pump"
<1>1. pend \in 0..MaxOrders /\ nxt \in 1..(MaxOrders + 1) /\ MaxOrders \in Nat
  BY GatewayAssumption DEF IInv, TypeOK, GatewayTypeOK
<1>2. /\ pend + 2 < nxt
      /\ ord[pend].qty = EntryQty /\ ord[pend + 1].qty = EntryQty
  BY DEF IInv, SlotsOK
<1>3. /\ pend \in OrderIds /\ pend + 1 \in OrderIds /\ pend + 2 \in OrderIds
      /\ pend + 1 \in 0..MaxOrders /\ pend + 2 \in 0..MaxOrders
  BY <1>1, <1>2 DEF OrderIds
<1>4. ord[pend + 1].filled \in Nat /\ Bought \in Nat /\ Bought <= EntryQty
  BY <1>2, <1>3 DEF Bought, IInv, OrdersOK, Order
<1>5. sessions = 1 => pos.st = "entering" /\ ~armed /\ fl # "pump"
  BY NoPosIs DEF IInv, FirstSession
<1>6. QED
  BY <1>2, <1>3, <1>4, <1>5

\* The control state after an entry is resolved.
LEMMA ResolvedStep ==
    ASSUME IInv, TypeOK', SlotsGrow, SlotsOK', RemainingAccounts', BarArrives,
           pend # 0, pend' = 0, row' = Persisted(pos'), pos'.st # "entering"
    PROVE  IInv'
<1>1. sessions' = sessions /\ armed' = armed /\ phase' = phase /\ fl' = fl
  BY DEF BarArrives
<1>2. sessions = 1 => pos.st = "entering" /\ ~armed /\ fl # "pump"
  BY PendingIs
<1>3. RowsAreCurrent'
  BY <1>1, <1>2, PersistedCurrent DEF TypeOK
<1>4. FirstSession'
  BY <1>1, <1>2 DEF FirstSession
<1>5. EnteringIsPolled' /\ DownIsIdle'
  BY <1>1 DEF EnteringIsPolled, IInv, DownIsIdle
<1>6. QED
  BY <1>3, <1>4, <1>5 DEF IInv, SlotsGrow

\* _complete_entry_fill.
LEMMA EntryStep ==
    ASSUME IInv, NEW ok \in BOOLEAN,
           EntryCompletes \/ EntryCompletesPartly \/ EntryStopFails(ok)
    PROVE  IInv'
<1>0. TypeOK /\ 0 \in 0..MaxOrders /\ nxt \in Nat /\ nxt \in 1..(MaxOrders + 1)
      /\ EntryQty \in Nat /\ MaxOrders \in Nat
  BY GatewayAssumption DEF IInv, TypeOK, GatewayTypeOK
<1>1. /\ pend # 0
      /\ BarArrives
      /\ pend' = 0
      /\ row' = Persisted(pos')
  BY DEF EntryCompletes, EntryCompletesPartly, EntryStopFails, EntryFilled
<1>2. /\ pend \in OrderIds /\ pend + 1 \in OrderIds /\ pend + 2 \in OrderIds
      /\ pend + 1 \in 0..MaxOrders /\ pend + 2 \in 0..MaxOrders
      /\ pend + 2 < nxt
      /\ ord[pend + 1].qty = EntryQty /\ ord[pend + 1].filled \in Nat
      /\ Bought \in Nat /\ Bought <= EntryQty
  BY <1>1, PendingIs
<1>3. {"open", "closed"} \subseteq Statuses
  BY DEF Statuses
<1>4. OrdersOK(CancelSent(ord, Bracket)) /\ Kept(ord, CancelSent(ord, Bracket), nxt)
  BY <1>0, CancelSentKeeps DEF IInv
<1>5. CASE EntryCompletes
  <2>1. /\ pos' = Holding("open", Bought, pend + 1, pend + 2)
        /\ Bought = EntryQty
    BY <1>0, <1>2, <1>5 DEF EntryCompletes
  <2>2. /\ pos' \in Position /\ pos'.st = "open" /\ pos'.tp1 = pend + 1
        /\ pos'.shares = EntryQty /\ pos'.rem = EntryQty /\ pos'.booked = 0
    BY <1>2, <1>3, <2>1, HoldingIs
  <2>3. row' \in Row
    BY <1>1, <2>2, PersistedIs
  <2>4. SlotsGrow /\ ord' = ord /\ nxt' = nxt
    BY <1>5, SameSlots DEF EntryCompletes, gatewayVars
  <2>5. TypeOK'
    BY <1>0, <1>1, <1>2, <1>5, <2>2, <2>3 DEF EntryCompletes, BarArrives, Bracket,
        gatewayVars, TypeOK, GatewayTypeOK
  <2>6. SlotsOK' /\ RemainingAccounts'
    <3>1. pos'.tp1 < nxt' /\ ord'[pos'.tp1].qty = EntryQty /\ 0 <= ord'[pos'.tp1].filled
      BY <1>0, <1>2, <2>2, <2>4 DEF OrderIds
    <3>2. SlotsOK'
      BY <1>1, <2>2, <3>1 DEF SlotsOK
    <3>3. RemainingAccounts'
      BY <1>0, <2>2, <3>1 DEF RemainingAccounts
    <3>4. QED
      BY <3>2, <3>3
  <2>7. QED
    BY <1>1, <2>2, <2>4, <2>5, <2>6, ResolvedStep
<1>6. CASE EntryCompletesPartly
  <2>1. Submitted(CancelSent(ord, Bracket), "stop", -1, Bought)
    BY <1>6 DEF EntryCompletesPartly, Submitted
  <2>2. SlotsGrow
    BY <1>2, <1>4, <2>1, SubmittedGrows DEF IInv, TypeOK, Kinds
  <2>3. nxt \in OrderIds /\ nxt \in 0..MaxOrders
    BY <1>0, <1>6 DEF EntryCompletesPartly, Room, OrderIds
  <2>4. /\ pos' \in Position /\ pos'.st = "open" /\ pos'.tp1 = 0
    <3>1. pos' = Holding("open", Bought, 0, nxt)
      BY <1>6 DEF EntryCompletesPartly
    <3>2. Bought \in Nat
      BY <1>2
    <3>3. "open" \in Statuses
      BY <1>3
    <3>4. QED
      BY <1>0, <2>3, <3>1, <3>2, <3>3, HoldingIs
  <2>5. row' \in Row
    BY <1>1, <2>4, PersistedIs
  <2>6. TypeOK'
    BY <1>0, <1>1, <1>6, <2>2, <2>3, <2>4, <2>5 DEF EntryCompletesPartly, BarArrives,
        TypeOK, GatewayTypeOK, SlotsGrow, OrdersOK
  <2>7. SlotsOK' /\ RemainingAccounts'
    BY <1>1, <2>4 DEF SlotsOK, RemainingAccounts
  <2>8. QED
    BY <1>1, <2>2, <2>4, <2>6, <2>7, ResolvedStep
<1>7. CASE EntryStopFails(ok)
  <2>1. Submitted(CancelSent(ord, Bracket), "market", -1, Bought)
    BY <1>7 DEF EntryStopFails, Submitted
  <2>2. SlotsGrow
    BY <1>2, <1>4, <2>1, SubmittedGrows DEF IInv, TypeOK, Kinds
  <2>3. fails' \in 0..MaxFails
    BY <1>0, <1>7, ManagerAssumption DEF EntryStopFails, TypeOK
  <2>4. /\ pos' \in Position /\ pos'.st = "closed" /\ pos'.tp1 = 0
    BY <1>0, <1>2, <1>3, <1>7, HoldingIs DEF EntryStopFails
  <2>5. row' \in Row
    BY <1>1, <2>4, PersistedIs
  <2>6. TypeOK'
    BY <1>0, <1>1, <1>7, <2>2, <2>3, <2>4, <2>5 DEF EntryStopFails, BarArrives,
        TypeOK, GatewayTypeOK, SlotsGrow, OrdersOK
  <2>7. SlotsOK' /\ RemainingAccounts'
    BY <1>1, <2>4 DEF SlotsOK, RemainingAccounts
  <2>8. QED
    BY <1>1, <2>2, <2>4, <2>6, <2>7, ResolvedStep
<1>8. QED
  BY <1>5, <1>6, <1>7

\* open_position: a new bracket and a position that enters, or nothing.
LEMMA OpenStep ==
    ASSUME IInv, NEW ok \in BOOLEAN, OpenPosition(ok)
    PROVE  IInv'
<1>0. /\ TypeOK /\ nxt \in Nat \ {0} /\ MaxOrders \in Nat /\ nxt + 2 <= MaxOrders
      /\ EntryQty \in Nat /\ pos = NoPos /\ pend = 0 /\ armed /\ armed' = FALSE
      /\ sessions' = sessions /\ phase' = phase /\ fl' = fl /\ phase # "down"
  BY GatewayAssumption DEF IInv, TypeOK, GatewayTypeOK, OpenPosition, Room, MayEnter, CallbacksRun
<1>1. fails' \in 0..MaxFails
  BY <1>0, ManagerAssumption DEF OpenPosition, Submits, TypeOK
<1>2. /\ net' = net /\ seen' = seen /\ execs' = execs /\ ledger' = ledger
      /\ watched' = watched /\ recorded' = recorded /\ alert' = alert /\ at' = at
      /\ flleg' = flleg /\ handled' = handled /\ late' = late /\ crashes' = crashes
      /\ overlaps' = overlaps
  BY DEF OpenPosition
<1>3. fl # "pump" \/ sessions # 1
  BY <1>0 DEF IInv, FirstSession
<1>4. CASE ok
  <2>1. /\ ord' = BracketPlaced(ord, nxt, EntryQty)
        /\ nxt' = nxt + 3
        /\ pos' = Holding("entering", EntryQty, nxt + 1, nxt + 2)
        /\ pend' = nxt
        /\ overdue' = FALSE
        /\ row' = RowOf(pos')
    BY <1>4 DEF OpenPosition
  <2>2. /\ OrdersOK(ord')
        /\ ord'[nxt].qty = EntryQty /\ ord'[nxt + 1].qty = EntryQty
    BY <1>0, <2>1, BracketPlacedKeeps DEF IInv
  <2>3. /\ pos' \in Position /\ pos'.st = "entering" /\ pos'.tp1 = nxt + 1
        /\ pos'.shares = EntryQty
    BY <1>0, <2>1, HoldingIs DEF Statuses
  <2>4. row' \in Row
    BY <2>1, <2>3, RowOfIs
  <2>5. TypeOK'
    <3>1. nxt' \in 1..(MaxOrders + 1) /\ pend' \in 0..MaxOrders
      BY <1>0, <2>1
    <3>2. QED
      BY <1>0, <1>1, <1>2, <2>1, <2>2, <2>3, <2>4, <3>1 DEF TypeOK, GatewayTypeOK, OrdersOK
  <2>6. SlotsOK'
    BY <1>0, <2>1, <2>2, <2>3 DEF SlotsOK, IsOpen
  <2>7. FirstSession' /\ DownIsIdle'
    BY <1>0, <1>3, <2>3 DEF FirstSession, DownIsIdle
  <2>8. RowsAreCurrent' /\ EnteringIsPolled' /\ RemainingAccounts'
    BY <1>0, <2>1, <2>3 DEF RowsAreCurrent, EnteringIsPolled, RemainingAccounts, IsOpen, RowOf
  <2>9. QED
    BY <2>2, <2>5, <2>6, <2>7, <2>8 DEF IInv
<1>5. CASE ~ok
  <2>1. row' = NoRow /\ ord' = ord /\ nxt' = nxt /\ pos' = pos /\ pend' = pend
                     /\ overdue' = overdue
    BY <1>5 DEF OpenPosition
  <2>2. SlotsGrow
    BY <2>1, SameSlots
  <2>3. TypeOK'
    BY <1>0, <1>1, <1>2, <2>1, NoPosIs DEF TypeOK, GatewayTypeOK
  <2>4. QuietControl /\ Dropped
    BY <1>0, <2>1 DEF QuietControl, Dropped, Forget
  <2>5. QED
    BY <2>2, <2>3, <2>4, QuietStep
<1>6. QED
  BY <1>4, <1>5

\* A TP1 fill that leaves the position in memory, with its old stop or a new one.
LEMMA Tp1KeepsPosition ==
    ASSUME IInv, Tp1Fills, TypeOK', SlotsGrow, ManageEnds, pend' = pend,
           row' = Persisted(pos'),
           pos'.st = AfterTp1.st, pos'.tp1 = AfterTp1.tp1, pos'.shares = AfterTp1.shares,
           pos'.rem = AfterTp1.rem, pos'.booked = AfterTp1.booked
    PROVE  IInv'
<1>1. sessions' = sessions /\ armed' = armed /\ phase' = phase /\ fl' = fl
  BY DEF ManageEnds
<1>2. /\ pos'.st = "open" /\ pos'.tp1 = pos.tp1 /\ pos'.shares = EntryQty
      /\ pos'.rem = EntryQty - ord[pos.tp1].filled
      /\ pos'.booked = ord[pos.tp1].filled
      /\ pos.tp1 \in OrderIds /\ ord[pos.tp1].filled \in Nat
  BY AfterTp1Is
<1>3. /\ IsOpen /\ pos.tp1 # 0 /\ nxt \in Nat /\ nxt' \in Nat
      /\ pos.tp1 \in Nat /\ pend \in Nat /\ pend \in 0..MaxOrders /\ MaxOrders \in Nat
  BY GatewayAssumption DEF Tp1Fills, IInv, TypeOK, GatewayTypeOK, Position
<1>4. /\ pos.tp1 < nxt /\ ord[pos.tp1].qty = EntryQty
      /\ pend # 0 => pend + 2 < nxt /\ ord[pend].qty = EntryQty
                                    /\ ord[pend + 1].qty = EntryQty
  BY <1>3 DEF IInv, SlotsOK
<1>5. /\ ord'[pos.tp1].qty = EntryQty
      /\ ord[pos.tp1].filled <= ord'[pos.tp1].filled
      /\ pos.tp1 < nxt'
  BY <1>2, <1>3, <1>4 DEF SlotsGrow, Kept
<1>6. pend' # 0 => pend' + 2 < nxt' /\ ord'[pend'].qty = EntryQty
                                    /\ ord'[pend' + 1].qty = EntryQty
  BY <1>3, <1>4 DEF SlotsGrow, Kept, OrderIds
<1>7. SlotsOK'
  BY <1>2, <1>3, <1>5, <1>6 DEF SlotsOK
<1>8. RemainingAccounts'
  BY <1>2, <1>5 DEF RemainingAccounts
<1>9. RowsAreCurrent'
  BY <1>1, <1>3, PersistedCurrent DEF TypeOK, IsOpen
<1>10. FirstSession'
  <2>1. sessions = 1 => ~armed /\ pend = 0
    BY <1>3, NoPosIs DEF IInv, FirstSession, IsOpen
  <2>2. QED
    BY <1>1, <2>1 DEF FirstSession
<1>11. EnteringIsPolled' /\ DownIsIdle'
  BY <1>1, <1>2 DEF EnteringIsPolled, IInv, DownIsIdle
<1>12. QED
  BY <1>7, <1>8, <1>9, <1>10, <1>11 DEF IInv, SlotsGrow

LEMMA Tp1Step ==
    ASSUME IInv, Tp1TakesAll \/ Tp1Partial
    PROVE  IInv'
<1>0. /\ TypeOK /\ NoPos \in Position /\ NoRow \in Row /\ Tp1Fills /\ IsOpen
      /\ nxt \in 1..(MaxOrders + 1) /\ MaxOrders \in Nat /\ pos.tp1 \in 0..MaxOrders
  BY NoPosIs, GatewayAssumption DEF IInv, TypeOK, GatewayTypeOK, Tp1TakesAll, Tp1Partial,
      Tp1Fills, Position
<1>1. AfterTp1 \in Position /\ AfterTp1.rem \in Nat
  BY <1>0, AfterTp1Is DEF Position
<1>2. CASE Tp1TakesAll /\ StopSeenCancelled
  <2>1. SlotsGrow
    BY <1>2, SameSlots DEF Tp1TakesAll, gatewayVars
  <2>2. TypeOK'
    BY <1>0, <1>2 DEF Tp1TakesAll, Book, LedgerRow, Forget, ManageEnds, gatewayVars,
        TypeOK, GatewayTypeOK
  <2>3. QuietControl /\ Dropped
    BY <1>0, <1>2 DEF Tp1TakesAll, ManageEnds, QuietControl, Dropped
  <2>4. QED
    BY <2>1, <2>2, <2>3, QuietStep
<1>3. CASE Tp1TakesAll /\ ~StopSeenCancelled
  <2>1. SlotsGrow
    BY <1>3, SameSlots DEF Tp1TakesAll, gatewayVars
  <2>2. pos' = AfterTp1 /\ row' = Persisted(pos') /\ pend' = pend /\ ManageEnds
    BY <1>3 DEF Tp1TakesAll
  <2>3. row' \in Row
    BY <1>1, <2>2, PersistedIs
  <2>4. TypeOK'
    BY <1>0, <1>1, <1>3, <2>2, <2>3 DEF Tp1TakesAll, ManageEnds, gatewayVars,
        TypeOK, GatewayTypeOK
  <2>5. QED
    BY <1>0, <2>1, <2>2, <2>4, Tp1KeepsPosition
<1>4. CASE Tp1Partial
  <2>1. Submitted(ord, "stop", -1, AfterTp1.rem)
    BY <1>4 DEF Tp1Partial, Submitted
  <2>2. OrdersOK(ord) /\ Kept(ord, ord, nxt) /\ GatewayTypeOK
    BY DEF IInv, TypeOK, OrdersOK, Kept, Order
  <2>3. SlotsGrow
    BY <1>1, <2>1, <2>2, SubmittedGrows DEF Kinds
  <2>4. nxt \in 0..MaxOrders
    BY <1>0, <1>4 DEF Tp1Partial, Room
  <2>5. /\ pos' = Restopped(AfterTp1, nxt)
        /\ row' = Persisted(pos') /\ pend' = pend /\ ManageEnds
    BY <1>4 DEF Tp1Partial, Restopped
  <2>6. /\ pos' \in Position
        /\ pos'.st = AfterTp1.st /\ pos'.tp1 = AfterTp1.tp1
        /\ pos'.shares = AfterTp1.shares /\ pos'.rem = AfterTp1.rem
        /\ pos'.booked = AfterTp1.booked
    BY <1>1, <2>4, <2>5, StopUpdate
  <2>7. row' \in Row
    BY <2>5, <2>6, PersistedIs
  <2>8. TypeOK'
    BY <1>0, <1>4, <2>3, <2>5, <2>6, <2>7 DEF Tp1Partial, ManageEnds, TypeOK,
        GatewayTypeOK, SlotsGrow, OrdersOK
  <2>9. QED
    BY <1>0, <2>3, <2>5, <2>6, <2>8, Tp1KeepsPosition
<1>5. QED
  BY <1>2, <1>3, <1>4

(***************************************************************************)
(* The other steps.                                                        *)
(***************************************************************************)

\* A step of the exchange is none of the manager's.
LEMMA ExchangeStep ==
    ASSUME IInv, Exchange, UNCHANGED <<managerVars, controlVars, fails>>
    PROVE  IInv'
<1>1. GatewayTypeOK' /\ OrdersOK(ord') /\ Kept(ord, ord', nxt) /\ nxt' = nxt
  BY ExchangeKeeps DEF IInv, TypeOK
<1>2. SlotsGrow
  BY <1>1, GatewayAssumption DEF SlotsGrow, GatewayTypeOK
<1>3. TypeOK'
  BY <1>1 DEF IInv, TypeOK, managerVars, controlVars
<1>4. QuietControl /\ Untouched
  BY DEF QuietControl, Untouched, managerVars, controlVars
<1>5. QED
  BY <1>2, <1>3, <1>4, QuietStep

\* Steps that touch no order, no position and no row.
LEMMA IdleStep ==
    ASSUME IInv, EntryRefused \/ EntryOverdue \/ BarsReachEod \/ FlattenNoExit
                 \/ Unsubscribe \/ \E o \in OrderIds : FillWatcher(o)
    PROVE  IInv'
<1>1. CASE EntryRefused \/ EntryOverdue \/ BarsReachEod \/ FlattenNoExit \/ Unsubscribe
  <2>1. TypeOK'
    <3>0. TypeOK /\ 0 \in 0..MaxOrders /\ UNCHANGED gatewayVars
      BY <1>1, GatewayAssumption DEF IInv, EntryRefused, EntryOverdue, BarsReachEod,
          FlattenNoExit, Unsubscribe
    <3>1. CASE EntryRefused
      BY <3>0, <3>1 DEF EntryRefused, TypeOK, GatewayTypeOK, gatewayVars, managerVars
    <3>2. CASE EntryOverdue
      BY <3>0, <3>2 DEF EntryOverdue, TypeOK, GatewayTypeOK, gatewayVars, controlVars
    <3>3. CASE BarsReachEod
      BY <3>0, <3>3 DEF BarsReachEod, TypeOK, GatewayTypeOK, gatewayVars, managerVars
    <3>4. CASE FlattenNoExit
      <4>1. IsOpen \in BOOLEAN
        BY DEF IsOpen
      <4>2. QED
        BY <3>0, <3>4, <4>1 DEF FlattenNoExit, TypeOK, GatewayTypeOK, gatewayVars, managerVars
    <3>5. CASE Unsubscribe
      BY <3>0, <3>5 DEF Unsubscribe, TypeOK, GatewayTypeOK, gatewayVars, managerVars
    <3>6. QED
      BY <1>1, <3>1, <3>2, <3>3, <3>4, <3>5
  <2>2. SlotsGrow
    BY <1>1, SameSlots DEF EntryRefused, EntryOverdue, BarsReachEod, FlattenNoExit,
        Unsubscribe, gatewayVars
  <2>3. QuietControl /\ Untouched
    BY <1>1 DEF EntryRefused, EntryOverdue, BarsReachEod, FlattenNoExit, Unsubscribe,
        FlattenGuard, managerVars, controlVars, QuietControl, Untouched
  <2>4. QED
    BY <2>1, <2>2, <2>3, QuietStep
<1>2. ASSUME NEW o \in OrderIds, FillWatcher(o)
      PROVE  IInv'
  <2>0. o \in 0..MaxOrders
    BY GatewayAssumption DEF OrderIds
  <2>1. TypeOK'
    <3>1. /\ execs' \subseteq OrderIds
          /\ recorded' \subseteq OrderIds
          /\ ledger' \subseteq LedgerRow
      <4>1. /\ execs \subseteq OrderIds /\ recorded \subseteq OrderIds
            /\ ledger \subseteq LedgerRow
        BY DEF IInv, TypeOK, GatewayTypeOK
      <4>2. /\ execs' = execs \ {o}
            /\ recorded' = recorded \/ recorded' = recorded \cup {o}
            /\ ledger' = ledger \/ ledger' = ledger \cup {[leg |-> o, by |-> "watcher"]}
        BY <1>2 DEF FillWatcher, Book
      <4>3. [leg |-> o, by |-> "watcher"] \in LedgerRow
        BY <2>0 DEF LedgerRow
      <4>4. QED
        BY <4>1, <4>2, <4>3
    <3>2. UNCHANGED <<ord, nxt, net, seen, pos, pend, overdue, row, watched, alert,
                      controlVars, fails>>
      BY <1>2 DEF FillWatcher
    <3>3. QED
      BY <3>1, <3>2 DEF IInv, TypeOK, GatewayTypeOK, controlVars
  <2>2. SlotsGrow
    BY <1>2, SameSlots DEF FillWatcher
  <2>3. QuietControl /\ Untouched
    BY <1>2 DEF FillWatcher, controlVars, QuietControl, Untouched
  <2>4. QED
    BY <2>1, <2>2, <2>3, QuietStep
<1>3. QED
  BY <1>1, <1>2

\* Error 201: the order is dead, the legs may be cancelled.
LEMMA RejectStep ==
    ASSUME IInv, NEW o \in OrderIds, OrderRejected(o)
    PROVE  IInv'
<1>0. /\ TypeOK /\ NoPos \in Position /\ NoRow \in Row /\ 0 \in 0..MaxOrders
      /\ nxt \in Nat /\ nxt \in 1..(MaxOrders + 1)
  BY NoPosIs, GatewayAssumption DEF IInv, TypeOK, GatewayTypeOK
<1> DEFINE g == Refused(o)
           h == CancelSent(g, Legs)
<1>1. OrdersOK(g) /\ Kept(ord, g, nxt)
  BY <1>0, RefusedKeeps DEF IInv
<1>2. OrdersOK(h) /\ Kept(g, h, nxt)
  BY <1>0, <1>1, CancelSentKeeps
<1>3. nxt' = nxt /\ QuietControl
  BY DEF OrderRejected, controlVars, QuietControl
<1> HIDE DEF g, h
<1>4. CASE pos.st = "entering"
  <2>1. /\ ord' = [p \in OrderIds |-> IF p \in Legs THEN h[p] ELSE g[p]]
        /\ Forget /\ pend' = 0 /\ overdue' = FALSE
    BY <1>4 DEF OrderRejected, g, h
  <2>2. OrdersOK(ord')
    BY <1>1, <1>2, <2>1 DEF OrdersOK
  <2>3. Kept(g, ord', nxt)
    <3>1. \A p \in OrderIds : g[p].filled \in Nat
      BY <1>1 DEF OrdersOK, Order
    <3>2. QED
      BY <1>2, <2>1, <3>1 DEF Kept
  <2>4. SlotsGrow
    <3>1. OrdersOK(ord)
      BY DEF IInv
    <3>2. Kept(ord, ord', nxt)
      BY <1>0, <1>1, <2>2, <2>3, <3>1, KeptTrans
    <3>3. QED
      BY <1>0, <1>3, <2>2, <3>2 DEF SlotsGrow
  <2>5. TypeOK'
    BY <1>0, <1>3, <2>1, <2>2 DEF OrderRejected, Forget, controlVars, TypeOK,
        GatewayTypeOK, OrdersOK
  <2>6. Dropped
    BY <2>1 DEF Dropped
  <2>7. QED
    BY <1>3, <2>4, <2>5, <2>6, QuietStep
<1>5. CASE pos.st # "entering"
  <2>1. ord' = g /\ UNCHANGED <<pos, row, pend, overdue>>
    BY <1>5 DEF OrderRejected, g
  <2>2. SlotsGrow
    BY <1>0, <1>1, <1>3, <2>1 DEF SlotsGrow
  <2>3. TypeOK'
    BY <1>0, <1>1, <1>3, <2>1 DEF OrderRejected, controlVars, TypeOK, GatewayTypeOK, OrdersOK
  <2>4. Untouched
    BY <2>1 DEF Untouched
  <2>5. QED
    BY <1>3, <2>2, <2>3, <2>4, QuietStep
<1>6. QED
  BY <1>4, <1>5

\* flatten_all, the steps that send orders or book.
LEMMA FlattenStep ==
    ASSUME IInv, NEW ok \in BOOLEAN,
           FlattenExit(ok) \/ FlattenBook \/ FlattenTail(ok)
    PROVE  IInv'
<1>0. /\ TypeOK /\ NoPos \in Position /\ NoRow \in Row /\ ExitQty \in Nat
      /\ AbsQty(seen) \in Nat /\ 0 \in 0..MaxOrders /\ OrderIds \subseteq 0..MaxOrders
  BY NoPosIs, QtyIsNat, GatewayAssumption DEF IInv, OrderIds
<1>1. CASE FlattenExit(ok)
  <2>1. SlotsGrow /\ fails' \in 0..MaxFails /\ nxt \in OrderIds
    BY <1>0, <1>1, MarketGrows DEF FlattenExit
  <2>2. TypeOK'
    BY <1>0, <1>1, <2>1 DEF FlattenExit, managerVars, TypeOK, GatewayTypeOK, SlotsGrow,
        OrdersOK
  <2>3. QuietControl /\ Untouched
    BY <1>1 DEF FlattenExit, FlattenGuard, managerVars, QuietControl, Untouched
  <2>4. QED
    BY <2>1, <2>2, <2>3, QuietStep
<1>2. CASE FlattenBook
  <2>1. SlotsGrow
    BY <1>2, SameSlots DEF FlattenBook, gatewayVars
  <2>2. TypeOK'
    BY <1>0, <1>2 DEF FlattenBook, Book, LedgerRow, Forget, gatewayVars, TypeOK, GatewayTypeOK
  <2>3. QuietControl /\ Dropped
    BY <1>2 DEF FlattenBook, QuietControl, Dropped, IInv, DownIsIdle
  <2>4. QED
    BY <2>1, <2>2, <2>3, QuietStep
<1>3. CASE FlattenTail(ok)
  <2>1. SlotsGrow /\ fails' \in 0..MaxFails
    <3>1. CASE ~handled /\ PositionKnown
      <4> DEFINE d == IF seen > 0 THEN -1 ELSE 1
      <4>1. SendMarket(CancelSent(ord, {pend}), ok, d, AbsQty(seen))
        BY <1>3, <3>1 DEF FlattenTail, CancelEntry
      <4>2. d \in {1, -1}
        OBVIOUS
      <4> HIDE DEF d
      <4>3. QED
        BY <1>0, <4>1, <4>2, MarketGrows
    <3>2. CASE ~(~handled /\ PositionKnown)
      <4>1. ord' = CancelSent(ord, {pend}) /\ nxt' = nxt /\ fails' = fails
        BY <1>3, <3>2 DEF FlattenTail, CancelEntry
      <4>2. QED
        BY <1>0, <4>1, CancelGrows DEF TypeOK
    <3>3. QED
      BY <3>1, <3>2
  <2>2. \/ Forget
        \/ pend = 0 /\ pos' = pos /\ row' = row
    BY <1>3 DEF FlattenTail
  <2>3. TypeOK'
    <3>1. pos' \in Position /\ row' \in Row
      BY <1>0, <2>2 DEF Forget, TypeOK
    <3>2. /\ net' = net /\ seen' = seen /\ execs' = execs /\ ledger' = ledger
          /\ watched' = watched /\ recorded' = recorded /\ alert' = alert
          /\ armed' = armed /\ at' = at /\ late' = late /\ sessions' = sessions
          /\ overlaps' = overlaps
          /\ crashes' = crashes /\ pend' = 0 /\ overdue' = FALSE /\ fl' = "idle"
          /\ flleg' = 0 /\ handled' = FALSE /\ phase' = "closing"
      BY <1>3 DEF FlattenTail
    <3>3. QED
      BY <1>0, <2>1, <3>1, <3>2 DEF TypeOK, GatewayTypeOK, SlotsGrow, OrdersOK
  <2>4. /\ fl = "tail" /\ fl' = "idle" /\ sessions' = sessions /\ armed' = armed
        /\ pend' = 0 /\ phase' = "closing"
    BY <1>3 DEF FlattenTail
  <2>5. QuietControl
    BY <2>4 DEF QuietControl, IInv, DownIsIdle
  <2>6. Dropped \/ Untouched
    BY <2>2, <2>4 DEF Dropped, Untouched
  <2>7. QED
    BY <2>1, <2>3, <2>5, <2>6, QuietStep
<1>4. QED
  BY <1>1, <1>2, <1>3

\* Death, the end of the day and a new session: memory and the database part.
LEMMA SessionStep ==
    ASSUME IInv, NEW ok \in BOOLEAN, Crash \/ DayEnds \/ StartSession(ok)
    PROVE  IInv'
<1>0. /\ TypeOK /\ NoPos \in Position /\ NoRow \in Row /\ AbsQty(seen) \in Nat
      /\ 0 \in 0..MaxOrders /\ nxt \in Nat /\ nxt \in 1..(MaxOrders + 1)
      /\ MaxSessions \in Nat /\ MaxCrashes \in Nat
      /\ sessions \in 1..MaxSessions /\ crashes \in 0..MaxCrashes
      /\ overlaps \in 0..(sessions - 1)
  BY NoPosIs, QtyIsNat, GatewayAssumption, ManagerAssumption DEF IInv, TypeOK, GatewayTypeOK
<1>1. CASE Crash
  <2>1. /\ pos' = NoPos /\ pend' = 0 /\ phase' = "down" /\ fl' = "idle"
        /\ ord' = ord /\ nxt' = nxt
    BY <1>1 DEF Crash
  <2>2. TypeOK'
    <3>1. GatewayTypeOK'
      BY <1>0, <1>1, <2>1 DEF Crash, TypeOK, GatewayTypeOK
    <3>2. crashes' \in 0..MaxCrashes
      BY <1>0, <1>1 DEF Crash
    <3>3. /\ row' = row /\ ledger' = ledger /\ alert' = alert /\ late' = late
          /\ sessions' = sessions /\ overlaps' = overlaps
          /\ fails' = fails /\ overdue' = FALSE
          /\ watched' = {} /\ recorded' = {} /\ at' = "idle" /\ flleg' = 0
          /\ handled' = FALSE /\ armed' = FALSE
      BY <1>1 DEF Crash
    <3>4. QED
      BY <1>0, <2>1, <3>1, <3>2, <3>3 DEF TypeOK
  <2>3. SlotsOK' /\ RemainingAccounts' /\ FirstSession'
    BY <2>1, NoPosIs DEF SlotsOK, RemainingAccounts, FirstSession, IsOpen
  <2>4. RowsAreCurrent' /\ EnteringIsPolled' /\ DownIsIdle'
    BY <2>1, NoPosIs DEF RowsAreCurrent, EnteringIsPolled, DownIsIdle
  <2>5. QED
    BY <2>1, <2>2, <2>3, <2>4 DEF IInv
<1>2. CASE DayEnds
  <2>1. OrdersOK(ord') /\ Kept(ord, ord', nxt)
    BY <1>0, <1>2, ExpiredKeeps DEF IInv, DayEnds
  <2>2. SlotsGrow
    BY <1>0, <1>2, <2>1 DEF SlotsGrow, DayEnds
  <2>3. TypeOK'
    BY <1>0, <1>2, <2>1 DEF DayEnds, managerVars, controlVars, TypeOK, GatewayTypeOK, OrdersOK
  <2>4. QuietControl /\ Untouched
    BY <1>2 DEF DayEnds, managerVars, controlVars, QuietControl, Untouched
  <2>5. QED
    BY <2>2, <2>3, <2>4, QuietStep
<1>3. CASE StartSession(ok)
  <2>1. SlotsGrow /\ fails' \in 0..MaxFails
    <3>1. CASE row.st = "open" /\ seen # 0
      <4>1. SendMarket(CancelSent(ord, {row.tp1, row.stop}), ok, -1, AbsQty(seen))
        BY <1>3, <3>1 DEF StartSession, Reconcile
      <4>2. QED
        BY <1>0, <4>1, MarketGrows
    <3>2. CASE ~(row.st = "open" /\ seen # 0)
      <4>1. ord' = ord /\ nxt' = nxt /\ fails' = fails
        BY <1>3, <3>2 DEF StartSession, Reconcile
      <4>2. QED
        BY <1>0, <4>1, SameSlots DEF TypeOK
    <3>3. QED
      BY <3>1, <3>2
  <2>2. /\ pos' = pos /\ pend' = pend /\ row' = NoRow /\ fl' = fl
        /\ sessions' = sessions + 1 /\ phase' = "trading" /\ sessions < MaxSessions
        /\ phase \in {"closed", "down"}
    BY <1>3 DEF StartSession
  <2>3. TypeOK'
    <3>1. GatewayTypeOK'
      BY <1>0, <1>3, <2>1 DEF StartSession, TypeOK, GatewayTypeOK, SlotsGrow, OrdersOK
    <3>2. sessions' \in 1..MaxSessions
      BY <1>0, <2>2
    <3>3. /\ overdue' = overdue /\ ledger' = ledger /\ watched' = watched
          /\ recorded' = recorded /\ alert' = alert /\ at' = at /\ flleg' = flleg
          /\ handled' = handled /\ armed' = TRUE /\ late' = FALSE
      BY <1>3 DEF StartSession
    <3>4. crashes' \in 0..MaxCrashes /\ overlaps' \in 0..(sessions' - 1)
      <4>1. CASE StartsNextDay
        BY <1>0, <2>2, <4>1 DEF StartsNextDay
      <4>2. CASE StartsInDay
        <5>1. overlaps' = overlaps + 1
          BY <4>2 DEF StartsInDay
        <5>2. crashes' = crashes \/ (crashes < MaxCrashes /\ crashes' = crashes + 1)
          BY <4>2 DEF StartsInDay
        <5>3. QED
          BY <1>0, <2>2, <5>1, <5>2
      <4>3. QED
        BY <1>3, <4>1, <4>2 DEF StartSession
    <3>5. QED
      BY <1>0, <2>1, <2>2, <3>1, <3>2, <3>3, <3>4 DEF TypeOK
  <2>4. SlotsOK' /\ RemainingAccounts'
    BY <1>0, <2>1, <2>2, SlotsKept DEF SlotsGrow
  <2>5. FirstSession' /\ RowsAreCurrent'
    BY <1>0, <2>2 DEF FirstSession, RowsAreCurrent, NoRow, RowOf
  <2>6. EnteringIsPolled' /\ DownIsIdle'
    BY <2>2 DEF IInv, EnteringIsPolled, DownIsIdle
  <2>7. QED
    BY <2>1, <2>3, <2>4, <2>5, <2>6 DEF IInv, SlotsGrow
<1>4. QED
  BY <1>1, <1>2, <1>3

(***************************************************************************)
(* The theorems.                                                           *)
(***************************************************************************)

LEMMA InitIInv == Init => IInv
<1> SUFFICES ASSUME Init
             PROVE  IInv
  OBVIOUS
<1> USE DEF Init, GatewayInit, ManagerInit
<1>1. NoOrder \in Order /\ NoOrder.filled = 0 /\ NoOrder.qty = 0
  BY DEF NoOrder, Order, Kinds, RawStatus
<1>2. OrdersOK(ord)
  BY <1>1 DEF OrdersOK
<1>3. TypeOK
  <2>1. GatewayTypeOK
    BY <1>2, GatewayAssumption DEF GatewayTypeOK, OrdersOK
  <2>2. /\ 0 \in 0..MaxOrders /\ 1 \in 1..MaxSessions /\ 0 \in 0..MaxCrashes
        /\ 0 \in 0..MaxFails /\ 0 \in 0..(1 - 1)
    BY GatewayAssumption, ManagerAssumption
  <2>3. QED
    BY <2>1, <2>2, NoPosIs DEF TypeOK
<1>4. SlotsOK /\ FirstSession /\ DownIsIdle /\ RowsAreCurrent /\ EnteringIsPolled
              /\ RemainingAccounts
  BY NoPosIs DEF SlotsOK, FirstSession, DownIsIdle, RowsAreCurrent, EnteringIsPolled,
      RemainingAccounts, IsOpen
<1>5. QED
  BY <1>2, <1>3, <1>4 DEF IInv

LEMMA NextIInv == IInv /\ [Next]_vars => IInv'
<1> SUFFICES ASSUME IInv, [Next]_vars
             PROVE  IInv'
  OBVIOUS
<1>1. CASE Exchange /\ UNCHANGED <<managerVars, controlVars, fails>>
  BY <1>1, ExchangeStep
<1>2. CASE Callback
  <2>1. CASE CheckPendingEntry
    BY <2>1, PendingStep, EntryStep DEF CheckPendingEntry
  <2>2. CASE ManageOpen
    BY <2>2, NothingDueStep, ExitStep, Tp1Step DEF ManageOpen
  <2>3. CASE EntryRefused \/ \E ok \in BOOLEAN : OpenPosition(ok)
    BY <2>3, IdleStep, OpenStep
  <2>4. CASE \E o \in OrderIds : FillWatcher(o) \/ OrderRejected(o)
    BY <2>4, IdleStep, RejectStep
  <2>5. QED
    BY <1>2, <2>1, <2>2, <2>3, <2>4 DEF Callback
<1>3. CASE EntryOverdue \/ BarsReachEod
  BY <1>3, IdleStep
<1>4. CASE Flatten
  BY <1>4, FlattenStep, IdleStep DEF Flatten
<1>5. CASE Crash \/ DayEnds \/ \E ok \in BOOLEAN : StartSession(ok)
  BY <1>5, SessionStep
<1>6. CASE Done \/ UNCHANGED vars
  <2>1. UNCHANGED vars
    BY <1>6 DEF Done
  <2>2. SlotsGrow
    BY <2>1, SameSlots DEF vars, gatewayVars
  <2>3. TypeOK'
    BY <2>1 DEF IInv, TypeOK, GatewayTypeOK, vars, gatewayVars, managerVars, controlVars
  <2>4. QuietControl /\ Untouched
    BY <2>1 DEF QuietControl, Untouched, vars, managerVars, controlVars
  <2>5. QED
    BY <2>2, <2>3, <2>4, QuietStep
<1>7. QED
  BY <1>1, <1>2, <1>3, <1>4, <1>5, <1>6 DEF Next

\* The invariant holds in every reachable state.
THEOREM Invariance == Spec => []IInv
  BY InitIInv, NextIInv, PTL DEF Spec

\* Every variable keeps its type; in particular the manager never counts more
\* shares out of a position than it counted in (`remaining` stays in Nat).
THEOREM TypeCorrect == Spec => []TypeOK
<1>1. IInv => TypeOK
  BY DEF IInv
<1>2. QED
  BY <1>1, Invariance, PTL

\* The open_positions row is the position in memory between any two handlers,
\* except for a position kept from an earlier session.
THEOREM RowsStayCurrent == Spec => []RowsAreCurrent
<1>1. IInv => RowsAreCurrent
  BY DEF IInv
<1>2. QED
  BY <1>1, Invariance, PTL

\* No handler, failure or crash leaves an entering position that on_bar does not
\* poll.
THEOREM EnteringStaysPolled == Spec => []EnteringIsPolled
<1>1. IInv => EnteringIsPolled
  BY DEF IInv
<1>2. QED
  BY <1>1, Invariance, PTL

\* However TP1 fills in pieces and however often it is polled, the shares booked
\* and the shares remaining make up the entry.
THEOREM SharesAccounted == Spec => []RemainingAccounts
<1>1. IInv => RemainingAccounts
  BY DEF IInv
<1>2. QED
  BY <1>1, Invariance, PTL
=============================================================================
