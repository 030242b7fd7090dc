------------------------------ MODULE IBGateway ------------------------------
(***************************************************************************)
(* The order side of Interactive Brokers as orb_live/data/ib_client.py     *)
(* uses it, for one traded symbol.                                         *)
(*                                                                         *)
(* Quantities are in the direction of the session's trade: side = 1 opens  *)
(* (buys a long, sells a short), side = -1 closes, and `net` is the signed *)
(* position the exchange holds.  An order is a slot of `ord`, its id the   *)
(* slot's number; `nxt` is the next free slot.  `st` is the raw IB status  *)
(* a client reads from ib.trades(), `live` is what the exchange knows:     *)
(* whether the order can still trade.  The two differ while a cancel       *)
(* request or the block of an OCA group is on its way.                     *)
(*                                                                         *)
(* The exchange's own steps (fills, acknowledgements, reports) are         *)
(* external: they are what src/ expects of IB, not code of src/.           *)
(***************************************************************************)
EXTENDS Integers, FiniteSets

CONSTANTS
    EntryQty,      \* shares one entry asks for
    MaxOrders,     \* bound: order slots in one behaviour
    PartialFills,  \* BOOLEAN: may the exchange fill an order in pieces
    Rejects        \* kinds of order IB may refuse

ASSUME GatewayAssumption ==
    /\ EntryQty \in Nat \ {0}
    /\ MaxOrders \in Nat \ {0}
    /\ PartialFills \in BOOLEAN
    /\ Rejects \subseteq {"entry", "tp1", "stop"}

VARIABLES
    ord,     \* order slots
    nxt,     \* next free slot
    net,     \* signed position at the exchange
    seen,    \* signed position in the client's ib.portfolio()
    execs    \* filled orders whose execDetails event is not delivered yet

gatewayVars == <<ord, nxt, net, seen, execs>>

OrderIds == 1..MaxOrders

Kinds == {"none", "entry", "tp1", "stop", "market"}

\* PendingSubmit behaves as Submitted, ApiCancelled as Cancelled.
RawStatus == {"PreSubmitted", "Submitted", "PartiallyFilled", "PendingCancel",
              "Filled", "Cancelled", "Inactive"}

Order == [kind: Kinds, side: {1, -1}, qty: Nat, filled: Nat,
          st: RawStatus, live: BOOLEAN, parent: Nat]

NoOrder == [kind |-> "none", side |-> 1, qty |-> 0, filled |-> 0,
            st |-> "Inactive", live |-> FALSE, parent |-> 0]

(***************************************************************************)
(* What the client reads.                                                  *)
(***************************************************************************)

\* IBClient._IB_STATUS_MAP: note the one-l spelling of "canceled".
NormalizeStatus ==
    [PreSubmitted |-> "new", Submitted |-> "new",
     PartiallyFilled |-> "partially_filled", PendingCancel |-> "pending_cancel",
     Filled |-> "filled", Cancelled |-> "canceled", Inactive |-> "rejected"]

\* get_order(o)["status"]
OrderStatus(o) == NormalizeStatus[ord[o].st]

Terminal == {"Filled", "Cancelled", "Inactive"}

\* get_positions drops a zero row, so a flat symbol is None, never qty 0.
PositionKnown == seen # 0

AbsQty(q) == IF q < 0 THEN -q ELSE q

(***************************************************************************)
(* What the client sends.  Each operator returns the new order slots.      *)
(***************************************************************************)

Room(k) == nxt + k <= MaxOrders + 1

NewOrder(kind, side, qty, parent) ==
    [kind |-> kind, side |-> side, qty |-> qty, filled |-> 0,
     st |-> IF parent = 0 THEN "Submitted" ELSE "PreSubmitted",
     live |-> parent = 0, parent |-> parent]

\* submit_stop_order, submit_market_order
Placed(f, id, kind, side, qty) == [f EXCEPT ![id] = NewOrder(kind, side, qty, 0)]

\* submit_bracket_order: parent, TP1 limit and stop; IB holds the two children
\* until the parent fills, and they form one OCA group.
BracketPlaced(f, id, qty) ==
    [f EXCEPT ![id]     = NewOrder("entry", 1, qty, 0),
              ![id + 1] = NewOrder("tp1", -1, qty, id),
              ![id + 2] = NewOrder("stop", -1, qty, id)]

\* cancel_order on every id of S: fire and forget; a terminal order is left alone.
CancelSent(f, S) ==
    [o \in OrderIds |->
        IF o \in S /\ f[o].st \notin Terminal
        THEN [f[o] EXCEPT !.st = "PendingCancel"]
        ELSE f[o]]

(***************************************************************************)
(* The exchange.                                                           *)
(***************************************************************************)

Siblings(o) == {p \in OrderIds : p # o /\ ord[p].parent = ord[o].parent
                                       /\ ord[o].parent # 0}
Children(o) == {p \in OrderIds : ord[p].parent = o}

Unfilled(o) == ord[o].qty - ord[o].filled

\* The status a client sees after a fill: complete, or one of the two ways IB
\* reports a working order with fills; a pending cancel stays pending.
FillStatus(o, n) ==
    IF n = Unfilled(o) THEN {"Filled"}
    ELSE IF ord[o].st = "PendingCancel" THEN {"PendingCancel"}
    ELSE {"Submitted", "PartiallyFilled"}

\* n shares of order o trade.  The last share of a parent activates its children;
\* the first share of an OCA child blocks its sibling.
FillResult(o, n, s) ==
    [p \in OrderIds |->
        CASE p = o /\ n = Unfilled(o) ->
                [ord[p] EXCEPT !.filled = @ + n, !.st = s, !.live = FALSE]
          [] p = o /\ n # Unfilled(o) -> [ord[p] EXCEPT !.filled = @ + n, !.st = s]
          [] p \in Children(o) /\ n = Unfilled(o) /\ ord[p].st = "PreSubmitted" ->
                [ord[p] EXCEPT !.st = "Submitted", !.live = TRUE]
          [] p \in Siblings(o) -> [ord[p] EXCEPT !.live = FALSE]
          [] OTHER -> ord[p]]

Fill(o) ==
    /\ ord[o].live
    /\ \E n \in 1..Unfilled(o) :
        /\ PartialFills \/ n = Unfilled(o)
        /\ \E s \in FillStatus(o, n) : ord' = FillResult(o, n, s)
        /\ net' = net + ord[o].side * n
        /\ execs' = IF n = Unfilled(o) /\ ord[o].kind \in {"tp1", "stop"}
                    THEN execs \cup {o} ELSE execs
    /\ UNCHANGED <<nxt, seen>>

\* A requested cancel takes effect; children never activated go with it.  The
\* children of a partly filled parent may survive it, active.
CancelAck(o) ==
    /\ ord[o].st = "PendingCancel"
    /\ \E keep \in {FALSE, ord[o].filled > 0} :
        ord' = [p \in OrderIds |->
            CASE p = o -> [ord[o] EXCEPT !.st = "Cancelled", !.live = FALSE]
              [] p \in Children(o) /\ ord[p].st = "PreSubmitted" ->
                    IF keep THEN [ord[p] EXCEPT !.st = "Submitted", !.live = TRUE]
                            ELSE [ord[p] EXCEPT !.st = "Cancelled"]
              [] OTHER -> ord[p]]
    /\ UNCHANGED <<nxt, net, seen, execs>>

\* The blocked member of an OCA group is reported cancelled.
OcaReport(o) ==
    /\ ord[o].st \notin Terminal
    /\ ~ord[o].live
    /\ \E p \in Siblings(o) : ord[p].filled > 0
    /\ ord' = [ord EXCEPT ![o].st = "Cancelled"]
    /\ UNCHANGED <<nxt, net, seen, execs>>

\* updatePortfolio reaches the client.
PortfolioUpdate ==
    /\ seen # net
    /\ seen' = net
    /\ UNCHANGED <<ord, nxt, net, execs>>

\* Every order is sent tif = "day": at the close the exchange drops what is left.
Expired(f) ==
    [o \in OrderIds |->
        IF f[o].st \in Terminal THEN f[o]
        ELSE [f[o] EXCEPT !.st = "Cancelled", !.live = FALSE]]

\* An order IB has not traded yet may be refused.
Refusable(o) ==
    /\ ord[o].kind \in Rejects
    /\ ord[o].st \in {"PreSubmitted", "Submitted"}
    /\ ord[o].filled = 0

\* A refused order never trades; a refused parent takes its children with it.
Refused(o) ==
    [p \in OrderIds |->
        CASE p = o -> [ord[o] EXCEPT !.st = "Inactive", !.live = FALSE]
          [] p \in Children(o) /\ ord[p].st \notin Terminal ->
                [ord[p] EXCEPT !.st = "Cancelled", !.live = FALSE]
          [] OTHER -> ord[p]]

\* A refusal under another code than 201 reaches no handler: only the status
\* tells.
Refuse(o) ==
    /\ Refusable(o)
    /\ ord' = Refused(o)
    /\ UNCHANGED <<nxt, net, seen, execs>>

GatewayInit ==
    /\ ord = [o \in OrderIds |-> NoOrder]
    /\ nxt = 1
    /\ net = 0
    /\ seen = 0
    /\ execs = {}

Exchange ==
    \/ \E o \in OrderIds : Fill(o) \/ CancelAck(o) \/ OcaReport(o) \/ Refuse(o)
    \/ PortfolioUpdate

GatewayTypeOK ==
    /\ ord \in [OrderIds -> Order]
    /\ nxt \in 1..(MaxOrders + 1)
    /\ net \in Int
    /\ seen \in Int
    /\ execs \subseteq OrderIds
=============================================================================
