------------------------------ MODULE EntryGate ------------------------------
(***************************************************************************)
(* What decides whether a breakout becomes an order: RiskGate              *)
(* (orb_live/execution/risk_gate.py) and the margin budget of              *)
(* LivePositionManager.open_position, over all the session's symbols.      *)
(*                                                                         *)
(* The gate reads the manager's positions, the account, and its own        *)
(* counters; the day's kill flag is in the database and survives the       *)
(* process.  Orders and exits are reduced to what the gate's numbers       *)
(* depend on: `loose` are shares of an entry order the manager has given   *)
(* up and IB may still fill.  PositionManager has the orders in full.      *)
(*                                                                         *)
(* Money is in whole units: Rate[s] is the initial-margin rate of s scaled *)
(* to an integer, and Budget is scaled with it.                            *)
(***************************************************************************)
EXTENDS Integers, FiniteSets, FiniteSetsExt

CONSTANTS
    Symbols,       \* the session's candidates
    Price,         \* entry price of each symbol
    Wanted,        \* shares of each symbol's sized entry
    Rate,          \* margin_rate_for, scaled
    Slip,          \* how far a fill may be from the entry price
    Budget,        \* _margin_budget, scaled like Rate
    MaxGross,      \* max_gross_exposure_pct * equity
    MaxPosition,   \* max_position_pct * equity
    MaxConcurrent, \* max_concurrent_positions, 0 = unlimited
    BuyingPower,   \* buying_power of a good account read
    MinParts,      \* 1 / partial_entry_min_frac
    KillLoss,      \* session_kill_loss_pct * starting equity
    Results,       \* profit or loss of one closed leg
    MaxSessions    \* bound: sessions started

ASSUME GateAssumption ==
    /\ IsFiniteSet(Symbols)
    /\ Price \in [Symbols -> Nat \ {0}]
    /\ Wanted \in [Symbols -> Nat \ {0}]
    /\ Rate \in [Symbols -> Nat \ {0}]
    /\ Slip \in Nat
    /\ \A s \in Symbols : Slip < Price[s]
    /\ {Budget, MaxGross, MaxPosition, MaxConcurrent, BuyingPower} \subseteq Nat
    /\ MinParts \in Nat \ {0}
    /\ KillLoss \in Nat \ {0}
    /\ Results \subseteq Int
    /\ MaxSessions \in Nat \ {0}

VARIABLES
    armed,     \* symbols whose breakout has not fired yet
    pos,       \* _positions: status, remaining shares, actual_entry_price
    loose,     \* shares of abandoned entry orders still working at IB
    held,      \* shares the broker holds
    realized,  \* RiskGate._realized_pnl
    killed,    \* RiskGate._kill_triggered
    funded,    \* RiskGate._starting_equity > 0
    killDays,  \* day_state rows with kill_triggered
    day,       \* trade date
    sessions,  \* sessions started
    booked     \* what the day's closed legs really made or lost

vars == <<armed, pos, loose, held, realized, killed, funded, killDays, day,
          sessions, booked>>

Status == {"none", "entering", "open"}
NoPos == [st |-> "none", shares |-> 0, price |-> 0]

Init ==
    /\ armed = Symbols
    /\ pos = [s \in Symbols |-> NoPos]
    /\ loose = [s \in Symbols |-> 0]
    /\ held = [s \in Symbols |-> 0]
    /\ realized = 0
    /\ killed = FALSE
    /\ funded \in BOOLEAN
    /\ killDays = {}
    /\ day = 1
    /\ sessions = 1
    /\ booked = 0

(***************************************************************************)
(* The numbers open_position looks at.                                     *)
(***************************************************************************)

Live == {s \in Symbols : pos[s].st \in {"entering", "open"}}
LiveOpen == {s \in Symbols : pos[s].st = "open"}

Notional(s) == pos[s].price * pos[s].shares
Margin(s) == Rate[s] * Notional(s)

\* mutant: pending entries reserve nothing
CommittedOpen == SumFunctionOnSet([s \in Symbols |-> Margin(s)], LiveOpen)
\* _committed_margin: derived from the positions, entering and open.
Committed == SumFunctionOnSet([s \in Symbols |-> Margin(s)], Live)

Exposure == SumFunctionOnSet([s \in Symbols |-> Notional(s)], Live)
Intended(s) == Price[s] * Wanted[s]
MarginRoom == Budget - Committed

\* RiskGate.authorize_entry.  No P&L is passed to it, so its second kill test
\* never fires; the exposure checks see the size before any reduction.
Authorized(s) ==
    /\ s \notin Live
    /\ MaxConcurrent = 0 \/ Cardinality(Live) < MaxConcurrent
    /\ ~killed
    /\ Exposure + Intended(s) <= MaxGross
    /\ Intended(s) <= MaxPosition

ShareMargin(s) == Rate[s] * Price[s]

\* Shares the budget leaves room for: all of them, or what is left rounded down.
Sized(s) ==
    LET n == MarginRoom \div ShareMargin(s)
    IN  IF n < Wanted[s] THEN n ELSE Wanted[s]

\* A reduced entry smaller than partial_entry_min_frac of the target is dropped.
Worthwhile(s) == Sized(s) >= 1 /\ Sized(s) * MinParts >= Wanted[s]

(***************************************************************************)
(* Entries.                                                                *)
(***************************************************************************)

\* open_position up to the submission.  The account read gives the buying power
\* as it was before the recent submissions.
OpenPosition(s) ==
    /\ s \in armed
    /\ armed' = armed \ {s}
    /\ Authorized(s)
    /\ Worthwhile(s)
    /\ Price[s] * Sized(s) <= BuyingPower
    /\ held[s] = 0
    /\ pos' = [pos EXCEPT ![s] = [st |-> "entering", shares |-> Sized(s),
                                  price |-> Price[s]]]
    /\ UNCHANGED <<loose, held, realized, killed, funded, killDays, day,
                   sessions, booked>>

\* The breakout fires and open_position returns None: a test above fails, the
\* account read gives zeros, or the submission raises.
EntryRefused(s) ==
    /\ s \in armed
    /\ armed' = armed \ {s}
    /\ UNCHANGED <<pos, loose, held, realized, killed, funded, killDays, day,
                   sessions, booked>>

\* _complete_entry_fill: n of the shares at their real price; the parent order
\* is not cancelled, so the rest keeps working.
EntryFills(s) ==
    /\ pos[s].st = "entering"
    /\ \E n \in 1..pos[s].shares, d \in (-Slip)..Slip :
        /\ pos' = [pos EXCEPT ![s] = [st |-> "open", shares |-> n,
                                      price |-> Price[s] + d]]
        /\ held' = [held EXCEPT ![s] = @ + n]
        /\ loose' = [loose EXCEPT ![s] = @ + pos[s].shares - n]
    /\ UNCHANGED <<armed, realized, killed, funded, killDays, day, sessions,
                   booked>>

\* IB refuses the order: _on_order_error or the next poll drops the position.
EntryRejected(s) ==
    /\ pos[s].st = "entering"
    /\ pos' = [pos EXCEPT ![s] = NoPos]
    /\ UNCHANGED <<armed, loose, held, realized, killed, funded, killDays, day,
                   sessions, booked>>

\* _check_pending_entry gives up after 60 seconds: a cancel is sent and the
\* margin released at once.
EntryTimesOut(s) ==
    /\ pos[s].st = "entering"
    /\ pos' = [pos EXCEPT ![s] = NoPos]
    /\ loose' = [loose EXCEPT ![s] = @ + pos[s].shares]
    /\ UNCHANGED <<armed, held, realized, killed, funded, killDays, day,
                   sessions, booked>>

\* The exchange decides what becomes of abandoned shares.
LooseFills(s) ==
    /\ loose[s] > 0
    /\ held' = [held EXCEPT ![s] = @ + loose[s]]
    /\ loose' = [loose EXCEPT ![s] = 0]
    /\ UNCHANGED <<armed, pos, realized, killed, funded, killDays, day,
                   sessions, booked>>

LooseDies(s) ==
    /\ loose[s] > 0
    /\ loose' = [loose EXCEPT ![s] = 0]
    /\ UNCHANGED <<armed, pos, held, realized, killed, funded, killDays, day,
                   sessions, booked>>

(***************************************************************************)
(* Exits and the session kill.                                             *)
(***************************************************************************)

RecordedLate(amount) ==                               \* mutant: checked before the update
    /\ realized' = realized + amount
    /\ IF ~killed /\ funded /\ realized <= -KillLoss
       THEN killed' = TRUE /\ killDays' = killDays \cup {day}
       ELSE UNCHANGED <<killed, killDays>>
\* record_realized_pnl and _check_kill: the flag is set in memory and in
\* day_state; without a starting equity nothing is checked.
Record(amount) ==
    /\ realized' = realized + amount
    /\ IF ~killed /\ funded /\ realized' <= -KillLoss
       THEN killed' = TRUE /\ killDays' = killDays \cup {day}
       ELSE UNCHANGED <<killed, killDays>>

ClosesWanted(s) ==                                    \* mutant: exit legs keep the full size
    /\ pos[s].st = "open"
    /\ pos' = [pos EXCEPT ![s] = NoPos]
    /\ held' = [held EXCEPT ![s] = @ - Wanted[s]]
\* The position is sold and forgotten.
Closes(s) ==
    /\ pos[s].st = "open"
    /\ pos' = [pos EXCEPT ![s] = NoPos]
    /\ held' = [held EXCEPT ![s] = @ - pos[s].shares]

\* The bracket's TP1 fills, or _exit_all sells at the end of the day.
ExitRecorded(s) ==
    /\ Closes(s)
    /\ \E r \in Results : Record(r) /\ booked' = booked + r
    /\ UNCHANGED <<armed, loose, funded, day, sessions>>

\* Part of TP1: the shares are recorded, the rest stays.
Tp1Partial(s) ==
    /\ pos[s].st = "open"
    /\ pos[s].shares > 1
    /\ \E n \in 1..(pos[s].shares - 1), r \in Results :
        /\ pos' = [pos EXCEPT ![s] = [st |-> "open", shares |-> pos[s].shares - n,
                                      price |-> pos[s].price]]
        /\ held' = [held EXCEPT ![s] = @ - n]
        /\ Record(r)
        /\ booked' = booked + r
    /\ UNCHANGED <<armed, loose, funded, day, sessions>>

\* _handle_stop_fired and the fill watcher write a closed trade, and tell the
\* gate nothing.
StopFires(s) ==
    /\ Closes(s)
    /\ \E r \in Results : booked' = booked + r
    /\ UNCHANGED <<armed, loose, realized, killed, funded, killDays, day, sessions>>

(***************************************************************************)
(* Sessions.                                                               *)
(***************************************************************************)

FreshCounters == killed' = FALSE /\ realized' = 0      \* mutant: the stored flag is not read
\* RiskGate.session_start: the day's flag comes from the database.
SessionStart == killed' = (day' \in killDays) /\ realized' = 0

\* The process starts again, the same day or the next: the manager's memory is
\* empty and startup_reconcile sells what the database calls open.  The equity
\* is read again, and may be missing.
NewSession ==
    /\ sessions < MaxSessions
    /\ sessions' = sessions + 1
    /\ day' \in {day, day + 1}
    /\ SessionStart
    /\ funded' \in BOOLEAN
    /\ armed' = Symbols
    /\ pos' = [s \in Symbols |-> NoPos]
    /\ held' = [s \in Symbols |-> held[s] - (IF pos[s].st = "open" THEN pos[s].shares ELSE 0)]
    /\ loose' = [s \in Symbols |->
                    IF day' # day THEN 0
                    ELSE loose[s] + (IF pos[s].st = "entering" THEN pos[s].shares ELSE 0)]
    /\ booked' = IF day' = day THEN booked ELSE 0
    /\ UNCHANGED killDays

\* Every session is over.
Done ==
    /\ sessions = MaxSessions
    /\ armed = {} /\ Live = {}
    /\ \A s \in Symbols : loose[s] = 0
    /\ UNCHANGED vars

Next ==
    \/ \E s \in Symbols :
        \/ OpenPosition(s)
        \/ EntryRefused(s)
        \/ EntryFills(s)
        \/ EntryRejected(s)
        \/ EntryTimesOut(s)
        \/ LooseFills(s)
        \/ LooseDies(s)
        \/ ExitRecorded(s)
        \/ Tp1Partial(s)
        \/ StopFires(s)
    \/ NewSession
    \/ Done

Spec == Init /\ [][Next]_vars

(***************************************************************************)
(* Properties.                                                             *)
(***************************************************************************)

\* Every variable keeps its type: in particular no exit sells more than is held.
TypeOK ==
    /\ armed \subseteq Symbols
    /\ pos \in [Symbols -> [st: Status, shares: Nat, price: Nat]]
    /\ loose \in [Symbols -> Nat]
    /\ held \in [Symbols -> Nat]
    /\ realized \in Int
    /\ killed \in BOOLEAN
    /\ funded \in BOOLEAN
    /\ killDays \subseteq Nat
    /\ day \in Nat
    /\ sessions \in 1..MaxSessions
    /\ booked \in Int

\* Where each symbol is in EntryBook, and what it claims there.
Stage == [s \in Symbols |-> IF pos[s].st = "none" THEN "none"
                            ELSE IF pos[s].st = "entering" THEN "claimed" ELSE "settled"]
Claimed == [s \in Symbols |-> Notional(s)]
Slippage == [s \in Symbols |-> Slip * Wanted[s]]

\* The margin budget and the exposure cap are kept however many symbols break out
\* at once: an entry is made only where it fits beside all live ones, pending
\* entries included, and not in a killed session; what it holds only shrinks after,
\* but for the price its fill slipped.
Book == INSTANCE EntryBook WITH stage <- Stage, claim <- Claimed, Slack <- Slippage
ImplementsBook == Book!Spec

\* An entry is submitted.
Admits == \E s \in Symbols : pos[s].st = "none" /\ pos'[s].st = "entering"

\* Once the kill is recorded for a day, nothing is entered that day: not after a
\* restart either, whose counters start from zero.
KillSticks == [][Admits => day \notin killDays]_vars

\* A recorded loss at the limit kills the session, in memory and in the
\* database, when the gate knows the starting equity.
RecordedLossKills ==
    funded /\ realized <= -KillLoss => killed /\ day \in killDays

(***************************************************************************)
(* What comments and docstrings say and the code does not do.              *)
(***************************************************************************)

\* record_realized_pnl is "called by LivePositionManager after each closed fill
\* leg": no entry follows closed legs that lost the limit.
LossStopsEntries == [][Admits /\ funded => booked > -KillLoss]_vars
=============================================================================
