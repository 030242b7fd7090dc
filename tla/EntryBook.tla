------------------------------ MODULE EntryBook ------------------------------
(***************************************************************************)
(* What either way of entering promises: a book of claims, one for each    *)
(* symbol, that share a margin budget and a cap on notional.  EntryGate    *)
(* (entries at market, claimed when submitted) and RestingEntries (claimed *)
(* when an order has filled) implement it.                                 *)
(***************************************************************************)
EXTENDS Integers, FiniteSetsExt

CONSTANTS
    Symbols,
    Rate,      \* margin per unit of notional
    Budget,    \* of margin
    MaxGross,  \* of notional
    Slack      \* what a symbol's claim may turn out dearer than it was entered

VARIABLES
    stage,     \* "none", "claimed", "settled"
    claim,     \* notional
    killed

vars == <<stage, claim, killed>>

Init ==
    /\ stage = [s \in Symbols |-> "none"]
    /\ claim = [s \in Symbols |-> 0]
    /\ killed = FALSE

Fits(c) ==
    /\ SumFunctionOnSet(c, Symbols) <= MaxGross
    /\ SumFunctionOnSet([s \in Symbols |-> Rate[s] * c[s]], Symbols) <= Budget

\* A symbol without a claim gets one if it fits beside the others.
Claim(s) ==
    /\ stage[s] = "none" /\ ~killed
    /\ stage' = [stage EXCEPT ![s] = "claimed"]
    /\ \E n \in 1..MaxGross :
        /\ claim' = [claim EXCEPT ![s] = n]
        /\ Fits(claim')
    /\ UNCHANGED killed

\* What was entered turns out smaller, or a little dearer, once.
Settle(s) ==
    /\ stage[s] = "claimed"
    /\ stage' = [stage EXCEPT ![s] = "settled"]
    /\ \E n \in 1..(claim[s] + Slack[s]) : claim' = [claim EXCEPT ![s] = n]
    /\ UNCHANGED killed

\* Part of it, or all of it, is sold; the result may kill the session.
Reduce(s) ==
    /\ stage[s] = "settled" /\ UNCHANGED stage
    /\ \E n \in 1..(claim[s] - 1) : claim' = [claim EXCEPT ![s] = n]
    /\ killed => killed'

Release(s) ==
    /\ stage[s] # "none"
    /\ stage' = [stage EXCEPT ![s] = "none"]
    /\ claim' = [claim EXCEPT ![s] = 0]
    /\ killed => killed'

\* The process starts over.
Forget ==
    /\ stage' = [s \in Symbols |-> "none"]
    /\ claim' = [s \in Symbols |-> 0]
    /\ killed' \in BOOLEAN

Next == Forget \/ \E s \in Symbols : Claim(s) \/ Settle(s) \/ Reduce(s) \/ Release(s)

Spec == Init /\ [][Next]_vars
=============================================================================
