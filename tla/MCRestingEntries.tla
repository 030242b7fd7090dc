-------------------------- MODULE MCRestingEntries --------------------------
(***************************************************************************)
(* Two symbols that fit the budget and the exposure cap together at some    *)
(* fill prices, only one of the two limits at others, and neither at more. *)
(***************************************************************************)
EXTENDS RestingEntries

CONSTANTS a, b

MCPrice == [s \in Symbols |-> 2]
MCWanted == [s \in Symbols |-> IF s = a THEN 2 ELSE 1]
\* In tenths, as One is 10.  The table asks less than the price of a; b was
\* prewarmed and asks twice its price.
MCRate == [s \in Symbols |-> IF s = a THEN 8 ELSE 20]
=============================================================================
