----------------------------- MODULE MCEntryGate -----------------------------
(***************************************************************************)
(* Two symbols whose full entries do not fit the budget together: after    *)
(* the whole of one, the other is sized down or refused.                  *)
(***************************************************************************)
EXTENDS EntryGate

CONSTANTS a, b

MCPrice == [s \in Symbols |-> IF s = b THEN 3 ELSE 2]
MCWanted == [s \in Symbols |-> IF s = a THEN 3 ELSE 2]
MCRate == [s \in Symbols |-> IF s = a THEN 2 ELSE 1]
MCResults == {-2, 1}
=============================================================================
