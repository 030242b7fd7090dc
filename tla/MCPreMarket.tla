---------------------------- MODULE MCPreMarket ----------------------------
(***************************************************************************)
(* An equity "e" with a bull and a dearer bear, a crypto "c" with a bull   *)
(* that trades gaps up only; both share one allotment.  Day 4 is no        *)
(* trading day, so a row of "c" alone.                                     *)
(***************************************************************************)
EXTENDS PreMarket, TLC

MCSymbols == {"A", "B", "C"}
MCInst ==
    "A" :> [ul |-> "e", leverage |-> 2, inverse |-> FALSE, class |-> "C2", long |-> 40, short |-> 40]
 @@ "B" :> [ul |-> "e", leverage |-> 3, inverse |-> TRUE, class |-> "C2", long |-> 5, short |-> 40]
 @@ "C" :> [ul |-> "c", leverage |-> 2, inverse |-> FALSE, class |-> "C1", long |-> 5, short |-> 0]
MCOnly == "C" :> 1
MCRank == "A" :> 1 @@ "B" :> 2 @@ "C" :> 3
MCEtfClose == "A" :> 50 @@ "B" :> 50 @@ "C" :> 9
MCThreshold == "e" :> 4 @@ "c" :> 2
MCSigma == "e" :> 2 @@ "c" :> 2
MCShares == "e" :> "g" @@ "c" :> "g"
MCWeights ==
    "C1" :> [quiet |-> 12, active |-> 12, flood |-> 12]
 @@ "C2" :> [quiet |-> 2, active |-> 12, flood |-> 2]
MCUls == <<"c", "e">>
MCCloses == "e" :> {100} @@ "c" :> {100, 103}
MCBackfill == "e" :> 97 @@ "c" :> 100
MCMornings ==
    {"A" :> a @@ "B" :> -a @@ "C" :> 7 : a \in {-7, 7}}      \* siblings agree
 \cup {"A" :> 7 @@ "B" :> 9, "A" :> 9 @@ "B" :> 7}         \* siblings disagree
 \cup {"A" :> 3 @@ "B" :> -7 @@ "C" :> -7, "A" :> -7}      \* too small, filtered, missing
MCReplies ==
    {[bars |-> "ok", asset |-> "ok", volume |-> "enough"],
     [bars |-> "ok", asset |-> "hard_to_borrow", volume |-> "unavailable"],
     [bars |-> "ok", asset |-> "error", volume |-> "thin"],
     [bars |-> "invalid", asset |-> "ok", volume |-> "enough"]}
=============================================================================
