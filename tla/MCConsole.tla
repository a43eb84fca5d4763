----------------------------- MODULE MCConsole -----------------------------
(***************************************************************************)
(* Small instances of Console for TLC: trades of one value date, and two   *)
(* reads per refresh, which can disagree as the three do, or one where     *)
(* nothing depends on that.                                                *)
(***************************************************************************)
EXTENDS Console, TLC

CONSTANTS t1, t2                                       \* model values

MCValueDate == [t \in Trades |-> 1]
MCEndpoints == {"state", "ledger"}
MCStateOnly == {"state"}
MCButtons == {"button"}
TradeSymmetry == Permutations(Trades)

=============================================================================
