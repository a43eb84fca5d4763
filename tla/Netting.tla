------------------------------ MODULE Netting ------------------------------
(***************************************************************************)
(* The netting loop of derive_bilateral_settlements, one settled trade at  *)
(* a time: nets holds one accumulator per bucket, as net_by_key does, and  *)
(* fed is the trades seen so far.  Any sequence of trades may arrive: the  *)
(* order of the trade map says nothing about directions or amounts.        *)
(***************************************************************************)
EXTENDS Settlement, FiniteSetsExt

CONSTANTS SettledTerms,     \* the terms of the trades that may arrive
          SettledPath,      \* their common path
          AnyTrade,         \* their common identifier
          MaxTrades         \* bound on the number of trades

ASSUME NettingInputs == /\ SettledTerms \subseteq FxTerms
                        /\ SettledPath \in LimitPath
                        /\ AnyTrade \in TradeIds
                        /\ MaxTrades \in Nat

VARIABLES fed, nets

vars == <<fed, nets>>

SettledTrade(terms) ==
  [Capture(AnyTrade, SettledPath, terms) EXCEPT !.state = "Settled"]

Init == fed = <<>> /\ nets = [key \in SettlementKeys |-> NoCashflow]

(* One round of the loop.                                                  *)
TakeTrade == \E terms \in SettledTerms :
  LET trade == SettledTrade(terms)
  IN  /\ Len(fed) < MaxTrades
      /\ fed' = Append(fed, trade)
      /\ nets' = [key \in SettlementKeys |-> AddTrade(key, nets[key], trade)]

Next == TakeTrade

Spec == Init /\ [][Next]_vars

-----------------------------------------------------------------------------
(* The reference: the signed net of a bucket, incoming counted positive.   *)
SignedNet(key) ==
  LET In(flow) == IF flow.key # key THEN 0
                  ELSE IF flow.direction = "Incoming" THEN flow.amount
                  ELSE -flow.amount
      OfTrade(i) == In(Cashflows(fed[i])[1]) + In(Cashflows(fed[i])[2])
  IN  SumFunction([i \in DOMAIN fed |-> OfTrade(i)])

(* Cancelling against the stack computes the exact net: the direction is   *)
(* the sign of the signed sum, the unmatched amounts add up to its         *)
(* magnitude, each of them positive, whatever the order of arrival.        *)
NetIsExact ==
  \A key \in SettlementKeys :
    LET net == nets[key]
        total == Magnitude(net)
    IN  /\ net.direction = "None" <=> net.unmatched = <<>>
        /\ \A i \in DOMAIN net.unmatched : net.unmatched[i] > 0
        /\ SignedNet(key) = CASE net.direction = "Incoming" -> total
                              [] net.direction = "Outgoing" -> -total
                              [] OTHER -> 0

(* An intermediate sum never refuses an end of day: the derivation reports *)
(* an overflow exactly when some final net is too wide for an amount.      *)
OverflowOnlyOfFinalNet ==
  SettlementError(fed) = Ok <=>
    \A key \in SettlementKeys : SignedNet(key) \in (-MaxMinor)..MaxMinor

(* No obligation is published for a bucket that nets to zero, and exactly  *)
(* one for each of the others.                                             *)
OneObligationPerOpenBucket ==
  SettlementError(fed) = Ok =>
    LET open == {key \in SettlementKeys : SignedNet(key) # 0}
    IN  /\ {o.key : o \in DeriveSettlements(fed)} = open
        /\ Cardinality(DeriveSettlements(fed)) = Cardinality(open)
        /\ \A o \in DeriveSettlements(fed) : o.amount \in 1..MaxMinor

(* What an end of day publishes is the exact net of every bucket.          *)
ObligationsAreExact == NetIsExact /\ OneObligationPerOpenBucket

=============================================================================
