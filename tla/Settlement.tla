----------------------------- MODULE Settlement -----------------------------
(***************************************************************************)
(* Bilateral netting of the settled trades (src/domain/settlement.cpp).    *)
(*                                                                         *)
(* The code nets each bucket (counterparty, netting set, value date,       *)
(* currency) by cancelling every cashflow against a stack of unmatched     *)
(* opposite amounts, so that no intermediate sum can overflow.             *)
(***************************************************************************)
EXTENDS Integers, Sequences, SequencesExt, FxTrade

Directions == {"Outgoing", "Incoming"}

SettlementKeys ==
  [counterparty : Counterparties, nettingSet : NettingSets,
   valueDate : Dates, currency : Currencies]

Obligations ==
  [key : SettlementKeys, direction : Directions, amount : 0..MaxMinor]

(* NetAccumulator: the direction of the net, or "None", and the amounts in *)
(* that direction that nothing has cancelled yet.                          *)
NoCashflow == [direction |-> "None", unmatched |-> <<>>]

(* The while loop of add_cashflow: an arriving amount pops the opposite    *)
(* amounts it covers and reduces the first one it does not.  step[n] is    *)
(* the loop after n iterations.                                            *)
CancelTop(s) ==
  LET top == Last(s.stack)
  IN  IF s.left = 0 THEN s
      ELSE IF top > s.left
      THEN [left |-> 0, stack |-> Append(Front(s.stack), top - s.left)]
      ELSE [left |-> s.left - top, stack |-> Front(s.stack)]

CancelAgainst(unmatched, amount) ==
  LET step[n \in 0..Len(unmatched)] ==
        IF n = 0 THEN [left |-> amount, stack |-> unmatched]
        ELSE CancelTop(step[n - 1])
  IN  step[Len(unmatched)]

(* Mutants of AddCashflow: what the stack does not cover is lost; the       *)
(* direction of an accumulator that nets to zero is kept.                  *)
AddLosingRest(net, flow) ==
  IF net.direction \in {"None", flow.direction}
  THEN [direction |-> flow.direction,
        unmatched |-> Append(net.unmatched, flow.amount)]
  ELSE LET rest == CancelAgainst(net.unmatched, flow.amount)
       IN  [direction |-> IF rest.stack = <<>> THEN "None" ELSE net.direction,
            unmatched |-> rest.stack]

AddKeepingDirection(net, flow) ==
  IF net.direction \in {"None", flow.direction}
  THEN [direction |-> flow.direction,
        unmatched |-> Append(net.unmatched, flow.amount)]
  ELSE LET rest == CancelAgainst(net.unmatched, flow.amount)
       IN  IF rest.left > 0
           THEN [direction |-> flow.direction,
                 unmatched |-> Append(rest.stack, rest.left)]
           ELSE [direction |-> net.direction, unmatched |-> rest.stack]

AddCashflow(net, flow) ==
  IF net.direction \in {"None", flow.direction}
  THEN [direction |-> flow.direction,
        unmatched |-> Append(net.unmatched, flow.amount)]
  ELSE LET rest == CancelAgainst(net.unmatched, flow.amount)
       IN  IF rest.left > 0
           THEN [direction |-> flow.direction,
                 unmatched |-> Append(rest.stack, rest.left)]
           ELSE [direction |-> IF rest.stack = <<>> THEN "None"
                               ELSE net.direction,
                 unmatched |-> rest.stack]

(* The two cashflows of a settled trade: its pay leg goes out, its receive *)
(* leg comes in.                                                           *)
Cashflow(trade, money, direction) ==
  [key |-> [counterparty |-> trade.path.counterparty,
            nettingSet |-> trade.path.nettingSet,
            valueDate |-> trade.terms.valueDate,
            currency |-> money.currency],
   direction |-> direction,
   amount |-> money.amount]

Cashflows(trade) == << Cashflow(trade, trade.terms.pay, "Outgoing"),
                       Cashflow(trade, trade.terms.receive, "Incoming") >>

(* One round of the loop over the trades, as the bucket of key sees it: of *)
(* the pay leg and then the receive leg it takes what belongs to it.       *)
AddTo(key, net, flow) == IF flow.key = key THEN AddCashflow(net, flow) ELSE net

AddTrade(key, net, trade) ==
  AddTo(key, AddTo(key, net, Cashflows(trade)[1]), Cashflows(trade)[2])

(* The entry of net_by_key after the first n trades is net[n].             *)
NetOf(trades, key) ==
  LET net[n \in 0..Len(trades)] ==
        IF n = 0 THEN NoCashflow ELSE AddTrade(key, net[n - 1], trades[n])
  IN  net[Len(trades)]

(* total_magnitude                                                         *)
Magnitude(net) == SumFunction(net.unmatched)

KeysOf(trades) ==
  UNION {{Cashflows(trades[i])[leg].key : leg \in 1..2} : i \in DOMAIN trades}

NonZeroKeys(trades) ==
  {key \in KeysOf(trades) : NetOf(trades, key).direction \in Directions}

(* Mutant of SettlementError: the largest amount counts as too large.      *)
SettlementErrorAtMax(trades) ==
  Fail(\E key \in NonZeroKeys(trades) :
         Magnitude(NetOf(trades, key)) \notin 0..(MaxMinor - 1),
       "ArithmeticOverflow")

(* derive_bilateral_settlements over the settled trades in map order.  The *)
(* obligations are sorted on a key that identifies them: a set.            *)
SettlementError(trades) ==
  Fail(\E key \in NonZeroKeys(trades) :
         Magnitude(NetOf(trades, key)) \notin 0..MaxMinor,
       "ArithmeticOverflow")

DeriveSettlements(trades) ==
  {LET net == NetOf(trades, key)
   IN  [key |-> key, direction |-> net.direction, amount |-> Magnitude(net)]
   : key \in NonZeroKeys(trades)}

=============================================================================
