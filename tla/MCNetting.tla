----------------------------- MODULE MCNetting -----------------------------
(***************************************************************************)
(* One counterparty bucket per currency and date; amounts up to the width. *)
(***************************************************************************)
EXTENDS Netting

CONSTANTS c1, n1, b1, t1, usd, jpy

Cash(currency, amount) == [currency |-> currency, amount |-> amount]

MCPath == [counterparty |-> c1, nettingSet |-> n1, book |-> b1]

(* JPY moves in both directions by different amounts, USD stays at one.    *)
MCSettledTerms ==
  {[pay |-> Cash(usd, 1), receive |-> Cash(jpy, a), valueDate |-> 1] : a \in 1..3}
  \cup
  {[pay |-> Cash(jpy, a), receive |-> Cash(usd, 1), valueDate |-> 1] : a \in 1..3}

=============================================================================
