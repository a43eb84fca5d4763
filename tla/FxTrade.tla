------------------------------ MODULE FxTrade ------------------------------
(***************************************************************************)
(* Trades, their contractual terms and their lifecycle                     *)
(* (src/domain/trade.cpp, lifecycle.cpp, fx_terms.cpp).                    *)
(*                                                                         *)
(* A trade is an immutable value: an operation returns a new one.  The     *)
(* instrument kind and the trade date are carried by the code and never    *)
(* looked at after a trade is built; they are left out.                    *)
(***************************************************************************)
EXTENDS Naturals, Outcome

CONSTANTS
  TradeIds, Books, Counterparties, NettingSets,   \* identifiers
  Currencies,                                     \* the supported currencies
  Dates,                                          \* value dates, ordered
  MaxMinor,            \* largest amount of minor units (2^63 - 1 in the code)
  MaxTradeVersion      \* largest trade version (2^32 - 1 in the code)

ASSUME DatesAreOrdered == Dates \subseteq Nat
ASSUME WidthsArePositive == /\ MaxMinor \in Nat \ {0}
                            /\ MaxTradeVersion \in Nat \ {0}

(* Version 0 is no version: it stands for an empty optional link.          *)
NoVersion == 0
Versions == 1..MaxTradeVersion

Money == [currency : Currencies, amount : 1..MaxMinor]

(* FxTerms::create accepts positive amounts of two different currencies.   *)
FxTerms ==
  {t \in [pay : Money, receive : Money, valueDate : Dates] :
     t.pay.currency # t.receive.currency}

LimitPath ==
  [counterparty : Counterparties, nettingSet : NettingSets, book : Books]

TradeStates == {"Captured", "Confirmed", "Superseded", "Cancelled", "Settled"}

Trades ==
  [id : TradeIds, version : Versions, path : LimitPath, terms : FxTerms,
   state : TradeStates,
   supersedes : Versions \cup {NoVersion},
   supersededBy : Versions \cup {NoVersion}]

-----------------------------------------------------------------------------
(* The transition table.                                                   *)

Illegal == "IllegalTransition"

Transition(state, action) ==
  CASE state = "Captured"  /\ action = "ConfirmTrade" -> "Confirmed"
    [] state = "Captured"  /\ action = "CancelTrade"  -> "Cancelled"
    [] state = "Confirmed" /\ action = "AmendTrade"   -> "Superseded"
    [] state = "Confirmed" /\ action = "CancelTrade"  -> "Cancelled"
    [] state = "Confirmed" /\ action = "RunEod"       -> "Settled"
    [] OTHER -> Illegal

Capture(id, path, terms) ==
  [id |-> id, version |-> 1, path |-> path, terms |-> terms,
   state |-> "Captured",
   supersedes |-> NoVersion, supersededBy |-> NoVersion]

(* Trade::apply refuses AmendTrade, which needs replacement terms.         *)
ApplyError(trade, action) ==
  Fail(Transition(trade.state, action) = Illegal \/ action = "AmendTrade",
       Illegal)

(* Mutant of Apply: the new value is built without its origin.             *)
ApplyWithoutOrigin(trade, action) ==
  [trade EXCEPT !.state = Transition(trade.state, action),
                !.supersedes = NoVersion]

Apply(trade, action) ==
  [trade EXCEPT !.state = Transition(trade.state, action)]

-----------------------------------------------------------------------------
(* Amendment: the current version becomes Superseded, its replacement is   *)
(* Confirmed from the start, and the two point at each other.              *)

AmendmentError(trade) ==
     Fail(Transition(trade.state, "AmendTrade") # "Superseded",
          "AmendmentRequiresConfirmed")
  ?? Fail(trade.version = NoVersion, "InvalidVersion")
  ?? Fail(trade.version = MaxTradeVersion, "VersionOverflow")

(* Mutant of Superseded: the old version does not name its successor.      *)
SupersededUnlinked(trade) == [trade EXCEPT !.state = "Superseded"]

Superseded(trade) ==
  [trade EXCEPT !.state = "Superseded", !.supersededBy = trade.version + 1]

Replacement(trade, terms) ==
  [trade EXCEPT !.version = trade.version + 1, !.terms = terms,
                !.state = "Confirmed", !.supersedes = trade.version,
                !.supersededBy = NoVersion]

=============================================================================
