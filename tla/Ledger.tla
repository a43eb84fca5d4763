------------------------------- MODULE Ledger -------------------------------
(***************************************************************************)
(* Postings, ledger entries and running totals (src/domain/ledger.cpp,     *)
(* posting_policy.cpp, ledger_totals.cpp).                                 *)
(*                                                                         *)
(* An entry is the sequence of four postings that the posting policy       *)
(* builds: a confirmation entry for a confirmed version, or the reversal   *)
(* of one.  In a sum a debit counts positive and a credit negative.        *)
(***************************************************************************)
EXTENDS Integers, Sequences, FiniteSets, FxTrade

CONSTANTS PostingIds, NoPosting

ASSUME NoPostingIsNoId == NoPosting \notin PostingIds

Control(counterparty) == <<"COUNTERPARTY_CONTROL", counterparty>>
Payable(book)         == <<"SETTLEMENT_PAYABLE", book>>
Receivable(book)      == <<"SETTLEMENT_RECEIVABLE", book>>

Accounts == {Control(c) : c \in Counterparties}
            \cup {Payable(b) : b \in Books} \cup {Receivable(b) : b \in Books}

Sides == {"Debit", "Credit"}
SameSide(side) == side                 \* mutant of Opposite
Opposite(side) == IF side = "Debit" THEN "Credit" ELSE "Debit"

Postings ==
  [id : PostingIds, tradeId : TradeIds, version : Versions,
   account : Accounts, side : Sides, amount : Money,
   reversalOf : PostingIds \cup {NoPosting}]

Lines == 1..4                      \* the positions of an entry
Entries == [Lines -> Postings]
IdTuples == [Lines -> PostingIds]  \* ConfirmationPostingIds, ReversalPostingIds

-----------------------------------------------------------------------------
(* Balances.  Every sum of the code is taken posting by posting in entry   *)
(* order, with a width check at each addition.                             *)

Signed(posting, currency) ==
  IF posting.amount.currency # currency THEN 0
  ELSE IF posting.side = "Debit" THEN posting.amount.amount
       ELSE -posting.amount.amount

(* What the first n postings of an entry add to the total of a currency.   *)
RunningSum(entry, currency, n) ==
  LET Term(i) == IF i <= n THEN Signed(entry[i], currency) ELSE 0
  IN  Term(1) + Term(2) + Term(3) + Term(4)

MinorUnits == (-MaxMinor - 1)..MaxMinor        \* Money::MinorUnits

SumFits(start, entry) ==
  \A c \in Currencies, n \in Lines :
    start[c] + RunningSum(entry, c, n) \in MinorUnits

ZeroTotals == [c \in Currencies |-> 0]

(* Mutant of TotalsWith: the loop ends one posting early.                  *)
TotalsOfThree(totals, entry) ==
  [c \in Currencies |-> totals[c] + RunningSum(entry, c, 3)]

TotalsWith(totals, entry) ==
  [c \in Currencies |-> totals[c] + RunningSum(entry, c, 4)]

(* Mutant of EntryError: a posting is compared with the next one only.     *)
NeighbourError(entry) ==
     Fail(\E i \in 1..3 : entry[i].id = entry[i + 1].id,
          "LedgerDuplicatePostingId")
  ?? Fail(~SumFits(ZeroTotals, entry), "LedgerBalanceOverflow")
  ?? Fail(\E c \in Currencies : RunningSum(entry, c, 4) # 0,
          "LedgerUnbalanced")

(* LedgerEntry::create: the identifiers of an entry differ, its balances   *)
(* fit, and it is balanced in every currency on its own.                   *)
EntryError(entry) ==
     Fail(\E i, j \in Lines : i # j /\ entry[i].id = entry[j].id,
          "LedgerDuplicatePostingId")
  ?? Fail(~SumFits(ZeroTotals, entry), "LedgerBalanceOverflow")
  ?? Fail(\E c \in Currencies : RunningSum(entry, c, 4) # 0,
          "LedgerUnbalanced")

-----------------------------------------------------------------------------
(* The posting policy.                                                     *)

ConfirmationSides == <<"Debit", "Credit", "Debit", "Credit">>

ConfirmationEntry(trade, ids) ==
  LET control == Control(trade.path.counterparty)
      accounts == << control, Payable(trade.path.book),
                     Receivable(trade.path.book), control >>
  IN  [i \in Lines |->
         [id |-> ids[i], tradeId |-> trade.id, version |-> trade.version,
          account |-> accounts[i], side |-> ConfirmationSides[i],
          amount |-> IF i <= 2 THEN trade.terms.pay ELSE trade.terms.receive,
          reversalOf |-> NoPosting]]

ConfirmationEntryError(trade, ids) ==
     Fail(trade.state # "Confirmed", "TradeNotConfirmed")
  ?? EntryError(ConfirmationEntry(trade, ids))

(* is_confirmation_shape: the entry a reversal may be built from.          *)
IsConfirmationShape(entry) ==
  /\ \A i \in Lines :
       /\ entry[i].side = ConfirmationSides[i]
       /\ entry[i].reversalOf = NoPosting
       /\ entry[i].tradeId = entry[1].tradeId
       /\ entry[i].version = entry[1].version
  /\ entry[1].account[1] = "COUNTERPARTY_CONTROL"
  /\ entry[2].account[1] = "SETTLEMENT_PAYABLE"
  /\ entry[3].account[1] = "SETTLEMENT_RECEIVABLE"
  /\ entry[4].account = entry[1].account
  /\ entry[2].account[2] = entry[3].account[2]
  /\ entry[1].amount = entry[2].amount
  /\ entry[3].amount = entry[4].amount
  /\ entry[1].amount.currency # entry[3].amount.currency

ReversalEntry(original, ids) ==
  [i \in Lines |-> [original[i] EXCEPT !.id = ids[i],
                                       !.side = Opposite(original[i].side),
                                       !.reversalOf = original[i].id]]

ReversalEntryError(original, ids) ==
     Fail(~IsConfirmationShape(original), "InvalidOriginalShape")
  ?? Fail(\E i \in Lines : ids[i] = original[i].id, "PostingSelfReversal")
  ?? EntryError(ReversalEntry(original, ids))

EntryIds(entry) == {entry[i].id : i \in Lines}

=============================================================================
