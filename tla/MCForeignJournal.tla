-------------------------- MODULE MCForeignJournal --------------------------
(***************************************************************************)
(* A small instance of ForeignJournal for TLC: journals of one trade's     *)
(* life, and the same with one thing wrong in each.                        *)
(***************************************************************************)
EXTENDS ForeignJournal, TLC

CONSTANTS c1, n1, b1, t1, usd, jpy, book1, confirm1, amend1, eod1  \* model values

MCCapacity ==
  << <<>>, usd >>       :> 3 @@ << <<c1>>, usd >>         :> 3 @@
  << <<c1, n1>>, usd >> :> 3 @@ << <<c1, n1, b1>>, usd >> :> 3

MCPostingIds == {"k", "l", "m"} \X (1..4)
Ids(block) == [i \in Lines |-> <<block, i>>]

Pays(amount) ==
  [pay |-> [currency |-> usd, amount |-> amount],
   receive |-> [currency |-> jpy, amount |-> 1], valueDate |-> 1]

Booked == [kind |-> "TradeBooked", tradeId |-> t1, terms |-> Pays(2),
           path |-> [counterparty |-> c1, nettingSet |-> n1, book |-> b1]]
Confirmed == [kind |-> "TradeConfirmed", tradeId |-> t1, expectedVersion |-> 1,
              postingIds |-> Ids("k")]
Amended == [kind |-> "TradeAmended", tradeId |-> t1, expectedVersion |-> 1,
            terms |-> Pays(1), reversalIds |-> Ids("l"), postingIds |-> Ids("m")]
Cancelled == [kind |-> "TradeCancelled", tradeId |-> t1, expectedVersion |-> 1,
              reversalIds |-> NoReversalIds]
Day == [kind |-> "EodRun", asOf |-> 1]

MCEnvelopes == {[commandId |-> book1, command |-> Booked],
                [commandId |-> confirm1, command |-> Confirmed]}

(* Two documents that are these commands, and one that is refused.         *)
MCRequests ==
  {[contentType |-> "application/json", body |-> body] : body \in
    { Bad,
      [commandId |-> book1, type |-> "BOOK_TRADE", payload |->
        [tradeId |-> t1, bookId |-> b1, counterpartyId |-> c1, nettingSetId |-> n1,
         terms |-> [kind |-> "FX_SPOT", tradeDate |-> 1, valueDate |-> 1,
                    pay |-> [currency |-> usd, minorUnits |-> 2],
                    receive |-> [currency |-> jpy, minorUnits |-> 1]]]],
      [commandId |-> confirm1, type |-> "CONFIRM_TRADE", expectedVersion |-> 1,
       payload |-> [tradeId |-> t1, postingIds |->
         [name \in {ConfirmationFields[i] : i \in Lines} |->
            <<"k", CHOOSE i \in Lines : ConfirmationFields[i] = name>>]]] }}

-----------------------------------------------------------------------------
Batch(n, id, command, result) ==
  [sequence |-> n, commandId |-> id, events |-> <<command>>, result |-> result,
   request |-> [commandId |-> id, command |-> command]]

OfTrade(command, version, stateVersion) ==
  [kind |-> command.kind, tradeId |-> t1, version |-> version,
   stateVersion |-> stateVersion]
OfDay(settled, stateVersion) ==
  [kind |-> "EodRun", asOf |-> 1, settledCount |-> settled,
   stateVersion |-> stateVersion]

First == Batch(1, book1, Booked, OfTrade(Booked, 1, 1))
Second == Batch(2, confirm1, Confirmed, OfTrade(Confirmed, 1, 2))
Third == Batch(3, amend1, Amended,
               [kind |-> "TradeAmended", tradeId |-> t1, supersededVersion |-> 1,
                replacementVersion |-> 2, stateVersion |-> 3])
Settling(settled, stateVersion) ==
  Batch(3, eod1, Day, OfDay(settled, stateVersion))

Files(batches) == {[i \in DOMAIN b |-> Frame(b[i])] : b \in batches}

(* Journals that the service could have written; the last holds a request  *)
(* that is not the one its event came from, which nobody can tell.         *)
Own ==
  Files({ <<>>, <<First>>, <<First, Second>>, <<First, Second, Third>>,
          <<First, Second, Settling(1, 3)>>,
          <<Batch(1, eod1, Day, OfDay(0, 0)),
            [First EXCEPT !.sequence = 2]>>,
          <<First, [Second EXCEPT !.request.command.postingIds = Ids("l")]>> })

Wrong ==
  Files({ <<Second>>,                                        \* sequence
          <<First, [Second EXCEPT !.sequence = 3]>>,
          <<First, First>>,
          <<First, [Second EXCEPT !.sequence = 2,            \* identifier
                                  !.commandId = book1,
                                  !.request.commandId = book1]>>,
          <<[First EXCEPT !.request.commandId = eod1]>>,     \* request
          <<First, [Second EXCEPT !.request.command = Cancelled]>>,
          <<[First EXCEPT !.events = <<>>]>>,                \* events
          <<[First EXCEPT !.events = <<Booked, Confirmed>>]>>,
          <<First, [Second EXCEPT !.events[1].expectedVersion = 0]>>,
          <<First, [Second EXCEPT !.events[1].expectedVersion = 2]>>,
          <<First, Second, Batch(3, amend1, Cancelled, OfTrade(Cancelled, 1, 3))>>,
          <<[First EXCEPT !.result.stateVersion = 0]>>,      \* result
          <<[First EXCEPT !.result.version = 2]>>,
          <<First, [Second EXCEPT !.result.kind = "TradeCancelled"]>>,
          <<First, Second, [Third EXCEPT !.result.replacementVersion = 1]>>,
          <<First, Second, Settling(0, 3)>>,
          <<First, Second, Settling(1, 2)>> })

(* A frame that is short or corrupt: behind whole ones, in front of them,  *)
(* between them, and behind one with a request that is not its own.        *)
Damaged ==
  UNION { {Append(f, wrong) : f \in Files({ <<>>, <<First>>, <<First, Second>> })}
          \cup {<<wrong, Frame(First)>>,
                <<Frame(First), wrong, Frame(Second)>>,
                <<Frame([First EXCEPT !.request.commandId = eod1]), wrong>>} :
          wrong \in {TornFrame, CorruptFrame} }

MCJournals == Own \cup Wrong \cup Damaged

=============================================================================
