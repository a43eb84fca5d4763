---------------------------- MODULE MCHttpServer ----------------------------
(***************************************************************************)
(* Small instances of HttpServer for TLC: the documents of one trade's     *)
(* life, four of them under one command identifier, and documents with one *)
(* thing wrong in each.                                                    *)
(***************************************************************************)
EXTENDS HttpServer, TLC

CONSTANTS c1, n1, b1, t1, usd, jpy, book1, confirm1, amend1, eod1  \* model values

MCCapacity ==
  << <<>>, usd >>       :> 3 @@ << <<c1>>, usd >>         :> 3 @@
  << <<c1, n1>>, usd >> :> 3 @@ << <<c1, n1, b1>>, usd >> :> 3

MCPostingIds == {"k", "l", "m"} \X (1..4)

Units(currency, amount) == [currency |-> currency, minorUnits |-> amount]
Terms(pay, receive) ==
  [kind |-> "FX_SPOT", tradeDate |-> 1, valueDate |-> 1,
   pay |-> Units(usd, pay), receive |-> Units(jpy, receive)]
Confirming(block) == [name \in {ConfirmationFields[i] : i \in Lines} |->
                        <<block, CHOOSE i \in Lines : ConfirmationFields[i] = name>>]
Reversing(block) == [name \in {ReversalFields[i] : i \in Lines} |->
                       <<block, CHOOSE i \in Lines : ReversalFields[i] = name>>]

Payload(terms) ==
  [tradeId |-> t1, bookId |-> b1, counterpartyId |-> c1, nettingSetId |-> n1,
   terms |-> terms]
Book(terms) ==
  [commandId |-> book1, type |-> "BOOK_TRADE", payload |-> Payload(terms)]

Confirm == [commandId |-> confirm1, type |-> "CONFIRM_TRADE", expectedVersion |-> 1,
            payload |-> [tradeId |-> t1, postingIds |-> Confirming("k")]]
Amend == [commandId |-> amend1, type |-> "AMEND_TRADE", expectedVersion |-> 1,
          payload |-> [tradeId |-> t1, replacementTerms |-> Terms(1, 1),
                       reversalPostingIds |-> Reversing("l"),
                       replacementPostingIds |-> Confirming("m")]]
AmendBeyondLimit == [Amend EXCEPT !.payload.replacementTerms = Terms(4, 1)]
Cancel == [commandId |-> amend1, type |-> "CANCEL_TRADE", expectedVersion |-> 1,
           payload |-> [tradeId |-> t1]]
CancelWithIds ==
  [Cancel EXCEPT !.payload = [tradeId |-> t1, reversalPostingIds |-> Reversing("l")]]
Eod == [commandId |-> eod1, type |-> "RUN_EOD", payload |-> [asOfDate |-> 1]]

Posted(body) == [contentType |-> "application/json", body |-> body]

WellFormed ==
  {Posted(body) : body \in {Book(Terms(2, 1)), Confirm, Amend, AmendBeyondLimit,
                            Cancel, CancelWithIds, Eod}}

IllFormed ==
  {Posted(body) : body \in
     { TooLarge, Malformed, Bad,
       Book(Terms(0, 1)),                                   \* amount not positive
       [Confirm EXCEPT !.payload.tradeId = Bad],
       [Confirm EXCEPT !.expectedVersion = Bad],
       [Eod EXCEPT !.type = "CLOSE_DAY"],
       Eod @@ [expectedVersion |-> 1],                      \* not on a trade
       [commandId |-> confirm1, type |-> "CONFIRM_TRADE",   \* without a version
        payload |-> Confirm.payload],
       Eod @@ [comment |-> 1],
       [Amend EXCEPT !.payload.reversalPostingIds = Confirming("l")] }}
  \cup {[contentType |-> "text/plain", body |-> Eod]}

MCRequests == WellFormed \cup IllFormed
MCEnvelopes == {EnvelopeOf(r.body) : r \in WellFormed}

ThreadSymmetry == Permutations(Threads)

=============================================================================
