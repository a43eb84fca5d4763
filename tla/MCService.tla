----------------------------- MODULE MCService -----------------------------
(***************************************************************************)
(* A small instance of CommandService for TLC: one counterparty, netting   *)
(* set and book, two trades, headroom for one confirmation at a time.      *)
(***************************************************************************)
EXTENDS CommandService, TLC

CONSTANTS c1, n1, b1, t1, t2, usd, jpy                  \* model values
CONSTANTS book1, book2, confirm1, confirm2

Cash(currency, amount) == [currency |-> currency, amount |-> amount]
MCPath == [counterparty |-> c1, nettingSet |-> n1, book |-> b1]
MCTerms == [pay |-> Cash(usd, 2), receive |-> Cash(jpy, 1), valueDate |-> 1]

MCCapacity ==
  << <<>>, usd >>       :> 3 @@ << <<c1>>, usd >>         :> 3 @@
  << <<c1, n1>>, usd >> :> 3 @@ << <<c1, n1, b1>>, usd >> :> 3

MCPostingIds == {"k", "l"} \X (1..4)
Ids(block) == [i \in 1..4 |-> <<block, i>>]

Book(id) == [kind |-> "TradeBooked", tradeId |-> id, path |-> MCPath,
             terms |-> MCTerms]
Confirm(id, block) == [kind |-> "TradeConfirmed", tradeId |-> id,
                       expectedVersion |-> 1, postingIds |-> Ids(block)]

Envelope(id, command) == [commandId |-> id, command |-> command]

(* Two confirmations race for the headroom of one.                         *)
MCRace ==
  { Envelope(book1, Book(t1)), Envelope(book2, Book(t2)),
    Envelope(confirm1, Confirm(t1, "k")), Envelope(confirm2, Confirm(t2, "l")) }

ThreadSymmetry == Permutations(Threads)

=============================================================================
