----------------------------- MODULE MCBackbook -----------------------------
(***************************************************************************)
(* Small instances of Backbook for TLC.                                    *)
(***************************************************************************)
EXTENDS Backbook, TLC

CONSTANTS c1, n1, n2, b1, usd, jpy       \* model values
CONSTANT Blocks                          \* four posting identifiers each

Cash(currency, amount) == [currency |-> currency, amount |-> amount]
Terms(pay, receive, date) ==
  [pay |-> pay, receive |-> receive, valueDate |-> date]
Path(n) == [counterparty |-> c1, nettingSet |-> n, book |-> b1]

(* Two netting sets of one counterparty; JPY may only be paid on the first *)
(* one, so that a JPY trade on the second meets an unknown node below      *)
(* known ones.                                                             *)
MCPaths == {Path(n1), Path(n2)}

MCCapacity ==
  << <<>>, usd >>          :> 4 @@ << <<c1>>, usd >>         :> 3 @@
  << <<c1, n1>>, usd >>    :> 3 @@ << <<c1, n1, b1>>, usd >> :> 3 @@
  << <<c1, n2>>, usd >>    :> 2 @@ << <<c1, n2, b1>>, usd >> :> 2 @@
  << <<>>, jpy >>          :> 2 @@ << <<c1>>, jpy >>         :> 2 @@
  << <<c1, n1>>, jpy >>    :> 1 @@ << <<c1, n1, b1>>, jpy >> :> 2

(* Two trades of 3 JPY each overflow a bucket of width 4 unless they net.  *)
MCTerms == { Terms(Cash(usd, 2), Cash(jpy, 3), 1),
             Terms(Cash(usd, 1), Cash(jpy, 3), 1),
             Terms(Cash(jpy, 1), Cash(usd, 2), 1),
             Terms(Cash(jpy, 1), Cash(usd, 2), 2) }

MCPostingIds == Blocks \X (1..4)

(* Every block is a tuple of fresh identifiers; a tuple may also repeat an *)
(* identifier.  Commands may use a block twice, in one amendment too.      *)
MCIds ==
  {[i \in 1..4 |-> <<b, i>>] : b \in Blocks}
  \cup {[i \in 1..4 |-> <<b, IF i = 4 THEN 1 ELSE i>>] : b \in Blocks}

BlockSymmetry == Permutations(Blocks)

=============================================================================
