------------------------------- MODULE Limits -------------------------------
(***************************************************************************)
(* The limit hierarchy (src/domain/limits.cpp).                            *)
(*                                                                         *)
(* A balance stands at a node and a currency.  Its capacity is fixed when  *)
(* the hierarchy is created; reserve and release move its reserved amount, *)
(* at the four nodes of a path together or at none.                        *)
(***************************************************************************)
EXTENDS Integers, Sequences, FiniteSetsExt, FxTrade

CONSTANT Capacity        \* LimitDefinitions: [limit keys -> minor units]

LimitKeys == DOMAIN Capacity

(* LimitNode: the group, a counterparty, a netting set of one, or a book.  *)
(* A node is the sequence of its path components below the group.          *)
LimitNodes ==
  {<<>>} \cup {<<c>> : c \in Counterparties}
         \cup {<<c, n>> : c \in Counterparties, n \in NettingSets}
         \cup {<<c, n, b>> : c \in Counterparties, n \in NettingSets, b \in Books}

(* LimitHierarchy::create refuses negative capacities; a map has no        *)
(* duplicate key, and an amount has the width of Money::MinorUnits.        *)
ASSUME CapacityIsValid == /\ LimitKeys \subseteq LimitNodes \X Currencies
                          /\ Capacity \in [LimitKeys -> 0..MaxMinor]

(* LimitPath::nodes, from the root to the leaf.                            *)
Nodes(path) ==
  << <<>>,
     <<path.counterparty>>,
     <<path.counterparty, path.nettingSet>>,
     <<path.counterparty, path.nettingSet, path.book>> >>

PathKey(path, money, level) == <<Nodes(path)[level], money.currency>>

PathKeys(path, money) == {PathKey(path, money, level) : level \in 1..4}

(* What reserve and release report: the failure at the first node, from    *)
(* the root, that is unknown or has no room for the amount.                *)
PathError(path, money, HasRoom(_), code) ==
  LET failing == {level \in 1..4 :
                    LET key == PathKey(path, money, level)
                    IN  key \notin LimitKeys \/ ~HasRoom(key)}
  IN     Fail(money.amount <= 0, "NonPositiveReservation")
      ?? IF failing = {} THEN Ok
         ELSE IF PathKey(path, money, Min(failing)) \notin LimitKeys
              THEN "UnknownNode"
              ELSE code

ReserveError(reserved, path, money) ==
  LET HasRoom(key) == money.amount <= Capacity[key] - reserved[key]
  IN  PathError(path, money, HasRoom, "Breach")

ReleaseError(reserved, path, money) ==
  LET HasRoom(key) == money.amount <= reserved[key]
  IN  PathError(path, money, HasRoom, "ReleaseExceedsReservation")

Reserve(reserved, path, money) ==
  [key \in LimitKeys |-> IF key \in PathKeys(path, money)
                         THEN reserved[key] + money.amount
                         ELSE reserved[key]]

Release(reserved, path, money) ==
  [key \in LimitKeys |-> IF key \in PathKeys(path, money)
                         THEN reserved[key] - money.amount
                         ELSE reserved[key]]

NothingReserved == [key \in LimitKeys |-> 0]

=============================================================================
