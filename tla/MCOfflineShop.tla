--------------------------- MODULE MCOfflineShop ---------------------------
(* A small instance of OfflineShop for TLC. *)
EXTENDS OfflineShop, TLC

\* A keeper and two buyers.
CONSTANTS k, b1, b2

\* Two items, of which the first is repriced: beside the second, it is too dear
\* for the shop at its higher price.
OnePrices == [i \in Items |-> IF i = 1 THEN {1, 3} ELSE {3}]

\* The keeper carries everything, the buyers money enough for one dear item.  The
\* keeper's purse holds what one sale brings, but not what both do; a new shop
\* opens with the first item, the second is put beside it.
OwnersGoods == [x \in Bots |-> IF x \in Owners THEN Items ELSE {}]
Purses == [x \in Bots |-> IF x \in Owners THEN 2 ELSE 3]

\* The buyers are alike.
Buyers == Permutations(Bots \ Owners)
=============================================================================
