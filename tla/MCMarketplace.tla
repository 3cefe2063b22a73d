---------------------------- MODULE MCMarketplace -----------------------------
(* Views for TLC: a list with a form beside the one without, then each of the *)
(* other lists alone. What two lists have in common is the refresh.           *)
EXTENDS Marketplace

TwoLists == [lists |-> <<"users", "transactions">>, created |-> 1, faults |-> 1]
OneList(l) == [lists |-> <<l>>, created |-> 2, faults |-> 1]

SomeViews == {TwoLists} \cup {OneList(l) : l \in {"nfts", "bids"}}
             \cup {[OneList(l) EXCEPT !.created = 1] : l \in Forms \ {"users", "nfts", "bids"}}
=============================================================================
