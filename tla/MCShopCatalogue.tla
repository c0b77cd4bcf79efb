------------------------- MODULE MCShopCatalogue -------------------------
(* Instances of ShopCatalogue for TLC. *)
EXTENDS ShopCatalogue, TLC

CONSTANTS r1, r2

Interchangeable == Permutations({r1, r2})

On(price) == [active |-> TRUE, price |-> price]

OneShop ==
    [multi |-> FALSE, places |-> <<0>>, services |-> <<5>>, offers |-> (<<1, 1>> :> On(None)),
     barbers |-> 1, team |-> (<<1, 1>> :> TRUE), skills |-> {<<1, 1, 1>>}]

\* The first shop has a price of its own, the second has no barber yet.
TwoShops ==
    [multi |-> TRUE, places |-> <<0, 1>>, services |-> <<5>>,
     offers |-> (<<1, 1>> :> On(9) @@ <<1, 2>> :> On(None)),
     barbers |-> 1, team |-> (<<1, 1>> :> TRUE), skills |-> {<<1, 1, 1>>}]

MCInstallations == {OneShop, TwoShops}
MCServiceChanges == {[price |-> 7], [price |-> 7, priceOverride |-> None], [isActive |-> FALSE]}
MCOfferChanges == {[price |-> 7], [active |-> FALSE], [active |-> TRUE]}
=============================================================================
