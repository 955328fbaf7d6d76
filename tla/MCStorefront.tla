---- MODULE MCStorefront ----
(***************************************************************************)
(* The cart and the product page of one shopper.  Neither reads what the   *)
(* other keeps, so every interleaving of the two is one of each; the run   *)
(* takes a shopper who is busy with the one or with the other.             *)
(***************************************************************************)
EXTENDS Storefront, ProductPage

CONSTANTS EUR, p1, p2, r1, r2

VARIABLE busyWith

mcVars == <<vars, pageVars, busyWith>>

\* No review; one; a tie of three; a tie that rounds down twice; and three shares of seven.
MCReviewLists == {<< >>, <<45>>, <<4, 26, 50>>, <<10, 10, 24, 25, 35, 50>>,
                  <<14, 15, 30, 44, 45, 50, 50>>}

MCInit ==
    /\ busyWith \in {"cart", "product"}
    /\ Init /\ PageInit
    /\ busyWith = "cart" => product = p1 /\ \A p \in Products : reviewsOf[p] = << >>
    /\ busyWith = "product" => client = "web" /\ stored = None

MCNext ==
    /\ UNCHANGED busyWith
    /\ \/ busyWith = "cart" /\ Next /\ UNCHANGED pageVars
       \/ busyWith = "product" /\ PageNext /\ UNCHANGED vars

MCSpec == MCInit /\ [][MCNext]_mcVars /\ Fairness

====
