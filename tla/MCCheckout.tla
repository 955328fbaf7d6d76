----------------------------- MODULE MCCheckout -----------------------------
EXTENDS Checkout, TLC

\* Orders and handlers of AddItem are interchangeable.
Symmetry == Permutations(Orders) \cup Permutations(Adders)
=============================================================================
