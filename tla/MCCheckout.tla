----------------------------- MODULE MCCheckout -----------------------------
(* Model-checking instance of Checkout.                                    *)
EXTENDS Checkout, TLC

Symmetry == Permutations(Products) \cup Permutations(Tabs)
=============================================================================
