----------------------------- MODULE AtomicCart -----------------------------
(***************************************************************************)
(* What the cart service promises its callers: the quantities of one       *)
(* user's products; an addition adds to what is there, an emptying leaves  *)
(* nothing, and each takes effect at once.  CartStore implements it for a  *)
(* user who sends one request at a time.                                   *)
(***************************************************************************)
EXTENDS Naturals

CONSTANTS
    Products,
    MaxQuantity     \* most of a product one request may add

VARIABLE cart

Zero == [p \in Products |-> 0]

TypeOK == cart \in [Products -> Nat]

Init == cart = Zero

Add(p, n) == cart' = [cart EXCEPT ![p] = @ + n]

Empty == cart' = Zero

Next == Empty \/ \E p \in Products, n \in 1..MaxQuantity : Add(p, n)

Spec == Init /\ [][Next]_cart
=============================================================================
