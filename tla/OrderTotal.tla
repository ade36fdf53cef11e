------------------------------ MODULE OrderTotal ------------------------------
(* What an order costs, computed three times: by viewCartHandler before    *)
(* the order, by PlaceOrder for the charge, by placeOrderHandler for the   *)
(* order page.  Each multiplies every item with MultiplySlow and adds the  *)
(* products, and each adds the shipping cost at another place.  Prices in  *)
(* a currency are what currencyservice answers, the same each time.        *)
EXTENDS Money, Sequences

CONSTANTS
    Currencies,
    Amounts,        \* [units, nanos] of the localized prices and shipping
    MaxItems,       \* bound of the model: products in the cart
    MaxQuantity,    \* bound of the model: pieces of a product in the cart
    NoMoney         \* nothing computed yet

Totals == [units : Int, nanos : Int, currency : Currencies]

\* The cheapest amount of the shop is 8.99 USD of shipping or a product of
\* 5.49 USD, and no currency's rate makes less than one unit of it.
ASSUME AmountAssumption ==
    /\ Amounts \subseteq [units : Nat \ {0}, nanos : 0..NanosMod - 1]
    /\ MaxItems \in Nat
    /\ MaxQuantity \in Nat
    /\ NoMoney \notin Totals
    /\ Panic \notin Totals
    /\ NoMoney # Panic

Items == [cost : [Currencies -> Amounts], quantity : 1..MaxQuantity]

VARIABLES
    currency,       \* the shop_currency cookie
    shipping,       \* the shipping quote in every currency
    items,          \* the cart
    due,            \* the exact cost of the first k - 1 items, in nanos
    place,          \* the handler that computes, "shop" before, "done" after
    next,           \* the item it works on
    out, left,      \* MultiplySlow's result so far and its counter
    total,          \* the handler's running total
    shown, charged, paid    \* what each handler came to

order == <<currency, shipping, items, due>>
results == <<shown, charged, paid>>
vars == <<order, place, next, out, left, total, results>>

Localized(a, c) == Money(a.units, a.nanos, c)

Init ==
    /\ currency \in Currencies
    /\ shipping \in [Currencies -> Amounts]
    /\ items = <<>>
    /\ due = << [c \in Currencies |-> 0] >>
    /\ place = "shop"
    /\ next = 1
    /\ out = NoMoney
    /\ left = 0
    /\ total = NoMoney
    /\ shown = NoMoney
    /\ charged = NoMoney
    /\ paid = NoMoney

-----------------------------------------------------------------------------
(* The shopper *)

AddToCart(item) ==
    /\ place = "shop"
    /\ Len(items) < MaxItems
    /\ items' = Append(items, item)
    /\ due' = Append(due, [c \in Currencies |->
                  due[Len(due)][c]
                      + item.quantity * Value(Localized(item.cost[c], c))])
    /\ shown' = NoMoney
    /\ UNCHANGED <<currency, shipping, place, next, out, left, total, charged,
                   paid>>

SetCurrency(c) ==
    /\ place = "shop"
    /\ currency' = c
    /\ UNCHANGED <<shipping, items, due, place, next, out, left, total,
                   results>>

-----------------------------------------------------------------------------
(* The three handlers *)

Enter(handler, first) ==
    /\ place' = handler
    /\ next' = 1
    /\ total' = first
    /\ UNCHANGED <<out, left>>

Zero == Money(0, 0, currency)

\* totalPrice starts from zero and takes the shipping last.
ViewCart ==
    /\ place = "shop"
    /\ Enter("cart", Zero)
    /\ UNCHANGED <<order, results>>

\* total starts from zero and takes the shipping first.
PlaceOrder ==
    /\ place = "shop"
    /\ Enter("checkout", MustSum(Zero, Localized(shipping[currency], currency)))
    /\ UNCHANGED <<order, results>>

\* totalPaid starts from the shipping.
ShowOrder ==
    /\ place = "charged"
    /\ Enter("order", Localized(shipping[currency], currency))
    /\ UNCHANGED <<order, results>>

Computing == place \in {"cart", "checkout", "order"} /\ total # Panic

Cost == Localized(items[next].cost[currency], currency)

BeginItem ==
    /\ Computing
    /\ out = NoMoney
    /\ next <= Len(items)
    /\ out' = Cost
    /\ left' = items[next].quantity
    /\ UNCHANGED <<order, place, next, total, results>>

\* Mutant: a loop condition that is true of every unsigned number.
MoreToMultiply_Unsigned == left >= 0

MoreToMultiply == left > 1

Multiply ==
    /\ Computing
    /\ out \notin {NoMoney, Panic}
    /\ MoreToMultiply
    /\ out' = MustSum(out, Cost)
    /\ left' = left - 1
    /\ UNCHANGED <<order, place, next, total, results>>

AddItem ==
    /\ Computing
    /\ out \notin {NoMoney, Panic}
    /\ ~MoreToMultiply
    /\ total' = MustSum(total, out)
    /\ out' = NoMoney
    /\ left' = 0
    /\ next' = next + 1
    /\ UNCHANGED <<order, place, results>>

AllAdded == Computing /\ out = NoMoney /\ next > Len(items)

ShowCart ==
    /\ place = "cart"
    /\ AllAdded
    /\ shown' = MustSum(total, Localized(shipping[currency], currency))
    /\ place' = "shop"
    /\ total' = NoMoney
    /\ UNCHANGED <<order, next, out, left, charged, paid>>

Charge ==
    /\ place = "checkout"
    /\ AllAdded
    /\ charged' = total
    /\ place' = "charged"
    /\ total' = NoMoney
    /\ UNCHANGED <<order, next, out, left, shown, paid>>

ShowPaid ==
    /\ place = "order"
    /\ AllAdded
    /\ paid' = total
    /\ place' = "done"
    /\ total' = NoMoney
    /\ UNCHANGED <<order, next, out, left, shown, charged>>

Next ==
    \/ \E item \in Items : AddToCart(item)
    \/ \E c \in Currencies : SetCurrency(c)
    \/ ViewCart
    \/ PlaceOrder
    \/ ShowOrder
    \/ BeginItem
    \/ Multiply
    \/ AddItem
    \/ ShowCart
    \/ Charge
    \/ ShowPaid

Spec == Init /\ [][Next]_vars

-----------------------------------------------------------------------------
TypeOK ==
    /\ currency \in Currencies
    /\ shipping \in [Currencies -> Amounts]
    /\ items \in Seq(Items)
    /\ due \in Seq([Currencies -> Nat])
    /\ Len(due) = Len(items) + 1
    /\ place \in {"shop", "cart", "checkout", "charged", "order", "done"}
    /\ next \in 1..Len(items) + 1
    /\ out \in Totals \cup {NoMoney, Panic}
    /\ left \in 0..MaxQuantity
    /\ total \in Totals \cup {NoMoney, Panic}
    /\ shown \in Totals \cup {NoMoney, Panic}
    /\ charged \in Totals \cup {NoMoney}
    /\ paid \in Totals \cup {NoMoney}

\* The card is charged with the exact sum of shipping and all pieces of all
\* items, however the nanos of the partial sums carry.
ChargedExactly ==
    charged # NoMoney =>
        /\ IsValid(charged)
        /\ Value(charged) = due[Len(due)][currency]
                                + Value(Localized(shipping[currency], currency))

\* The order page says what was charged, and so did the cart page if the
\* cart and the currency are still the same, although each adds the amounts
\* in another order: as records, since the pages print units and nanos.
PagesAgree ==
    charged # NoMoney =>
        /\ paid # NoMoney => paid = charged
        /\ shown # NoMoney /\ shown.currency = charged.currency => shown = charged

\* The three handlers that add up an order come to one amount, and it is the
\* exact one.
TotalsExact == ChargedExactly /\ PagesAgree

\* No partial sum is an amount the next Sum refuses: Must never panics.
NothingPanics == out # Panic /\ total # Panic /\ shown # Panic
=============================================================================
