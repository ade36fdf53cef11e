--------------------------- MODULE CheckoutProofs ---------------------------
(***************************************************************************)
(* For any products, tabs, quantities and number of requests, and each of  *)
(* the three stores: orders are shipped only when paid and confirmed only  *)
(* when shipped; with one tab no quantity is lost or shipped twice, and    *)
(* the cart service implements AtomicCart.                                 *)
(***************************************************************************)
EXTENDS Checkout, TLAPS

USE DEF Zero, Abs!Zero, Points, Adding, Ordering, Stores, Orders

\* A parcel in work: charged before it is shipped, shipped before its cart is
\* emptied; and the cart of a single tab is the one its request has read.
WorkOf(t) ==
    /\ pc[t] # "idle" => t \in tabs
    /\ pc[t] = "ship" => Parcel(t) \in payments
    /\ pc[t] \in {"clear", "mail"} => Parcel(t) \in shipments
    /\ OneTab /\ pc[t] \in {"write", "prepare", "charge", "ship", "clear"} =>
          seen[t] = cart

WorkInv == \A t \in Tabs : WorkOf(t)

\* While the cart of a shipped order is still to be emptied, its quantities
\* are in sent already.
Clearing == \E t \in tabs : pc[t] = "clear"
Held(p) ==
    IF Clearing THEN sent[p] + discarded[p] ELSE cart[p] + sent[p] + discarded[p]
BalanceInv ==
    OneTab => \A p \in Products :
        put[p] <= Held(p) /\ (~unemptied => put[p] = Held(p))

IInv ==
    CheckoutTypeOK /\ WorkInv /\ BalanceInv /\ ShippedWasPaid /\ ConfirmedWasShipped

-----------------------------------------------------------------------------
\* A request moves on and leaves the others where they are.
LEMMA GotoPc ==
    ASSUME pc \in [Tabs -> Points], NEW t \in Tabs, NEW point \in Points,
           Goto(t, point)
    PROVE  /\ pc' \in [Tabs -> Points]
           /\ pc'[t] = point
           /\ \A u \in Tabs \ {t} : pc'[u] = pc[u]
  BY DEF Goto

\* An item makes a cart a cart with more of one product.
LEMMA AddedCart ==
    ASSUME NEW base \in Carts, NEW i \in Items
    PROVE  /\ Added(base, i) \in Carts
           /\ i.p \in Products /\ i.n \in 1..MaxQuantity
           /\ \A p \in Products :
                 Added(base, i)[p] = IF p = i.p THEN base[p] + i.n ELSE base[p]
<1>1. i.p \in Products /\ i.n \in 1..MaxQuantity /\ i.n \in Nat
  BY CartAssumption DEF Items
<1>2. \A p \in Products : base[p] \in Nat
  BY DEF Carts
<1> QED
  BY <1>1, <1>2 DEF Added, Carts

\* Two carts make one.
LEMMA SumCart ==
    ASSUME NEW a \in Carts, NEW b \in Carts
    PROVE  [p \in Products |-> a[p] + b[p]] \in Carts
  BY DEF Carts

LEMMA ZeroCart == Zero \in Carts /\ \A p \in Products : Zero[p] = 0
  BY DEF Carts

\* The parcel of an order in work.
LEMMA ParcelTyped ==
    ASSUME NEW t \in Tabs, seen[t] \in Carts, order[t] \in Orders
    PROVE  /\ Parcel(t) \in Parcels
           /\ Parcel(t).order = order[t] /\ Parcel(t).items = seen[t]
  BY DEF Parcel, Parcels

LEMMA InitIInv == CheckoutInit => IInv
<1> SUFFICES ASSUME CheckoutInit PROVE IInv
  OBVIOUS
<1> USE DEF CheckoutInit, Init
<1>1. CheckoutTypeOK
  BY ZeroCart DEF CheckoutTypeOK, TypeOK
<1>2. WorkInv
  BY DEF WorkInv, WorkOf
<1>3. BalanceInv
  <2>1. \A p \in Products : Zero[p] = 0
    OBVIOUS
  <2>2. \A p \in Products : put[p] = 0 /\ cart[p] = 0 /\ sent[p] = 0 /\ discarded[p] = 0
    BY <2>1
  <2>3. \A t \in tabs : pc[t] # "clear"
    OBVIOUS
  <2> HIDE DEF CheckoutInit, Init
  <2>4. ASSUME NEW p \in Products
        PROVE  put[p] = cart[p] + sent[p] + discarded[p] /\ put[p] <= cart[p] + sent[p] + discarded[p]
    <3>1. put[p] = 0 /\ cart[p] = 0 /\ sent[p] = 0 /\ discarded[p] = 0
      BY <2>2
    <3>2. 0 = 0 + 0 + 0 /\ 0 <= 0 + 0 + 0
      OBVIOUS
    <3> QED
      BY <3>1, <3>2, Zenon
  <2> QED
    BY <2>3, <2>4 DEF BalanceInv, Held, Clearing
<1>4. ShippedWasPaid /\ ConfirmedWasShipped
  BY DEF ShippedWasPaid, ConfirmedWasShipped
<1> QED
  BY <1>1, <1>2, <1>3, <1>4 DEF IInv

LEMMA TypeStep == CheckoutTypeOK /\ [CheckoutNext]_vars => CheckoutTypeOK'
<1> SUFFICES ASSUME CheckoutTypeOK, [CheckoutNext]_vars PROVE CheckoutTypeOK'
  OBVIOUS
<1> USE CartAssumption DEF CheckoutTypeOK, TypeOK
<1>1. ASSUME NEW t \in Tabs, NEW i \in Items, AddToCart(t, i), UNCHANGED shop PROVE CheckoutTypeOK'
  BY <1>1 DEF AddToCart, Request, Goto, shop
<1>2. ASSUME NEW t \in Tabs, Read(t), UNCHANGED shop PROVE CheckoutTypeOK'
  BY <1>2 DEF Read, Goto, shop
<1>3. ASSUME NEW t \in Tabs, WriteCart(t), UNCHANGED shop PROVE CheckoutTypeOK'
  <2>1. item[t] \in Items
    BY <1>3 DEF WriteCart
  <2>2. cart' \in Carts /\ put' \in Carts
    BY <1>3, <2>1, AddedCart DEF WriteCart, Take
  <2>3. pc' \in [Tabs -> Points] /\ pc'[t] = "idle" /\ \A u \in Tabs \ {t} : pc'[u] = pc[u]
    BY <1>3, GotoPc DEF WriteCart, Take
  <2> QED
    BY <1>3, <2>2, <2>3 DEF WriteCart, Take, shop
<1>4. ASSUME NEW t \in Tabs, WriteRow(t), UNCHANGED shop PROVE CheckoutTypeOK'
  <2>1. item[t] \in Items
    BY <1>4 DEF WriteRow
  <2>2. Added(seen[t], item[t]) \in Carts /\ put' \in Carts
    BY <1>4, <2>1, AddedCart DEF WriteRow, Take
  <2>3. cart' \in Carts
    BY <1>4, <2>2 DEF WriteRow, Carts
  <2>4. pc' \in [Tabs -> Points] /\ pc'[t] = "idle" /\ \A u \in Tabs \ {t} : pc'[u] = pc[u]
    BY <1>4, GotoPc DEF WriteRow, Take
  <2> QED
    BY <1>4, <2>2, <2>3, <2>4 DEF WriteRow, Take, shop
<1>5. ASSUME NEW t \in Tabs, Transact(t), UNCHANGED shop PROVE CheckoutTypeOK'
  <2>1. item[t] \in Items
    BY <1>5 DEF Transact
  <2>2. cart' \in Carts /\ put' \in Carts
    BY <1>5, <2>1, AddedCart DEF Transact, Take
  <2>3. pc' \in [Tabs -> Points] /\ pc'[t] = "idle" /\ \A u \in Tabs \ {t} : pc'[u] = pc[u]
    BY <1>5, GotoPc DEF Transact, Take
  <2> QED
    BY <1>5, <2>2, <2>3 DEF Transact, Take, shop
<1>6. ASSUME NEW t \in Tabs, EmptyCart(t), UNCHANGED shop PROVE CheckoutTypeOK'
  BY <1>6 DEF EmptyCart, Request, Goto, shop
<1>7. ASSUME NEW t \in Tabs, Clear(t), UNCHANGED shop PROVE CheckoutTypeOK'
  <2>1. cart' \in Carts /\ discarded' \in Carts
    BY <1>7, ZeroCart, SumCart DEF Clear
  <2> QED
    BY <1>7, <2>1, GotoPc DEF Clear, shop
<1>8. ASSUME NEW t \in Tabs, Fail(t), UNCHANGED shop PROVE CheckoutTypeOK'
  BY <1>8 DEF Fail, Goto, shop
<1>9. ASSUME NEW t \in Tabs, PlaceOrder(t) PROVE CheckoutTypeOK'
  BY <1>9 DEF PlaceOrder, Goto, Request
<1>10. ASSUME NEW t \in Tabs, GetUserCart(t) PROVE CheckoutTypeOK'
  BY <1>10 DEF GetUserCart, Goto, shop
<1>11. ASSUME NEW t \in Tabs, Prepare(t) PROVE CheckoutTypeOK'
  BY <1>11 DEF Prepare, Goto, shop
<1>12. ASSUME NEW t \in Tabs, ChargeCard(t) PROVE CheckoutTypeOK'
  <2>1. PICK point \in {"ship", "idle"} : Goto(t, point)
    BY <1>12 DEF ChargeCard
  <2>2. payments' \subseteq Parcels
    BY <1>12, ParcelTyped DEF ChargeCard
  <2> QED
    BY <1>12, <2>1, <2>2, GotoPc DEF ChargeCard
<1>13. ASSUME NEW t \in Tabs, ShipOrder(t) PROVE CheckoutTypeOK'
  <2>1. PICK point \in {"clear", "idle"} : Goto(t, point)
    BY <1>13 DEF ShipOrder
  <2>2. shipments' \subseteq Parcels
    BY <1>13, ParcelTyped DEF ShipOrder
  <2>3. sent' \in Carts
    BY <1>13, SumCart DEF ShipOrder
  <2>4. unemptied' \in BOOLEAN
    BY <1>13 DEF ShipOrder
  <2> QED
    BY <1>13, <2>1, <2>2, <2>3, <2>4, GotoPc DEF ShipOrder
<1>14. ASSUME NEW t \in Tabs, EmptyUserCart(t) PROVE CheckoutTypeOK'
  <2>1. cart' \in Carts /\ unemptied' \in BOOLEAN
    BY <1>14, ZeroCart DEF EmptyUserCart
  <2> QED
    BY <1>14, <2>1, GotoPc DEF EmptyUserCart
<1>15. ASSUME NEW t \in Tabs, SendOrderConfirmation(t) PROVE CheckoutTypeOK'
  <2>1. mails' \subseteq Orders /\ confirmed' \subseteq Orders
    BY <1>15 DEF SendOrderConfirmation
  <2> QED
    BY <1>15, <2>1, GotoPc DEF SendOrderConfirmation
<1>16. ASSUME NEW t \in Tabs, Abort(t) PROVE CheckoutTypeOK'
  BY <1>16 DEF Abort, Goto
<1>17. CASE UNCHANGED vars
  BY <1>17 DEF vars, store_vars, shop
<1> QED
  BY <1>1, <1>2, <1>3, <1>4, <1>5, <1>6, <1>7, <1>8, <1>9, <1>10, <1>11,
     <1>12, <1>13, <1>14, <1>15, <1>16, <1>17 DEF CheckoutNext, Next

\* Every variable keeps its type.
THEOREM TypeCorrect == Spec => []CheckoutTypeOK
  BY InitIInv, TypeStep, PTL DEF Spec, IInv

-----------------------------------------------------------------------------
\* With one tab nobody else is at work.
LEMMA Alone ==
    ASSUME CheckoutTypeOK, WorkInv, OneTab, NEW t \in tabs, NEW u \in Tabs, u # t
    PROVE  pc[u] = "idle"
  BY DEF WorkInv, WorkOf, OneTab

\* A step of tab t disturbs the work of no other.
LEMMA OthersAtWork ==
    ASSUME CheckoutTypeOK, WorkInv, NEW t \in tabs, tabs' = tabs,
           \A u \in Tabs \ {t} :
              pc'[u] = pc[u] /\ seen'[u] = seen[u] /\ order'[u] = order[u],
           payments \subseteq payments', shipments \subseteq shipments'
    PROVE  \A u \in Tabs \ {t} : WorkOf(u)'
<1> SUFFICES ASSUME NEW u \in Tabs, u # t PROVE WorkOf(u)'
  OBVIOUS
<1>1. WorkOf(u)
  BY DEF WorkInv
<1>2. Parcel(u)' = Parcel(u)
  BY DEF Parcel
<1>3. OneTab' <=> OneTab
  BY DEF OneTab
<1>4. OneTab => pc[u] = "idle"
  BY Alone
<1> QED
  BY <1>1, <1>2, <1>3, <1>4 DEF WorkOf

LEMMA WorkStep == CheckoutTypeOK /\ WorkInv /\ [CheckoutNext]_vars => WorkInv'
<1> SUFFICES ASSUME CheckoutTypeOK, WorkInv, [CheckoutNext]_vars PROVE WorkInv'
  OBVIOUS
<1>0. TypeOK /\ \A t \in Tabs : WorkOf(t)
  BY DEF CheckoutTypeOK, WorkInv
<1>1. ASSUME NEW t \in Tabs, NEW i \in Items, AddToCart(t, i), UNCHANGED shop PROVE WorkInv'
  <2>1. Goto(t, "read")
    BY <1>1 DEF AddToCart, Request, shop
  <2>2. \A u \in Tabs \ {t} :
           pc'[u] = pc[u] /\ seen'[u] = seen[u] /\ order'[u] = order[u]
    BY <1>0, <1>1, <2>1, GotoPc DEF AddToCart, Request, shop, TypeOK, CheckoutTypeOK
  <2>3. t \in tabs
    BY <1>0, <1>1 DEF AddToCart, Request, shop, WorkOf
  <2>4. WorkOf(t)'
    BY <1>0, <1>1, <2>1, <2>3, GotoPc DEF AddToCart, Request, shop, WorkOf, TypeOK, CheckoutTypeOK, Parcel
  <2> QED
    BY <1>1, <2>2, <2>3, <2>4, OthersAtWork DEF AddToCart, Request, shop, WorkInv
<1>2. ASSUME NEW t \in Tabs, Read(t), UNCHANGED shop PROVE WorkInv'
  <2>1. Goto(t, "write")
    BY <1>2 DEF Read, shop
  <2>2. \A u \in Tabs \ {t} :
           pc'[u] = pc[u] /\ seen'[u] = seen[u] /\ order'[u] = order[u]
    BY <1>0, <1>2, <2>1, GotoPc DEF Read, shop, TypeOK, CheckoutTypeOK
  <2>3. t \in tabs
    BY <1>0, <1>2 DEF Read, shop, WorkOf
  <2>4. WorkOf(t)'
    BY <1>0, <1>2, <2>1, <2>3, GotoPc DEF Read, shop, WorkOf, TypeOK, CheckoutTypeOK, Parcel
  <2> QED
    BY <1>2, <2>2, <2>3, <2>4, OthersAtWork DEF Read, shop, WorkInv
<1>3. ASSUME NEW t \in Tabs, WriteCart(t), UNCHANGED shop PROVE WorkInv'
  <2>1. Goto(t, "idle")
    BY <1>3 DEF WriteCart, Take, shop
  <2>2. \A u \in Tabs \ {t} :
           pc'[u] = pc[u] /\ seen'[u] = seen[u] /\ order'[u] = order[u]
    BY <1>0, <1>3, <2>1, GotoPc DEF WriteCart, Take, shop, TypeOK, CheckoutTypeOK
  <2>3. t \in tabs
    BY <1>0, <1>3 DEF WriteCart, Take, shop, WorkOf
  <2>4. WorkOf(t)'
    BY <1>0, <1>3, <2>1, <2>3, GotoPc DEF WriteCart, Take, shop, WorkOf, TypeOK, CheckoutTypeOK, Parcel
  <2> QED
    BY <1>3, <2>2, <2>3, <2>4, OthersAtWork DEF WriteCart, Take, shop, WorkInv
<1>4. ASSUME NEW t \in Tabs, WriteRow(t), UNCHANGED shop PROVE WorkInv'
  <2>1. Goto(t, "idle")
    BY <1>4 DEF WriteRow, Take, shop
  <2>2. \A u \in Tabs \ {t} :
           pc'[u] = pc[u] /\ seen'[u] = seen[u] /\ order'[u] = order[u]
    BY <1>0, <1>4, <2>1, GotoPc DEF WriteRow, Take, shop, TypeOK, CheckoutTypeOK
  <2>3. t \in tabs
    BY <1>0, <1>4 DEF WriteRow, Take, shop, WorkOf
  <2>4. WorkOf(t)'
    BY <1>0, <1>4, <2>1, <2>3, GotoPc DEF WriteRow, Take, shop, WorkOf, TypeOK, CheckoutTypeOK, Parcel
  <2> QED
    BY <1>4, <2>2, <2>3, <2>4, OthersAtWork DEF WriteRow, Take, shop, WorkInv
<1>5. ASSUME NEW t \in Tabs, Transact(t), UNCHANGED shop PROVE WorkInv'
  <2>1. Goto(t, "idle")
    BY <1>5 DEF Transact, Take, shop
  <2>2. \A u \in Tabs \ {t} :
           pc'[u] = pc[u] /\ seen'[u] = seen[u] /\ order'[u] = order[u]
    BY <1>0, <1>5, <2>1, GotoPc DEF Transact, Take, shop, TypeOK, CheckoutTypeOK
  <2>3. t \in tabs
    BY <1>0, <1>5 DEF Transact, Take, shop, WorkOf
  <2>4. WorkOf(t)'
    BY <1>0, <1>5, <2>1, <2>3, GotoPc DEF Transact, Take, shop, WorkOf, TypeOK, CheckoutTypeOK, Parcel
  <2> QED
    BY <1>5, <2>2, <2>3, <2>4, OthersAtWork DEF Transact, Take, shop, WorkInv
<1>6. ASSUME NEW t \in Tabs, EmptyCart(t), UNCHANGED shop PROVE WorkInv'
  <2>1. Goto(t, "empty")
    BY <1>6 DEF EmptyCart, Request, shop
  <2>2. \A u \in Tabs \ {t} :
           pc'[u] = pc[u] /\ seen'[u] = seen[u] /\ order'[u] = order[u]
    BY <1>0, <1>6, <2>1, GotoPc DEF EmptyCart, Request, shop, TypeOK, CheckoutTypeOK
  <2>3. t \in tabs
    BY <1>0, <1>6 DEF EmptyCart, Request, shop, WorkOf
  <2>4. WorkOf(t)'
    BY <1>0, <1>6, <2>1, <2>3, GotoPc DEF EmptyCart, Request, shop, WorkOf, TypeOK, CheckoutTypeOK, Parcel
  <2> QED
    BY <1>6, <2>2, <2>3, <2>4, OthersAtWork DEF EmptyCart, Request, shop, WorkInv
<1>7. ASSUME NEW t \in Tabs, Clear(t), UNCHANGED shop PROVE WorkInv'
  <2>1. Goto(t, "idle")
    BY <1>7 DEF Clear, shop
  <2>2. \A u \in Tabs \ {t} :
           pc'[u] = pc[u] /\ seen'[u] = seen[u] /\ order'[u] = order[u]
    BY <1>0, <1>7, <2>1, GotoPc DEF Clear, shop, TypeOK, CheckoutTypeOK
  <2>3. t \in tabs
    BY <1>0, <1>7 DEF Clear, shop, WorkOf
  <2>4. WorkOf(t)'
    BY <1>0, <1>7, <2>1, <2>3, GotoPc DEF Clear, shop, WorkOf, TypeOK, CheckoutTypeOK, Parcel
  <2> QED
    BY <1>7, <2>2, <2>3, <2>4, OthersAtWork DEF Clear, shop, WorkInv
<1>8. ASSUME NEW t \in Tabs, Fail(t), UNCHANGED shop PROVE WorkInv'
  <2>1. Goto(t, "idle")
    BY <1>8 DEF Fail, shop
  <2>2. \A u \in Tabs \ {t} :
           pc'[u] = pc[u] /\ seen'[u] = seen[u] /\ order'[u] = order[u]
    BY <1>0, <1>8, <2>1, GotoPc DEF Fail, shop, TypeOK, CheckoutTypeOK
  <2>3. t \in tabs
    BY <1>0, <1>8 DEF Fail, shop, WorkOf
  <2>4. WorkOf(t)'
    BY <1>0, <1>8, <2>1, <2>3, GotoPc DEF Fail, shop, WorkOf, TypeOK, CheckoutTypeOK, Parcel
  <2> QED
    BY <1>8, <2>2, <2>3, <2>4, OthersAtWork DEF Fail, shop, WorkInv
<1>9. ASSUME NEW t \in Tabs, PlaceOrder(t) PROVE WorkInv'
  <2>1. Goto(t, "getcart")
    BY <1>9 DEF PlaceOrder, Request
  <2>2. \A u \in Tabs \ {t} :
           pc'[u] = pc[u] /\ seen'[u] = seen[u] /\ order'[u] = order[u]
    BY <1>0, <1>9, <2>1, GotoPc DEF PlaceOrder, Request, TypeOK, CheckoutTypeOK
  <2>3. t \in tabs
    BY <1>0, <1>9 DEF PlaceOrder, Request, WorkOf
  <2>4. WorkOf(t)'
    BY <1>0, <1>9, <2>1, <2>3, GotoPc DEF PlaceOrder, Request, WorkOf, TypeOK, CheckoutTypeOK, Parcel
  <2> QED
    BY <1>9, <2>2, <2>3, <2>4, OthersAtWork DEF PlaceOrder, Request, WorkInv
<1>10. ASSUME NEW t \in Tabs, GetUserCart(t) PROVE WorkInv'
  <2>1. Goto(t, "prepare")
    BY <1>10 DEF GetUserCart, shop
  <2>2. \A u \in Tabs \ {t} :
           pc'[u] = pc[u] /\ seen'[u] = seen[u] /\ order'[u] = order[u]
    BY <1>0, <1>10, <2>1, GotoPc DEF GetUserCart, shop, TypeOK, CheckoutTypeOK
  <2>3. t \in tabs
    BY <1>0, <1>10 DEF GetUserCart, shop, WorkOf
  <2>4. WorkOf(t)'
    BY <1>0, <1>10, <2>1, <2>3, GotoPc DEF GetUserCart, shop, WorkOf, TypeOK, CheckoutTypeOK, Parcel
  <2> QED
    BY <1>10, <2>2, <2>3, <2>4, OthersAtWork DEF GetUserCart, shop, WorkInv
<1>11. ASSUME NEW t \in Tabs, Prepare(t) PROVE WorkInv'
  <2>1. Goto(t, "charge")
    BY <1>11 DEF Prepare, shop
  <2>2. \A u \in Tabs \ {t} :
           pc'[u] = pc[u] /\ seen'[u] = seen[u] /\ order'[u] = order[u]
    BY <1>0, <1>11, <2>1, GotoPc DEF Prepare, shop, TypeOK, CheckoutTypeOK
  <2>3. t \in tabs
    BY <1>0, <1>11 DEF Prepare, shop, WorkOf
  <2>4. WorkOf(t)'
    <3>1. Parcel(t)' = Parcel(t) /\ (OneTab' <=> OneTab)
      BY <1>11 DEF Prepare, shop, Parcel, OneTab
    <3>2. pc[t] = "prepare" /\ pc'[t] = "charge"
      BY <1>0, <1>11, <2>1, GotoPc DEF Prepare, shop, TypeOK
    <3>3. cart' = cart /\ seen' = seen /\ tabs' = tabs
      BY <1>11 DEF Prepare, shop
    <3> QED
      BY <1>0, <2>1, <2>3, <3>1, <3>2, <3>3 DEF WorkOf
  <2> QED
    BY <1>11, <2>2, <2>3, <2>4, OthersAtWork DEF Prepare, shop, WorkInv
<1>12. ASSUME NEW t \in Tabs, ChargeCard(t) PROVE WorkInv'
  <2>1. PICK point \in {"ship", "idle"} : Goto(t, point)
    BY <1>12 DEF ChargeCard
  <2>2. \A u \in Tabs \ {t} :
           pc'[u] = pc[u] /\ seen'[u] = seen[u] /\ order'[u] = order[u]
    BY <1>0, <1>12, <2>1, GotoPc DEF ChargeCard, TypeOK, CheckoutTypeOK
  <2>3. t \in tabs
    BY <1>0, <1>12 DEF ChargeCard, WorkOf
  <2>4. WorkOf(t)'
    <3>1. Parcel(t)' = Parcel(t) /\ (OneTab' <=> OneTab)
      BY <1>12 DEF ChargeCard, Parcel, OneTab
    <3>2. pc[t] = "charge" /\ pc'[t] = point
      BY <1>0, <1>12, <2>1, GotoPc DEF ChargeCard, TypeOK
    <3>3. cart' = cart /\ seen' = seen /\ tabs' = tabs
      BY <1>12 DEF ChargeCard
    <3>4. Parcel(t) \in payments'
      BY <1>12 DEF ChargeCard
    <3> QED
      BY <1>0, <2>1, <2>3, <3>1, <3>2, <3>3, <3>4 DEF WorkOf
  <2> QED
    BY <1>12, <2>2, <2>3, <2>4, OthersAtWork DEF ChargeCard, WorkInv
<1>13. ASSUME NEW t \in Tabs, ShipOrder(t) PROVE WorkInv'
  <2>1. PICK point \in {"clear", "idle"} : Goto(t, point)
    BY <1>13 DEF ShipOrder
  <2>2. \A u \in Tabs \ {t} :
           pc'[u] = pc[u] /\ seen'[u] = seen[u] /\ order'[u] = order[u]
    BY <1>0, <1>13, <2>1, GotoPc DEF ShipOrder, TypeOK, CheckoutTypeOK
  <2>3. t \in tabs
    BY <1>0, <1>13 DEF ShipOrder, WorkOf
  <2>4. WorkOf(t)'
    <3>1. Parcel(t)' = Parcel(t) /\ (OneTab' <=> OneTab)
      BY <1>13 DEF ShipOrder, Parcel, OneTab
    <3>2. pc[t] = "ship" /\ pc'[t] = point
      BY <1>0, <1>13, <2>1, GotoPc DEF ShipOrder, TypeOK
    <3>3. cart' = cart /\ seen' = seen /\ tabs' = tabs
      BY <1>13 DEF ShipOrder
    <3>4. Parcel(t) \in shipments'
      BY <1>13 DEF ShipOrder
    <3> QED
      BY <1>0, <2>1, <2>3, <3>1, <3>2, <3>3, <3>4 DEF WorkOf
  <2> QED
    BY <1>13, <2>2, <2>3, <2>4, OthersAtWork DEF ShipOrder, WorkInv
<1>14. ASSUME NEW t \in Tabs, EmptyUserCart(t) PROVE WorkInv'
  <2>1. Goto(t, "mail")
    BY <1>14 DEF EmptyUserCart
  <2>2. \A u \in Tabs \ {t} :
           pc'[u] = pc[u] /\ seen'[u] = seen[u] /\ order'[u] = order[u]
    BY <1>0, <1>14, <2>1, GotoPc DEF EmptyUserCart, TypeOK, CheckoutTypeOK
  <2>3. t \in tabs
    BY <1>0, <1>14 DEF EmptyUserCart, WorkOf
  <2>4. WorkOf(t)'
    BY <1>0, <1>14, <2>1, <2>3, GotoPc DEF EmptyUserCart, WorkOf, TypeOK, CheckoutTypeOK, Parcel
  <2> QED
    BY <1>14, <2>2, <2>3, <2>4, OthersAtWork DEF EmptyUserCart, WorkInv
<1>15. ASSUME NEW t \in Tabs, SendOrderConfirmation(t) PROVE WorkInv'
  <2>1. Goto(t, "idle")
    BY <1>15 DEF SendOrderConfirmation
  <2>2. \A u \in Tabs \ {t} :
           pc'[u] = pc[u] /\ seen'[u] = seen[u] /\ order'[u] = order[u]
    BY <1>0, <1>15, <2>1, GotoPc DEF SendOrderConfirmation, TypeOK, CheckoutTypeOK
  <2>3. t \in tabs
    BY <1>0, <1>15 DEF SendOrderConfirmation, WorkOf
  <2>4. WorkOf(t)'
    BY <1>0, <1>15, <2>1, <2>3, GotoPc DEF SendOrderConfirmation, WorkOf, TypeOK, CheckoutTypeOK, Parcel
  <2> QED
    BY <1>15, <2>2, <2>3, <2>4, OthersAtWork DEF SendOrderConfirmation, WorkInv
<1>16. ASSUME NEW t \in Tabs, Abort(t) PROVE WorkInv'
  <2>1. Goto(t, "idle")
    BY <1>16 DEF Abort
  <2>2. \A u \in Tabs \ {t} :
           pc'[u] = pc[u] /\ seen'[u] = seen[u] /\ order'[u] = order[u]
    BY <1>0, <1>16, <2>1, GotoPc DEF Abort, TypeOK, CheckoutTypeOK
  <2>3. t \in tabs
    BY <1>0, <1>16 DEF Abort, WorkOf
  <2>4. WorkOf(t)'
    BY <1>0, <1>16, <2>1, <2>3, GotoPc DEF Abort, WorkOf, TypeOK, CheckoutTypeOK, Parcel
  <2> QED
    BY <1>16, <2>2, <2>3, <2>4, OthersAtWork DEF Abort, WorkInv
<1>17. CASE UNCHANGED vars
  BY <1>0, <1>17 DEF vars, store_vars, shop, WorkInv, WorkOf, Parcel, OneTab
<1> QED
  BY <1>1, <1>2, <1>3, <1>4, <1>5, <1>6, <1>7, <1>8, <1>9, <1>10, <1>11,
     <1>12, <1>13, <1>14, <1>15, <1>16, <1>17 DEF CheckoutNext, Next

-----------------------------------------------------------------------------
\* A single tab is the one that acts: it decides whether Clearing holds.
LEMMA OneTabClearing ==
    ASSUME OneTab, NEW t \in tabs, tabs' = tabs
    PROVE  /\ Clearing <=> pc[t] = "clear"
           /\ Clearing' <=> pc'[t] = "clear"
           /\ OneTab'
  BY DEF OneTab, Clearing

\* The quantities held are numbers.
LEMMA Quantities ==
    ASSUME CheckoutTypeOK, NEW p \in Products
    PROVE  /\ cart[p] \in Nat /\ put[p] \in Nat
           /\ sent[p] \in Nat /\ discarded[p] \in Nat
           /\ \A t \in Tabs : seen[t][p] \in Nat
  BY DEF CheckoutTypeOK, TypeOK, Carts

\* A step that moves no quantity and neither begins nor ends an emptying.
LEMMA QuietBalance ==
    ASSUME CheckoutTypeOK, BalanceInv, NEW t \in tabs, tabs' = tabs,
           put' = put, cart' = cart, sent' = sent, discarded' = discarded,
           unemptied' \/ ~unemptied,
           pc[t] # "clear", pc'[t] # "clear"
    PROVE  BalanceInv'
<1> SUFFICES ASSUME OneTab', NEW p \in Products
             PROVE  put'[p] <= Held(p)' /\ (~unemptied' => put'[p] = Held(p)')
  BY DEF BalanceInv
<1>1. OneTab
  BY DEF OneTab
<1>2. ~Clearing /\ ~Clearing'
  BY <1>1, OneTabClearing
<1>3. Held(p)' = Held(p)
  BY <1>2 DEF Held
<1>4. put[p] <= Held(p) /\ (~unemptied => put[p] = Held(p))
  BY <1>1 DEF BalanceInv
<1> QED
  BY <1>3, <1>4

\* What the store takes is in the cart afterwards.
LEMMA TakeBalance ==
    ASSUME CheckoutTypeOK, WorkInv, BalanceInv, NEW t \in tabs, Take(t), UNCHANGED shop,
           pc[t] \in Adding, item[t] \in Items,
           OneTab => cart' = Added(cart, item[t])
    PROVE  BalanceInv'
<1>0. CheckoutTypeOK /\ TypeOK /\ t \in Tabs
  BY DEF CheckoutTypeOK, TypeOK
<1> SUFFICES ASSUME OneTab', NEW p \in Products
             PROVE  put'[p] <= Held(p)' /\ (~unemptied' => put'[p] = Held(p)')
  BY DEF BalanceInv
<1>1. tabs' = tabs /\ sent' = sent /\ discarded' = discarded /\ unemptied' = unemptied
      /\ Goto(t, "idle")
  BY DEF Take, shop
<1>2. OneTab
  BY <1>1 DEF OneTab
<1>3. pc[t] # "clear" /\ pc'[t] # "clear"
  BY <1>0, <1>1, GotoPc DEF TypeOK
<1>4. ~Clearing /\ ~Clearing'
  BY <1>1, <1>2, <1>3, OneTabClearing
<1>5. put' = Added(put, item[t]) /\ cart' = Added(cart, item[t])
  BY <1>2 DEF Take
<1>6. put \in Carts /\ cart \in Carts
  BY <1>0 DEF TypeOK
<1> DEFINE more == IF p = item[t].p THEN item[t].n ELSE 0
<1>7. item[t].n \in Nat
  <2>1. item[t].n \in 1..MaxQuantity
    BY <1>6, AddedCart
  <2> QED
    BY <2>1, CartAssumption
<1>8. put'[p] = put[p] + more /\ cart'[p] = cart[p] + more
  <2>1. CASE p = item[t].p
    BY <1>5, <1>6, <2>1, AddedCart
  <2>2. CASE p # item[t].p
    <3>1. put'[p] = put[p] /\ cart'[p] = cart[p]
      BY <1>5, <1>6, <2>2, AddedCart
    <3> QED
      BY <2>2, <3>1, Quantities
  <2> QED
    BY <2>1, <2>2
<1>9. more \in Nat
  BY <1>7
<1>10. put[p] <= Held(p) /\ (~unemptied => put[p] = Held(p))
  BY <1>2 DEF BalanceInv
<1>11. Held(p) = cart[p] + sent[p] + discarded[p]
  BY <1>4 DEF Held
<1>12. Held(p)' = cart'[p] + sent[p] + discarded[p]
  BY <1>1, <1>4 DEF Held
<1> HIDE DEF more
<1> QED
  BY <1>1, <1>8, <1>9, <1>10, <1>11, <1>12, Quantities

LEMMA BalanceStep ==
    CheckoutTypeOK /\ WorkInv /\ BalanceInv /\ [CheckoutNext]_vars => BalanceInv'
<1> SUFFICES ASSUME CheckoutTypeOK, WorkInv, BalanceInv, [CheckoutNext]_vars
             PROVE  BalanceInv'
  OBVIOUS
<1>0. CheckoutTypeOK /\ TypeOK /\ \A t \in Tabs : WorkOf(t) /\ (pc[t] # "idle" => t \in tabs)
  BY DEF CheckoutTypeOK, WorkInv, WorkOf
<1>1. ASSUME NEW t \in Tabs, NEW i \in Items, AddToCart(t, i), UNCHANGED shop PROVE BalanceInv'
  <2>1. Goto(t, "read") /\ t \in tabs /\ pc[t] # "clear"
    BY <1>0, <1>1 DEF AddToCart, Request, shop
  <2>2. pc'[t] # "clear"
    BY <1>0, <2>1, GotoPc DEF TypeOK
  <2> QED
    BY <1>1, <2>1, <2>2, QuietBalance DEF AddToCart, Request, shop
<1>2. ASSUME NEW t \in Tabs, Read(t), UNCHANGED shop PROVE BalanceInv'
  <2>1. Goto(t, "write") /\ t \in tabs /\ pc[t] # "clear"
    BY <1>0, <1>2 DEF Read, shop
  <2>2. pc'[t] # "clear"
    BY <1>0, <2>1, GotoPc DEF TypeOK
  <2> QED
    BY <1>2, <2>1, <2>2, QuietBalance DEF Read, shop
<1>3. ASSUME NEW t \in Tabs, WriteCart(t), UNCHANGED shop PROVE BalanceInv'
  <2>1. Take(t) /\ pc[t] \in Adding /\ t \in tabs
    BY <1>0, <1>3 DEF WriteCart
  <2>2. item[t] \in Items
    BY <1>0, <2>1 DEF TypeOK
  <2>3. OneTab => cart' = Added(cart, item[t])
    BY <1>0, <1>3 DEF WriteCart, WorkOf
  <2> QED
    BY <1>3, <2>1, <2>2, <2>3, TakeBalance
<1>4. ASSUME NEW t \in Tabs, WriteRow(t), UNCHANGED shop PROVE BalanceInv'
  <2>1. Take(t) /\ pc[t] \in Adding /\ t \in tabs
    BY <1>0, <1>4 DEF WriteRow
  <2>2. item[t] \in Items
    BY <1>0, <2>1 DEF TypeOK
  <2>3. OneTab => cart' = Added(cart, item[t])
    <3> SUFFICES ASSUME OneTab PROVE cart' = Added(cart, item[t])
      OBVIOUS
    <3>1. seen[t] = cart
      BY <1>0, <1>4 DEF WriteRow, WorkOf
    <3>2. cart \in Carts /\ item[t].p \in Products
      BY <1>0, <2>2, AddedCart DEF TypeOK
    <3> QED
      BY <1>4, <3>1, <3>2 DEF WriteRow, Added, Carts
  <2> QED
    BY <1>4, <2>1, <2>2, <2>3, TakeBalance
<1>5. ASSUME NEW t \in Tabs, Transact(t), UNCHANGED shop PROVE BalanceInv'
  <2>1. Take(t) /\ pc[t] \in Adding /\ t \in tabs
    BY <1>0, <1>5 DEF Transact
  <2>2. item[t] \in Items
    BY <1>0, <2>1 DEF TypeOK
  <2>3. cart' = Added(cart, item[t])
    BY <1>5 DEF Transact
  <2> QED
    BY <1>5, <2>1, <2>2, <2>3, TakeBalance
<1>6. ASSUME NEW t \in Tabs, EmptyCart(t), UNCHANGED shop PROVE BalanceInv'
  <2>1. Goto(t, "empty") /\ t \in tabs /\ pc[t] # "clear"
    BY <1>0, <1>6 DEF EmptyCart, Request, shop
  <2>2. pc'[t] # "clear"
    BY <1>0, <2>1, GotoPc DEF TypeOK
  <2> QED
    BY <1>6, <2>1, <2>2, QuietBalance DEF EmptyCart, Request, shop
<1>7. ASSUME NEW t \in Tabs, Clear(t), UNCHANGED shop PROVE BalanceInv'
  <2>0. t \in tabs /\ Goto(t, "idle") /\ pc[t] = "empty"
    BY <1>0, <1>7 DEF Clear
  <2>1. pc'[t] = "idle"
    BY <1>0, <2>0, GotoPc DEF TypeOK
  <2> SUFFICES ASSUME OneTab', NEW p \in Products
               PROVE  put'[p] <= Held(p)' /\ (~unemptied' => put'[p] = Held(p)')
    BY DEF BalanceInv
  <2>2. OneTab /\ ~Clearing /\ ~Clearing'
    BY <1>7, <2>0, <2>1, OneTabClearing DEF Clear, OneTab
  <2>3. put[p] <= Held(p) /\ (~unemptied => put[p] = Held(p))
    BY <2>2 DEF BalanceInv
  <2>4. cart'[p] = 0 /\ discarded'[p] = discarded[p] + cart[p]
    BY <1>7, ZeroCart DEF Clear
  <2>5. put' = put /\ sent' = sent /\ unemptied' = unemptied
    BY <1>7 DEF Clear, shop
  <2>6. Held(p) = cart[p] + sent[p] + discarded[p]
    BY <2>2 DEF Held
  <2>7. Held(p)' = cart'[p] + sent'[p] + discarded'[p]
    BY <2>2 DEF Held
  <2>8. Held(p)' = Held(p)
    BY <2>4, <2>5, <2>6, <2>7, Quantities
  <2> QED
    BY <2>3, <2>5, <2>8
<1>8. ASSUME NEW t \in Tabs, Fail(t), UNCHANGED shop PROVE BalanceInv'
  <2>1. Goto(t, "idle") /\ t \in tabs /\ pc[t] # "clear"
    BY <1>0, <1>8 DEF Fail, shop
  <2>2. pc'[t] # "clear"
    BY <1>0, <2>1, GotoPc DEF TypeOK
  <2> QED
    BY <1>8, <2>1, <2>2, QuietBalance DEF Fail, shop
<1>9. ASSUME NEW t \in Tabs, PlaceOrder(t) PROVE BalanceInv'
  <2>1. Goto(t, "getcart") /\ t \in tabs /\ pc[t] # "clear"
    BY <1>0, <1>9 DEF PlaceOrder, Request
  <2>2. pc'[t] # "clear"
    BY <1>0, <2>1, GotoPc DEF TypeOK
  <2> QED
    BY <1>9, <2>1, <2>2, QuietBalance DEF PlaceOrder, Request
<1>10. ASSUME NEW t \in Tabs, GetUserCart(t) PROVE BalanceInv'
  <2>1. Goto(t, "prepare") /\ t \in tabs /\ pc[t] # "clear"
    BY <1>0, <1>10 DEF GetUserCart, shop
  <2>2. pc'[t] # "clear"
    BY <1>0, <2>1, GotoPc DEF TypeOK
  <2> QED
    BY <1>10, <2>1, <2>2, QuietBalance DEF GetUserCart, shop
<1>11. ASSUME NEW t \in Tabs, Prepare(t) PROVE BalanceInv'
  <2>1. Goto(t, "charge") /\ t \in tabs /\ pc[t] # "clear"
    BY <1>0, <1>11 DEF Prepare, shop
  <2>2. pc'[t] # "clear"
    BY <1>0, <2>1, GotoPc DEF TypeOK
  <2> QED
    BY <1>11, <2>1, <2>2, QuietBalance DEF Prepare, shop
<1>12. ASSUME NEW t \in Tabs, ChargeCard(t) PROVE BalanceInv'
  <2>1. t \in tabs /\ pc[t] # "clear" /\ \E point \in {"ship", "idle"} : Goto(t, point)
    BY <1>0, <1>12 DEF ChargeCard
  <2>2. pc'[t] # "clear"
    BY <1>0, <2>1, GotoPc DEF TypeOK
  <2> QED
    BY <1>12, <2>1, <2>2, QuietBalance DEF ChargeCard
<1>13. ASSUME NEW t \in Tabs, ShipOrder(t) PROVE BalanceInv'
  <2>0. t \in tabs /\ pc[t] = "ship" /\ tabs' = tabs
    BY <1>0, <1>13 DEF ShipOrder
  <2> SUFFICES ASSUME OneTab', NEW p \in Products
               PROVE  put'[p] <= Held(p)' /\ (~unemptied' => put'[p] = Held(p)')
    BY DEF BalanceInv
  <2>1. OneTab
    BY <2>0 DEF OneTab
  <2>2. ~Clearing /\ seen[t] = cart
    BY <1>0, <2>0, <2>1, OneTabClearing DEF WorkOf
  <2>3. put[p] <= Held(p) /\ (~unemptied => put[p] = Held(p))
    BY <2>1 DEF BalanceInv
  <2>4. Held(p) = cart[p] + sent[p] + discarded[p]
    BY <2>2 DEF Held
  <2>5. sent'[p] = sent[p] + cart[p] /\ put' = put /\ cart' = cart /\ discarded' = discarded
    BY <1>13, <2>2 DEF ShipOrder
  <2>6. CASE Goto(t, "clear") /\ unemptied' = unemptied
    <3>1. Clearing'
      BY <1>0, <2>0, <2>1, <2>6, GotoPc, OneTabClearing DEF TypeOK
    <3>2. Held(p)' = sent'[p] + discarded'[p]
      BY <3>1 DEF Held
    <3>3. Held(p)' = Held(p)
      BY <2>4, <2>5, <3>2, Quantities
    <3> QED
      BY <2>3, <2>5, <2>6, <3>3
  <2>7. CASE Goto(t, "idle") /\ unemptied'
    <3>1. ~Clearing'
      BY <1>0, <2>0, <2>1, <2>7, GotoPc, OneTabClearing DEF TypeOK
    <3>2. Held(p)' = cart'[p] + sent'[p] + discarded'[p]
      BY <3>1 DEF Held
    <3>3. put'[p] <= Held(p)'
      BY <2>3, <2>4, <2>5, <3>2, Quantities
    <3> QED
      BY <2>7, <3>3
  <2> QED
    BY <1>13, <2>6, <2>7 DEF ShipOrder
<1>14. ASSUME NEW t \in Tabs, EmptyUserCart(t) PROVE BalanceInv'
  <2>0. t \in tabs /\ pc[t] = "clear" /\ tabs' = tabs /\ Goto(t, "mail")
    BY <1>0, <1>14 DEF EmptyUserCart
  <2> SUFFICES ASSUME OneTab', NEW p \in Products
               PROVE  put'[p] <= Held(p)' /\ (~unemptied' => put'[p] = Held(p)')
    BY DEF BalanceInv
  <2>1. OneTab
    BY <2>0 DEF OneTab
  <2>2. Clearing /\ ~Clearing'
    BY <1>0, <2>0, <2>1, GotoPc, OneTabClearing DEF TypeOK
  <2>3. put[p] <= Held(p) /\ (~unemptied => put[p] = Held(p))
    BY <2>1 DEF BalanceInv
  <2>4. Held(p) = sent[p] + discarded[p]
    BY <2>2 DEF Held
  <2>5. Held(p)' = cart'[p] + sent[p] + discarded[p] /\ put' = put
    BY <1>14, <2>2 DEF Held, EmptyUserCart
  <2>6. CASE cart' = Zero /\ unemptied' = unemptied
    <3>1. cart'[p] = 0
      BY <2>6, ZeroCart
    <3>2. Held(p)' = Held(p)
      BY <2>4, <2>5, <3>1, Quantities
    <3> QED
      BY <2>3, <2>5, <2>6, <3>2
  <2>7. CASE unemptied' /\ cart' = cart
    <3>1. put'[p] <= Held(p)'
      BY <2>3, <2>4, <2>5, <2>7, Quantities
    <3> QED
      BY <2>7, <3>1
  <2> QED
    BY <1>14, <2>6, <2>7 DEF EmptyUserCart
<1>15. ASSUME NEW t \in Tabs, SendOrderConfirmation(t) PROVE BalanceInv'
  <2>1. Goto(t, "idle") /\ t \in tabs /\ pc[t] # "clear"
    BY <1>0, <1>15 DEF SendOrderConfirmation
  <2>2. pc'[t] # "clear"
    BY <1>0, <2>1, GotoPc DEF TypeOK
  <2> QED
    BY <1>15, <2>1, <2>2, QuietBalance DEF SendOrderConfirmation
<1>16. ASSUME NEW t \in Tabs, Abort(t) PROVE BalanceInv'
  <2>0. t \in tabs /\ Goto(t, "idle") /\ pc[t] \in Ordering
    BY <1>0, <1>16 DEF Abort
  <2>1. pc'[t] = "idle"
    BY <1>0, <2>0, GotoPc DEF TypeOK
  <2>2. CASE pc[t] # "clear"
    <3>1. unemptied' \/ ~unemptied
      BY <1>16 DEF Abort
    <3> QED
      BY <1>16, <2>0, <2>1, <2>2, <3>1, QuietBalance DEF Abort
  <2>3. CASE pc[t] = "clear"
    <3> SUFFICES ASSUME OneTab', NEW p \in Products
                 PROVE  put'[p] <= Held(p)' /\ (~unemptied' => put'[p] = Held(p)')
      BY DEF BalanceInv
    <3>1. OneTab /\ Clearing /\ ~Clearing'
      BY <1>16, <2>0, <2>1, <2>3, OneTabClearing DEF Abort, OneTab
    <3>2. put[p] <= sent[p] + discarded[p]
      BY <3>1 DEF BalanceInv, Held
    <3>3. Held(p)' = cart[p] + sent[p] + discarded[p] /\ put' = put
      BY <1>16, <3>1 DEF Abort, Held
    <3>4. unemptied'
      BY <1>16, <2>3 DEF Abort
    <3>5. put'[p] <= Held(p)'
      BY <3>2, <3>3, Quantities
    <3> QED
      BY <3>4, <3>5
  <2> QED
    BY <2>2, <2>3
<1>17. CASE UNCHANGED vars
  BY <1>17 DEF vars, store_vars, shop, BalanceInv, Held, Clearing, OneTab
<1> QED
  BY <1>1, <1>2, <1>3, <1>4, <1>5, <1>6, <1>7, <1>8, <1>9, <1>10, <1>11,
     <1>12, <1>13, <1>14, <1>15, <1>16, <1>17 DEF CheckoutNext, Next

-----------------------------------------------------------------------------
LEMMA PaidStep ==
    WorkInv /\ ShippedWasPaid /\ [CheckoutNext]_vars => ShippedWasPaid'
<1> SUFFICES ASSUME WorkInv, ShippedWasPaid, [CheckoutNext]_vars PROVE ShippedWasPaid'
  OBVIOUS
<1>1. ASSUME NEW t \in Tabs, ChargeCard(t) PROVE ShippedWasPaid'
  BY <1>1 DEF ChargeCard, ShippedWasPaid
<1>2. ASSUME NEW t \in Tabs, ShipOrder(t) PROVE ShippedWasPaid'
  <2>1. Parcel(t) \in payments
    BY <1>2 DEF ShipOrder, WorkInv, WorkOf
  <2> QED
    BY <1>2, <2>1 DEF ShipOrder, ShippedWasPaid
<1>3. CASE UNCHANGED <<payments, shipments>>
  BY <1>3 DEF ShippedWasPaid
<1> QED
  BY <1>1, <1>2, <1>3
  DEF CheckoutNext, PlaceOrder, GetUserCart, Prepare, EmptyUserCart,
      SendOrderConfirmation, Abort, shop, vars

LEMMA ConfirmedStep ==
    CheckoutTypeOK /\ WorkInv /\ ConfirmedWasShipped /\ [CheckoutNext]_vars
        => ConfirmedWasShipped'
<1> SUFFICES ASSUME CheckoutTypeOK, WorkInv, ConfirmedWasShipped, [CheckoutNext]_vars
             PROVE  ConfirmedWasShipped'
  OBVIOUS
<1>1. ASSUME NEW t \in Tabs, ShipOrder(t) PROVE ConfirmedWasShipped'
  BY <1>1 DEF ShipOrder, ConfirmedWasShipped
<1>2. ASSUME NEW t \in Tabs, SendOrderConfirmation(t) PROVE ConfirmedWasShipped'
  <2>1. Parcel(t) \in shipments
    BY <1>2 DEF SendOrderConfirmation, WorkInv, WorkOf
  <2>2. Parcel(t).order = order[t]
    BY DEF Parcel
  <2>3. \E s \in shipments : s.order = order[t]
    BY <2>1, <2>2
  <2>4. shipments' = shipments
        /\ mails' \cup confirmed' \subseteq mails \cup confirmed \cup {order[t]}
    BY <1>2 DEF SendOrderConfirmation
  <2> QED
    BY <2>3, <2>4 DEF ConfirmedWasShipped
<1>3. CASE UNCHANGED <<shipments, mails, confirmed>>
  BY <1>3 DEF ConfirmedWasShipped
<1> QED
  BY <1>1, <1>2, <1>3
  DEF CheckoutNext, PlaceOrder, GetUserCart, Prepare, ChargeCard, EmptyUserCart,
      Abort, shop, vars

LEMMA Invariant == Spec => []IInv
<1>1. IInv /\ [CheckoutNext]_vars => IInv'
  BY TypeStep, WorkStep, BalanceStep, PaidStep, ConfirmedStep DEF IInv
<1> QED
  BY InitIInv, <1>1, PTL DEF Spec

\* An order is charged for exactly what it ships, whatever other tabs do to
\* the cart between the reading of it and the parcel.
THEOREM PaidBeforeShipped == Spec => []ShippedWasPaid
  BY Invariant, PTL DEF IInv

\* No order is confirmed that was not shipped.
THEOREM ShippedBeforeConfirmed == Spec => []ConfirmedWasShipped
  BY Invariant, PTL DEF IInv

\* Payment, parcel and confirmation are for the same items, in this order.
THEOREM StepsInOrder == Spec => []OrderOfSteps
  BY PaidBeforeShipped, ShippedBeforeConfirmed, PTL DEF OrderOfSteps

\* With one tab a failing order loses nothing the store had taken.
THEOREM NothingLost == Spec => []NothingVanishes
<1>1. IInv => NothingVanishes
  <2> SUFFICES ASSUME IInv, OneTab, NEW p \in Products
               PROVE  put[p] <= cart[p] + sent[p] + discarded[p]
    BY DEF NothingVanishes
  <2>1. put[p] <= Held(p)
    BY DEF IInv, BalanceInv
  <2>2. CASE Clearing
    BY <2>1, <2>2, Quantities DEF IInv, Held
  <2>3. CASE ~Clearing
    BY <2>1, <2>3 DEF Held
  <2> QED
    BY <2>2, <2>3
<1> QED
  BY Invariant, <1>1, PTL

\* With one tab whose carts are emptied, nothing is shipped twice.
THEOREM ShippedOnce == Spec => []NothingShippedTwice
<1>1. IInv => NothingShippedTwice
  BY DEF IInv, BalanceInv, Held, Clearing, NothingShippedTwice
<1> QED
  BY Invariant, <1>1, PTL

-----------------------------------------------------------------------------
\* Every step on the cart is a step of AtomicCart, or none, when the user has
\* one tab or the store transactions.
LEMMA AtomicStep ==
    ASSUME IInv, [CheckoutNext]_vars, store = "spanner" \/ OneTab
    PROVE  Abs!Next \/ cart' = cart
<1>0. CheckoutTypeOK /\ TypeOK /\ \A t \in Tabs : WorkOf(t)
  BY DEF IInv, CheckoutTypeOK, WorkInv
<1>1. ASSUME NEW t \in Tabs, pc[t] \in Adding, cart' = Added(cart, item[t])
      PROVE  Abs!Next
  <2>1. item[t] \in Items
    BY <1>0, <1>1 DEF TypeOK
  <2>2. item[t].p \in Products /\ item[t].n \in 1..MaxQuantity
    BY <2>1 DEF Items
  <2>3. Abs!Add(item[t].p, item[t].n)
    BY <1>1 DEF Abs!Add, Added
  <2> QED
    BY <2>2, <2>3 DEF Abs!Next
<1>2. ASSUME NEW t \in Tabs, WriteCart(t) PROVE Abs!Next
  <2>1. seen[t] = cart
    BY <1>0, <1>2 DEF WriteCart, WorkOf
  <2> QED
    BY <1>1, <1>2, <2>1 DEF WriteCart
<1>3. ASSUME NEW t \in Tabs, WriteRow(t) PROVE Abs!Next
  <2>1. seen[t] = cart
    BY <1>0, <1>3 DEF WriteRow, WorkOf
  <2>2. cart \in Carts /\ item[t] \in Items
    BY <1>0, <1>3 DEF WriteRow, TypeOK
  <2>3. cart' = Added(cart, item[t])
    BY <1>3, <2>1, <2>2, AddedCart DEF WriteRow, Added, Carts
  <2> QED
    BY <1>1, <1>3, <2>3 DEF WriteRow
<1>4. ASSUME NEW t \in Tabs, Transact(t) PROVE Abs!Next
  BY <1>1, <1>4 DEF Transact
<1>5. ASSUME NEW t \in Tabs, Clear(t) PROVE Abs!Next
  BY <1>5 DEF Clear, Abs!Next, Abs!Empty
<1>6. ASSUME NEW t \in Tabs, EmptyUserCart(t) PROVE Abs!Next \/ cart' = cart
  BY <1>6 DEF EmptyUserCart, Abs!Next, Abs!Empty
<1>7. CASE UNCHANGED cart
  BY <1>7
<1> QED
  BY <1>2, <1>3, <1>4, <1>5, <1>6, <1>7
  DEF CheckoutNext, Next, AddToCart, Read, EmptyCart, Fail, PlaceOrder, GetUserCart,
      Prepare, ChargeCard, ShipOrder, SendOrderConfirmation, Abort, vars, store_vars

\* The cart service implements AtomicCart for a user with one tab, on each
\* store, and for any user on the store with transactions.
THEOREM ImplementsAtomicCart == Spec => AtomicWhenSequential
<1>1. CheckoutInit => Abs!Init
  BY DEF CheckoutInit, Init, Abs!Init
<1>2. IInv /\ [CheckoutNext]_vars => [store = "spanner" \/ OneTab => Abs!Next]_cart
  BY AtomicStep
<1> QED
  BY Invariant, <1>1, <1>2, PTL DEF Spec, AtomicWhenSequential
=============================================================================
