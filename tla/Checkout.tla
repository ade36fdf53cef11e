------------------------------ MODULE Checkout ------------------------------
(***************************************************************************)
(* PlaceOrder of the checkout service (main.go:229-279) beside the cart    *)
(* requests of CartStore: a sequence of calls to cart, catalog, currency,  *)
(* shipping, payment and mail services without a transaction around them.  *)
(* Every call may fail, or be carried out and its answer lost, and the     *)
(* service may stop between any two.                                       *)
(*                                                                         *)
(* The amount charged and the parcel shipped are described by the items    *)
(* they were computed from; OrderTotal has the arithmetic.                 *)
(***************************************************************************)
EXTENDS CartStore

VARIABLES
    order,      \* the uuid of the order a tab has in work
    payments,   \* transactions of the payment service
    shipments,  \* parcels of the shipping service
    mails,      \* orders a confirmation was mailed for
    confirmed,  \* orders whose confirmation page was shown
    \* history
    sent,       \* quantities shipped
    unemptied   \* an order was shipped and its cart was not emptied

shop == <<order, payments, shipments, mails, confirmed, sent, unemptied>>
store_vars == <<store, tabs, cart, pc, item, seen, requests, put, discarded>>
vars == <<store_vars, shop>>

Orders == 1..MaxRequests
Parcels == [order : Orders, items : Carts]

CheckoutTypeOK ==
    /\ TypeOK
    /\ order \in [Tabs -> Orders \cup {0}]
    /\ \A t \in Tabs : pc[t] \in Ordering => order[t] \in Orders
    /\ payments \subseteq Parcels
    /\ shipments \subseteq Parcels
    /\ mails \subseteq Orders
    /\ confirmed \subseteq Orders
    /\ sent \in Carts
    /\ unemptied \in BOOLEAN

CheckoutInit ==
    /\ Init
    /\ order = [t \in Tabs |-> 0]
    /\ payments = {}
    /\ shipments = {}
    /\ mails = {}
    /\ confirmed = {}
    /\ sent = Zero
    /\ unemptied = FALSE

-----------------------------------------------------------------------------
Parcel(t) == [order |-> order[t], items |-> seen[t]]

\* placeOrderHandler, and a new uuid (lines 232-235).
PlaceOrder(t) ==
    /\ Request(t, "getcart")
    /\ order' = [order EXCEPT ![t] = requests + 1]
    /\ UNCHANGED <<store, tabs, cart, item, seen, put, discarded, payments,
                   shipments, mails, confirmed, sent, unemptied>>

\* getUserCart.  An empty cart is ordered like any other.
GetUserCart(t) ==
    /\ pc[t] = "getcart"
    /\ seen' = [seen EXCEPT ![t] = cart]
    /\ Goto(t, "prepare")
    /\ UNCHANGED <<store, tabs, cart, item, requests, put, discarded, shop>>

\* prepOrderItems, quoteShipping and the total: reads only.
Prepare(t) ==
    /\ pc[t] = "prepare"
    /\ Goto(t, "charge")
    /\ UNCHANGED <<store, tabs, cart, item, seen, requests, put, discarded, shop>>

\* Mutant: the handler waits for no answer of the payment service.
ChargeCard_Async(t) ==
    /\ pc[t] = "charge"
    /\ payments' \in {payments, payments \cup {Parcel(t)}}
    /\ Goto(t, "ship")
    /\ UNCHANGED <<store, tabs, cart, item, seen, requests, put, discarded, order,
                   shipments, mails, confirmed, sent, unemptied>>

ChargeCard(t) ==
    /\ pc[t] = "charge"
    /\ payments' = payments \cup {Parcel(t)}
    /\ \E point \in {"ship", "idle"} : Goto(t, point)
    /\ UNCHANGED <<store, tabs, cart, item, seen, requests, put, discarded, order,
                   shipments, mails, confirmed, sent, unemptied>>

\* Mutant: the cart is emptied before the parcel is known to be on its way.
ShipOrder_EmptiesFirst(t) ==
    /\ pc[t] = "ship"
    /\ cart' = Zero
    /\ \/ /\ shipments' = shipments \cup {Parcel(t)}
          /\ sent' = [p \in Products |-> sent[p] + seen[t][p]]
          /\ Goto(t, "clear")
       \/ /\ Goto(t, "idle")
          /\ UNCHANGED <<shipments, sent>>
    /\ UNCHANGED <<store, tabs, item, seen, requests, put, discarded, order,
                   payments, mails, confirmed, unemptied>>

\* shipOrder.  With the answer lost, the handler returns with a full cart.
ShipOrder(t) ==
    /\ pc[t] = "ship"
    /\ shipments' = shipments \cup {Parcel(t)}
    /\ sent' = [p \in Products |-> sent[p] + seen[t][p]]
    /\ \/ Goto(t, "clear") /\ UNCHANGED unemptied
       \/ Goto(t, "idle") /\ unemptied' = TRUE
    /\ UNCHANGED <<store, tabs, cart, item, seen, requests, put, discarded, order,
                   payments, mails, confirmed>>

\* Mutant: the cart of somebody else is emptied.
EmptyUserCart_WrongUser(t) ==
    /\ pc[t] = "clear"
    /\ Goto(t, "mail")
    /\ UNCHANGED <<store, tabs, cart, item, seen, requests, put, discarded, order,
                   payments, shipments, mails, confirmed, sent, unemptied>>

\* emptyUserCart: an error is ignored (line 262).
EmptyUserCart(t) ==
    /\ pc[t] = "clear"
    /\ \/ cart' = Zero /\ UNCHANGED unemptied
       \/ unemptied' = TRUE /\ UNCHANGED cart
    /\ Goto(t, "mail")
    /\ UNCHANGED <<store, tabs, item, seen, requests, put, discarded, order,
                   payments, shipments, mails, confirmed, sent>>

\* Mutant: the tab is left waiting.
SendOrderConfirmation_Waiting(t) ==
    /\ pc[t] = "mail"
    /\ mails' \in {mails, mails \cup {order[t]}}
    /\ confirmed' = confirmed \cup {order[t]}
    /\ Goto(t, "waiting")
    /\ UNCHANGED <<store, tabs, cart, item, seen, requests, put, discarded, order,
                   payments, shipments, sent, unemptied>>

\* sendOrderConfirmation: an error is logged.  Whether the page is shown
\* depends on one more call of the frontend (handlers.go:386-390).
SendOrderConfirmation(t) ==
    /\ pc[t] = "mail"
    /\ mails' \in {mails, mails \cup {order[t]}}
    /\ confirmed' \in {confirmed, confirmed \cup {order[t]}}
    /\ Goto(t, "idle")
    /\ UNCHANGED <<store, tabs, cart, item, seen, requests, put, discarded, order,
                   payments, shipments, sent, unemptied>>

\* A call is refused, or the service stops: the order ends in an error page.
Abort(t) ==
    /\ pc[t] \in Ordering
    /\ Goto(t, "idle")
    /\ unemptied' = (unemptied \/ pc[t] = "clear")
    /\ UNCHANGED <<store, tabs, cart, item, seen, requests, put, discarded, order,
                   payments, shipments, mails, confirmed, sent>>

CheckoutNext ==
    \/ Next /\ UNCHANGED shop
    \/ \E t \in Tabs :
          \/ PlaceOrder(t)
          \/ GetUserCart(t) \/ Prepare(t) \/ ChargeCard(t) \/ ShipOrder(t)
          \/ EmptyUserCart(t) \/ SendOrderConfirmation(t)
          \/ Abort(t)

Spec == CheckoutInit /\ [][CheckoutNext]_vars

-----------------------------------------------------------------------------
\* Whatever other tabs do to the cart meanwhile and wherever an order stops,
\* a parcel leaves only if the same order was charged for the same items.
ShippedWasPaid == shipments \subseteq payments

\* A mail or a page confirms only an order that was shipped.
ConfirmedWasShipped ==
    \A o \in mails \cup confirmed : \E s \in shipments : s.order = o

\* Charge, parcel and confirmation of an order are for the same cart and in this
\* order, whichever calls fail and whatever other tabs do meanwhile
\* (main.go 237-279).
OrderOfSteps == ShippedWasPaid /\ ConfirmedWasShipped

\* With one tab, what the store has taken is in the cart, was shipped, or was
\* thrown away by the user; a failing order leaves it in the cart.
NothingVanishes ==
    OneTab => \A p \in Products : put[p] <= cart[p] + sent[p] + discarded[p]

\* ... and unless an emptying after a shipment did not happen, it is in one of
\* these places only: nothing is shipped twice.
NothingShippedTwice ==
    OneTab /\ ~unemptied /\ (\A t \in tabs : pc[t] \notin {"clear"}) =>
        \A p \in Products : put[p] = cart[p] + sent[p] + discarded[p]
=============================================================================
