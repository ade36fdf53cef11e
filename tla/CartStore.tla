----------------------------- MODULE CartStore -----------------------------
(***************************************************************************)
(* The cart of one user (carts of different users share nothing) under     *)
(* requests of several browser tabs.  A tab sends one request and waits    *)
(* for its end; frontend and cart service keep no state of a request but   *)
(* its local variables, so a request is where its tab is.                  *)
(*                                                                         *)
(* Three stores can be configured.  Redis reads the whole cart, changes it *)
(* and writes it back; AlloyDB reads the quantity of one product and       *)
(* writes the sum; Spanner does so in a transaction.  Every call to a      *)
(* store may fail before it takes effect, and its answer may be lost       *)
(* after.  Checkout adds what the checkout service does with the cart.     *)
(***************************************************************************)
EXTENDS Naturals

CONSTANTS
    Products,
    Tabs,
    NoItem,
    MaxQuantity,    \* most of a product one request may add (validator.go:38)
    MaxRequests     \* bound of the model: requests of all tabs

ASSUME CartAssumption == MaxQuantity \in Nat /\ MaxRequests \in Nat

VARIABLES
    store,      \* the configured ICartStore
    tabs,       \* the tabs the user has open
    cart,       \* the quantities in the store, 0 without an entry
    pc,         \* where the request of a tab is
    item,       \* what an addition adds
    seen,       \* the cart a request has read
    requests,
    \* history
    put,        \* quantities the store has taken
    discarded   \* quantities the user has thrown away

Stores == {"redis", "alloydb", "spanner"}
Adding == {"read", "write"}
Ordering == {"getcart", "prepare", "charge", "ship", "clear", "mail"}
Points == {"idle", "empty"} \cup Adding \cup Ordering

Abs == INSTANCE AtomicCart
Zero == Abs!Zero
Carts == [Products -> Nat]
Items == [p : Products, n : 1..MaxQuantity]

TypeOK ==
    /\ store \in Stores
    /\ tabs \subseteq Tabs
    /\ cart \in Carts
    /\ pc \in [Tabs -> Points]
    /\ item \in [Tabs -> Items \cup {NoItem}]
    /\ \A t \in Tabs : pc[t] \in Adding => item[t] \in Items
    /\ seen \in [Tabs -> Carts]
    /\ requests \in Nat
    /\ put \in Carts
    /\ discarded \in Carts

Init ==
    /\ store \in Stores
    /\ tabs \in SUBSET Tabs
    /\ cart = Zero
    /\ pc = [t \in Tabs |-> "idle"]
    /\ item = [t \in Tabs |-> NoItem]
    /\ seen = [t \in Tabs |-> Zero]
    /\ requests = 0
    /\ put = Zero
    /\ discarded = Zero

-----------------------------------------------------------------------------
Goto(t, point) == pc' = [pc EXCEPT ![t] = point]

\* A tab sends its next request.
Request(t, point) ==
    /\ t \in tabs
    /\ pc[t] = "idle"
    /\ requests < MaxRequests
    /\ requests' = requests + 1
    /\ Goto(t, point)

\* addToCartHandler: a quantity in range, a product the catalog knows.
AddToCart(t, i) ==
    /\ Request(t, "read")
    /\ item' = [item EXCEPT ![t] = i]
    /\ UNCHANGED <<store, tabs, cart, seen, put, discarded>>

\* Mutant: the service goes on with the cart it read for the tab before.
Read_Cached(t) ==
    /\ pc[t] = "read"
    /\ store # "spanner"
    /\ Goto(t, "write")
    /\ UNCHANGED <<store, tabs, cart, item, seen, requests, put, discarded>>

\* Redis: GetAsync; AlloyDB: SELECT.
Read(t) ==
    /\ pc[t] = "read"
    /\ store # "spanner"
    /\ seen' = [seen EXCEPT ![t] = cart]
    /\ Goto(t, "write")
    /\ UNCHANGED <<store, tabs, cart, item, requests, put, discarded>>

\* The cart base with the item added.
Added(base, i) == [base EXCEPT ![i.p] = @ + i.n]

\* The store has taken what tab t adds.
Take(t) ==
    /\ put' = Added(put, item[t])
    /\ Goto(t, "idle")
    /\ UNCHANGED <<store, tabs, item, seen, requests, discarded>>

\* SetAsync writes the whole cart that was read and changed.
WriteCart(t) ==
    /\ pc[t] = "write"
    /\ store = "redis"
    /\ cart' = Added(seen[t], item[t])
    /\ Take(t)

\* INSERT ... ON CONFLICT writes the sum into the row of the product.
WriteRow(t) ==
    /\ pc[t] = "write"
    /\ store = "alloydb"
    /\ cart' = [cart EXCEPT ![item[t].p] = Added(seen[t], item[t])[item[t].p]]
    /\ Take(t)

\* Lookup and InsertOrUpdate in one serializable transaction.
Transact(t) ==
    /\ pc[t] = "read"
    /\ store = "spanner"
    /\ cart' = Added(cart, item[t])
    /\ Take(t)

\* emptyCartHandler ...
EmptyCart(t) ==
    /\ Request(t, "empty")
    /\ UNCHANGED <<store, tabs, cart, item, seen, put, discarded>>

\* ... and EmptyCartAsync: an empty cart is set, or the rows are deleted.
Clear(t) ==
    /\ pc[t] = "empty"
    /\ cart' = Zero
    /\ discarded' = [p \in Products |-> discarded[p] + cart[p]]
    /\ Goto(t, "idle")
    /\ UNCHANGED <<store, tabs, item, seen, requests, put>>

\* A call to the store or a service fails: an RpcException, an error page.
Fail(t) ==
    /\ pc[t] \in Adding \cup {"empty"}
    /\ Goto(t, "idle")
    /\ UNCHANGED <<store, tabs, cart, item, seen, requests, put, discarded>>

Next ==
    \E t \in Tabs :
        \/ \E i \in Items : AddToCart(t, i)
        \/ Read(t) \/ WriteCart(t) \/ WriteRow(t) \/ Transact(t)
        \/ EmptyCart(t) \/ Clear(t)
        \/ Fail(t)

-----------------------------------------------------------------------------
OneTab == \A t, u \in tabs : t = u

\* As long as the user has one tab, or the store has transactions, the calls
\* of the cart service take effect as if each were a single step: no addition
\* is based on a cart that is out of date.
AtomicWhenSequential ==
    Abs!Init /\ [][store = "spanner" \/ OneTab => Abs!Next]_cart
=============================================================================
