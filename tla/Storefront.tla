----------------------------- MODULE Storefront -----------------------------
(***************************************************************************)
(* Shoppers, or the load generator's users, who request one page after     *)
(* the other from the frontend.  A page calls the catalog, the cart,       *)
(* currency, shipping and checkout services, whose failures fail the page, *)
(* and the recommendation service of module Services, whose failures the   *)
(* handlers ignore.  Every user has a cart of its own and waits for each   *)
(* response, so the cart is a set here: concurrent tabs are in CartStore.  *)
(***************************************************************************)
EXTENDS Services

CONSTANTS
    MaxShown,   \* recommendations that fit on a page
    Nearest     \* rows a similarity search of the assistant returns

ASSUME StorefrontAssumption == MaxShown \in Nat /\ Nearest \in Nat

VARIABLES
    task,       \* the requests a user has still to send, the first one under way
    deal,       \* of this task: the product chosen, whether its addition to the
                \* cart was acknowledged, and the items ordered
    cart,       \* the products in the user's cart
    page        \* the last page: what it is about, what it recommends, its fate

shopper == <<task, deal, cart, page>>
shop_vars == <<services_vars, shopper>>

\* The tasks of the load generator, and a chat with the shopping assistant.
Tasks == {<<"home">>, <<"currency">>, <<"product">>, <<"cart">>, <<"product", "add">>,
          <<"product", "add", "order">>, <<"assistant">>}
Suffixes == UNION {{SubSeq(t, i, Len(t)) : i \in 1..(Len(t) + 1)} : t \in Tasks}

None == "none"
NoOrder == {None}
NoDeal == [item |-> None, added |-> FALSE, ordered |-> NoOrder]
Blank == [ids |-> {}, shown |-> {}, fate |-> "none"]

ShopTypeOK ==
    /\ ServicesTypeOK
    /\ task \in [Users -> Suffixes]
    /\ deal \in [Users -> [item : Products \cup {None}, added : BOOLEAN,
                           ordered : (SUBSET Products) \cup {NoOrder}]]
    /\ cart \in [Users -> SUBSET Products]
    /\ page \in [Users -> [ids : SUBSET Products, shown : SUBSET Products,
                           fate : {"none", "waiting", "ok", "error"}]]
    /\ \A u \in Users : page[u].fate = "waiting" <=> rpc[u].at # "none"

ShopInit ==
    /\ ServicesInit
    /\ task = [u \in Users |-> <<>>]
    /\ deal = [u \in Users |-> NoDeal]
    /\ cart = [u \in Users |-> {}]
    /\ page = [u \in Users |-> Blank]

-----------------------------------------------------------------------------

\* A user picks a task and a product.
Begin(u) ==
    /\ task[u] = <<>>
    /\ \E t \in Tasks :
          /\ task' = [task EXCEPT ![u] = t]
          /\ \/ Head(t) # "product" /\ UNCHANGED deal
             \/ /\ Head(t) = "product"
                /\ \E p \in Products : deal' = [deal EXCEPT ![u].item = p]
    /\ page' = [page EXCEPT ![u] = Blank]
    /\ UNCHANGED <<services_vars, cart>>

Requested(u) == IF task[u] = <<>> THEN "none" ELSE Head(task[u])

\* A request is sent; its handler has not asked for recommendations yet.
Opening(u, r) == Requested(u) = r /\ page[u].fate # "waiting"

\* The deal when the response is there: it goes on unless the task is done.
DealAfter(u, added) ==
    IF Len(task[u]) = 1 THEN NoDeal ELSE [deal[u] EXCEPT !.added = @ \/ added]

\* The page of the response; an error page shows nothing else.
PageAfter(u, shown, fate) ==
    IF fate = "error" THEN [Blank EXCEPT !.fate = fate]
    ELSE [page[u] EXCEPT !.shown = shown, !.fate = fate]

\* The response is there; the task goes on whatever it says.
Respond(u, shown, fate, added) ==
    /\ task' = [task EXCEPT ![u] = Tail(@)]
    /\ deal' = [deal EXCEPT ![u] = DealAfter(u, added)]
    /\ page' = [page EXCEPT ![u] = PageAfter(u, shown, fate)]

\* The handler has what it needs before the recommendations, which are to be
\* about none of the products on the page.
Await(u, ids) ==
    /\ Recommend(u, ids)
    /\ page' = [page EXCEPT ![u] = [ids |-> ids, shown |-> {}, fate |-> "waiting"]]
    /\ UNCHANGED <<started, missed, catalog, troubles, task>>

\* homeHandler, which recommends nothing, and setCurrencyHandler, which only sets
\* a cookie.
PlainPage(u) ==
    /\ Opening(u, "home") \/ Opening(u, "currency")
    /\ Respond(u, {}, "ok", FALSE)
    /\ UNCHANGED <<services_vars, cart>>

\* productHandler
ProductPage(u) ==
    /\ Opening(u, "product")
    /\ deal[u].item \in catalog
    /\ Await(u, {deal[u].item})
    /\ UNCHANGED <<deal, cart>>

\* viewCartHandler
CartPage(u) ==
    /\ Opening(u, "cart")
    /\ Await(u, cart[u])
    /\ UNCHANGED <<deal, cart>>

\* placeOrderHandler: the order is placed before the page is put together.
\* The error of emptying the cart is ignored.
OrderPage(u) ==
    /\ Opening(u, "order")
    /\ cart[u] \subseteq catalog
    /\ deal' = [deal EXCEPT ![u].ordered = cart[u]]
    /\ cart' \in {[cart EXCEPT ![u] = {}], cart}
    /\ Await(u, {})

\* What the page cannot do without: the products of the cart are read again
\* after the recommendations.
Complete(u) == Requested(u) = "cart" => page[u].ids \subseteq catalog

\* Mutant: a page without recommendations is an error.
ClosePage_Strict(u) ==
    /\ page[u].fate = "waiting"
    /\ rpc[u].at \in {"answered", "failed"}
    /\ rpc' = [rpc EXCEPT ![u] = NoCall]
    /\ Respond(u, {}, IF rpc[u].at = "answered" THEN "ok" ELSE "error", FALSE)
    /\ UNCHANGED <<started, queue, missed, catalog, troubles, cart>>

\* The recommendations are there or failed.  Each is looked up; if one of them
\* is not found, none is shown.
ClosePage(u) ==
    /\ page[u].fate = "waiting"
    /\ rpc[u].at \in {"answered", "failed"}
    /\ rpc' = [rpc EXCEPT ![u] = NoCall]
    /\ \E shown \in SUBSET rpc[u].answer :
          /\ Cardinality(shown) =
                IF rpc[u].answer \subseteq catalog
                THEN Least(MaxShown, Cardinality(rpc[u].answer)) ELSE 0
          /\ IF Complete(u) THEN Respond(u, shown, "ok", FALSE) ELSE Respond(u, {}, "error", FALSE)
    /\ UNCHANGED <<started, queue, missed, catalog, troubles, cart>>

\* Mutant: only an empty cart takes a product.
InCart_First(u) == IF cart[u] = {} THEN {deal[u].item} ELSE cart[u]

\* The cart with the chosen product in it.
InCart(u) == cart[u] \cup {deal[u].item}

\* addToCartHandler
AddToCartPage(u) ==
    /\ Opening(u, "add")
    /\ deal[u].item \in catalog
    /\ cart' = [cart EXCEPT ![u] = InCart(u)]
    /\ Respond(u, {}, "ok", TRUE)
    /\ UNCHANGED services_vars

\* The products a request cannot do without.
Needed(u) == IF Requested(u) \in {"product", "add"} THEN {deal[u].item} ELSE cart[u]

\* A product is not listed any more.
NotFound(u) ==
    /\ \E r \in {"product", "add", "order"} : Opening(u, r)
    /\ ~(Needed(u) \subseteq catalog)
    /\ Respond(u, {}, "error", FALSE)
    /\ UNCHANGED <<services_vars, cart>>

\* A call the request cannot do without fails, before or after it had its effect.
Fault(u) ==
    /\ Requested(u) \notin {"none", "currency"}
    /\ page[u].fate = "waiting" => rpc[u].at \in {"answered", "failed"}
    /\ Trouble
    /\ Respond(u, {}, "error", FALSE)
    /\ rpc' = [rpc EXCEPT ![u] = NoCall]
    /\ \/ UNCHANGED cart
       \/ Opening(u, "add") /\ cart' = [cart EXCEPT ![u] = InCart(u)]
       \/ Opening(u, "order") /\ cart' = [cart EXCEPT ![u] = {}]
    /\ UNCHANGED <<started, queue, missed, catalog>>

\* The assistant's table holds the products of the file it was generated from,
\* whatever the catalog lists now.
Table == Products

\* The assistant describes the room, asks the model about the rows its search
\* returns and answers with them; a service that does not listen is an error.
Assistant(u) ==
    /\ Opening(u, "assistant")
    /\ IF Serving("assistant")
       THEN \E docs \in SUBSET Table :
               /\ Cardinality(docs) = Least(Nearest, Cardinality(Table))
               /\ Respond(u, docs, "ok", FALSE)
       ELSE Respond(u, {}, "error", FALSE)
    /\ UNCHANGED <<services_vars, cart>>

Visit(u) ==
    \/ PlainPage(u) \/ ProductPage(u) \/ CartPage(u) \/ OrderPage(u) \/ ClosePage(u)
    \/ AddToCartPage(u) \/ NotFound(u) \/ Assistant(u)

ShopNext ==
    \/ ServicesNext /\ UNCHANGED shopper
    \/ \E u \in Users : Begin(u) \/ Visit(u) \/ Fault(u)

ShopSpec == ShopInit /\ [][ShopNext]_shop_vars

\* The frontend goes on with every request it can go on with.
FairSpec ==
    /\ ShopSpec
    /\ ServicesFairness
    /\ \A u \in Users : WF_shop_vars(Visit(u))

-----------------------------------------------------------------------------
\* A page never recommends what it is about, nor what is in the cart it shows,
\* nor more than fits: the cart is read before the recommendations are asked
\* for and nothing enters it until the page is there (recommendation_server.py
\* 72-78, handlers.go 178, 266, rpc.go 113-115).
RecommendationsFit ==
    \A u \in Users : Requested(u) # "assistant" /\ page[u].ids # {} =>
        /\ page[u].shown \cap page[u].ids = {}
        /\ Cardinality(page[u].shown) <= MaxShown

\* A checkout whose addition was acknowledged orders what it added, whatever was
\* in the cart before and whichever cleanings of the cart failed
\* (locustfile.py 58-72, main.go 237, 262).
OrderHoldsAddition ==
    \A u \in Users :
        deal[u].added /\ deal[u].ordered # NoOrder => deal[u].item \in deal[u].ordered

\* A page is an error only if a critical call failed in that very request or a
\* product it needs is not listed: what happens to the recommendation service,
\* its crashes and restarts included, costs no page ("ignores the error
\* retrieving recommendations since it is not critical", handlers.go 177, 265).
ErrorsHaveCause ==
    [][\A u \in Users : page'[u].fate = "error" /\ page[u] # page'[u] =>
          \/ troubles' # troubles
          \/ ~(Needed(u) \cup page[u].ids \subseteq catalog)
          \/ Requested(u) = "assistant" /\ ~Serving("assistant")]_shop_vars

\* Recommendations are waited for without a deadline.  A task that never ends is
\* itself in a call of ListProducts that never returns, and the pool has a free
\* worker time and again: where such calls take every worker, the probes wait too
\* and the service is killed, which ends them, and the tasks queued behind them
\* (recommendation_server.py 70, 85, 136; the livenessProbe of its manifest).
TasksEnd ==
    \A u \in Users :
        \/ []<>(task[u] = <<>>)
        \/ /\ <>[](rpc[u].at = "working")
           /\ []<>(Cardinality(Working) < Workers)

\* All services are up together again and again, without profiler and tracing
\* if need be; the recommendation service only if it is told where the catalog
\* is (recommendation_server.py 49-64, 97-104, email_server.py 146-161, 168-175).
ServicesComeUp ==
    []<>(\A s \in Names : (s = "recommendation" => addressed) => Serving(s))
=============================================================================
