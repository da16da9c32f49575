----------------------------- MODULE PriceTime -----------------------------
(***************************************************************************)
(* What an order book promises its callers, with no word about levels,     *)
(* lists, indexes or cached best prices: one order at a time arrives, it   *)
(* trades against the resting orders it accepts in price-time priority,    *)
(* and what is left of a limit order rests.  A resting order can be        *)
(* cancelled, and only once.                                               *)
(***************************************************************************)
EXTENDS Integers, Sequences

CONSTANTS Ids,      \* identities of orders
          Prices,   \* prices of limit orders, ticks above zero
          Qtys      \* quantities an order is submitted with

Buy == 1
Sell == -1
Limit == 1
Market == 2

VARIABLES
  book,      \* arrival number -> resting order
  incoming,  \* <<>>, or <<the order being worked>>
  arrivals,  \* orders accepted since the last Reset
  fills,     \* executions reported for the last command
  reply      \* the answer to the last command, "none" while it is worked

vars == <<book, incoming, arrivals, fills, reply>>

Init ==
  /\ book = <<>>
  /\ incoming = <<>>
  /\ arrivals = 0
  /\ fills = <<>>
  /\ reply = "none"

\* A limit order accepts any price at least as good as its own, a market
\* order accepts every price.
Accepts(o, price) ==
  \/ o.type = Market
  \/ o.side = Buy /\ price <= o.price
  \/ o.side = Sell /\ price >= o.price

Eligible(o) ==
  {m \in DOMAIN book : book[m].side # o.side /\ Accepts(o, book[m].price)}

\* m is served before n: a better price for the other side, then seniority.
Ahead(m, n) ==
  \/ book[m].side = Buy /\ book[m].price > book[n].price
  \/ book[m].side = Sell /\ book[m].price < book[n].price
  \/ book[m].price = book[n].price /\ m < n

Submit ==
  \E id \in Ids, side \in {Buy, Sell}, type \in {Limit, Market},
     price \in Prices \cup {0}, left \in Qtys :
    /\ incoming = <<>>
    /\ type = Limit => price \in Prices
    /\ \A m \in DOMAIN book : book[m].id # id
    /\ incoming' = <<[id |-> id, side |-> side, type |-> type,
                      price |-> price, left |-> left]>>
    /\ arrivals' = arrivals + 1
    /\ fills' = <<>>
    /\ reply' = "none"
    /\ UNCHANGED book

Trade ==
  /\ incoming # <<>>
  /\ LET o == incoming[1] IN
     /\ o.left > 0
     /\ \E m \in Eligible(o) :
          LET qty == IF book[m].left < o.left THEN book[m].left ELSE o.left
          IN
          /\ \A n \in Eligible(o) \ {m} : Ahead(m, n)
          /\ book' = IF book[m].left = qty
                     THEN [n \in DOMAIN book \ {m} |-> book[n]]
                     ELSE [book EXCEPT ![m].left = @ - qty]
          /\ incoming' = <<[o EXCEPT !.left = @ - qty]>>
          /\ fills' = Append(fills, [maker |-> book[m].id, taker |-> o.id,
                                     price |-> book[m].price, qty |-> qty])
  /\ UNCHANGED <<arrivals, reply>>

\* The order is worked out: nothing is left of it, or nothing it accepts is.
Finish ==
  /\ incoming # <<>>
  /\ LET o == incoming[1] IN
     /\ o.left = 0 \/ Eligible(o) = {}
     /\ IF o.type = Limit /\ o.left > 0
        THEN /\ book' = [n \in DOMAIN book \cup {arrivals} |->
                          IF n = arrivals
                          THEN [id |-> o.id, side |-> o.side,
                                price |-> o.price, left |-> o.left]
                          ELSE book[n]]
             /\ reply' = "rests"
        ELSE /\ reply' = "done"
             /\ UNCHANGED book
  /\ incoming' = <<>>
  /\ UNCHANGED <<arrivals, fills>>

Cancel ==
  \E id \in Ids :
    /\ incoming = <<>>
    /\ book' = [m \in {n \in DOMAIN book : book[n].id # id} |-> book[m]]
    /\ reply' = IF \E m \in DOMAIN book : book[m].id = id
                THEN "cancelled" ELSE "notfound"
    /\ fills' = <<>>
    /\ UNCHANGED <<incoming, arrivals>>

Reset ==
  /\ incoming = <<>>
  /\ book' = <<>>
  /\ arrivals' = 0
  /\ fills' = <<>>
  /\ reply' = "none"
  /\ UNCHANGED incoming

Next == Submit \/ Trade \/ Finish \/ Cancel \/ Reset

Spec == Init /\ [][Next]_vars
=============================================================================
