----------------------------- MODULE OrderBook -----------------------------
(***************************************************************************)
(* The reference order book of internal/orderbook: price levels in two     *)
(* maps, a cached best price per side, an index from order id to list      *)
(* node, and two bump allocators that are rewound only by Reset.           *)
(*                                                                         *)
(* One goroutine (Engine.Run) executes every command, so commands never    *)
(* overlap; an Add is nevertheless worked in steps, one per iteration of   *)
(* the matching loop, so that the book is checked between two fills and    *)
(* not only between two commands.                                          *)
(***************************************************************************)
EXTENDS Integers, SequencesExt

CONSTANTS Ids,       \* internal order ids the Sequencer hands out
          MaxPrice,  \* the largest price, as prices are of a bounded width
          Prices,    \* prices of limit orders
          Qtys,      \* quantities of orders
          Capacity   \* slots in the order arena and in the node pool

\* Price 0 means "no best price" to the code, so every real price is above it.
ASSUME PricesAssumption == MaxPrice \in Nat /\ Prices \subseteq 1..MaxPrice
ASSUME QtysAssumption == Qtys \subseteq Nat \ {0}
ASSUME CapacityAssumption == Capacity \in Nat \ {0}

Buy == 1
Sell == -1
Sides == {Buy, Sell}
Limit == 1
Market == 2

VARIABLES
  lvls,     \* side -> (price -> level): the maps bids and asks
  best,     \* side -> cached best price, 0 for none: bestBid and bestAsk
  orders,   \* id -> where the resting order is: the index
  slab,     \* orders stored in the arena since the last Reset
  nodes,    \* nodes taken from the node pool since the last Reset
  taker,    \* arena slot of the order an Add is working on, 0 when idle
  fills,    \* fills of the last command
  reply,    \* its result, "none" while it runs
  panicked  \* the arena ran out and the process died

vars == <<lvls, best, orders, slab, nodes, taker, fills, reply, panicked>>

-----------------------------------------------------------------------------
(* Orders, levels and prices.                                              *)
(*                                                                         *)
(* A name with a suffix, such as pricesCross_Strict, is a variant of the   *)
(* definition after it with a plausible bug, which no action uses: it is   *)
(* there to see the property that guards against the bug fail.             *)

\* A market order carries price 0.
PriceMatchesType(o) == IF o.type = Limit THEN o.price \in Prices ELSE o.price = 0

OrderWithFilled(quantities) ==
  {o \in [id : Ids, side : Sides, type : {Limit, Market}, price : Prices \cup {0},
          qty : Qtys, filled : quantities] : PriceMatchesType(o)}

Order == OrderWithFilled(Nat)
NewOrder == OrderWithFilled({0})

RemainingQty(o) == o.qty - o.filled

opposite(s) == -s

min64(a, b) == IF a < b THEN a ELSE b

\* A level: its orders from the oldest to the newest, and their open quantity.
EmptyLevel == [fifo |-> <<>>, total |-> 0]

push_Front(l, s, qty) == [fifo |-> <<s>> \o l.fifo, total |-> l.total + qty]

push(l, s, qty) == [fifo |-> Append(l.fifo, s), total |-> l.total + qty]

unlink_NoTotal(l, i, qty) == [fifo |-> RemoveAt(l.fifo, i), total |-> l.total]

unlink_Head(l, i, qty) == [fifo |-> Tail(l.fifo), total |-> l.total - qty]

unlink(l, i, qty) == [fifo |-> RemoveAt(l.fifo, i), total |-> l.total - qty]

\* Go's m[k] = v and delete(m, k) on a map.
Put(m, k, v) == [x \in DOMAIN m \cup {k} |-> IF x = k THEN v ELSE m[x]]
Delete(m, k) == [x \in DOMAIN m \ {k} |-> m[x]]

pricesCross_Strict(takerSide, takerPrice, makerPrice) ==
  IF takerSide = Buy THEN takerPrice > makerPrice ELSE takerPrice < makerPrice

pricesCross(takerSide, takerPrice, makerPrice) ==
  IF takerSide = Buy THEN takerPrice >= makerPrice ELSE takerPrice <= makerPrice

\* p is at least as good a price for a resting order on side s as q is.
AtLeast(s, p, q) == IF s = Buy THEN p >= q ELSE p <= q

findBest_Worst(ls, s) ==
  IF DOMAIN ls = {} THEN 0
  ELSE CHOOSE p \in DOMAIN ls : \A q \in DOMAIN ls : AtLeast(s, q, p)

findBest(ls, s) ==
  IF DOMAIN ls = {} THEN 0
  ELSE CHOOSE p \in DOMAIN ls : \A q \in DOMAIN ls : AtLeast(s, p, q)

updateBest(s, p) ==
  IF best[s] = 0 \/ (p # best[s] /\ AtLeast(s, p, best[s])) THEN p ELSE best[s]

\* Level p of side s, new or not, becomes l.
setLevel(s, p, l) == lvls' = [lvls EXCEPT ![s] = Put(@, p, l)]

\* Deletes level p of side s and, when it was the best one, looks for the next.
removeLevel(s, p) ==
  /\ lvls' = [lvls EXCEPT ![s] = Delete(@, p)]
  /\ best' = [best EXCEPT ![s] = IF p = @ THEN findBest(Delete(lvls[s], p), s) ELSE @]

\* The i-th order of level p of side s leaves the list, with qty of its total;
\* a level left empty is deleted.
leaveLevel(s, p, i, qty) ==
  LET l == unlink(lvls[s][p], i, qty) IN
  IF l.fifo = <<>> THEN removeLevel(s, p)
  ELSE setLevel(s, p, l) /\ UNCHANGED best

-----------------------------------------------------------------------------
(* The commands. *)

Idle == taker = 0 /\ ~panicked

Init ==
  /\ lvls = [s \in Sides |-> <<>>]
  /\ best = [s \in Sides |-> 0]
  /\ orders = <<>>
  /\ slab = <<>>
  /\ nodes = 0
  /\ taker = 0
  /\ fills = <<>>
  /\ reply = "none"
  /\ panicked = FALSE

\* The Sequencer numbers orders from an atomic counter, so an id is never
\* used twice between two Resets.
Fresh(id) == \A s \in DOMAIN slab : slab[s].id # id

BeginAdd(o) ==
  /\ Idle
  /\ Len(slab) < Capacity
  /\ Fresh(o.id)
  /\ slab' = Append(slab, o)
  /\ taker' = Len(slab) + 1
  /\ fills' = <<>>
  /\ reply' = "none"
  /\ UNCHANGED <<lvls, best, orders, nodes, panicked>>

ArenaExhausted ==
  /\ Idle
  /\ Len(slab) >= Capacity
  /\ panicked' = TRUE
  /\ UNCHANGED <<lvls, best, orders, slab, nodes, taker, fills, reply>>

Opp == opposite(slab[taker].side)

bestOpposite == lvls[Opp][best[Opp]]

CanMatch_AnyPrice ==
  /\ RemainingQty(slab[taker]) > 0
  /\ best[Opp] # 0 /\ best[Opp] \in DOMAIN lvls[Opp]

CanMatch_FilledTaker ==
  /\ best[Opp] # 0 /\ best[Opp] \in DOMAIN lvls[Opp]
  /\ \/ slab[taker].type = Market
     \/ pricesCross(slab[taker].side, slab[taker].price, best[Opp])

CanMatch ==
  /\ RemainingQty(slab[taker]) > 0
  /\ best[Opp] # 0 /\ best[Opp] \in DOMAIN lvls[Opp]
  /\ \/ slab[taker].type = Market
     \/ pricesCross(slab[taker].side, slab[taker].price, best[Opp])

\* One iteration of sweep: the oldest maker m of the best level trades qty,
\* and what that does to the two orders and to the list of fills.
Execute(m, qty) ==
  /\ slab' = [slab EXCEPT ![m].filled = @ + qty, ![taker].filled = @ + qty]
  /\ fills' = Append(fills, [maker |-> slab[m].id, taker |-> slab[taker].id,
                             price |-> best[Opp], qty |-> qty])
  /\ UNCHANGED <<nodes, taker, reply, panicked>>

Unindex_Not(id) == orders

Unindex(id) == Delete(orders, id)

MakerSurvives ==
  /\ taker # 0 /\ CanMatch
  /\ LET m == Head(bestOpposite.fifo)
         qty == min64(RemainingQty(slab[m]), RemainingQty(slab[taker]))
     IN /\ RemainingQty(slab[m]) # qty
        /\ Execute(m, qty)
        /\ setLevel(Opp, best[Opp], [bestOpposite EXCEPT !.total = @ - qty])
        /\ UNCHANGED <<best, orders>>

MakerFilled ==
  /\ taker # 0 /\ CanMatch
  /\ LET m == Head(bestOpposite.fifo)
         qty == min64(RemainingQty(slab[m]), RemainingQty(slab[taker]))
     IN /\ RemainingQty(slab[m]) = qty
        /\ Execute(m, qty)
        /\ orders' = Unindex(slab[m].id)
        /\ leaveLevel(Opp, best[Opp], 1, qty)

\* rest(stored): a limit order that keeps a remainder joins its level.
Rest ==
  /\ taker # 0 /\ ~CanMatch
  /\ slab[taker].type = Limit /\ RemainingQty(slab[taker]) > 0
  /\ LET o == slab[taker]
         l == IF o.price \in DOMAIN lvls[o.side] THEN lvls[o.side][o.price] ELSE EmptyLevel
     IN /\ setLevel(o.side, o.price, push(l, taker, RemainingQty(o)))
        /\ orders' = Put(orders, o.id, [order |-> taker, lvl |-> o.price])
        /\ best' = [best EXCEPT ![o.side] = updateBest(o.side, o.price)]
  /\ nodes' = nodes + 1
  /\ taker' = 0
  /\ reply' = "rests"
  /\ UNCHANGED <<slab, fills, panicked>>

Discard_OnlyFilled ==
  /\ taker # 0 /\ ~CanMatch
  /\ RemainingQty(slab[taker]) <= 0
  /\ taker' = 0
  /\ reply' = "done"
  /\ UNCHANGED <<lvls, best, orders, slab, nodes, fills, panicked>>

\* The order is filled, or it is a market order and its remainder is dropped.
Discard ==
  /\ taker # 0 /\ ~CanMatch
  /\ slab[taker].type = Market \/ RemainingQty(slab[taker]) <= 0
  /\ taker' = 0
  /\ reply' = "done"
  /\ UNCHANGED <<lvls, best, orders, slab, nodes, fills, panicked>>

CancelFound(id) ==
  /\ Idle
  /\ id \in DOMAIN orders
  /\ LET ref == orders[id]
         s == slab[ref.order].side
     IN \E i \in DOMAIN lvls[s][ref.lvl].fifo :
          /\ lvls[s][ref.lvl].fifo[i] = ref.order
          /\ leaveLevel(s, ref.lvl, i, RemainingQty(slab[ref.order]))
  /\ orders' = Unindex(id)
  /\ fills' = <<>>
  /\ reply' = "cancelled"
  /\ UNCHANGED <<slab, nodes, taker, panicked>>

CancelMissing(id) ==
  /\ Idle
  /\ id \notin DOMAIN orders
  /\ fills' = <<>>
  /\ reply' = "notfound"
  /\ UNCHANGED <<lvls, best, orders, slab, nodes, taker, panicked>>

Rewound_NotNodes == slab' = <<>> /\ nodes' = nodes

\* Both allocators start again from their first slot.
Rewound == slab' = <<>> /\ nodes' = 0

Reset ==
  /\ Idle
  /\ lvls' = [s \in Sides |-> <<>>]
  /\ best' = [s \in Sides |-> 0]
  /\ orders' = <<>>
  /\ Rewound
  /\ fills' = <<>>
  /\ reply' = "none"
  /\ UNCHANGED <<taker, panicked>>

Step == MakerSurvives \/ MakerFilled \/ Rest \/ Discard

Next ==
  \/ \E o \in NewOrder : BeginAdd(o)
  \/ ArenaExhausted
  \/ Step
  \/ \E id \in Ids : CancelFound(id) \/ CancelMissing(id)
  \/ Reset

Spec == Init /\ [][Next]_vars

\* The matching loop is straight-line code of one goroutine: it keeps going.
FairSpec == Spec /\ WF_vars(Step)

-----------------------------------------------------------------------------
(* Properties. *)

Level == [fifo : Seq(1..Capacity), total : Int]
Ref == [order : 1..Capacity, lvl : Prices]
Fill == [maker : Ids, taker : Ids, price : Prices, qty : Nat \ {0}]

LvlsOK ==
  /\ DOMAIN lvls = Sides
  /\ \A s \in Sides : /\ DOMAIN lvls[s] \subseteq Prices
                      /\ lvls[s] \in [DOMAIN lvls[s] -> Level]

BestOK == best \in [Sides -> Prices \cup {0}]

OrdersOK ==
  /\ DOMAIN orders \subseteq Ids
  /\ orders \in [DOMAIN orders -> Ref]

SlabOK == slab \in Seq(Order) /\ Len(slab) <= Capacity

\* Types of the book's state: the allocators' cursors never leave their slabs,
\* and sweep reports no fill of nothing.
TypeOK ==
  /\ LvlsOK /\ BestOK /\ OrdersOK /\ SlabOK
  /\ nodes \in 0..Capacity
  /\ taker \in 0..Len(slab)
  /\ fills \in Seq(Fill)
  /\ reply \in {"none", "rests", "done", "cancelled", "notfound"}
  /\ panicked \in BOOLEAN

\* The arena slots linked into level p of side s.
Linked(s, p) == ToSet(lvls[s][p].fifo)

Indexed == {orders[id].order : id \in DOMAIN orders}

\* The index and the levels describe the same resting orders: an id leads to
\* an open limit order linked at its own side and price, every linked order is
\* found through its id, and no level is left empty (Cancel, sweep and rest
\* each touch both structures).
IndexAgrees ==
  /\ \A id \in DOMAIN orders :
       LET o == slab[orders[id].order] IN
       /\ orders[id].order \in DOMAIN slab
       /\ o.id = id /\ o.type = Limit /\ RemainingQty(o) > 0
       /\ orders[id].lvl = o.price
       /\ o.price \in DOMAIN lvls[o.side]
       /\ orders[id].order \in Linked(o.side, o.price)
  /\ \A s \in Sides : \A p \in DOMAIN lvls[s] :
       /\ lvls[s][p].fifo # <<>>
       /\ \A m \in Linked(s, p) :
            /\ m \in DOMAIN slab
            /\ slab[m].id \in DOMAIN orders
            /\ orders[slab[m].id].order = m
            /\ slab[m].side = s /\ slab[m].price = p

\* Within a level the list runs from the oldest to the newest order, so that
\* sweep, which serves the head, serves by arrival; in particular no order is
\* linked twice.
TimePriority ==
  \A s \in Sides : \A p \in DOMAIN lvls[s] :
    \A i, j \in DOMAIN lvls[s][p].fifo :
      i < j => lvls[s][p].fifo[i] < lvls[s][p].fifo[j]

\* The cached best price of a side is the best price it holds, and 0 exactly
\* when the side is empty, after every update, removal and rescan of a side.
BestIsTop ==
  \A s \in Sides :
    IF DOMAIN lvls[s] = {} THEN best[s] = 0
    ELSE /\ best[s] \in DOMAIN lvls[s]
         /\ \A p \in DOMAIN lvls[s] : AtLeast(s, best[s], p)

\* No resting buy order could trade with a resting sell order: what could have
\* traded has traded before an order rests.
NotCrossed ==
  \A b \in DOMAIN lvls[Buy], a \in DOMAIN lvls[Sell] : b < a

\* The open quantity of the orders in the arena.
OpenQty == [m \in DOMAIN slab |-> RemainingQty(slab[m])]

\* The total a level reports to Depth is the open quantity of its orders, kept
\* so by three separate updates (push, sweep, remove).
TotalsAgree ==
  \A s \in Sides : \A p \in DOMAIN lvls[s] :
    lvls[s][p].total = SumFunctionOnSet(OpenQty, Linked(s, p))

\* Whenever an Add may come to rest a node is free: the node pool, of the
\* arena's size, cannot run out before the arena does, also across Resets.
NodePoolSuffices == nodes < Len(slab) + (IF taker = 0 THEN 1 ELSE 0)

\* An order that has left the book never rests, trades or is worked again: it
\* was filled, dropped or cancelled, and stays as it was until Reset.
DeadStaysDead ==
  [][slab' # <<>> =>
       \A m \in DOMAIN slab :
         (m \notin Indexed /\ m # taker)
           => (m \notin Indexed' /\ m # taker' /\ slab'[m] = slab[m])]_vars

\* Every Add answers: the matching loop ends.
AddCompletes == (taker # 0) ~> (taker = 0)

\* What a caller knows of a stored order, and of the order being worked.
Shown(o) == [id |-> o.id, side |-> o.side, price |-> o.price, left |-> RemainingQty(o)]
Worked(o) == [id |-> o.id, side |-> o.side, type |-> o.type, price |-> o.price,
              left |-> RemainingQty(o)]

\* The book as a caller knows it: its resting orders by arrival number.
Resting == [m \in Indexed |-> Shown(slab[m])]
InHand == IF taker = 0 THEN <<>> ELSE <<Worked(slab[taker])>>

Abstract == INSTANCE PriceTime
              WITH book <- Resting, incoming <- InHand, arrivals <- Len(slab)

\* Levels, cached best prices and index together give price-time priority:
\* every fill is with the order the abstract book serves next, an Add stops
\* exactly when no acceptable order is left, and cancelling works once.
ImplementsPriceTime == Abstract!Spec
=============================================================================
