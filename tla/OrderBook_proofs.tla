-------------------------- MODULE OrderBook_proofs --------------------------
(***************************************************************************)
(* Proofs about OrderBook for every set of ids, prices and quantities and  *)
(* every capacity: that its state keeps its types, that the index, the     *)
(* levels and the cached best prices agree, that the book is never         *)
(* crossed, that an order which has left it stays out, that what its       *)
(* callers see is price-time priority, that an Add ends, and that the book *)
(* is what Sequencer takes it for.                                         *)
(***************************************************************************)
EXTENDS OrderBook, SumTheorems, SequenceTheorems

-----------------------------------------------------------------------------
(* Facts about sequences and sets of numbers. *)

\* A function on an interval from 1 is a sequence.
LEMMA FunctionIsSeq ==
  ASSUME NEW S, NEW n \in Nat, NEW f \in [1..n -> S]
  PROVE  f \in Seq(S) /\ Len(f) = n
<1>1. f \in Seq(S)
  BY SeqDef
<1>2. DOMAIN f = 1..n /\ DOMAIN f = 1..Len(f) /\ Len(f) \in Nat
  BY <1>1, LenProperties
<1> QED BY <1>1, <1>2

\* Removing the i-th element keeps the others in their order: what level.remove
\* does to the list of a level.
LEMMA RemoveAtFacts ==
  ASSUME NEW S, NEW f \in Seq(S), NEW i \in 1..Len(f)
  PROVE  /\ RemoveAt(f, i) \in Seq(S)
         /\ Len(RemoveAt(f, i)) = Len(f) - 1
         /\ \A j \in 1..(Len(f) - 1) :
              RemoveAt(f, i)[j] = IF j < i THEN f[j] ELSE f[j + 1]
<1>a. SUFFICES ASSUME NEW a, NEW b,
                    a = SubSeq(f, 1, i-1), b = SubSeq(f, i+1, Len(f))
             PROVE  /\ a \o b \in Seq(S)
                    /\ Len(a \o b) = Len(f) - 1
                    /\ \A j \in 1..(Len(f) - 1) :
                         (a \o b)[j] = IF j < i THEN f[j] ELSE f[j + 1]
  BY DEF RemoveAt
<1>0. Len(f) \in Nat /\ \A j \in 1..Len(f) : f[j] \in S
  BY LenProperties
<1>1. /\ a \in Seq(S) /\ Len(a) = i - 1
      /\ \A j \in 1..(i-1) : a[j] = f[j]
  <2>1. i - 1 \in Int /\ 1 \in Int /\ \A j \in 1..(i-1) : f[j] \in S BY <1>0
  <2>2. /\ a \in Seq(S) /\ Len(a) = IF 1 <= i-1 THEN i-1-1+1 ELSE 0
        /\ \A j \in 1..(i-1-1+1) : a[j] = f[1+j-1]
    BY <1>a, <2>1, SubSeqProperties
  <2> QED BY <2>2, <1>0
<1>2. /\ b \in Seq(S) /\ Len(b) = Len(f) - i
      /\ \A j \in 1..(Len(f)-i) : b[j] = f[i+j]
  <2>1. \A j \in (i+1)..Len(f) : f[j] \in S BY <1>0
  <2>2. /\ b \in Seq(S) /\ Len(b) = IF i+1 <= Len(f) THEN Len(f)-(i+1)+1 ELSE 0
        /\ \A j \in 1..(Len(f)-(i+1)+1) : b[j] = f[i+1+j-1]
    BY <1>a, <2>1, <1>0, SubSeqProperties
  <2> QED BY <2>2, <1>0
<1>3. /\ a \o b \in Seq(S)
      /\ Len(a \o b) = Len(a) + Len(b)
      /\ \A j \in 1 .. Len(a) + Len(b) : (a \o b)[j] =
                     IF j <= Len(a) THEN a[j] ELSE b[j - Len(a)]
  BY <1>1, <1>2, ConcatProperties
<1>4. SUFFICES ASSUME NEW j \in 1..(Len(f) - 1)
               PROVE  (a \o b)[j] = IF j < i THEN f[j] ELSE f[j + 1]
  BY <1>0, <1>1, <1>2, <1>3
<1>5. CASE j < i
  BY <1>0, <1>1, <1>2, <1>3, <1>5
<1>6. CASE ~(j < i)
  <2>1. j - (i - 1) \in 1..(Len(f) - i) /\ i + (j - (i - 1)) = j + 1
    BY <1>0, <1>6
  <2>2. (a \o b)[j] = b[j - (i - 1)]
    BY <1>0, <1>1, <1>2, <1>3, <1>6
  <2>3. b[j - (i - 1)] = f[i + (j - (i - 1))]
    BY <1>2, <2>1
  <2> QED BY <1>6, <2>1, <2>2, <2>3
<1> QED BY <1>5, <1>6

\* A set of prices below a bound has a greatest one: findBest on the bids.
LEMMA GreatestExists ==
  ASSUME NEW b \in Nat, NEW P \in SUBSET (0..b), P # {}
  PROVE  \E p \in P : \A q \in P : q <= p
<1>1. \A q \in P : b - q \in Nat
  OBVIOUS
<1>2. {b - q : q \in P} \in SUBSET Nat /\ {b - q : q \in P} # {}
  BY <1>1
<1>3. PICK d \in {b - q : q \in P} : \A e \in {b - q : q \in P} : d <= e
  BY <1>2, LeastExists
<1>4. PICK p \in P : d = b - p
  BY <1>3
<1>5. \A q \in P : b - p <= b - q
  BY <1>3, <1>4
<1> QED BY <1>5

-----------------------------------------------------------------------------
(* The operators of the book. *)

\* findBest returns the best price of a side that has one, and 0 otherwise.
LEMMA FindBestFacts ==
  ASSUME NEW ls, DOMAIN ls \subseteq Prices, NEW s \in Sides
  PROVE  /\ findBest(ls, s) \in Prices \cup {0}
         /\ IF DOMAIN ls = {} THEN findBest(ls, s) = 0
            ELSE /\ findBest(ls, s) \in DOMAIN ls
                 /\ \A p \in DOMAIN ls : AtLeast(s, findBest(ls, s), p)
<1>1. CASE DOMAIN ls = {}
  BY <1>1 DEF findBest
<1>2. CASE DOMAIN ls # {}
  <2>0. Prices \subseteq Nat /\ Prices \subseteq 0..MaxPrice
    BY PricesAssumption
  <2>1. DOMAIN ls \in SUBSET Nat /\ DOMAIN ls \in SUBSET (0..MaxPrice)
    BY <2>0, Zenon
  <2>2. \E p \in DOMAIN ls : \A q \in DOMAIN ls : AtLeast(s, p, q)
    <3>1. CASE s = Buy
      BY <1>2, <2>1, <3>1, GreatestExists, PricesAssumption DEF AtLeast
    <3>2. CASE s # Buy
      BY <1>2, <2>1, <3>2, LeastExists DEF AtLeast
    <3> QED BY <3>1, <3>2
  <2> QED BY <1>2, <2>2 DEF findBest
<1> QED BY <1>1, <1>2

\* What an order is, field by field.
LEMMA OrderFields ==
  ASSUME NEW o \in Order
  PROVE  /\ o.id \in Ids /\ o.side \in Sides /\ RemainingQty(o) \in Int
         /\ o.type \in {Limit, Market}
         /\ o.type = Limit => o.price \in Prices
<1>1. o.qty \in Int /\ o.filled \in Int
  <2>1. o.qty \in Qtys /\ o.filled \in Nat
    BY DEF Order, OrderWithFilled
  <2>2. \A q \in Qtys : q \in Int
    BY QtysAssumption
  <2> QED BY <2>1, <2>2
<1> QED BY <1>1 DEF Order, OrderWithFilled, PriceMatchesType, RemainingQty

\* setLevel changes one level of one side.
LEMMA SetLevelFacts ==
  ASSUME LvlsOK, NEW s \in Sides, NEW p \in Prices, NEW l \in Level,
         setLevel(s, p, l)
  PROVE  /\ LvlsOK'
         /\ DOMAIN lvls'[s] = DOMAIN lvls[s] \cup {p}
         /\ lvls'[s][p] = l
         /\ \A r \in DOMAIN lvls[s] \ {p} : lvls'[s][r] = lvls[s][r]
         /\ \A t \in Sides \ {s} : lvls'[t] = lvls[t]
<1>1. /\ DOMAIN lvls' = Sides
      /\ lvls'[s] = Put(lvls[s], p, l)
      /\ \A t \in Sides \ {s} : lvls'[t] = lvls[t]
  BY DEF setLevel, LvlsOK
<1>2. /\ DOMAIN lvls'[s] = DOMAIN lvls[s] \cup {p}
      /\ lvls'[s][p] = l
      /\ \A r \in DOMAIN lvls[s] \ {p} : lvls'[s][r] = lvls[s][r]
      /\ lvls'[s] \in [DOMAIN lvls'[s] -> Level]
  BY <1>1 DEF Put, LvlsOK
<1> QED BY <1>1, <1>2 DEF LvlsOK

\* removeLevel deletes one level and leaves the cached best price of its side
\* right.
LEMMA RemoveLevelFacts ==
  ASSUME LvlsOK, best \in [Sides -> Prices \cup {0}], BestIsTop,
         NEW s \in Sides, NEW p \in DOMAIN lvls[s], removeLevel(s, p)
  PROVE  /\ LvlsOK'
         /\ best' \in [Sides -> Prices \cup {0}]
         /\ DOMAIN lvls'[s] = DOMAIN lvls[s] \ {p}
         /\ \A r \in DOMAIN lvls[s] \ {p} : lvls'[s][r] = lvls[s][r]
         /\ \A t \in Sides \ {s} : lvls'[t] = lvls[t]
         /\ BestIsTop'
<1>1. /\ DOMAIN lvls' = Sides
      /\ lvls'[s] = Delete(lvls[s], p)
      /\ \A t \in Sides \ {s} : lvls'[t] = lvls[t]
  BY DEF removeLevel, LvlsOK
<1>2. /\ DOMAIN lvls'[s] = DOMAIN lvls[s] \ {p}
      /\ \A r \in DOMAIN lvls[s] \ {p} : lvls'[s][r] = lvls[s][r]
      /\ lvls'[s] \in [DOMAIN lvls'[s] -> Level]
      /\ DOMAIN lvls'[s] \subseteq Prices
  BY <1>1 DEF Delete, LvlsOK
<1>3. LvlsOK'
  BY <1>1, <1>2 DEF LvlsOK
<1>4. /\ best'[s] = IF p = best[s] THEN findBest(lvls'[s], s) ELSE best[s]
      /\ \A t \in Sides \ {s} : best'[t] = best[t]
  BY <1>1 DEF removeLevel
<1>5. /\ findBest(lvls'[s], s) \in Prices \cup {0}
      /\ IF DOMAIN lvls'[s] = {} THEN findBest(lvls'[s], s) = 0
         ELSE /\ findBest(lvls'[s], s) \in DOMAIN lvls'[s]
              /\ \A q \in DOMAIN lvls'[s] : AtLeast(s, findBest(lvls'[s], s), q)
  BY <1>2, FindBestFacts
<1>6. best' \in [Sides -> Prices \cup {0}]
  BY <1>4, <1>5 DEF removeLevel
<1>7. BestIsTop'
  BY <1>1, <1>2, <1>4, <1>5 DEF BestIsTop
<1> QED BY <1>1, <1>2, <1>3, <1>6, <1>7

Increasing(f) == \A i, j \in DOMAIN f : i < j => f[i] < f[j]

\* Taking an order out of a level leaves the others, from the oldest to the
\* newest.
LEMMA UnlinkFacts ==
  ASSUME NEW l \in Level, NEW i \in DOMAIN l.fifo, NEW qty \in Int,
         Increasing(l.fifo)
  PROVE  /\ unlink(l, i, qty) \in Level
         /\ Increasing(unlink(l, i, qty).fifo)
         /\ ToSet(unlink(l, i, qty).fifo) = ToSet(l.fifo) \ {l.fifo[i]}
<1> DEFINE f == l.fifo
           g == RemoveAt(f, i)
<1>0. f \in Seq(1..Capacity) /\ l.total \in Int
  BY DEF Level
<1>1. /\ DOMAIN f = 1..Len(f) /\ Len(f) \in Nat
      /\ i \in 1..Len(f)
      /\ \A j \in 1..Len(f) : f[j] \in Nat
  <2>1. DOMAIN f = 1..Len(f) /\ Len(f) \in Nat /\ i \in 1..Len(f)
    BY <1>0, LenProperties
  <2>2. \A j \in 1..Len(f) : f[j] \in 1..Capacity
    BY <1>0, ElementOfSeq
  <2> QED BY <2>1, <2>2, CapacityAssumption
<1>2. /\ g \in Seq(1..Capacity)
      /\ Len(g) = Len(f) - 1
      /\ \A j \in 1..(Len(f) - 1) : g[j] = IF j < i THEN f[j] ELSE f[j + 1]
  BY <1>0, <1>1, RemoveAtFacts
<1>3. DOMAIN g = 1..(Len(f) - 1)
  BY <1>2, LenProperties
<1>4. unlink(l, i, qty) = [fifo |-> g, total |-> l.total - qty]
  BY DEF unlink
<1> HIDE DEF f, g
<1>5. unlink(l, i, qty) \in Level
  BY <1>0, <1>2, <1>4 DEF Level
<1>6. Increasing(f)
  BY DEF f
<1>7. Increasing(g)
  <2>1. SUFFICES ASSUME NEW j \in DOMAIN g, NEW k \in DOMAIN g, j < k
                 PROVE  g[j] < g[k]
    BY DEF Increasing
  <2> DEFINE a == IF j < i THEN j ELSE j + 1
             b == IF k < i THEN k ELSE k + 1
  <2>2. j \in 1..(Len(f) - 1) /\ k \in 1..(Len(f) - 1)
    BY <1>3
  <2>3. g[j] = f[a]
    BY <1>2, <2>2
  <2>4. g[k] = f[b]
    BY <1>2, <2>2
  <2>5. i \in Nat
    BY <1>1
  <2>6. a \in 1..Len(f) /\ b \in 1..Len(f) /\ a < b
    BY <1>1, <2>1, <2>2, <2>5
  <2> HIDE DEF a, b
  <2> QED BY <1>1, <1>6, <2>3, <2>4, <2>6 DEF Increasing
<1>8. ToSet(g) = ToSet(f) \ {f[i]}
  <2>1. \A j \in DOMAIN g : g[j] \in ToSet(f) /\ g[j] # f[i]
    <3>1. \A a, b \in 1..Len(f) : a < b => f[a] < f[b]
      BY <1>1, <1>6 DEF Increasing
    <3>2. i \in 1..Len(f)
      BY <1>1 DEF f
    <3>3. \A a \in 1..Len(f) : a # i => f[a] # f[i]
      BY <1>1, <3>1, <3>2
    <3>4. \A a \in 1..Len(f) : f[a] \in ToSet(f)
      BY <1>1 DEF ToSet
    <3> QED BY <1>1, <1>2, <1>3, <3>2, <3>3, <3>4
  <2>2. ASSUME NEW a \in DOMAIN f, f[a] # f[i]
        PROVE  \E j \in DOMAIN g : g[j] = f[a]
    <3>0. i \in 1..Len(f) /\ a # i
      BY <1>1, <2>2 DEF f
    <3>1. CASE a < i
      BY <1>1, <1>2, <1>3, <3>0, <3>1
    <3>2. CASE i < a
      <4>1. a - 1 \in 1..(Len(f) - 1) /\ ~(a - 1 < i) /\ (a - 1) + 1 = a
        BY <1>1, <3>0, <3>2
      <4> QED BY <1>2, <1>3, <4>1
    <3> QED BY <1>1, <3>0, <3>1, <3>2
  <2> QED BY <2>1, <2>2 DEF ToSet
<1> QED BY <1>4, <1>5, <1>7, <1>8 DEF f

\* An order pushed on a level of older orders is its newest.
LEMMA PushFacts ==
  ASSUME NEW l \in Level, NEW m \in 1..Capacity, NEW qty \in Int,
         Increasing(l.fifo), \A x \in ToSet(l.fifo) : x < m
  PROVE  /\ push(l, m, qty) \in Level
         /\ push(l, m, qty).fifo # <<>>
         /\ Increasing(push(l, m, qty).fifo)
         /\ ToSet(push(l, m, qty).fifo) = ToSet(l.fifo) \cup {m}
<1> DEFINE f == l.fifo
           g == Append(f, m)
<1>0. f \in Seq(1..Capacity) /\ l.total \in Int
  BY DEF Level
<1>1. DOMAIN f = 1..Len(f) /\ Len(f) \in Nat
  BY <1>0, LenProperties
<1>2. /\ g \in Seq(1..Capacity) /\ g # <<>>
      /\ Len(g) = Len(f) + 1
      /\ \A j \in 1..Len(f) : g[j] = f[j]
      /\ g[Len(f) + 1] = m
  BY <1>0, AppendProperties
<1>3. DOMAIN g = 1..(Len(f) + 1)
  BY <1>2, LenProperties
<1>4. push(l, m, qty) = [fifo |-> g, total |-> l.total + qty]
  BY DEF push
<1> HIDE DEF f, g
<1>5. push(l, m, qty) \in Level
  BY <1>0, <1>2, <1>4 DEF Level
<1>6. Increasing(f) /\ \A j \in 1..Len(f) : f[j] < m
  BY <1>1 DEF f, ToSet
<1>7. Increasing(g)
  BY <1>1, <1>2, <1>3, <1>6 DEF Increasing
<1>8. ToSet(g) = ToSet(f) \cup {m}
  BY <1>1, <1>2, <1>3 DEF ToSet
<1> QED BY <1>2, <1>4, <1>5, <1>7, <1>8 DEF f

-----------------------------------------------------------------------------
(* The inductive invariant: the properties of OrderBook, with what makes     *)
(* them inductive.                                                           *)

\* An arena slot is taken by one order.
UniqueIds ==
  \A m, n \in DOMAIN slab : slab[m].id = slab[n].id => m = n

\* The order in hand is the newest one, and is not in the book yet.
TakerInHand == taker # 0 => taker = Len(slab) /\ taker \notin Indexed

IInv ==
  /\ TypeOK
  /\ IndexAgrees
  /\ TimePriority
  /\ BestIsTop
  /\ NotCrossed
  /\ NodePoolSuffices
  /\ UniqueIds
  /\ TakerInHand

\* What a step may change of the stored orders while the book changes: nobody
\* in the arena moves, and only m and the order in hand trade.
SlabKept(m) ==
  /\ Len(slab') = Len(slab)
  /\ \A x \in DOMAIN slab :
       /\ slab'[x].id = slab[x].id /\ slab'[x].side = slab[x].side
       /\ slab'[x].type = slab[x].type /\ slab'[x].price = slab[x].price
  /\ \A x \in DOMAIN slab : x # m /\ x # taker => slab'[x] = slab[x]

\* An order leaves the book, by being filled or cancelled, and the rest of
\* the book stays as it should be.
LEMMA LeaveFacts ==
  ASSUME IInv, SlabOK',
         NEW s \in Sides, NEW p \in DOMAIN lvls[s], NEW i \in DOMAIN lvls[s][p].fifo,
         NEW qty \in Int, NEW m \in DOMAIN slab,
         m = lvls[s][p].fifo[i],
         SlabKept(m),
         leaveLevel(s, p, i, qty),
         orders' = Unindex(slab[m].id)
  PROVE  /\ LvlsOK' /\ BestOK' /\ OrdersOK'
         /\ IndexAgrees' /\ TimePriority' /\ BestIsTop' /\ NotCrossed'
         /\ Indexed' = Indexed \ {m}
<1> DEFINE l == unlink(lvls[s][p], i, qty)
<1>0. LvlsOK /\ BestOK /\ OrdersOK /\ SlabOK
  BY DEF IInv, TypeOK
<1>1. lvls[s][p] \in Level /\ p \in Prices /\ Increasing(lvls[s][p].fifo)
  BY <1>0 DEF LvlsOK, IInv, TimePriority, Increasing
<1>2. /\ l \in Level /\ Increasing(l.fifo)
      /\ ToSet(l.fifo) = ToSet(lvls[s][p].fifo) \ {m}
  BY <1>1, UnlinkFacts
<1>3. \A t \in Sides : \A r \in DOMAIN lvls[t] : Linked(t, r) = ToSet(lvls[t][r].fifo)
  BY DEF Linked, ToSet
<1>4. m \in Linked(s, p)
  BY DEF Linked, ToSet
<1> HIDE DEF l
<1>5. LvlsOK' /\ BestOK' /\ BestIsTop'
  <2>1. CASE l.fifo = <<>>
    <3>1. removeLevel(s, p)
      BY <2>1 DEF leaveLevel, l
    <3> QED BY <1>0, <3>1, RemoveLevelFacts DEF IInv, BestOK
  <2>2. CASE l.fifo # <<>>
    <3>1. setLevel(s, p, l) /\ best' = best
      BY <2>2 DEF leaveLevel, l
    <3>2. LvlsOK' /\ \A t \in Sides : DOMAIN lvls'[t] = DOMAIN lvls[t]
      <4>1. /\ LvlsOK'
            /\ DOMAIN lvls'[s] = DOMAIN lvls[s] \cup {p}
            /\ \A t \in Sides \ {s} : lvls'[t] = lvls[t]
        BY <1>0, <1>1, <1>2, <3>1, SetLevelFacts
      <4> QED BY <4>1
    <3> QED BY <1>0, <3>1, <3>2 DEF IInv, BestIsTop, BestOK
  <2> QED BY <2>1, <2>2
\* What the levels hold after the step.
<1>6. \A t \in Sides : \A r \in DOMAIN lvls'[t] :
        /\ r \in DOMAIN lvls[t]
        /\ lvls'[t][r].fifo # <<>>
        /\ Increasing(lvls'[t][r].fifo)
        /\ ToSet(lvls'[t][r].fifo) = Linked(t, r) \ (IF t = s /\ r = p THEN {m} ELSE {})
  <2> SUFFICES ASSUME NEW t \in Sides, NEW r \in DOMAIN lvls'[t]
               PROVE  /\ r \in DOMAIN lvls[t]
                      /\ lvls'[t][r].fifo # <<>>
                      /\ Increasing(lvls'[t][r].fifo)
                      /\ ToSet(lvls'[t][r].fifo) = Linked(t, r) \ (IF t = s /\ r = p THEN {m} ELSE {})
    OBVIOUS
  <2>1. r \in DOMAIN lvls[t]
        /\ IF t = s /\ r = p THEN l.fifo # <<>> /\ lvls'[t][r] = l
           ELSE lvls'[t][r] = lvls[t][r]
    <3>1. CASE l.fifo = <<>>
      <4>1. removeLevel(s, p)
        BY <3>1 DEF leaveLevel, l
      <4> QED BY <1>0, <3>1, <4>1, RemoveLevelFacts DEF IInv, BestOK
    <3>2. CASE l.fifo # <<>>
      <4>1. setLevel(s, p, l)
        BY <3>2 DEF leaveLevel, l
      <4> QED BY <1>0, <1>1, <1>2, <3>2, <4>1, SetLevelFacts
    <3> QED BY <3>1, <3>2
  <2>3. CASE t = s /\ r = p
    BY <1>2, <1>3, <2>1, <2>3
  <2>4. CASE ~(t = s /\ r = p)
    <3>1. lvls[t][r].fifo # <<>> /\ Increasing(lvls[t][r].fifo)
      BY <2>1 DEF IInv, IndexAgrees, TimePriority, Increasing
    <3> QED BY <1>3, <2>1, <2>4, <3>1
  <2> QED BY <2>3, <2>4
<1>7. \A t \in Sides : \A r \in DOMAIN lvls[t] :
        r \in DOMAIN lvls'[t] \/ (t = s /\ r = p /\ Linked(s, p) = {m})
  <2>1. CASE l.fifo = <<>>
    <3>1. removeLevel(s, p)
      BY <2>1 DEF leaveLevel, l
    <3>2. ToSet(l.fifo) = {}
      BY <2>1 DEF ToSet
    <3>3. Linked(s, p) = {m}
      BY <1>2, <1>3, <1>4, <3>2
    <3> QED BY <1>0, <3>1, <3>3, RemoveLevelFacts DEF IInv, BestOK
  <2>2. CASE l.fifo # <<>>
    <3>1. setLevel(s, p, l)
      BY <2>2 DEF leaveLevel, l
    <3> QED BY <1>0, <1>1, <1>2, <3>1, SetLevelFacts
  <2> QED BY <2>1, <2>2
<1>8. TimePriority'
  BY <1>6 DEF TimePriority, Increasing
<1>9. NotCrossed'
  BY <1>6 DEF NotCrossed, IInv, Sides
<1>10. DOMAIN orders' = DOMAIN orders \ {slab[m].id}
       /\ \A id \in DOMAIN orders' : orders'[id] = orders[id]
  BY DEF Unindex, Delete
<1>11. OrdersOK'
  BY <1>0, <1>10 DEF OrdersOK, Unindex, Delete
<1>12. slab[m].id \in DOMAIN orders /\ orders[slab[m].id].order = m
       /\ slab[m].side = s /\ slab[m].price = p
  BY <1>4 DEF IInv, IndexAgrees
<1>13. Indexed' = Indexed \ {m}
  <2> DEFINE a == slab[m].id
  <2>1. \A id \in DOMAIN orders : id # a => orders[id].order # m
    BY DEF IInv, IndexAgrees
  <2>2. a \in DOMAIN orders /\ orders[a].order = m
    BY <1>12
  <2>3. DOMAIN orders' = DOMAIN orders \ {a}
        /\ \A id \in DOMAIN orders' : orders'[id].order = orders[id].order
    BY <1>10
  <2> HIDE DEF a
  <2>4. ASSUME NEW x \in Indexed'
        PROVE  x \in Indexed /\ x # m
    <3>1. PICK id \in DOMAIN orders' : x = orders'[id].order
      BY <2>4 DEF Indexed
    <3>2. id \in DOMAIN orders /\ id # a /\ x = orders[id].order
      BY <2>3, <3>1
    <3> QED BY <2>1, <3>2 DEF Indexed
  <2>5. ASSUME NEW x \in Indexed, x # m
        PROVE  x \in Indexed'
    <3>1. PICK id \in DOMAIN orders : x = orders[id].order
      BY <2>5 DEF Indexed
    <3>2. id # a
      BY <2>2, <2>5, <3>1
    <3>3. id \in DOMAIN orders' /\ orders'[id].order = x
      BY <2>3, <3>1, <3>2
    <3> QED BY <3>3 DEF Indexed
  <2> HIDE DEF Indexed
  <2> QED BY <2>4, <2>5
<1>14. IndexAgrees'
  <2>1. ASSUME NEW id \in DOMAIN orders'
        PROVE  LET o == slab'[orders'[id].order] IN
               /\ orders'[id].order \in DOMAIN slab'
               /\ o.id = id /\ o.type = Limit /\ RemainingQty(o) > 0
               /\ orders'[id].lvl = o.price
               /\ o.price \in DOMAIN lvls'[o.side]
               /\ orders'[id].order \in ToSet(lvls'[o.side][o.price].fifo)
    <3> DEFINE x == orders[id].order
    <3>1. id \in DOMAIN orders /\ id # slab[m].id /\ orders'[id] = orders[id]
      BY <1>10
    <3>2. /\ x \in DOMAIN slab
          /\ slab[x].id = id /\ slab[x].type = Limit /\ RemainingQty(slab[x]) > 0
          /\ orders[id].lvl = slab[x].price
          /\ slab[x].price \in DOMAIN lvls[slab[x].side]
          /\ x \in Linked(slab[x].side, slab[x].price)
      BY <3>1 DEF IInv, IndexAgrees
    <3>3. x # m /\ x # taker
      BY <3>1, <3>2, <1>0 DEF IInv, TakerInHand, Indexed, SlabOK
    <3>4. slab'[x] = slab[x] /\ x \in DOMAIN slab'
      BY <1>0, <3>2, <3>3 DEF SlabKept, SlabOK
    <3>5. slab[x].side \in Sides
      BY <1>0, <3>2 DEF SlabOK, Order, OrderWithFilled
    <3>6. /\ slab[x].price \in DOMAIN lvls'[slab[x].side]
          /\ x \in ToSet(lvls'[slab[x].side][slab[x].price].fifo)
      BY <1>6, <1>7, <3>2, <3>3, <3>5
    <3> HIDE DEF x
    <3> QED BY <3>1, <3>2, <3>4, <3>6 DEF x
  <2>2. ASSUME NEW t \in Sides, NEW r \in DOMAIN lvls'[t]
        PROVE  /\ lvls'[t][r].fifo # <<>>
               /\ \A x \in ToSet(lvls'[t][r].fifo) :
                    /\ x \in DOMAIN slab'
                    /\ slab'[x].id \in DOMAIN orders'
                    /\ orders'[slab'[x].id].order = x
                    /\ slab'[x].side = t /\ slab'[x].price = r
    <3>1. SUFFICES ASSUME NEW x \in ToSet(lvls'[t][r].fifo)
                   PROVE  /\ x \in DOMAIN slab'
                          /\ slab'[x].id \in DOMAIN orders'
                          /\ orders'[slab'[x].id].order = x
                          /\ slab'[x].side = t /\ slab'[x].price = r
      BY <1>6
    <3>2. r \in DOMAIN lvls[t] /\ x \in Linked(t, r) /\ (t = s /\ r = p => x # m)
      BY <1>6
    <3>3. /\ x \in DOMAIN slab /\ slab[x].id \in DOMAIN orders
          /\ orders[slab[x].id].order = x
          /\ slab[x].side = t /\ slab[x].price = r
      BY <3>2 DEF IInv, IndexAgrees
    <3>4. x # m
      BY <1>12, <3>2, <3>3
    <3>5. slab[x].id # slab[m].id
      BY <1>12, <3>3, <3>4
    <3>6. slab'[x].id = slab[x].id /\ slab'[x].side = slab[x].side
          /\ slab'[x].price = slab[x].price /\ x \in DOMAIN slab'
      BY <1>0, <3>3 DEF SlabKept, SlabOK
    <3> QED BY <1>10, <3>3, <3>5, <3>6
  <2> QED BY <2>1, <2>2, Zenon DEF IndexAgrees, Linked
<1> QED BY <1>5, <1>8, <1>9, <1>11, <1>13, <1>14

\* One execution: who the maker is, and what it does to the stored orders.
LEMMA ExecuteFacts ==
  ASSUME IInv, taker # 0, CanMatch,
         NEW m, m = Head(bestOpposite.fifo),
         NEW qty, qty = min64(RemainingQty(slab[m]), RemainingQty(slab[taker])),
         Execute(m, qty)
  PROVE  /\ Opp \in Sides /\ best[Opp] \in DOMAIN lvls[Opp]
         /\ 1 \in DOMAIN bestOpposite.fifo /\ m = bestOpposite.fifo[1]
         /\ m \in DOMAIN slab /\ m # taker
         /\ m \in Linked(Opp, best[Opp])
         /\ qty \in Nat \ {0}
         /\ SlabOK' /\ SlabKept(m)
         /\ m \in Indexed /\ taker \in DOMAIN slab
         /\ \A x \in {m, taker} :
              /\ RemainingQty(slab[x]) \in Nat
              /\ RemainingQty(slab'[x]) = RemainingQty(slab[x]) - qty
              /\ qty <= RemainingQty(slab[x])
         /\ fills' \in Seq(Fill)
<1>0. LvlsOK /\ BestOK /\ OrdersOK /\ SlabOK /\ taker \in 1..Len(slab) /\ Len(slab) \in Nat
  <2>1. LvlsOK /\ BestOK /\ OrdersOK /\ SlabOK /\ taker \in 0..Len(slab)
    BY DEF IInv, TypeOK
  <2> QED BY <2>1, LenProperties DEF SlabOK
<1>1. /\ DOMAIN slab = 1..Len(slab)
      /\ \A x \in 1..Len(slab) : slab[x] \in Order
  BY <1>0, LenProperties, ElementOfSeq DEF SlabOK
<1>2. Opp \in Sides /\ best[Opp] \in DOMAIN lvls[Opp]
  <2>1. slab[taker].side \in Sides
    BY <1>0, <1>1 DEF Order, OrderWithFilled
  <2> QED BY <2>1 DEF CanMatch, Opp, opposite, Sides, Buy, Sell
<1> DEFINE f == bestOpposite.fifo
<1>3. f \in Seq(1..Capacity) /\ f # <<>>
  BY <1>0, <1>2 DEF LvlsOK, Level, bestOpposite, IInv, IndexAgrees
<1>4. 1 \in DOMAIN f /\ m = f[1]
  <2>1. Len(f) \in Nat /\ Len(f) # 0 /\ DOMAIN f = 1..Len(f) /\ Head(f) = f[1]
    BY <1>3, LenProperties, EmptySeq, HeadTailProperties
  <2> QED BY <2>1
<1>5. m \in Linked(Opp, best[Opp])
  BY <1>4 DEF Linked, ToSet, bestOpposite
<1>6. /\ m \in DOMAIN slab /\ slab[m].id \in DOMAIN orders /\ orders[slab[m].id].order = m
      /\ slab[m].price = best[Opp]
  BY <1>2, <1>5 DEF IInv, IndexAgrees
<1>7. RemainingQty(slab[m]) > 0
  BY <1>6 DEF IInv, IndexAgrees
<1>8. m # taker
  BY <1>6 DEF IInv, TakerInHand, Indexed
<1>9. /\ slab[m].filled \in Nat /\ slab[m].qty \in Nat
      /\ slab[taker].filled \in Nat /\ slab[taker].qty \in Nat
  BY <1>0, <1>1, <1>6, QtysAssumption DEF Order, OrderWithFilled
<1>10. /\ qty \in Nat \ {0}
       /\ \A x \in {m, taker} : RemainingQty(slab[x]) \in Nat /\ qty <= RemainingQty(slab[x])
  BY <1>7, <1>9 DEF min64, CanMatch, RemainingQty
<1>11. slab' = [slab EXCEPT ![m].filled = @ + qty, ![taker].filled = @ + qty]
  BY DEF Execute
<1> DEFINE Traded(o) == [o EXCEPT !.filled = @ + qty]
<1>12. /\ DOMAIN slab' = 1..Len(slab)
       /\ slab'[m] = Traded(slab[m])
       /\ slab'[taker] = Traded(slab[taker])
       /\ \A x \in 1..Len(slab) : x # m /\ x # taker => slab'[x] = slab[x]
  BY <1>0, <1>1, <1>6, <1>8, <1>11
<1>13. ASSUME NEW o \in Order, o.filled \in Nat
       PROVE  /\ Traded(o) \in Order
              /\ Traded(o).id = o.id /\ Traded(o).side = o.side
              /\ Traded(o).type = o.type /\ Traded(o).price = o.price
              /\ Traded(o).qty = o.qty /\ Traded(o).filled = o.filled + qty
  BY <1>10 DEF Order, OrderWithFilled, PriceMatchesType
<1> HIDE DEF Traded
<1>14. \A x \in 1..Len(slab) :
         /\ slab'[x] \in Order
         /\ slab'[x].id = slab[x].id /\ slab'[x].side = slab[x].side
         /\ slab'[x].type = slab[x].type /\ slab'[x].price = slab[x].price
  <2> SUFFICES ASSUME NEW x \in 1..Len(slab)
               PROVE  /\ slab'[x] \in Order
                      /\ slab'[x].id = slab[x].id /\ slab'[x].side = slab[x].side
                      /\ slab'[x].type = slab[x].type /\ slab'[x].price = slab[x].price
    OBVIOUS
  <2>1. CASE x # m /\ x # taker
    BY <1>1, <1>12, <2>1
  <2>2. CASE x = m
    BY <1>1, <1>9, <1>12, <1>13, <2>2
  <2>3. CASE x = taker
    BY <1>1, <1>9, <1>12, <1>13, <2>3
  <2> QED BY <2>1, <2>2, <2>3
<1>15. SlabOK' /\ Len(slab') = Len(slab)
  <2>1. slab' \in Seq(Order) /\ Len(slab') = Len(slab)
    <3>1. slab' \in [1..Len(slab) -> Order]
      BY <1>11, <1>12, <1>14
    <3> QED BY <1>0, <3>1, FunctionIsSeq
  <2> QED BY <1>0, <2>1 DEF SlabOK
<1>16. SlabKept(m)
  BY <1>1, <1>12, <1>14, <1>15 DEF SlabKept
<1>17. \A x \in {m, taker} : RemainingQty(slab'[x]) = RemainingQty(slab[x]) - qty
  <2> SUFFICES ASSUME NEW x \in {m, taker}
               PROVE  RemainingQty(slab'[x]) = RemainingQty(slab[x]) - qty
    OBVIOUS
  <2>1. slab[x] \in Order /\ slab[x].filled \in Nat /\ slab[x].qty \in Nat
    BY <1>0, <1>1, <1>6, <1>9
  <2>2. slab'[x].qty = slab[x].qty /\ slab'[x].filled = slab[x].filled + qty
    BY <1>12, <1>13, <2>1
  <2> QED BY <1>10, <2>1, <2>2 DEF RemainingQty
<1>19. m \in Indexed /\ taker \in DOMAIN slab
  BY <1>0, <1>1, <1>6 DEF Indexed
<1>18. fills' \in Seq(Fill)
  <2>1. [maker |-> slab[m].id, taker |-> slab[taker].id,
         price |-> best[Opp], qty |-> qty] \in Fill
    <3>1. slab[m].id \in Ids /\ slab[taker].id \in Ids
      BY <1>0, <1>1, <1>6 DEF Order, OrderWithFilled
    <3>2. best[Opp] \in Prices
      BY <1>0, <1>2 DEF LvlsOK
    <3> QED BY <1>10, <3>1, <3>2 DEF Fill
  <2>2. fills \in Seq(Fill)
    BY DEF IInv, TypeOK
  <2> QED BY <2>1, <2>2, AppendProperties DEF Execute
<1> QED BY <1>2, <1>4, <1>5, <1>6, <1>8, <1>10, <1>15, <1>16, <1>17, <1>18, <1>19

\* A step that links and unlinks nothing keeps the book's structure, as long
\* as what it does to the stored orders leaves the resting ones open.
LEMMA KeepFacts ==
  ASSUME IInv, orders' = orders, DOMAIN lvls' = Sides,
         \A t \in Sides : /\ DOMAIN lvls'[t] = DOMAIN lvls[t]
                          /\ \A r \in DOMAIN lvls[t] : lvls'[t][r].fifo = lvls[t][r].fifo,
         best' = best,
         DOMAIN slab \subseteq DOMAIN slab',
         \A x \in DOMAIN slab :
           /\ slab'[x].id = slab[x].id /\ slab'[x].side = slab[x].side
           /\ slab'[x].type = slab[x].type /\ slab'[x].price = slab[x].price,
         \A x \in Indexed : RemainingQty(slab'[x]) > 0
  PROVE  /\ BestOK' /\ OrdersOK'
         /\ IndexAgrees' /\ TimePriority' /\ BestIsTop' /\ NotCrossed'
         /\ Indexed' = Indexed
<1>0. BestOK /\ OrdersOK
  BY DEF IInv, TypeOK
<1>1. BestOK' /\ OrdersOK' /\ Indexed' = Indexed
  BY <1>0 DEF BestOK, OrdersOK, Indexed
<1>2. TimePriority'
  BY DEF IInv, TimePriority
<1>3. BestIsTop' /\ NotCrossed'
  BY DEF IInv, BestIsTop, NotCrossed, Sides
<1>4. ASSUME NEW id \in DOMAIN orders'
      PROVE  LET o == slab'[orders'[id].order] IN
             /\ orders'[id].order \in DOMAIN slab'
             /\ o.id = id /\ o.type = Limit /\ RemainingQty(o) > 0
             /\ orders'[id].lvl = o.price
             /\ o.price \in DOMAIN lvls'[o.side]
             /\ orders'[id].order \in ToSet(lvls'[o.side][o.price].fifo)
  <2> DEFINE x == orders[id].order
  <2>1. /\ x \in DOMAIN slab
        /\ slab[x].id = id /\ slab[x].type = Limit /\ RemainingQty(slab[x]) > 0
        /\ orders[id].lvl = slab[x].price
        /\ slab[x].price \in DOMAIN lvls[slab[x].side]
        /\ x \in ToSet(lvls[slab[x].side][slab[x].price].fifo)
    BY DEF IInv, IndexAgrees, Linked
  <2>2. RemainingQty(slab'[x]) > 0
    BY DEF Indexed
  <2>3. slab[x].side \in Sides
    <3>1. slab \in Seq(Order)
      BY DEF IInv, TypeOK, SlabOK
    <3>2. slab[x] \in Order
      BY <2>1, <3>1, ElementOfSeq, LenProperties
    <3> QED BY <3>2 DEF Order, OrderWithFilled
  <2> QED BY <2>1, <2>2, <2>3
<1>5. ASSUME NEW t \in Sides, NEW r \in DOMAIN lvls'[t]
      PROVE  /\ lvls'[t][r].fifo # <<>>
             /\ \A x \in ToSet(lvls'[t][r].fifo) :
                  /\ x \in DOMAIN slab'
                  /\ slab'[x].id \in DOMAIN orders'
                  /\ orders'[slab'[x].id].order = x
                  /\ slab'[x].side = t /\ slab'[x].price = r
  BY DEF IInv, IndexAgrees, Linked
<1>6. IndexAgrees'
  BY <1>4, <1>5, Zenon DEF IndexAgrees, Linked
<1> QED BY <1>1, <1>2, <1>3, <1>6

-----------------------------------------------------------------------------
(* Each action preserves the invariant. *)

EmptyBook ==
  /\ lvls = [s \in Sides |-> <<>>]
  /\ best = [s \in Sides |-> 0]
  /\ orders = <<>> /\ slab = <<>> /\ nodes = 0 /\ taker = 0
  /\ fills = <<>> /\ reply = "none" /\ panicked \in BOOLEAN

\* An empty book satisfies it: initially, and after Reset.
LEMMA EmptyBookInv == EmptyBook => IInv
<1> SUFFICES ASSUME EmptyBook PROVE IInv
  OBVIOUS
<1>1. Len(<<>>) = 0 /\ DOMAIN <<>> = {}
  OBVIOUS
<1>2. LvlsOK /\ BestOK /\ OrdersOK
  BY <1>1 DEF EmptyBook, LvlsOK, BestOK, OrdersOK
<1>3. SlabOK
  BY <1>1, CapacityAssumption DEF EmptyBook, SlabOK
<1>4. TypeOK
  BY <1>1, <1>2, <1>3, CapacityAssumption DEF EmptyBook, TypeOK
<1>5. IndexAgrees /\ TimePriority /\ BestIsTop /\ NotCrossed
  BY <1>1 DEF EmptyBook, IndexAgrees, TimePriority, BestIsTop, NotCrossed, Sides
<1>6. NodePoolSuffices /\ UniqueIds /\ TakerInHand
  BY <1>1 DEF EmptyBook, NodePoolSuffices, UniqueIds, TakerInHand
<1> QED BY <1>4, <1>5, <1>6 DEF IInv

\* Storing a new order in the arena.
LEMMA BeginAddInv ==
  ASSUME IInv, NEW o \in NewOrder, BeginAdd(o)
  PROVE  IInv'
<1>0. /\ LvlsOK /\ BestOK /\ OrdersOK /\ SlabOK
      /\ nodes \in 0..Capacity /\ panicked \in BOOLEAN
      /\ taker = 0
  BY DEF IInv, TypeOK, BeginAdd, Idle
<1>1. o \in Order
  BY DEF Order, NewOrder, OrderWithFilled
<1>2. /\ slab' = Append(slab, o) /\ slab' \in Seq(Order)
      /\ Len(slab) \in Nat /\ Len(slab') = Len(slab) + 1
      /\ DOMAIN slab = 1..Len(slab) /\ DOMAIN slab' = 1..(Len(slab) + 1)
      /\ \A x \in 1..Len(slab) : slab'[x] = slab[x]
      /\ slab'[Len(slab) + 1] = o
  <2>1. slab' = Append(slab, o) /\ slab \in Seq(Order)
    BY <1>0 DEF BeginAdd, SlabOK
  <2>2. /\ slab' \in Seq(Order) /\ Len(slab') = Len(slab) + 1
        /\ \A x \in 1..Len(slab) : slab'[x] = slab[x]
        /\ slab'[Len(slab) + 1] = o
    BY <1>1, <2>1, AppendProperties
  <2>3. DOMAIN slab' = 1..Len(slab') /\ DOMAIN slab = 1..Len(slab) /\ Len(slab) \in Nat
    BY <2>1, <2>2, LenProperties
  <2> QED BY <2>1, <2>2, <2>3
<1>3. Indexed \subseteq DOMAIN slab /\ \A x \in Indexed : RemainingQty(slab[x]) > 0
  BY DEF IInv, IndexAgrees, Indexed
<1>4. /\ BestOK' /\ OrdersOK' /\ IndexAgrees' /\ TimePriority' /\ BestIsTop'
      /\ NotCrossed' /\ Indexed' = Indexed
  <2>1. /\ orders' = orders /\ lvls' = lvls /\ best' = best
    BY DEF BeginAdd
  <2>2. /\ DOMAIN slab \subseteq DOMAIN slab'
        /\ \A x \in DOMAIN slab : slab'[x] = slab[x]
    BY <1>2
  <2>3. \A x \in Indexed : RemainingQty(slab'[x]) > 0
    BY <1>3, <2>2
  <2> QED BY <1>0, <2>1, <2>2, <2>3, KeepFacts DEF LvlsOK
<1>5. TypeOK'
  <2>1. LvlsOK'
    BY <1>0 DEF BeginAdd, LvlsOK
  <2>2. SlabOK'
    BY <1>2, CapacityAssumption DEF BeginAdd, SlabOK
  <2>3. taker' \in 0..Len(slab') /\ fills' \in Seq(Fill) /\ reply' = "none"
        /\ nodes' = nodes /\ panicked' = panicked
    BY <1>2 DEF BeginAdd
  <2> QED BY <1>0, <1>4, <2>1, <2>2, <2>3 DEF TypeOK
<1>6. NodePoolSuffices'
  BY <1>0, <1>2 DEF IInv, NodePoolSuffices, BeginAdd
<1>7. UniqueIds'
  BY <1>2 DEF IInv, UniqueIds, BeginAdd, Fresh
<1>8. TakerInHand'
  BY <1>2, <1>3, <1>4 DEF TakerInHand, BeginAdd
<1> QED BY <1>4, <1>5, <1>6, <1>7, <1>8 DEF IInv

\* A fill after which the maker is still open: the book keeps its shape.
LEMMA MakerSurvivesInv ==
  ASSUME IInv, MakerSurvives
  PROVE  IInv'
<1> DEFINE m == Head(bestOpposite.fifo)
           qty == min64(RemainingQty(slab[m]), RemainingQty(slab[taker]))
           l == [bestOpposite EXCEPT !.total = @ - qty]
<1>0. /\ LvlsOK /\ BestOK /\ OrdersOK /\ SlabOK
      /\ nodes \in 0..Capacity /\ taker \in 0..Len(slab)
  BY DEF IInv, TypeOK
<1>1. /\ taker # 0 /\ CanMatch /\ RemainingQty(slab[m]) # qty
      /\ Execute(m, qty) /\ setLevel(Opp, best[Opp], l)
      /\ best' = best /\ orders' = orders
  BY DEF MakerSurvives
<1>2. /\ Opp \in Sides /\ best[Opp] \in DOMAIN lvls[Opp]
      /\ m \in DOMAIN slab /\ m # taker
      /\ qty \in Nat \ {0} /\ SlabOK' /\ SlabKept(m)
      /\ RemainingQty(slab'[m]) = RemainingQty(slab[m]) - qty
      /\ qty <= RemainingQty(slab[m])
      /\ fills' \in Seq(Fill)
  BY <1>1, ExecuteFacts
<1>3. l \in Level /\ l.fifo = lvls[Opp][best[Opp]].fifo /\ best[Opp] \in Prices
  <2> HIDE DEF m, qty
  <2>1. /\ bestOpposite = lvls[Opp][best[Opp]] /\ bestOpposite \in Level
        /\ best[Opp] \in Prices
    BY <1>0, <1>2 DEF LvlsOK, bestOpposite
  <2>2. ASSUME NEW b \in Level, NEW q \in Int
        PROVE  LET c == [b EXCEPT !.total = @ - q] IN c \in Level /\ c.fifo = b.fifo
    BY DEF Level
  <2> QED BY <1>2, <2>1, <2>2
<1>a. m \in Nat /\ RemainingQty(slab[m]) \in Int
  <2>1. slab[m] \in Order /\ DOMAIN slab = 1..Len(slab)
    BY <1>0, <1>2, LenProperties, ElementOfSeq DEF SlabOK
  <2> HIDE DEF m
  <2> QED BY <1>2, <2>1, OrderFields
<1> HIDE DEF m, qty, l
<1>4. /\ LvlsOK'
      /\ \A t \in Sides : /\ DOMAIN lvls'[t] = DOMAIN lvls[t]
                          /\ \A r \in DOMAIN lvls[t] : lvls'[t][r].fifo = lvls[t][r].fifo
  <2>1. /\ LvlsOK'
        /\ DOMAIN lvls'[Opp] = DOMAIN lvls[Opp] \cup {best[Opp]}
        /\ lvls'[Opp][best[Opp]] = l
        /\ \A r \in DOMAIN lvls[Opp] \ {best[Opp]} : lvls'[Opp][r] = lvls[Opp][r]
        /\ \A t \in Sides \ {Opp} : lvls'[t] = lvls[t]
    BY <1>0, <1>1, <1>2, <1>3, SetLevelFacts
  <2> QED BY <1>2, <1>3, <2>1
<1>5. /\ DOMAIN slab = 1..Len(slab) /\ DOMAIN slab' = DOMAIN slab
      /\ Len(slab') = Len(slab) /\ Len(slab) \in Nat
  BY <1>0, <1>2, LenProperties DEF SlabOK, SlabKept
<1>6. \A x \in Indexed : RemainingQty(slab'[x]) > 0
  <2> SUFFICES ASSUME NEW x \in Indexed PROVE RemainingQty(slab'[x]) > 0
    OBVIOUS
  <2>1. x \in DOMAIN slab /\ RemainingQty(slab[x]) > 0 /\ x # taker
    BY <1>1 DEF IInv, IndexAgrees, Indexed, TakerInHand
  <2>2. CASE x = m
    BY <1>a, <1>1, <1>2, <2>2
  <2>3. CASE x # m
    BY <1>2, <2>1, <2>3 DEF SlabKept
  <2> QED BY <2>2, <2>3
<1>7. /\ BestOK' /\ OrdersOK' /\ IndexAgrees' /\ TimePriority' /\ BestIsTop'
      /\ NotCrossed' /\ Indexed' = Indexed
  <2>1. DOMAIN lvls' = Sides
    BY <1>4 DEF LvlsOK
  <2> QED BY <1>1, <1>2, <1>4, <1>5, <1>6, <2>1, KeepFacts DEF SlabKept
<1>8. TypeOK'
  BY <1>0, <1>1, <1>2, <1>4, <1>5, <1>7 DEF TypeOK, Execute, IInv
<1>9. NodePoolSuffices' /\ TakerInHand'
  BY <1>1, <1>5, <1>7 DEF IInv, NodePoolSuffices, TakerInHand, Execute
<1>10. UniqueIds'
  BY <1>2, <1>5 DEF IInv, UniqueIds, SlabKept
<1> QED BY <1>7, <1>8, <1>9, <1>10 DEF IInv

\* A fill that closes the maker: it leaves its level and the index.
LEMMA MakerFilledInv ==
  ASSUME IInv, MakerFilled
  PROVE  IInv'
<1> DEFINE m == Head(bestOpposite.fifo)
           qty == min64(RemainingQty(slab[m]), RemainingQty(slab[taker]))
<1>0. /\ LvlsOK /\ BestOK /\ OrdersOK /\ SlabOK
      /\ nodes \in 0..Capacity /\ taker \in 0..Len(slab)
  BY DEF IInv, TypeOK
<1>1. /\ taker # 0 /\ CanMatch /\ Execute(m, qty)
      /\ orders' = Unindex(slab[m].id) /\ leaveLevel(Opp, best[Opp], 1, qty)
  BY DEF MakerFilled
<1>2. /\ Opp \in Sides /\ best[Opp] \in DOMAIN lvls[Opp]
      /\ 1 \in DOMAIN bestOpposite.fifo /\ m = bestOpposite.fifo[1]
      /\ m \in DOMAIN slab /\ m # taker
      /\ qty \in Nat \ {0} /\ SlabOK' /\ SlabKept(m)
      /\ fills' \in Seq(Fill)
  BY <1>1, ExecuteFacts
<1> HIDE DEF m, qty
<1>3. 1 \in DOMAIN lvls[Opp][best[Opp]].fifo /\ m = lvls[Opp][best[Opp]].fifo[1]
  BY <1>2 DEF bestOpposite
<1>4. /\ LvlsOK' /\ BestOK' /\ OrdersOK'
      /\ IndexAgrees' /\ TimePriority' /\ BestIsTop' /\ NotCrossed'
      /\ Indexed' = Indexed \ {m}
  <2>1. qty \in Int
    BY <1>2
  <2> QED BY <1>1, <1>2, <1>3, <2>1, LeaveFacts
<1>5. /\ DOMAIN slab = 1..Len(slab) /\ DOMAIN slab' = DOMAIN slab
      /\ Len(slab') = Len(slab) /\ Len(slab) \in Nat
  BY <1>0, <1>2, LenProperties DEF SlabOK, SlabKept
<1>6. TypeOK'
  BY <1>0, <1>1, <1>2, <1>4, <1>5 DEF TypeOK, Execute, IInv
<1>7. NodePoolSuffices' /\ TakerInHand'
  BY <1>1, <1>4, <1>5 DEF IInv, NodePoolSuffices, TakerInHand, Execute
<1>8. UniqueIds'
  BY <1>2, <1>5 DEF IInv, UniqueIds, SlabKept
<1> QED BY <1>4, <1>6, <1>7, <1>8 DEF IInv

\* Cancelling a resting order.
LEMMA CancelFoundInv ==
  ASSUME IInv, NEW id \in Ids, CancelFound(id)
  PROVE  IInv'
<1> DEFINE m == orders[id].order
           s == slab[m].side
           p == orders[id].lvl
<1>0. /\ LvlsOK /\ BestOK /\ OrdersOK /\ SlabOK
      /\ nodes \in 0..Capacity /\ taker = 0
  BY DEF IInv, TypeOK, CancelFound, Idle
<1>1. /\ id \in DOMAIN orders /\ taker' = taker /\ slab' = slab /\ nodes' = nodes
      /\ panicked' = panicked /\ fills' = <<>> /\ reply' = "cancelled"
      /\ orders' = Unindex(id)
  BY DEF CancelFound
<1>2. PICK i \in DOMAIN lvls[s][p].fifo :
        lvls[s][p].fifo[i] = m /\ leaveLevel(s, p, i, RemainingQty(slab[m]))
  BY DEF CancelFound
<1>3. /\ m \in DOMAIN slab /\ slab[m].id = id /\ p = slab[m].price
      /\ p \in DOMAIN lvls[s]
  BY <1>1 DEF IInv, IndexAgrees
<1>4. s \in Sides /\ RemainingQty(slab[m]) \in Int
  <2>1. slab[m] \in Order
    BY <1>0, <1>3, LenProperties, ElementOfSeq DEF SlabOK
  <2> QED BY <2>1, OrderFields
<1> HIDE DEF m, s, p
<1>5. /\ LvlsOK' /\ BestOK' /\ OrdersOK'
      /\ IndexAgrees' /\ TimePriority' /\ BestIsTop' /\ NotCrossed'
      /\ Indexed' = Indexed \ {m}
  <2>1. SlabOK' /\ SlabKept(m)
    BY <1>0, <1>1 DEF SlabOK, SlabKept
  <2> QED BY <1>1, <1>2, <1>3, <1>4, <2>1, LeaveFacts
<1>6. TypeOK'
  BY <1>0, <1>1, <1>5 DEF TypeOK, IInv, SlabOK
<1>7. NodePoolSuffices' /\ TakerInHand' /\ UniqueIds'
  BY <1>0, <1>1 DEF IInv, NodePoolSuffices, TakerInHand, UniqueIds
<1> QED BY <1>5, <1>6, <1>7 DEF IInv

\* The remainder of a limit order joins the book.  It crosses nothing, because
\* the matching loop stopped at it.
LEMMA RestInv ==
  ASSUME IInv, Rest
  PROVE  IInv'
<1> DEFINE o == slab[taker]
           s == o.side
           p == o.price
           old == IF p \in DOMAIN lvls[s] THEN lvls[s][p] ELSE EmptyLevel
           l == push(old, taker, RemainingQty(o))
<1>0. /\ LvlsOK /\ BestOK /\ OrdersOK /\ SlabOK
      /\ nodes \in 0..Capacity /\ taker \in 0..Len(slab)
  BY DEF IInv, TypeOK
<1>1. /\ taker # 0 /\ ~CanMatch /\ o.type = Limit /\ RemainingQty(o) > 0
      /\ setLevel(s, p, l)
      /\ orders' = Put(orders, o.id, [order |-> taker, lvl |-> p])
      /\ best' = [best EXCEPT ![s] = updateBest(s, p)]
      /\ nodes' = nodes + 1 /\ taker' = 0 /\ reply' = "rests"
      /\ slab' = slab /\ fills' = fills /\ panicked' = panicked
  BY DEF Rest
<1>2. /\ Len(slab) \in Nat /\ DOMAIN slab = 1..Len(slab) /\ taker = Len(slab)
      /\ taker \in DOMAIN slab /\ taker \in 1..Capacity /\ o \in Order
  <2>1. Len(slab) \in Nat /\ DOMAIN slab = 1..Len(slab) /\ Len(slab) <= Capacity
    BY <1>0, LenProperties DEF SlabOK
  <2>2. taker = Len(slab) /\ taker \in 1..Len(slab)
    BY <1>0, <1>1, <2>1 DEF IInv, TakerInHand
  <2> QED BY <1>0, <2>1, <2>2, CapacityAssumption, ElementOfSeq DEF SlabOK
<1>3. s \in Sides /\ p \in Prices /\ o.id \in Ids /\ RemainingQty(o) \in Int
  BY <1>1, <1>2, OrderFields
<1>4. \A t \in Sides : \A r \in DOMAIN lvls[t] :
        \A x \in ToSet(lvls[t][r].fifo) :
          /\ x \in 1..Len(slab) /\ x < taker
          /\ slab[x].id \in DOMAIN orders /\ orders[slab[x].id].order = x
          /\ slab[x].side = t /\ slab[x].price = r
  <2> SUFFICES ASSUME NEW t \in Sides, NEW r \in DOMAIN lvls[t],
                      NEW x \in ToSet(lvls[t][r].fifo)
               PROVE  /\ x \in 1..Len(slab) /\ x < taker
                      /\ slab[x].id \in DOMAIN orders /\ orders[slab[x].id].order = x
                      /\ slab[x].side = t /\ slab[x].price = r
    OBVIOUS
  <2>1. /\ x \in DOMAIN slab
        /\ slab[x].id \in DOMAIN orders /\ orders[slab[x].id].order = x
        /\ slab[x].side = t /\ slab[x].price = r
    BY DEF IInv, IndexAgrees, Linked
  <2>2. x # taker
    BY <1>1, <2>1 DEF IInv, TakerInHand, Indexed
  <2> QED BY <1>2, <2>1, <2>2
<1>5. old \in Level /\ Increasing(old.fifo) /\ \A x \in ToSet(old.fifo) : x < taker
  <2>1. CASE p \in DOMAIN lvls[s]
    BY <1>0, <1>3, <1>4, <2>1 DEF LvlsOK, IInv, TimePriority, Increasing
  <2>2. CASE p \notin DOMAIN lvls[s]
    <3>1. old = [fifo |-> <<>>, total |-> 0]
      BY <2>2 DEF EmptyLevel
    <3>2. <<>> \in Seq(1..Capacity) /\ DOMAIN <<>> = {}
      OBVIOUS
    <3> HIDE DEF old
    <3>3. old \in Level /\ DOMAIN old.fifo = {}
      BY <3>1, <3>2 DEF Level
    <3> QED BY <3>3 DEF Increasing, ToSet
  <2> QED BY <2>1, <2>2
<1> HIDE DEF old
<1>6. /\ l \in Level /\ l.fifo # <<>> /\ Increasing(l.fifo)
      /\ ToSet(l.fifo) = ToSet(old.fifo) \cup {taker}
  BY <1>2, <1>3, <1>5, PushFacts
<1> HIDE DEF l
<1>7. /\ LvlsOK'
      /\ DOMAIN lvls'[s] = DOMAIN lvls[s] \cup {p}
      /\ lvls'[s][p] = l
      /\ \A r \in DOMAIN lvls[s] \ {p} : lvls'[s][r] = lvls[s][r]
      /\ \A t \in Sides \ {s} : lvls'[t] = lvls[t]
  BY <1>0, <1>1, <1>3, <1>6, SetLevelFacts
\* What the levels hold after the step.
<1>8. \A t \in Sides : \A r \in DOMAIN lvls'[t] :
        /\ (t = s /\ r = p) \/ r \in DOMAIN lvls[t]
        /\ lvls'[t][r].fifo # <<>> /\ Increasing(lvls'[t][r].fifo)
        /\ \A x \in ToSet(lvls'[t][r].fifo) :
             IF t = s /\ r = p /\ x = taker THEN TRUE
             ELSE r \in DOMAIN lvls[t] /\ x \in ToSet(lvls[t][r].fifo)
  <2> SUFFICES ASSUME NEW t \in Sides, NEW r \in DOMAIN lvls'[t]
               PROVE  /\ (t = s /\ r = p) \/ r \in DOMAIN lvls[t]
                      /\ lvls'[t][r].fifo # <<>> /\ Increasing(lvls'[t][r].fifo)
                      /\ \A x \in ToSet(lvls'[t][r].fifo) :
                           IF t = s /\ r = p /\ x = taker THEN TRUE
                           ELSE r \in DOMAIN lvls[t] /\ x \in ToSet(lvls[t][r].fifo)
    OBVIOUS
  <2>1. CASE t = s /\ r = p
    <3>1. lvls'[t][r] = l
      BY <1>7, <2>1
    <3>2. ToSet(old.fifo) # {} => p \in DOMAIN lvls[s] /\ old = lvls[s][p]
      <4>1. ToSet(EmptyLevel.fifo) = {}
        BY DEF EmptyLevel, ToSet
      <4> QED BY <4>1 DEF old
    <3> QED BY <1>6, <2>1, <3>1, <3>2
  <2>2. CASE ~(t = s /\ r = p)
    <3>1. r \in DOMAIN lvls[t] /\ lvls'[t][r] = lvls[t][r]
      BY <1>7, <2>2
    <3>2. lvls[t][r].fifo # <<>> /\ Increasing(lvls[t][r].fifo)
      BY <3>1 DEF IInv, IndexAgrees, TimePriority, Increasing
    <3> QED BY <2>2, <3>1, <3>2
  <2> QED BY <2>1, <2>2
<1>9. \A t \in Sides : \A r \in DOMAIN lvls[t] :
        /\ r \in DOMAIN lvls'[t]
        /\ ToSet(lvls[t][r].fifo) \subseteq ToSet(lvls'[t][r].fifo)
  <2> SUFFICES ASSUME NEW t \in Sides, NEW r \in DOMAIN lvls[t]
               PROVE  /\ r \in DOMAIN lvls'[t]
                      /\ ToSet(lvls[t][r].fifo) \subseteq ToSet(lvls'[t][r].fifo)
    OBVIOUS
  <2>1. CASE t = s /\ r = p
    <3>1. lvls'[t][r] = l /\ old = lvls[t][r]
      BY <1>7, <2>1 DEF old
    <3> QED BY <1>6, <1>7, <2>1, <3>1
  <2>2. CASE ~(t = s /\ r = p)
    <3>1. r \in DOMAIN lvls'[t] /\ lvls'[t][r] = lvls[t][r]
      BY <1>7, <2>2
    <3> QED BY <3>1
  <2> QED BY <2>1, <2>2
<1>10. TimePriority'
  BY <1>8 DEF TimePriority, Increasing
<1>11. BestOK' /\ BestIsTop'
  <2>1. /\ best'[s] = updateBest(s, p)
        /\ \A t \in Sides \ {s} : best'[t] = best[t]
        /\ updateBest(s, p) \in {p, best[s]}
    BY <1>0, <1>1, <1>3 DEF BestOK, updateBest
  <2>2. BestOK'
    BY <1>0, <1>1, <1>3, <2>1 DEF BestOK
  <2>3. \A t \in Sides \ {s} :
          IF DOMAIN lvls'[t] = {} THEN best'[t] = 0
          ELSE /\ best'[t] \in DOMAIN lvls'[t]
               /\ \A q \in DOMAIN lvls'[t] : AtLeast(t, best'[t], q)
    BY <1>7, <2>1 DEF IInv, BestIsTop
  <2>4. /\ updateBest(s, p) \in DOMAIN lvls'[s]
        /\ \A q \in DOMAIN lvls'[s] : AtLeast(s, updateBest(s, p), q)
    <3>1. \A q \in Prices : q \in Nat /\ q # 0
      BY PricesAssumption
    <3>2. DOMAIN lvls[s] \subseteq Prices
      BY <1>0, <1>3 DEF LvlsOK
    <3>3. CASE DOMAIN lvls[s] = {}
      <4>1. best[s] = 0 /\ DOMAIN lvls'[s] = {p}
        BY <1>3, <1>7, <3>3 DEF IInv, BestIsTop
      <4> QED BY <1>3, <3>1, <4>1 DEF updateBest, AtLeast
    <3>4. CASE DOMAIN lvls[s] # {}
      <4>1. /\ best[s] \in DOMAIN lvls[s] /\ best[s] # 0 /\ best[s] \in Nat
            /\ \A q \in DOMAIN lvls[s] : AtLeast(s, best[s], q) /\ q \in Nat
        BY <1>3, <3>1, <3>2, <3>4 DEF IInv, BestIsTop
      <4>2. p \in Nat
        BY <1>3, <3>1
      <4> QED BY <1>7, <4>1, <4>2 DEF updateBest, AtLeast
    <3> QED BY <3>3, <3>4
  <2> QED BY <1>3, <2>1, <2>2, <2>3, <2>4 DEF BestIsTop
<1>12. NotCrossed'
  <2>1. Opp \in Sides /\ Opp # s /\ (s = Buy => Opp = Sell) /\ (s = Sell => Opp = Buy)
    BY <1>3 DEF Opp, opposite, Sides, Buy, Sell
  <2>2. \A q \in Prices : q \in Nat /\ q # 0
    BY PricesAssumption
  <2>3. \A q \in DOMAIN lvls[Opp] : IF s = Buy THEN p < q ELSE q < p
    <3> SUFFICES ASSUME NEW q \in DOMAIN lvls[Opp]
                 PROVE  IF s = Buy THEN p < q ELSE q < p
      OBVIOUS
    <3>1. /\ best[Opp] \in DOMAIN lvls[Opp] /\ AtLeast(Opp, best[Opp], q)
      BY <2>1 DEF IInv, BestIsTop
    <3>2. q \in Nat /\ best[Opp] \in Nat /\ best[Opp] # 0 /\ p \in Nat
      BY <1>0, <1>3, <2>1, <2>2, <3>1 DEF LvlsOK
    <3>3. ~ pricesCross(s, p, best[Opp])
      BY <1>1, <3>1, <3>2 DEF CanMatch
    <3> QED BY <1>3, <2>1, <3>1, <3>2, <3>3 DEF pricesCross, AtLeast, Buy, Sell, Sides
  <2>4. CASE s = Buy
    BY <1>7, <2>1, <2>3, <2>4 DEF IInv, NotCrossed, Sides, Buy, Sell
  <2>5. CASE s = Sell
    BY <1>7, <2>1, <2>3, <2>5 DEF IInv, NotCrossed, Sides, Buy, Sell
  <2> QED BY <1>3, <2>4, <2>5 DEF Sides
<1>13. /\ DOMAIN orders' = DOMAIN orders \cup {o.id}
       /\ orders'[o.id] = [order |-> taker, lvl |-> p]
       /\ o.id \notin DOMAIN orders
       /\ \A id \in DOMAIN orders : orders'[id] = orders[id]
  <2>1. o.id \notin DOMAIN orders
    <3>1. \A id \in DOMAIN orders : /\ orders[id].order \in DOMAIN slab
                                    /\ slab[orders[id].order].id = id
                                    /\ orders[id].order # taker
      BY <1>1 DEF IInv, IndexAgrees, TakerInHand, Indexed
    <3> QED BY <1>2, <3>1 DEF IInv, UniqueIds
  <2> QED BY <1>1, <2>1 DEF Put
<1>14. OrdersOK'
  <2>1. [order |-> taker, lvl |-> p] \in Ref
    BY <1>2, <1>3 DEF Ref
  <2> QED BY <1>0, <1>1, <1>3, <2>1 DEF OrdersOK, Put
<1>15. IndexAgrees'
  <2>1. ASSUME NEW id \in DOMAIN orders'
        PROVE  LET n == slab'[orders'[id].order] IN
               /\ orders'[id].order \in DOMAIN slab'
               /\ n.id = id /\ n.type = Limit /\ RemainingQty(n) > 0
               /\ orders'[id].lvl = n.price
               /\ n.price \in DOMAIN lvls'[n.side]
               /\ orders'[id].order \in ToSet(lvls'[n.side][n.price].fifo)
    <3>1. CASE id = o.id
      <4>1. taker \in ToSet(lvls'[s][p].fifo) /\ p \in DOMAIN lvls'[s]
        BY <1>6, <1>7
      <4>2. /\ orders'[id].order = taker /\ orders'[id].lvl = p
            /\ slab'[taker] = o /\ taker \in DOMAIN slab' /\ o.id = id
        BY <1>1, <1>2, <1>13, <3>1
      <4>3. o.type = Limit /\ RemainingQty(o) > 0
        BY <1>1
      <4> HIDE DEF o
      <4> QED BY <4>1, <4>2, <4>3
    <3>2. CASE id # o.id
      <4> DEFINE x == orders[id].order
      <4>1. id \in DOMAIN orders /\ orders'[id] = orders[id]
        BY <1>13, <3>2
      <4>2. /\ x \in DOMAIN slab /\ slab[x].id = id /\ slab[x].type = Limit
            /\ RemainingQty(slab[x]) > 0 /\ orders[id].lvl = slab[x].price
            /\ slab[x].price \in DOMAIN lvls[slab[x].side]
            /\ x \in ToSet(lvls[slab[x].side][slab[x].price].fifo)
        BY <4>1 DEF IInv, IndexAgrees, Linked
      <4>3. slab[x].side \in Sides
        BY <1>0, <4>2, LenProperties, ElementOfSeq, OrderFields DEF SlabOK
      <4> HIDE DEF x
      <4>4. /\ slab[x].price \in DOMAIN lvls'[slab[x].side]
            /\ x \in ToSet(lvls'[slab[x].side][slab[x].price].fifo)
        BY <1>9, <4>2, <4>3
      <4> QED BY <1>1, <4>1, <4>2, <4>4 DEF x
    <3> QED BY <3>1, <3>2
  <2>2. ASSUME NEW t \in Sides, NEW r \in DOMAIN lvls'[t]
        PROVE  /\ lvls'[t][r].fifo # <<>>
               /\ \A x \in ToSet(lvls'[t][r].fifo) :
                    /\ x \in DOMAIN slab'
                    /\ slab'[x].id \in DOMAIN orders'
                    /\ orders'[slab'[x].id].order = x
                    /\ slab'[x].side = t /\ slab'[x].price = r
    <3>1. SUFFICES ASSUME NEW x \in ToSet(lvls'[t][r].fifo)
                   PROVE  /\ x \in DOMAIN slab'
                          /\ slab'[x].id \in DOMAIN orders'
                          /\ orders'[slab'[x].id].order = x
                          /\ slab'[x].side = t /\ slab'[x].price = r
      BY <1>8
    <3>2. CASE t = s /\ r = p /\ x = taker
      BY <1>1, <1>2, <1>13, <3>2
    <3>3. CASE ~(t = s /\ r = p /\ x = taker)
      <4>1. r \in DOMAIN lvls[t] /\ x \in ToSet(lvls[t][r].fifo)
        BY <1>8, <3>3
      <4>2. /\ x \in DOMAIN slab
            /\ slab[x].id \in DOMAIN orders /\ orders[slab[x].id].order = x
            /\ slab[x].side = t /\ slab[x].price = r
        BY <1>2, <1>4, <4>1
      <4> QED BY <1>1, <1>13, <4>2
    <3> QED BY <3>2, <3>3
  <2> QED BY <2>1, <2>2, Zenon DEF IndexAgrees, Linked
<1>17. NodePoolSuffices'
  BY <1>0, <1>1, <1>2 DEF IInv, NodePoolSuffices
<1>16. TypeOK'
  <2>1. nodes' \in 0..Capacity
    BY <1>0, <1>1, <1>2, CapacityAssumption DEF IInv, NodePoolSuffices, SlabOK
  <2>2. /\ SlabOK' /\ taker' \in 0..Len(slab') /\ fills' \in Seq(Fill)
        /\ reply' = "rests" /\ panicked' \in BOOLEAN
    BY <1>0, <1>1, <1>2 DEF SlabOK, IInv, TypeOK
  <2> QED BY <1>7, <1>11, <1>14, <2>1, <2>2 DEF TypeOK
<1>18. UniqueIds' /\ TakerInHand'
  BY <1>1 DEF IInv, UniqueIds, TakerInHand
<1> QED BY <1>10, <1>11, <1>12, <1>15, <1>16, <1>17, <1>18 DEF IInv

\* Filled, or the remainder of a market order dropped: the book is as it was.
LEMMA DiscardInv ==
  ASSUME IInv, Discard
  PROVE  IInv'
<1>1. /\ lvls' = lvls /\ best' = best /\ orders' = orders /\ slab' = slab
      /\ nodes' = nodes /\ fills' = fills /\ panicked' = panicked
      /\ taker # 0 /\ taker' = 0 /\ reply' = "done"
  BY DEF Discard
<1>2. SlabOK /\ Len(slab) \in Nat /\ nodes \in 0..Capacity
  BY LenProperties DEF IInv, TypeOK, SlabOK
<1>3. TypeOK'
  BY <1>1, <1>2 DEF IInv, TypeOK, LvlsOK, BestOK, OrdersOK, SlabOK
<1>4. /\ IndexAgrees' /\ TimePriority' /\ BestIsTop' /\ NotCrossed'
      /\ UniqueIds' /\ TakerInHand'
  BY <1>1 DEF IInv, IndexAgrees, Linked, TimePriority, BestIsTop, NotCrossed,
              UniqueIds, TakerInHand
<1>5. NodePoolSuffices'
  BY <1>1, <1>2 DEF IInv, NodePoolSuffices
<1> QED BY <1>3, <1>4, <1>5 DEF IInv

\* Steps that leave the book and the order in hand alone.
LEMMA UnchangedInv ==
  ASSUME IInv, UNCHANGED <<lvls, best, orders, slab, nodes, taker>>,
         fills' \in Seq(Fill), panicked' \in BOOLEAN,
         reply' \in {"none", "rests", "done", "cancelled", "notfound"}
  PROVE  IInv'
<1>1. TypeOK'
  BY DEF IInv, TypeOK, LvlsOK, BestOK, OrdersOK, SlabOK
<1>2. /\ IndexAgrees' /\ TimePriority' /\ BestIsTop' /\ NotCrossed'
      /\ NodePoolSuffices' /\ UniqueIds' /\ TakerInHand'
  BY DEF IInv, IndexAgrees, Linked, TimePriority, BestIsTop, NotCrossed,
         NodePoolSuffices, UniqueIds, TakerInHand, Indexed
<1> QED BY <1>1, <1>2 DEF IInv

\* EmptyBookInv, one state later.
LEMMA EmptyBookNext == EmptyBook' => IInv'
<1>1. (EmptyBook => IInv)'
  BY EmptyBookInv, PTL
<1> QED BY <1>1

\* Reset leaves an empty book.
LEMMA ResetInv ==
  ASSUME IInv, Reset
  PROVE  IInv'
<1>1. EmptyBook'
  BY DEF Reset, Idle, Rewound, EmptyBook, IInv, TypeOK
<1> QED BY <1>1, EmptyBookNext

-----------------------------------------------------------------------------
(* The theorems. *)

\* The invariant holds in every reachable state, whatever the ids, prices,
\* quantities and capacity are.
THEOREM Invariance == Spec => []IInv
<1>1. Init => IInv
  <2>1. Init => EmptyBook
    BY DEF Init, EmptyBook
  <2> QED BY <2>1, EmptyBookInv
<1>2. IInv /\ [Next]_vars => IInv'
  <2> SUFFICES ASSUME IInv, [Next]_vars PROVE IInv'
    OBVIOUS
  <2>0. fills \in Seq(Fill) /\ panicked \in BOOLEAN
        /\ reply \in {"none", "rests", "done", "cancelled", "notfound"}
    BY DEF IInv, TypeOK
  <2>1. ASSUME NEW o \in NewOrder, BeginAdd(o) PROVE IInv'
    BY <2>1, BeginAddInv
  <2>2. CASE ArenaExhausted
    BY <2>0, <2>2, UnchangedInv DEF ArenaExhausted
  <2>3. CASE MakerSurvives
    BY <2>3, MakerSurvivesInv
  <2>4. CASE MakerFilled
    BY <2>4, MakerFilledInv
  <2>5. CASE Rest
    BY <2>5, RestInv
  <2>6. CASE Discard
    BY <2>6, DiscardInv
  <2>7. ASSUME NEW id \in Ids, CancelFound(id) PROVE IInv'
    BY <2>7, CancelFoundInv
  <2>8. ASSUME NEW id \in Ids, CancelMissing(id) PROVE IInv'
    <3>1. <<>> \in Seq(Fill)
      OBVIOUS
    <3> QED BY <2>0, <2>8, <3>1, UnchangedInv DEF CancelMissing
  <2>9. CASE Reset
    BY <2>9, ResetInv
  <2>10. CASE UNCHANGED vars
    BY <2>0, <2>10, UnchangedInv DEF vars
  <2> QED BY <2>1, <2>2, <2>3, <2>4, <2>5, <2>6, <2>7, <2>8, <2>9, <2>10 DEF Next, Step
<1> QED BY <1>1, <1>2, PTL DEF Spec

\* The book's state keeps its types: in particular neither allocator is ever
\* asked for more than it holds.
THEOREM TypeCorrect == Spec => []TypeOK
<1>1. IInv => TypeOK
  BY DEF IInv
<1> QED BY <1>1, Invariance, PTL

\* The index and the levels always describe the same orders.
THEOREM IndexCorrect == Spec => []IndexAgrees
<1>1. IInv => IndexAgrees
  BY DEF IInv
<1> QED BY <1>1, Invariance, PTL

\* The cached best prices are always right, also between two fills.
THEOREM BestCorrect == Spec => []BestIsTop
<1>1. IInv => BestIsTop
  BY DEF IInv
<1> QED BY <1>1, Invariance, PTL

\* Lists are always in order of arrival.
THEOREM FifoCorrect == Spec => []TimePriority
<1>1. IInv => TimePriority
  BY DEF IInv
<1> QED BY <1>1, Invariance, PTL

\* The book is never crossed.
THEOREM NeverCrossed == Spec => []NotCrossed
<1>1. IInv => NotCrossed
  BY DEF IInv
<1> QED BY <1>1, Invariance, PTL

\* The node pool never runs out: rest() cannot panic.
THEOREM NodesSuffice == Spec => []NodePoolSuffices
<1>1. IInv => NodePoolSuffices
  BY DEF IInv
<1> QED BY <1>1, Invariance, PTL

-----------------------------------------------------------------------------
(* The totals of the levels.                                                 *)

\* The orders of a level are finitely many, stored, indexed, not in hand, and
\* of that level only.
LEMMA LinkedFacts ==
  ASSUME IInv, NEW s \in Sides, NEW p \in DOMAIN lvls[s]
  PROVE  /\ IsFiniteSet(Linked(s, p))
         /\ \A x \in Linked(s, p) :
              /\ x \in DOMAIN slab /\ OpenQty[x] \in Int /\ OpenQty[x] = RemainingQty(slab[x])
              /\ x # taker /\ slab[x].side = s /\ slab[x].price = p
<1>1. \A x \in Linked(s, p) :
        /\ x \in DOMAIN slab /\ slab[x].side = s /\ slab[x].price = p
        /\ slab[x].id \in DOMAIN orders /\ orders[slab[x].id].order = x
  BY DEF IInv, IndexAgrees
<1>2. slab \in Seq(Order) /\ DOMAIN slab = 1..Len(slab) /\ Len(slab) \in Nat
  BY LenProperties DEF IInv, TypeOK, SlabOK
<1>3. IsFiniteSet(Linked(s, p))
  <2>1. Linked(s, p) \subseteq 1..Len(slab)
    BY <1>1, <1>2
  <2>2. IsFiniteSet(1..Len(slab))
    BY <1>2, FS_Interval
  <2> QED BY <2>1, <2>2, FS_Subset
<1>4. \A x \in DOMAIN slab : OpenQty[x] \in Int /\ OpenQty[x] = RemainingQty(slab[x])
  BY <1>2, ElementOfSeq, OrderFields DEF OpenQty
<1>5. \A x \in Linked(s, p) : x # taker
  BY <1>1, <1>2 DEF IInv, TakerInHand, Indexed
<1> QED BY <1>1, <1>3, <1>4, <1>5

\* A level that is left alone, with its orders, keeps its total right.
LEMMA TotalKept ==
  ASSUME IInv, TotalsAgree, NEW s \in Sides, NEW p \in DOMAIN lvls[s],
         lvls'[s][p] = lvls[s][p], DOMAIN slab \subseteq DOMAIN slab',
         \A x \in Linked(s, p) : slab'[x] = slab[x]
  PROVE  lvls'[s][p].total = SumFunctionOnSet(OpenQty', Linked(s, p)')
<1>1. Linked(s, p)' = Linked(s, p)
  BY DEF Linked
<1>2. \A x \in Linked(s, p) : OpenQty[x] \in Int /\ OpenQty'[x] = OpenQty[x]
  BY LinkedFacts DEF OpenQty
<1>3. SumFunctionOnSet(OpenQty', Linked(s, p)) = SumFunctionOnSet(OpenQty, Linked(s, p))
  BY <1>2, LinkedFacts, SumOfEquals
<1> QED BY <1>1, <1>3 DEF TotalsAgree

\* An order takes with it what it has open: sweep takes it when that is what it
\* trades, and cancel whatever it is.
LEMMA LeaveTotals ==
  ASSUME IInv, TotalsAgree, SlabOK',
         NEW s \in Sides, NEW p \in DOMAIN lvls[s], NEW i \in DOMAIN lvls[s][p].fifo,
         NEW m \in DOMAIN slab, m = lvls[s][p].fifo[i], SlabKept(m),
         leaveLevel(s, p, i, RemainingQty(slab[m]))
  PROVE  TotalsAgree'
<1> DEFINE qty == RemainingQty(slab[m])
           l == unlink(lvls[s][p], i, qty)
<1>0. LvlsOK /\ BestOK /\ SlabOK
  BY DEF IInv, TypeOK
<1>1. lvls[s][p] \in Level /\ p \in Prices /\ Increasing(lvls[s][p].fifo)
  BY <1>0 DEF LvlsOK, IInv, TimePriority, Increasing
<1>2. m \in Linked(s, p)
  BY DEF Linked, ToSet
<1>3. qty \in Int /\ qty = OpenQty[m] /\ slab[m].side = s /\ slab[m].price = p
  BY <1>2, LinkedFacts
<1>4. l \in Level /\ ToSet(l.fifo) = Linked(s, p) \ {m} /\ l.total = lvls[s][p].total - qty
  BY <1>1, <1>3, UnlinkFacts DEF Linked, unlink
<1>5. DOMAIN slab' = DOMAIN slab
  BY <1>0, LenProperties DEF SlabOK, SlabKept
<1> HIDE DEF l, qty
<1> SUFFICES ASSUME NEW t \in Sides, NEW r \in DOMAIN lvls'[t]
             PROVE  lvls'[t][r].total = SumFunctionOnSet(OpenQty', Linked(t, r)')
  BY DEF TotalsAgree
<1>6. /\ r \in DOMAIN lvls[t]
      /\ IF t = s /\ r = p THEN lvls'[t][r] = l ELSE lvls'[t][r] = lvls[t][r]
  <2>1. CASE l.fifo = <<>>
    <3>1. removeLevel(s, p)
      BY <2>1 DEF leaveLevel, l, qty
    <3> QED BY <1>0, <3>1, RemoveLevelFacts DEF IInv, BestOK
  <2>2. CASE l.fifo # <<>>
    <3>1. setLevel(s, p, l)
      BY <2>2 DEF leaveLevel, l, qty
    <3> QED BY <1>0, <1>1, <1>4, <3>1, SetLevelFacts
  <2> QED BY <2>1, <2>2
<1>7. CASE t = s /\ r = p
  <2> DEFINE rest == Linked(s, p) \ {m}
  <2>1. Linked(t, r)' = rest /\ lvls'[t][r].total = lvls[s][p].total - qty
    BY <1>4, <1>6, <1>7 DEF Linked
  <2>2. IsFiniteSet(rest) /\ \A x \in rest : OpenQty[x] \in Int /\ x \in DOMAIN slab /\ x # taker
    BY LinkedFacts, FS_Subset
  <2>3. \A x \in rest : OpenQty'[x] = OpenQty[x]
    BY <1>5, <2>2 DEF SlabKept, OpenQty
  <2>4. SumFunctionOnSet(OpenQty', rest) = SumFunctionOnSet(OpenQty, rest)
    BY <2>2, <2>3, SumOfEquals
  <2>5. SumFunctionOnSet(OpenQty, Linked(s, p)) = qty + SumFunctionOnSet(OpenQty, rest)
    BY <1>2, <1>3, LinkedFacts, SumOfElement
  <2>6. SumFunctionOnSet(OpenQty, rest) \in Int
    BY <2>2, SumIsInt
  <2>7. lvls[s][p].total = SumFunctionOnSet(OpenQty, Linked(s, p))
    BY DEF TotalsAgree
  <2> HIDE DEF rest
  <2> QED BY <1>3, <2>1, <2>4, <2>5, <2>6, <2>7
<1>8. CASE ~(t = s /\ r = p)
  <2>1. \A x \in Linked(t, r) : slab'[x] = slab[x]
    BY <1>3, <1>6, <1>8, LinkedFacts DEF SlabKept
  <2> QED BY <1>5, <1>6, <1>8, <2>1, TotalKept
<1> QED BY <1>7, <1>8

\* Part of the maker's quantity is traded, and is taken from its level's total.
LEMMA MakerSurvivesTotals == ASSUME IInv, TotalsAgree, MakerSurvives PROVE TotalsAgree'
<1> DEFINE m == Head(bestOpposite.fifo)
           qty == min64(RemainingQty(slab[m]), RemainingQty(slab[taker]))
           l == [bestOpposite EXCEPT !.total = @ - qty]
           s == Opp
           p == best[Opp]
<1>0. LvlsOK /\ SlabOK
  BY DEF IInv, TypeOK
<1>1. taker # 0 /\ CanMatch /\ Execute(m, qty) /\ setLevel(s, p, l)
  BY DEF MakerSurvives
<1>2. /\ s \in Sides /\ p \in DOMAIN lvls[s] /\ m \in DOMAIN slab /\ m \in Linked(s, p)
      /\ qty \in Nat \ {0} /\ SlabOK' /\ SlabKept(m)
      /\ RemainingQty(slab'[m]) = RemainingQty(slab[m]) - qty
  BY <1>1, ExecuteFacts
<1>3. lvls[s][p] \in Level /\ p \in Prices /\ bestOpposite = lvls[s][p]
  BY <1>0, <1>2 DEF LvlsOK, bestOpposite
<1>4. l \in Level /\ l.fifo = lvls[s][p].fifo /\ l.total = lvls[s][p].total - qty
  BY <1>2, <1>3 DEF Level
<1>5. DOMAIN slab' = DOMAIN slab
  BY <1>0, <1>2, LenProperties DEF SlabOK, SlabKept
<1> HIDE DEF m, qty, l, s, p
<1>6. /\ DOMAIN lvls'[s] = DOMAIN lvls[s] \cup {p} /\ lvls'[s][p] = l
      /\ \A r \in DOMAIN lvls[s] \ {p} : lvls'[s][r] = lvls[s][r]
      /\ \A t \in Sides \ {s} : lvls'[t] = lvls[t]
  BY <1>0, <1>1, <1>2, <1>3, <1>4, SetLevelFacts
<1>7. slab[m].side = s /\ slab[m].price = p /\ OpenQty[m] = RemainingQty(slab[m])
  BY <1>2, LinkedFacts
<1>8. lvls'[s][p].total = SumFunctionOnSet(OpenQty', ToSet(lvls'[s][p].fifo))
  <2>1. \A x \in Linked(s, p) : /\ OpenQty[x] \in Int /\ OpenQty'[x] \in Int
                                /\ x # m => OpenQty'[x] = OpenQty[x]
    <3>1. \A x \in Linked(s, p) : x # m => OpenQty'[x] = OpenQty[x]
      BY <1>2, <1>5, LinkedFacts DEF SlabKept, OpenQty
    <3>2. OpenQty'[m] = OpenQty[m] - qty
      BY <1>2, <1>5, <1>7 DEF OpenQty
    <3> QED BY <1>2, <3>1, <3>2, LinkedFacts
  <2>2. SumFunctionOnSet(OpenQty', Linked(s, p))
          = SumFunctionOnSet(OpenQty, Linked(s, p)) + (OpenQty'[m] - OpenQty[m])
    BY <1>2, <2>1, LinkedFacts, SumAfterChange
  <2>3. OpenQty'[m] = OpenQty[m] - qty /\ OpenQty[m] \in Int
    BY <1>2, <1>5, <1>7, <2>1 DEF OpenQty
  <2>4. SumFunctionOnSet(OpenQty, Linked(s, p)) \in Int
    BY <1>2, <2>1, LinkedFacts, SumIsInt
  <2>5. lvls[s][p].total = SumFunctionOnSet(OpenQty, Linked(s, p))
    BY <1>2 DEF TotalsAgree
  <2>6. SumFunctionOnSet(OpenQty', ToSet(lvls'[s][p].fifo))
          = SumFunctionOnSet(OpenQty', Linked(s, p))
    BY <1>4, <1>6 DEF Linked
  <2> QED BY <1>2, <1>4, <1>6, <2>2, <2>3, <2>4, <2>5, <2>6
<1>9. ASSUME NEW t \in Sides, NEW r \in DOMAIN lvls'[t], ~(t = s /\ r = p)
      PROVE  lvls'[t][r].total = SumFunctionOnSet(OpenQty', Linked(t, r)')
  <2>1. r \in DOMAIN lvls[t] /\ lvls'[t][r] = lvls[t][r]
    BY <1>2, <1>6, <1>9
  <2>2. \A x \in Linked(t, r) : slab'[x] = slab[x]
    BY <1>2, <1>7, <1>9, <2>1, LinkedFacts DEF SlabKept
  <2> QED BY <1>5, <2>1, <2>2, TotalKept
<1> QED BY <1>8, <1>9 DEF TotalsAgree, Linked

\* The remainder that joins a level is added to its total.
LEMMA RestTotals == ASSUME IInv, TotalsAgree, Rest PROVE TotalsAgree'
<1> DEFINE o == slab[taker]
           s == o.side
           p == o.price
           old == IF p \in DOMAIN lvls[s] THEN lvls[s][p] ELSE EmptyLevel
           qty == RemainingQty(o)
           l == push(old, taker, qty)
<1>0. LvlsOK /\ SlabOK
  BY DEF IInv, TypeOK
<1>1. taker # 0 /\ o.type = Limit /\ slab' = slab /\ setLevel(s, p, l)
  BY DEF Rest
<1>2. /\ Len(slab) \in Nat /\ DOMAIN slab = 1..Len(slab) /\ Len(slab) <= Capacity
      /\ taker = Len(slab) /\ taker \in DOMAIN slab /\ o \in Order
  <2>1. Len(slab) \in Nat /\ DOMAIN slab = 1..Len(slab) /\ Len(slab) <= Capacity
    BY <1>0, LenProperties DEF SlabOK
  <2>2. taker = Len(slab) /\ taker \in 1..Len(slab)
    BY <1>1, <2>1 DEF IInv, TypeOK, TakerInHand
  <2> QED BY <1>0, <2>1, <2>2, ElementOfSeq DEF SlabOK
<1>3. s \in Sides /\ p \in Prices /\ qty \in Int
  BY <1>1, <1>2, OrderFields
<1>4. old \in Level /\ Increasing(old.fifo)
  <2>1. CASE p \in DOMAIN lvls[s]
    BY <1>0, <1>3, <2>1 DEF LvlsOK, IInv, TimePriority, Increasing
  <2>2. CASE p \notin DOMAIN lvls[s]
    <3>1. EmptyLevel \in Level /\ Increasing(EmptyLevel.fifo)
      BY DEF EmptyLevel, Level, Increasing
    <3> QED BY <2>2, <3>1
  <2> QED BY <2>1, <2>2
<1> DEFINE S == ToSet(old.fifo)
<1>5. /\ IsFiniteSet(S) /\ \A x \in S : OpenQty[x] \in Int /\ x \in DOMAIN slab /\ x # taker
      /\ old.total = SumFunctionOnSet(OpenQty, S)
  <2>1. CASE p \in DOMAIN lvls[s]
    <3>1. S = Linked(s, p) /\ old = lvls[s][p]
      BY <2>1 DEF Linked
    <3> HIDE DEF S, s, p, old
    <3> QED BY <1>3, <2>1, <3>1, LinkedFacts DEF TotalsAgree
  <2>2. CASE p \notin DOMAIN lvls[s]
    <3>1. S = {} /\ old.total = 0
      BY <2>2 DEF EmptyLevel, ToSet
    <3> QED BY <3>1, FS_EmptySet, SumOfNothing
  <2> QED BY <2>1, <2>2
<1>6. OpenQty[taker] = qty
  BY <1>2 DEF OpenQty
<1> HIDE DEF old
<1>7. \A x \in S : x < taker
  BY <1>2, <1>5
<1>8. l \in Level /\ ToSet(l.fifo) = S \cup {taker} /\ l.total = old.total + qty
  <2>1. taker \in 1..Capacity
    BY <1>2, CapacityAssumption
  <2> QED BY <1>3, <1>4, <1>7, <2>1, PushFacts DEF push
<1> HIDE DEF l, S, s, p, o, qty
<1>9. /\ DOMAIN lvls'[s] = DOMAIN lvls[s] \cup {p} /\ lvls'[s][p] = l
      /\ \A r \in DOMAIN lvls[s] \ {p} : lvls'[s][r] = lvls[s][r]
      /\ \A t \in Sides \ {s} : lvls'[t] = lvls[t]
  BY <1>0, <1>1, <1>3, <1>8, SetLevelFacts
<1>10. OpenQty' = OpenQty
  BY <1>1 DEF OpenQty
<1>11. lvls'[s][p].total = SumFunctionOnSet(OpenQty', ToSet(lvls'[s][p].fifo))
  <2>1. SumFunctionOnSet(OpenQty, S \cup {taker}) = SumFunctionOnSet(OpenQty, S) + OpenQty[taker]
    BY <1>3, <1>5, <1>6, SumWithElement
  <2> QED BY <1>5, <1>6, <1>8, <1>9, <1>10, <2>1
<1>12. ASSUME NEW t \in Sides, NEW r \in DOMAIN lvls'[t], ~(t = s /\ r = p)
       PROVE  lvls'[t][r].total = SumFunctionOnSet(OpenQty', Linked(t, r)')
  <2>1. r \in DOMAIN lvls[t] /\ lvls'[t][r] = lvls[t][r]
    BY <1>3, <1>9, <1>12
  <2> QED BY <1>1, <2>1, TotalKept
<1> QED BY <1>11, <1>12 DEF TotalsAgree, Linked

\* The total of a level is the open quantity of its orders, whatever has been
\* pushed, traded and taken out, between two fills too.
THEOREM TotalsCorrect == Spec => []TotalsAgree
<1>1. Init => TotalsAgree
  BY DEF Init, TotalsAgree
<1>2. IInv /\ TotalsAgree /\ [Next]_vars => TotalsAgree'
  <2> SUFFICES ASSUME IInv, TotalsAgree, [Next]_vars PROVE TotalsAgree'
    OBVIOUS
  <2>1. ASSUME lvls' = lvls, DOMAIN slab \subseteq DOMAIN slab',
               \A x \in DOMAIN slab : slab'[x] = slab[x]
        PROVE  TotalsAgree'
    BY <2>1, LinkedFacts, TotalKept DEF TotalsAgree
  <2>2. ASSUME NEW o \in NewOrder, BeginAdd(o) PROVE TotalsAgree'
    <3>1. slab \in Seq(Order) /\ o \in Order
      BY DEF IInv, TypeOK, SlabOK, NewOrder, Order, OrderWithFilled
    <3>2. DOMAIN slab \subseteq DOMAIN slab' /\ \A x \in DOMAIN slab : slab'[x] = slab[x]
      <4>1. slab' = Append(slab, o)
        BY <2>2 DEF BeginAdd
      <4>2. /\ slab' \in Seq(Order) /\ Len(slab') = Len(slab) + 1
            /\ \A x \in 1..Len(slab) : slab'[x] = slab[x]
        BY <3>1, <4>1, AppendProperties
      <4>3. DOMAIN slab = 1..Len(slab) /\ DOMAIN slab' = 1..Len(slab') /\ Len(slab) \in Nat
        BY <3>1, <4>2, LenProperties
      <4> QED BY <4>2, <4>3
    <3> QED BY <2>1, <2>2, <3>2 DEF BeginAdd
  <2>3. CASE MakerSurvives
    BY <2>3, MakerSurvivesTotals
  <2>4. CASE MakerFilled
    <3> DEFINE m == Head(bestOpposite.fifo)
               qty == min64(RemainingQty(slab[m]), RemainingQty(slab[taker]))
    <3>1. /\ taker # 0 /\ CanMatch /\ Execute(m, qty) /\ qty = RemainingQty(slab[m])
          /\ leaveLevel(Opp, best[Opp], 1, RemainingQty(slab[m]))
      BY <2>4 DEF MakerFilled
    <3>2. /\ Opp \in Sides /\ best[Opp] \in DOMAIN lvls[Opp]
          /\ 1 \in DOMAIN bestOpposite.fifo /\ m = bestOpposite.fifo[1]
          /\ m \in DOMAIN slab /\ SlabOK' /\ SlabKept(m)
      BY <3>1, ExecuteFacts
    <3> HIDE DEF m
    <3> QED BY <3>1, <3>2, LeaveTotals DEF bestOpposite
  <2>5. CASE Rest
    BY <2>5, RestTotals
  <2>6. ASSUME NEW id \in Ids, CancelFound(id) PROVE TotalsAgree'
    <3> DEFINE ref == orders[id]
               m == ref.order
               s == slab[m].side
               p == ref.lvl
    <3>1. PICK i \in DOMAIN lvls[s][p].fifo :
            lvls[s][p].fifo[i] = m /\ leaveLevel(s, p, i, RemainingQty(slab[m]))
      BY <2>6 DEF CancelFound
    <3>2. /\ id \in DOMAIN orders /\ slab' = slab
      BY <2>6 DEF CancelFound
    <3>3. m \in DOMAIN slab /\ p = slab[m].price /\ p \in DOMAIN lvls[s]
      BY <3>2 DEF IInv, IndexAgrees
    <3>4. s \in Sides /\ SlabOK' /\ SlabKept(m)
      <4>1. SlabOK
        BY DEF IInv, TypeOK
      <4>2. slab[m] \in Order
        BY <3>3, <4>1, LenProperties, ElementOfSeq DEF SlabOK
      <4> QED BY <3>2, <4>1, <4>2, OrderFields DEF SlabOK, SlabKept
    <3> HIDE DEF m, s, p
    <3> QED BY <3>1, <3>3, <3>4, LeaveTotals
  <2>7. CASE Reset
    BY <2>7 DEF Reset, TotalsAgree
  <2>8. CASE ArenaExhausted \/ Discard \/ UNCHANGED vars \/ \E id \in Ids : CancelMissing(id)
    BY <2>1, <2>8 DEF ArenaExhausted, Discard, CancelMissing, vars
  <2> QED BY <2>2, <2>3, <2>4, <2>5, <2>6, <2>7, <2>8 DEF Next, Step
<1> QED BY <1>1, <1>2, Invariance, PTL DEF Spec

-----------------------------------------------------------------------------
(* The book implements price-time priority: each step of OrderBook is a step *)
(* of PriceTime, or one that its callers do not see.  First, what the        *)
(* invariant says of a resting order and of the order in hand.               *)

\* Prices are numbers above zero, those of the levels too.
LEMMA PriceFacts ==
  ASSUME IInv, NEW s \in Sides
  PROVE  /\ \A p \in Prices : p \in Nat /\ p # 0
         /\ \A p \in DOMAIN lvls[s] : p \in Nat /\ p # 0
<1>1. \A p \in Prices : p \in Nat /\ p # 0
  BY PricesAssumption
<1>2. DOMAIN lvls[s] \subseteq Prices
  BY DEF IInv, TypeOK, LvlsOK
<1> QED BY <1>1, <1>2

\* A resting order is stored, open, found through its id and linked at the
\* level of its own side and price.
LEMMA RestingFacts ==
  ASSUME IInv, NEW m \in Indexed
  PROVE  /\ m \in DOMAIN slab /\ m \in Nat \ {0} /\ m # taker
         /\ slab[m] \in Order /\ RemainingQty(slab[m]) > 0
         /\ slab[m].id \in DOMAIN orders /\ orders[slab[m].id].order = m
         /\ slab[m].side \in Sides
         /\ slab[m].price \in DOMAIN lvls[slab[m].side]
         /\ m \in Linked(slab[m].side, slab[m].price)
<1>1. PICK id \in DOMAIN orders : m = orders[id].order
  BY DEF Indexed
<1>2. /\ m \in DOMAIN slab /\ slab[m].id = id /\ RemainingQty(slab[m]) > 0
      /\ slab[m].price \in DOMAIN lvls[slab[m].side]
      /\ m \in Linked(slab[m].side, slab[m].price)
  BY <1>1 DEF IInv, IndexAgrees
<1>3. slab \in Seq(Order)
  BY DEF IInv, TypeOK, SlabOK
<1>4. slab[m] \in Order /\ m \in Nat \ {0}
  BY <1>2, <1>3, LenProperties, ElementOfSeq
<1>5. m # taker
  <2>1. taker # 0 => taker \notin Indexed
    BY DEF IInv, TakerInHand
  <2> QED BY <1>4, <2>1
<1> QED BY <1>1, <1>2, <1>4, <1>5, OrderFields

\* The order in hand is stored last, and its side is the one opposite to the
\* levels it is matched with.
LEMMA InHandFacts ==
  ASSUME IInv, taker # 0
  PROVE  /\ taker = Len(slab) /\ Len(slab) \in Nat \ {0} /\ DOMAIN slab = 1..Len(slab)
         /\ taker \in DOMAIN slab /\ slab[taker] \in Order
         /\ slab[taker].side \in Sides /\ Opp \in Sides
         /\ slab[taker].type \in {Limit, Market}
         /\ slab[taker].type = Limit => slab[taker].price \in Nat
         /\ \A s \in Sides : s # slab[taker].side <=> s = Opp
<1>1. slab \in Seq(Order) /\ taker \in 0..Len(slab) /\ taker = Len(slab)
  BY DEF IInv, TypeOK, SlabOK, TakerInHand
<1>2. Len(slab) \in Nat \ {0} /\ DOMAIN slab = 1..Len(slab) /\ taker \in DOMAIN slab
  BY <1>1, LenProperties
<1>3. slab[taker] \in Order
  BY <1>1, <1>2, ElementOfSeq
<1>4. /\ slab[taker].side \in Sides /\ slab[taker].type \in {Limit, Market}
      /\ slab[taker].type = Limit => slab[taker].price \in Prices
  <2> SUFFICES ASSUME NEW o \in Order
               PROVE  /\ o.side \in Sides /\ o.type \in {Limit, Market}
                      /\ o.type = Limit => o.price \in Prices
    BY <1>3
  <2> QED BY DEF Order, OrderWithFilled, PriceMatchesType
<1>5. slab[taker].type = Limit => slab[taker].price \in Nat
  BY <1>4, PriceFacts
<1>6. Opp \in Sides /\ \A s \in Sides : s # slab[taker].side <=> s = Opp
  BY <1>4 DEF Opp, opposite, Sides, Buy, Sell
<1> QED BY <1>1, <1>2, <1>3, <1>4, <1>5, <1>6

\* What the callers see of them.
LEMMA SeenFacts ==
  /\ DOMAIN Resting = Indexed
  /\ \A m \in Indexed : /\ Resting[m].id = slab[m].id
                        /\ Resting[m].side = slab[m].side
                        /\ Resting[m].price = slab[m].price
                        /\ Resting[m].left = RemainingQty(slab[m])
  /\ taker # 0 => /\ InHand # <<>>
                  /\ InHand[1] = Worked(slab[taker])
  /\ \A o : /\ Worked(o).id = o.id /\ Worked(o).side = o.side
            /\ Worked(o).type = o.type /\ Worked(o).price = o.price
            /\ Worked(o).left = RemainingQty(o)
BY DEF Resting, Shown, InHand, Worked

\* The orders that the order in hand accepts are on the opposite side, and
\* the cached best price is the first of their prices.
LEMMA EligibleFacts ==
  ASSUME IInv, taker # 0, NEW n \in Abstract!Eligible(InHand[1])
  PROVE  /\ n \in Indexed /\ slab[n].side = Opp
         /\ slab[n].price \in DOMAIN lvls[Opp]
         /\ n \in Linked(Opp, slab[n].price)
         /\ best[Opp] \in DOMAIN lvls[Opp] /\ best[Opp] # 0
         /\ AtLeast(Opp, best[Opp], slab[n].price)
         /\ \/ slab[taker].type = Market
            \/ pricesCross(slab[taker].side, slab[taker].price, slab[n].price)
<1>1. /\ n \in Indexed /\ slab[n].side # slab[taker].side
      /\ \/ slab[taker].type = Market
         \/ slab[taker].side = Buy /\ slab[n].price <= slab[taker].price
         \/ slab[taker].side = Sell /\ slab[n].price >= slab[taker].price
  BY SeenFacts DEF Abstract!Eligible, Abstract!Accepts, Abstract!Buy, Abstract!Sell,
                   Abstract!Market, Buy, Sell, Market
<1>2. slab[n].side = Opp
  BY <1>1, RestingFacts, InHandFacts
<1>3. slab[n].price \in DOMAIN lvls[Opp] /\ n \in Linked(Opp, slab[n].price)
  BY <1>1, <1>2, RestingFacts
<1>4. Opp \in Sides
  BY InHandFacts
<1>5. best[Opp] \in DOMAIN lvls[Opp] /\ AtLeast(Opp, best[Opp], slab[n].price)
  BY <1>3, <1>4 DEF IInv, BestIsTop
<1>6. \A p \in DOMAIN lvls[Opp] : p \in Nat /\ p # 0
  BY <1>4, PriceFacts
<1>7. \/ slab[taker].type = Market
      \/ pricesCross(slab[taker].side, slab[taker].price, slab[n].price)
  <2>1. slab[taker].type = Limit => slab[taker].price \in Nat
    BY InHandFacts
  <2>2. slab[taker].type \in {Limit, Market} /\ slab[n].price \in Nat
    BY InHandFacts, <1>3, <1>6
  <2> QED BY <1>1, <2>1, <2>2 DEF pricesCross, Buy, Sell
<1> QED BY <1>1, <1>2, <1>3, <1>5, <1>6, <1>7

\* The order that sweep serves is the one that price-time priority serves.
LEMMA ServedFirst ==
  ASSUME IInv, taker # 0, CanMatch, NEW m, m = Head(bestOpposite.fifo),
         m \in Linked(Opp, best[Opp]), 1 \in DOMAIN bestOpposite.fifo,
         m = bestOpposite.fifo[1]
  PROVE  /\ m \in Indexed /\ slab[m].price = best[Opp] /\ slab[m].side = Opp
         /\ m \in Abstract!Eligible(InHand[1])
         /\ \A n \in Abstract!Eligible(InHand[1]) \ {m} : Abstract!Ahead(m, n)
<1>0. Opp \in Sides /\ best[Opp] \in DOMAIN lvls[Opp] /\ slab[taker].side \in Sides
  BY InHandFacts DEF CanMatch
<1>1. /\ m \in DOMAIN slab /\ slab[m].id \in DOMAIN orders
      /\ orders[slab[m].id].order = m
      /\ slab[m].side = Opp /\ slab[m].price = best[Opp]
  BY <1>0 DEF IInv, IndexAgrees
<1>2. m \in Indexed
  BY <1>1 DEF Indexed
<1>3. \A p \in DOMAIN lvls[Opp] : p \in Nat /\ p # 0
  BY <1>0, PriceFacts
<1>4. m \in Abstract!Eligible(InHand[1])
  <2>1. slab[m].side # slab[taker].side
    BY <1>0, <1>1, InHandFacts
  <2>2. \/ slab[taker].type = Market
        \/ slab[taker].side = Buy /\ slab[m].price <= slab[taker].price
        \/ slab[taker].side = Sell /\ slab[m].price >= slab[taker].price
    <3>1. slab[taker].type = Limit => slab[taker].price \in Nat
      BY InHandFacts
    <3>2. slab[taker].type \in {Limit, Market} /\ slab[m].price \in Nat
      BY InHandFacts, <1>0, <1>1, <1>3
    <3> QED BY <1>0, <1>1, <3>1, <3>2 DEF CanMatch, pricesCross, Sides
  <2> QED BY <1>2, <2>1, <2>2, SeenFacts
          DEF Abstract!Eligible, Abstract!Accepts, Abstract!Buy, Abstract!Sell,
              Abstract!Market, Buy, Sell, Market
<1>5. ASSUME NEW n \in Abstract!Eligible(InHand[1]), n # m
      PROVE  Abstract!Ahead(m, n)
  <2>1. /\ n \in Indexed /\ slab[n].side = Opp
        /\ slab[n].price \in DOMAIN lvls[Opp] /\ n \in Linked(Opp, slab[n].price)
        /\ AtLeast(Opp, best[Opp], slab[n].price)
    BY EligibleFacts
  <2>2. slab[n].price = best[Opp] => m < n
    <3> SUFFICES ASSUME slab[n].price = best[Opp] PROVE m < n
      OBVIOUS
    <3>1. PICK i \in DOMAIN bestOpposite.fifo : n = bestOpposite.fifo[i]
      BY <2>1 DEF Linked, ToSet, bestOpposite
    <3>2. i \in Nat /\ 1 < i
      <4>1. bestOpposite.fifo \in Seq(1..Capacity)
        BY <1>0 DEF IInv, TypeOK, LvlsOK, Level, bestOpposite
      <4>2. i \in 1..Len(bestOpposite.fifo)
        BY <3>1, <4>1, LenProperties
      <4> QED BY <1>5, <3>1, <4>1, <4>2, LenProperties
    <3> QED BY <1>0, <3>1, <3>2 DEF IInv, TimePriority, bestOpposite
  <2>3. slab[n].price \in Nat /\ slab[m].price \in Nat /\ slab[m].price = best[Opp]
    BY <1>0, <1>1, <1>3, <2>1
  <2>4. /\ Resting[m].side = Opp /\ Resting[m].price = slab[m].price
        /\ Resting[n].price = slab[n].price
    BY <1>1, <1>2, <2>1, SeenFacts
  <2> QED BY <1>0, <2>1, <2>2, <2>3, <2>4
          DEF AtLeast, Sides, Abstract!Ahead, Abstract!Buy, Abstract!Sell, Buy, Sell
<1> QED BY <1>1, <1>2, <1>4, <1>5

\* The loop stops only when no order is left that the order in hand accepts.
LEMMA NoneLeft ==
  ASSUME IInv, taker # 0, ~CanMatch, RemainingQty(slab[taker]) > 0
  PROVE  Abstract!Eligible(InHand[1]) = {}
<1> SUFFICES ASSUME NEW n \in Abstract!Eligible(InHand[1]) PROVE FALSE
  OBVIOUS
<1>1. /\ best[Opp] \in DOMAIN lvls[Opp] /\ best[Opp] # 0
      /\ slab[n].price \in DOMAIN lvls[Opp]
      /\ AtLeast(Opp, best[Opp], slab[n].price)
      /\ \/ slab[taker].type = Market
         \/ pricesCross(slab[taker].side, slab[taker].price, slab[n].price)
  BY EligibleFacts
<1>2. /\ slab[taker].type # Market
      /\ ~pricesCross(slab[taker].side, slab[taker].price, best[Opp])
  BY <1>1 DEF CanMatch
<1>3. slab[taker].price \in Nat /\ best[Opp] \in Nat /\ slab[n].price \in Nat
  <2>1. slab[taker].price \in Nat /\ Opp \in Sides
    BY <1>2, InHandFacts
  <2> QED BY <1>1, <2>1, PriceFacts
<1>4. /\ slab[taker].side \in Sides
      /\ slab[taker].side = Buy => Opp = Sell
      /\ slab[taker].side = Sell => Opp = Buy
  BY InHandFacts DEF Sides, Buy, Sell
<1> QED BY <1>1, <1>2, <1>3, <1>4 DEF pricesCross, AtLeast, Sides, Buy, Sell

-----------------------------------------------------------------------------
(* A fill is what the abstract book does next. *)

\* One execution, where the maker keeps its place exactly when it stays open.
LEMMA TradeMaps ==
  ASSUME IInv, taker # 0, CanMatch,
         NEW m, m = Head(bestOpposite.fifo),
         NEW qty, qty = min64(RemainingQty(slab[m]), RemainingQty(slab[taker])),
         Execute(m, qty),
         Indexed' = IF RemainingQty(slab[m]) = qty THEN Indexed \ {m} ELSE Indexed
  PROVE  Abstract!Trade
<1>1. /\ m \in Linked(Opp, best[Opp]) /\ 1 \in DOMAIN bestOpposite.fifo
      /\ m = bestOpposite.fifo[1]
      /\ m \in DOMAIN slab /\ m # taker /\ taker \in DOMAIN slab /\ SlabKept(m)
      /\ \A x \in {m, taker} : /\ RemainingQty(slab[x]) \in Nat
                               /\ RemainingQty(slab'[x]) = RemainingQty(slab[x]) - qty
  BY ExecuteFacts
<1>2. /\ m \in Indexed /\ slab[m].price = best[Opp]
      /\ m \in Abstract!Eligible(InHand[1])
      /\ \A n \in Abstract!Eligible(InHand[1]) \ {m} : Abstract!Ahead(m, n)
  BY <1>1, ServedFirst
<1>3. /\ taker' = taker /\ reply' = reply /\ Len(slab') = Len(slab)
      /\ fills' = Append(fills, [maker |-> slab[m].id, taker |-> slab[taker].id,
                                 price |-> best[Opp], qty |-> qty])
  BY <1>1 DEF Execute, SlabKept
<1>4. Resting' = IF RemainingQty(slab[m]) = qty
                 THEN [n \in DOMAIN Resting \ {m} |-> Resting[n]]
                 ELSE [Resting EXCEPT ![m].left = @ - qty]
  <2>1. \A n \in Indexed : n # m => slab'[n] = slab[n]
    BY <1>1, RestingFacts DEF SlabKept
  <2>2. CASE RemainingQty(slab[m]) = qty
    <3>1. Indexed' = Indexed \ {m}
      BY <2>2
    <3> QED BY <2>1, <2>2, <3>1 DEF Resting
  <2>3. CASE RemainingQty(slab[m]) # qty
    <3>1. Indexed' = Indexed
      BY <2>3
    <3>2. Shown(slab'[m]) = [Shown(slab[m]) EXCEPT !.left = @ - qty]
      BY <1>1 DEF Shown, SlabKept
    <3>3. Resting' = [n \in Indexed |-> Shown(slab'[n])]
      BY <3>1 DEF Resting
    <3>4. [Resting EXCEPT ![m].left = @ - qty]
            = [n \in Indexed |-> IF n = m THEN [Shown(slab[m]) EXCEPT !.left = @ - qty]
                                 ELSE Shown(slab[n])]
      BY <1>2 DEF Resting
    <3> QED BY <2>1, <2>3, <3>2, <3>3, <3>4
  <2> QED BY <2>2, <2>3
<1>5. InHand' = <<[InHand[1] EXCEPT !.left = @ - qty]>>
  <2>1. Worked(slab'[taker]) = [Worked(slab[taker]) EXCEPT !.left = @ - qty]
    BY <1>1 DEF Worked, SlabKept
  <2>2. InHand' = <<Worked(slab'[taker])>> /\ InHand[1] = Worked(slab[taker])
    BY <1>3 DEF InHand
  <2> QED BY <2>1, <2>2
<1>6. /\ InHand # <<>> /\ InHand[1].left = RemainingQty(slab[taker])
      /\ InHand[1].left > 0 /\ InHand[1].id = slab[taker].id
      /\ Resting[m].left = RemainingQty(slab[m]) /\ Resting[m].id = slab[m].id
      /\ Resting[m].price = best[Opp]
  BY <1>2, SeenFacts DEF CanMatch
<1>7. qty = IF Resting[m].left < InHand[1].left THEN Resting[m].left ELSE InHand[1].left
  BY <1>6 DEF min64
<1> QED BY <1>2, <1>3, <1>4, <1>5, <1>6, <1>7 DEF Abstract!Trade

\* A maker that stays open stays in the book.
LEMMA SurvivesKeeps ==
  ASSUME IInv, MakerSurvives
  PROVE  \E m, qty : /\ taker # 0 /\ CanMatch /\ m = Head(bestOpposite.fifo)
                     /\ qty = min64(RemainingQty(slab[m]), RemainingQty(slab[taker]))
                     /\ Execute(m, qty) /\ RemainingQty(slab[m]) # qty
                     /\ Indexed' = Indexed
<1>1. orders' = orders
  BY DEF MakerSurvives
<1> QED BY <1>1 DEF MakerSurvives, Indexed

\* A maker that is filled leaves the book.
LEMMA FilledLeaves ==
  ASSUME IInv, MakerFilled
  PROVE  \E m, qty : /\ taker # 0 /\ CanMatch /\ m = Head(bestOpposite.fifo)
                     /\ qty = min64(RemainingQty(slab[m]), RemainingQty(slab[taker]))
                     /\ Execute(m, qty) /\ RemainingQty(slab[m]) = qty
                     /\ Indexed' = Indexed \ {m}
<1>1. PICK m : m = Head(bestOpposite.fifo)
  OBVIOUS
<1>2. PICK qty : qty = min64(RemainingQty(slab[m]), RemainingQty(slab[taker]))
  OBVIOUS
<1>3. /\ taker # 0 /\ CanMatch /\ Execute(m, qty) /\ RemainingQty(slab[m]) = qty
      /\ orders' = Unindex(slab[m].id) /\ leaveLevel(Opp, best[Opp], 1, qty)
  BY <1>1, <1>2 DEF MakerFilled
<1>4. /\ Opp \in Sides /\ best[Opp] \in DOMAIN lvls[Opp]
      /\ 1 \in DOMAIN bestOpposite.fifo /\ m = bestOpposite.fifo[1]
      /\ m \in DOMAIN slab /\ SlabOK' /\ SlabKept(m) /\ qty \in Int
  BY <1>1, <1>2, <1>3, ExecuteFacts
<1>5. 1 \in DOMAIN lvls[Opp][best[Opp]].fifo /\ m = lvls[Opp][best[Opp]].fifo[1]
  BY <1>4 DEF bestOpposite
<1>6. Indexed' = Indexed \ {m}
  BY <1>3, <1>4, <1>5, LeaveFacts
<1> QED BY <1>1, <1>2, <1>3, <1>6

\* A cancelled order leaves the book.
LEMMA CancelLeaves ==
  ASSUME IInv, NEW id \in Ids, CancelFound(id)
  PROVE  /\ id \in DOMAIN orders /\ Indexed' = Indexed \ {orders[id].order}
         /\ slab' = slab /\ taker = 0 /\ taker' = 0
<1>1. PICK m : m = orders[id].order
  OBVIOUS
<1>2. PICK s, p : s = slab[m].side /\ p = orders[id].lvl
  OBVIOUS
<1>3. /\ id \in DOMAIN orders /\ taker' = taker /\ slab' = slab /\ taker = 0
      /\ orders' = Unindex(id)
  BY DEF CancelFound, Idle
<1>4. PICK i \in DOMAIN lvls[s][p].fifo :
        lvls[s][p].fifo[i] = m /\ leaveLevel(s, p, i, RemainingQty(slab[m]))
  BY <1>1, <1>2 DEF CancelFound
<1>5. /\ m \in DOMAIN slab /\ slab[m].id = id /\ p = slab[m].price
      /\ p \in DOMAIN lvls[s]
  BY <1>1, <1>2, <1>3 DEF IInv, IndexAgrees
<1>6. SlabOK /\ SlabOK' /\ SlabKept(m)
  BY <1>3 DEF IInv, TypeOK, SlabOK, SlabKept
<1>7. s \in Sides /\ RemainingQty(slab[m]) \in Int
  <2>1. slab[m] \in Order
    BY <1>5, <1>6, LenProperties, ElementOfSeq DEF SlabOK
  <2> QED BY <1>2, <2>1, OrderFields
<1>8. Indexed' = Indexed \ {m}
  BY <1>3, <1>4, <1>5, <1>6, <1>7, LeaveFacts
<1> QED BY <1>1, <1>3, <1>8

\* An order that comes to rest joins the book.
LEMMA RestJoins ==
  ASSUME IInv, Rest
  PROVE  /\ Indexed' = Indexed \cup {taker} /\ slab' = slab /\ taker' = 0
         /\ taker # 0
<1>1. /\ orders' = Put(orders, slab[taker].id, [order |-> taker, lvl |-> slab[taker].price])
      /\ slab' = slab /\ taker' = 0 /\ taker # 0
  BY DEF Rest
<1>2. slab[taker].id \notin DOMAIN orders
  <2>1. \A id \in DOMAIN orders : /\ orders[id].order \in DOMAIN slab
                                  /\ slab[orders[id].order].id = id
                                  /\ orders[id].order # taker
    BY <1>1 DEF IInv, IndexAgrees, TakerInHand, Indexed
  <2> QED BY <1>1, <2>1, InHandFacts DEF IInv, UniqueIds
<1>3. /\ DOMAIN orders' = DOMAIN orders \cup {slab[taker].id}
      /\ orders'[slab[taker].id].order = taker
      /\ \A id \in DOMAIN orders : orders'[id] = orders[id]
  BY <1>1, <1>2 DEF Put
<1>4. Indexed' = Indexed \cup {taker}
  BY <1>3 DEF Indexed
<1> QED BY <1>1, <1>4

-----------------------------------------------------------------------------
(* Orders that have left the book. *)

LeavesDead ==
  \A m \in DOMAIN slab :
    (m \notin Indexed /\ m # taker)
      => (m \notin Indexed' /\ m # taker' /\ slab'[m] = slab[m])

\* A fill touches a resting order and the order in hand, nobody else.
LEMMA TradeLeavesDead ==
  ASSUME IInv, taker # 0, CanMatch,
         NEW m, m = Head(bestOpposite.fifo),
         NEW qty, qty = min64(RemainingQty(slab[m]), RemainingQty(slab[taker])),
         Execute(m, qty), Indexed' \subseteq Indexed
  PROVE  LeavesDead
<1>1. SlabKept(m) /\ m \in Indexed
  BY ExecuteFacts
<1>2. taker' = taker
  BY DEF Execute
<1> QED BY <1>1, <1>2 DEF LeavesDead, SlabKept

\* No step brings back, or touches, an order that has left the book.
LEMMA StepLeavesDead ==
  ASSUME IInv, [Next]_vars, slab' # <<>>
  PROVE  LeavesDead
<1>0. slab \in Seq(Order) /\ Len(slab) \in Nat /\ DOMAIN slab = 1..Len(slab)
  BY LenProperties DEF IInv, TypeOK, SlabOK
<1>1. ASSUME NEW o \in NewOrder, BeginAdd(o) PROVE LeavesDead
  <2>1. o \in Order
    BY DEF Order, NewOrder, OrderWithFilled
  <2>2. \A x \in 1..Len(slab) : slab'[x] = slab[x]
    BY <1>0, <1>1, <2>1, AppendProperties DEF BeginAdd
  <2>3. Indexed' = Indexed /\ taker' = Len(slab) + 1
    BY <1>1 DEF BeginAdd, Indexed
  <2> QED BY <1>0, <2>2, <2>3 DEF LeavesDead
<1>2. CASE MakerSurvives
  BY <1>2, SurvivesKeeps, TradeLeavesDead
<1>3. CASE MakerFilled
  <2>1. PICK m, qty : /\ taker # 0 /\ CanMatch /\ m = Head(bestOpposite.fifo)
                      /\ qty = min64(RemainingQty(slab[m]), RemainingQty(slab[taker]))
                      /\ Execute(m, qty) /\ Indexed' = Indexed \ {m}
    BY <1>3, FilledLeaves
  <2>2. Indexed' \subseteq Indexed
    BY <2>1
  <2> QED BY <2>1, <2>2, TradeLeavesDead
<1>4. CASE Rest
  BY <1>0, <1>4, RestJoins DEF LeavesDead
<1>5. ASSUME NEW id \in Ids, CancelFound(id) PROVE LeavesDead
  BY <1>0, <1>5, CancelLeaves DEF LeavesDead
<1>6. ASSUME orders' = orders, slab' = slab, taker' \in {0, taker} PROVE LeavesDead
  BY <1>0, <1>6 DEF LeavesDead, Indexed
<1>7. CASE Discard
  BY <1>6, <1>7 DEF Discard
<1>8. ASSUME NEW id \in Ids, CancelMissing(id) PROVE LeavesDead
  BY <1>6, <1>8 DEF CancelMissing
<1>9. CASE ArenaExhausted \/ UNCHANGED vars
  BY <1>6, <1>9 DEF ArenaExhausted, vars
<1>10. CASE Reset
  BY <1>10 DEF Reset, Rewound
<1> QED BY <1>1, <1>2, <1>3, <1>4, <1>5, <1>7, <1>8, <1>9, <1>10 DEF Next, Step

\* An order that was filled, dropped or cancelled never comes back.
THEOREM DeadForGood == Spec => DeadStaysDead
<1>1. IInv /\ [Next]_vars => (slab' # <<>> => LeavesDead)
  BY StepLeavesDead
<1>2. (slab' # <<>> => LeavesDead)
        <=> (slab' # <<>> =>
               \A m \in DOMAIN slab :
                 (m \notin Indexed /\ m # taker)
                   => (m \notin Indexed' /\ m # taker' /\ slab'[m] = slab[m]))
  BY DEF LeavesDead
<1> QED BY <1>1, <1>2, Invariance, PTL DEF Spec, DeadStaysDead

-----------------------------------------------------------------------------
(* Every step maps to a step of the abstract book. *)

\* sweep never fills more of the order in hand than it has: its remainder is
\* zero when the abstract order's is.
NotOverfilled == taker # 0 => RemainingQty(slab[taker]) \in Nat

Maps == NotOverfilled' /\ [Abstract!Next]_(Abstract!vars)

\* Storing a new order is its submission.
LEMMA BeginAddMaps ==
  ASSUME IInv, NotOverfilled, NEW o \in NewOrder, BeginAdd(o)
  PROVE  Maps
<1>1. /\ taker = 0 /\ lvls' = lvls /\ orders' = orders /\ slab' = Append(slab, o)
      /\ taker' = Len(slab) + 1 /\ fills' = <<>> /\ reply' = "none" /\ Fresh(o.id)
  BY DEF BeginAdd, Idle
<1>2. /\ o \in Order /\ o.id \in Ids /\ o.side \in Sides /\ o.type \in {Limit, Market}
      /\ o.price \in Prices \cup {0} /\ o.qty \in Qtys /\ o.filled = 0
      /\ o.type = Limit => o.price \in Prices
  BY DEF Order, NewOrder, OrderWithFilled, PriceMatchesType
<1>3. /\ slab' \in Seq(Order) /\ Len(slab) \in Nat /\ Len(slab') = Len(slab) + 1
      /\ DOMAIN slab = 1..Len(slab) /\ slab'[taker'] = o
      /\ \A x \in 1..Len(slab) : slab'[x] = slab[x]
  <2>1. slab \in Seq(Order) /\ Len(slab) \in Nat /\ DOMAIN slab = 1..Len(slab)
    BY LenProperties DEF IInv, TypeOK, SlabOK
  <2> QED BY <1>1, <1>2, <2>1, AppendProperties
<1>4. RemainingQty(o) = o.qty /\ o.qty \in Nat \ {0}
  <2>1. o.qty \in Nat \ {0} /\ o.filled = 0
    BY <1>2, QtysAssumption
  <2>2. \A q \in Nat : q - 0 = q
    OBVIOUS
  <2> QED BY <2>1, <2>2 DEF RemainingQty
<1>5. NotOverfilled'
  BY <1>3, <1>4 DEF NotOverfilled
<1>6. Indexed' = Indexed /\ Indexed \subseteq DOMAIN slab
  BY <1>1, RestingFacts DEF Indexed
<1>7. Resting' = Resting
  BY <1>3, <1>6 DEF Resting
<1>8. \A m \in DOMAIN Resting : Resting[m].id # o.id
  BY <1>1, <1>6, SeenFacts DEF Fresh
<1>9. /\ InHand = <<>>
      /\ InHand' = <<[id |-> o.id, side |-> o.side, type |-> o.type,
                      price |-> o.price, left |-> o.qty]>>
  BY <1>1, <1>3, <1>4 DEF InHand, Worked
<1>10. Abstract!Submit
  <2>1. /\ o.side \in {Abstract!Buy, Abstract!Sell}
        /\ o.type \in {Abstract!Limit, Abstract!Market}
        /\ o.type = Abstract!Limit => o.price \in Prices
    BY <1>2 DEF Sides, Buy, Sell, Limit, Market, Abstract!Buy, Abstract!Sell,
                Abstract!Limit, Abstract!Market
  <2> QED BY <1>1, <1>2, <1>3, <1>7, <1>8, <1>9, <2>1 DEF Abstract!Submit
<1> QED BY <1>5, <1>10 DEF Maps, Abstract!Next

\* Both kinds of fill are the abstract trade.
LEMMA FillMaps ==
  ASSUME IInv, NotOverfilled, MakerSurvives \/ MakerFilled
  PROVE  Maps
<1>1. PICK m, qty :
        /\ taker # 0 /\ CanMatch /\ m = Head(bestOpposite.fifo)
        /\ qty = min64(RemainingQty(slab[m]), RemainingQty(slab[taker]))
        /\ Execute(m, qty)
        /\ Indexed' = IF RemainingQty(slab[m]) = qty THEN Indexed \ {m} ELSE Indexed
  <2>1. CASE MakerSurvives
    BY <2>1, SurvivesKeeps
  <2>2. CASE MakerFilled
    BY <2>2, FilledLeaves
  <2> QED BY <2>1, <2>2
<1>2. Abstract!Trade
  BY <1>1, TradeMaps
<1>3. NotOverfilled'
  <2>1. /\ RemainingQty(slab[taker]) \in Nat /\ qty \in Nat
        /\ RemainingQty(slab'[taker]) = RemainingQty(slab[taker]) - qty
        /\ qty <= RemainingQty(slab[taker])
    BY <1>1, ExecuteFacts
  <2>2. taker' = taker
    BY <1>1 DEF Execute
  <2> QED BY <2>1, <2>2 DEF NotOverfilled
<1> QED BY <1>2, <1>3 DEF Maps, Abstract!Next

\* The order in hand is worked out: a remainder of a limit order rests, and
\* whatever else is left of it is dropped.
LEMMA EndMaps ==
  ASSUME IInv, NotOverfilled, Rest \/ Discard
  PROVE  Maps
<1>1. /\ taker # 0 /\ taker' = 0 /\ ~CanMatch /\ slab' = slab /\ fills' = fills
  BY DEF Rest, Discard
<1>2. /\ InHand # <<>> /\ InHand' = <<>>
      /\ InHand[1] = Worked(slab[taker])
      /\ InHand[1].left = RemainingQty(slab[taker]) /\ InHand[1].left \in Nat
      /\ InHand[1].type = slab[taker].type /\ InHand[1].id = slab[taker].id
      /\ InHand[1].side = slab[taker].side /\ InHand[1].price = slab[taker].price
  BY <1>1, SeenFacts DEF InHand, NotOverfilled
<1>3. InHand[1].left = 0 \/ Abstract!Eligible(InHand[1]) = {}
  BY <1>1, <1>2, NoneLeft
<1>4. /\ Len(slab') = Len(slab) /\ taker = Len(slab) /\ Resting' = [m \in Indexed' |-> Shown(slab[m])]
      /\ Resting = [m \in Indexed |-> Shown(slab[m])]
  BY <1>1, InHandFacts DEF Resting
<1>5. Abstract!Finish => Maps
  BY <1>1 DEF Maps, NotOverfilled, Abstract!Next
<1>6. CASE Rest
  <2>1. /\ slab[taker].type = Limit /\ RemainingQty(slab[taker]) > 0
        /\ reply' = "rests" /\ Indexed' = Indexed \cup {taker} /\ taker \notin Indexed
    BY <1>1, <1>6, RestJoins, RestingFacts DEF Rest
  <2>2. Shown(slab[taker]) = [id |-> InHand[1].id, side |-> InHand[1].side,
                              price |-> InHand[1].price, left |-> InHand[1].left]
    BY <1>2 DEF Shown
  <2>3. Resting' = [n \in DOMAIN Resting \cup {Len(slab)} |->
                     IF n = Len(slab)
                     THEN [id |-> InHand[1].id, side |-> InHand[1].side,
                           price |-> InHand[1].price, left |-> InHand[1].left]
                     ELSE Resting[n]]
    BY <1>4, <2>1, <2>2
  <2>4. InHand[1].type = Abstract!Limit /\ InHand[1].left > 0
    BY <1>2, <2>1 DEF Abstract!Limit, Limit
  <2> QED BY <1>1, <1>2, <1>3, <1>4, <1>5, <2>1, <2>3, <2>4 DEF Abstract!Finish
<1>7. CASE Discard
  <2>1. /\ slab[taker].type = Market \/ RemainingQty(slab[taker]) <= 0
        /\ reply' = "done" /\ orders' = orders
    BY <1>7 DEF Discard
  <2>2. Resting' = Resting
    BY <1>4, <2>1 DEF Indexed
  <2>3. ~(InHand[1].type = Abstract!Limit /\ InHand[1].left > 0)
    BY <1>2, <2>1 DEF Abstract!Limit, Market
  <2> QED BY <1>1, <1>2, <1>3, <1>4, <1>5, <2>1, <2>2, <2>3 DEF Abstract!Finish
<1> QED BY <1>6, <1>7

\* Cancel finds an order exactly when it is resting.
LEMMA CancelMaps ==
  ASSUME IInv, NEW id \in Ids, CancelFound(id) \/ CancelMissing(id)
  PROVE  Maps
<1>1. /\ taker = 0 /\ taker' = 0 /\ slab' = slab /\ fills' = <<>>
      /\ InHand = <<>> /\ InHand' = <<>>
  BY DEF CancelFound, CancelMissing, Idle, InHand
<1>2. /\ Resting = [m \in Indexed |-> Shown(slab[m])]
      /\ Resting' = [m \in Indexed' |-> Shown(slab[m])]
  BY <1>1 DEF Resting
<1>3. \A m \in Indexed : Resting[m].id = id <=> id \in DOMAIN orders /\ m = orders[id].order
  <2>1. \A m \in Indexed : /\ Resting[m].id = slab[m].id /\ slab[m].id \in DOMAIN orders
                           /\ orders[slab[m].id].order = m
    BY RestingFacts, SeenFacts
  <2>2. id \in DOMAIN orders => slab[orders[id].order].id = id
    BY DEF IInv, IndexAgrees
  <2> QED BY <2>1, <2>2
<1>4. Resting' = [m \in {n \in DOMAIN Resting : Resting[n].id # id} |-> Resting[m]]
  <2>1. DOMAIN Resting = Indexed
    BY <1>2
  <2>2. Indexed' = {n \in Indexed : Resting[n].id # id}
    <3>1. CASE CancelFound(id)
      BY <1>3, <3>1, CancelLeaves
    <3>2. CASE CancelMissing(id)
      <4>1. Indexed' = Indexed /\ id \notin DOMAIN orders
        BY <3>2 DEF CancelMissing, Indexed
      <4> QED BY <1>3, <4>1
    <3> QED BY <3>1, <3>2
  <2>3. \A m \in Indexed : Resting[m] = Shown(slab[m])
    BY <1>2
  <2> QED BY <1>2, <2>1, <2>2, <2>3
<1>5. reply' = IF \E m \in DOMAIN Resting : Resting[m].id = id
               THEN "cancelled" ELSE "notfound"
  <2>1. (\E m \in DOMAIN Resting : Resting[m].id = id) <=> id \in DOMAIN orders
    <3>1. id \in DOMAIN orders => orders[id].order \in Indexed
      BY DEF Indexed
    <3> QED BY <1>2, <1>3, <3>1
  <2> QED BY <2>1 DEF CancelFound, CancelMissing
<1>6. Abstract!Cancel
  BY <1>1, <1>4, <1>5 DEF Abstract!Cancel
<1> QED BY <1>1, <1>6 DEF Maps, NotOverfilled, Abstract!Next

\* Reset empties the abstract book.
LEMMA ResetMaps ==
  ASSUME IInv, Reset
  PROVE  Maps
<1>1. /\ taker = 0 /\ taker' = 0 /\ slab' = <<>> /\ orders' = <<>> /\ fills' = <<>>
      /\ reply' = "none" /\ InHand = <<>> /\ InHand' = <<>>
  BY DEF Reset, Idle, Rewound, InHand
<1>2. Resting' = <<>> /\ Len(slab') = 0
  <2>1. Indexed' = {}
    BY <1>1 DEF Indexed
  <2> QED BY <1>1, <2>1 DEF Resting
<1> QED BY <1>1, <1>2 DEF Maps, NotOverfilled, Abstract!Next, Abstract!Reset

\* Steps that callers do not see.
LEMMA UnseenMaps ==
  ASSUME NotOverfilled, ArenaExhausted \/ UNCHANGED vars
  PROVE  Maps
<1>1. UNCHANGED <<orders, slab, taker, fills, reply>>
  BY DEF ArenaExhausted, vars
<1>2. Resting' = Resting /\ InHand' = InHand
  BY <1>1 DEF Resting, InHand, Indexed
<1> QED BY <1>1, <1>2 DEF Maps, NotOverfilled, Abstract!vars

-----------------------------------------------------------------------------
\* The book is price-time priority as its callers know it, whatever the ids,
\* prices, quantities and capacity are: each fill is with the order that is
\* next, an Add ends exactly when it has nothing left to trade with, and an
\* order is cancelled once.
THEOREM PriceTimePriority == Spec => ImplementsPriceTime
<1>1. Init => NotOverfilled /\ Abstract!Init
  BY DEF Init, NotOverfilled, Resting, Indexed, InHand, Abstract!Init
<1>2. IInv /\ NotOverfilled /\ [Next]_vars => NotOverfilled' /\ [Abstract!Next]_(Abstract!vars)
  <2>a. SUFFICES ASSUME IInv, NotOverfilled, [Next]_vars PROVE Maps
    BY DEF Maps
  <2>1. ASSUME NEW o \in NewOrder, BeginAdd(o) PROVE Maps
    BY <2>a, <2>1, BeginAddMaps
  <2>2. CASE MakerSurvives \/ MakerFilled
    BY <2>a, <2>2, FillMaps
  <2>3. CASE Rest \/ Discard
    BY <2>a, <2>3, EndMaps
  <2>4. ASSUME NEW id \in Ids, CancelFound(id) \/ CancelMissing(id) PROVE Maps
    BY <2>a, <2>4, CancelMaps
  <2>5. CASE Reset
    BY <2>a, <2>5, ResetMaps
  <2>6. CASE ArenaExhausted \/ UNCHANGED vars
    BY <2>a, <2>6, UnseenMaps
  <2> QED BY <2>a, <2>1, <2>2, <2>3, <2>4, <2>5, <2>6 DEF Next, Step
<1> QED BY <1>1, <1>2, Invariance, PTL DEF Spec, ImplementsPriceTime, Abstract!Spec

-----------------------------------------------------------------------------
(* An Add ends.                                                            *)

\* Iterations that the order in hand can still go through, its end included.
LoopLeft == IF taker = 0 THEN 0 ELSE 1 + RemainingQty(slab[taker])

\* What may be found at the head of the matching loop: a level with an order in it,
\* or else an order for rest() or to be left alone.
LoopGoesOn ==
  taker # 0 =>
    \/ CanMatch /\ bestOpposite.fifo # <<>>
    \/ ~CanMatch /\ slab[taker].type \in {Limit, Market}

\* A step of the loop leaves fewer.
LEMMA LoopStep ==
  ASSUME IInv, NotOverfilled, Step
  PROVE  LoopLeft' < LoopLeft
<1>1. taker # 0 /\ RemainingQty(slab[taker]) \in Nat
  BY DEF Step, MakerSurvives, MakerFilled, Rest, Discard, NotOverfilled
<1>2. CASE Rest \/ Discard
  <2>1. taker' = 0
    BY <1>2 DEF Rest, Discard
  <2> QED BY <1>1, <2>1 DEF LoopLeft
<1>3. CASE MakerSurvives \/ MakerFilled
  <2>1. PICK m, qty :
          /\ CanMatch /\ m = Head(bestOpposite.fifo)
          /\ qty = min64(RemainingQty(slab[m]), RemainingQty(slab[taker]))
          /\ Execute(m, qty)
    BY <1>3 DEF MakerSurvives, MakerFilled
  <2>2. qty \in Nat \ {0} /\ RemainingQty(slab'[taker]) = RemainingQty(slab[taker]) - qty
    BY <1>1, <2>1, ExecuteFacts
  <2>3. taker' = taker
    BY <2>1 DEF Execute
  <2> QED BY <1>1, <2>2, <2>3 DEF LoopLeft
<1> QED BY <1>2, <1>3 DEF Step

\* matchLimit, matchMarket and sweep cannot loop for ever: every iteration fills
\* at least one unit of the order in hand, which has at most its quantity, and while
\* the loop runs nothing else happens to the book.  Nor can they be stuck on a level
\* without orders.
THEOREM AddRunsOut ==
  Spec => /\ [](LoopLeft \in Nat) /\ [][taker # 0 => LoopLeft' < LoopLeft]_vars
          /\ []LoopGoesOn
<1>1. Init => NotOverfilled
  BY DEF Init, NotOverfilled
<1>2. IInv /\ NotOverfilled /\ [Next]_vars => NotOverfilled'
  <2>a. SUFFICES ASSUME IInv, NotOverfilled, [Next]_vars PROVE NotOverfilled'
    OBVIOUS
  <2>1. ASSUME NEW o \in NewOrder, BeginAdd(o) PROVE NotOverfilled'
    BY <2>a, <2>1, BeginAddMaps DEF Maps
  <2>2. CASE MakerSurvives \/ MakerFilled
    BY <2>a, <2>2, FillMaps DEF Maps
  <2>3. CASE Rest \/ Discard
    BY <2>3 DEF Rest, Discard, NotOverfilled
  <2>4. ASSUME NEW id \in Ids, CancelFound(id) \/ CancelMissing(id) PROVE NotOverfilled'
    BY <2>4 DEF CancelFound, CancelMissing, Idle, NotOverfilled
  <2>5. CASE Reset \/ ArenaExhausted
    BY <2>5 DEF Reset, ArenaExhausted, Idle, NotOverfilled
  <2>6. CASE UNCHANGED vars
    BY <2>a, <2>6 DEF vars, NotOverfilled
  <2> QED BY <2>a, <2>1, <2>2, <2>3, <2>4, <2>5, <2>6 DEF Next, Step
<1>3. IInv /\ NotOverfilled => LoopLeft \in Nat
  BY DEF LoopLeft, NotOverfilled
<1>4. IInv /\ NotOverfilled /\ [Next]_vars => [taker # 0 => LoopLeft' < LoopLeft]_vars
  <2>1. taker # 0 /\ Next => Step
    BY DEF Next, BeginAdd, ArenaExhausted, CancelFound, CancelMissing, Reset, Idle
  <2> QED BY <2>1, LoopStep
<1>5. IInv => LoopGoesOn
  <2>1. SUFFICES ASSUME IInv, taker # 0 PROVE LoopGoesOn
    BY DEF LoopGoesOn
  <2>2. slab[taker].type \in {Limit, Market} /\ Opp \in Sides
    BY <2>1, InHandFacts
  <2>3. CanMatch => bestOpposite.fifo # <<>>
    BY <2>1, <2>2 DEF CanMatch, bestOpposite, IInv, IndexAgrees
  <2> QED BY <2>2, <2>3 DEF LoopGoesOn
<1> QED BY <1>1, <1>2, <1>3, <1>4, <1>5, Invariance, PTL DEF Spec

-----------------------------------------------------------------------------
(* What Sequencer assumes of the book.                                     *)
(*                                                                         *)
(* Sequencer knows the book as the set resting, from which a dispatched    *)
(* Add takes all makers it fills, and all but one of those it trades with. *)
(* The set is that of the index, and while an Add is being worked the one  *)
(* it found.                                                               *)

Makers == {fills[i].maker : i \in DOMAIN fills}

restingIds == IF taker = 0 THEN DOMAIN orders ELSE DOMAIN orders \cup Makers

\* Sequencer!DispatchAdd, for order id.
AddAtOnce(id) ==
  \E makers \in SUBSET restingIds : \E filled \in SUBSET makers, rests \in BOOLEAN :
    /\ IsFiniteSet(makers \ filled) /\ Cardinality(makers \ filled) <= 1
    /\ makers # filled => ~rests
    /\ restingIds' = (restingIds \ filled) \cup (IF rests THEN {id} ELSE {})
    /\ makers = Makers' /\ reply' = IF rests THEN "rests" ELSE "done"

\* Sequencer!DispatchCancel.
CancelAtOnce(id) ==
  /\ restingIds' = restingIds \ {id}
  /\ reply' = IF id \in restingIds THEN "cancelled" ELSE "notfound"

SeenFromOutside ==
  \/ taker # 0 /\ taker' = 0 /\ AddAtOnce(slab[taker].id)
  \/ taker = 0 /\ taker' = 0 /\ \E id \in Ids : CancelAtOnce(id)
  \/ taker = 0 /\ restingIds' = {} /\ reply' = "none"
  \/ restingIds' = restingIds /\ (reply' = reply \/ (taker = 0 /\ taker' # 0))

\* A maker that still rests was traded with last, and nothing is left to trade then;
\* makers are orders stored before the one in hand.
FillsOrdered ==
  /\ \A i \in DOMAIN fills :
       /\ \E s \in DOMAIN slab : s # taker /\ slab[s].id = fills[i].maker
       /\ fills[i].maker \in DOMAIN orders =>
            /\ i = Len(fills) /\ reply # "rests"
            /\ taker # 0 => RemainingQty(slab[taker]) = 0
  /\ taker # 0 => reply = "none"

LEMMA FillsOrderedTrade ==
  ASSUME IInv, FillsOrdered, MakerSurvives \/ MakerFilled
  PROVE  FillsOrdered' /\ restingIds' = restingIds /\ reply' = reply
<1>1. PICK m, qty :
        /\ taker # 0 /\ CanMatch /\ m = Head(bestOpposite.fifo)
        /\ qty = min64(RemainingQty(slab[m]), RemainingQty(slab[taker]))
        /\ Execute(m, qty)
        /\ \/ RemainingQty(slab[m]) # qty /\ orders' = orders
           \/ orders' = Delete(orders, slab[m].id)
  BY DEF MakerSurvives, MakerFilled, Unindex
<1>2. /\ m \in DOMAIN slab /\ m # taker /\ m \in Indexed /\ SlabOK' /\ SlabKept(m)
      /\ taker \in DOMAIN slab /\ qty \in Nat
      /\ RemainingQty(slab[taker]) \in Nat /\ RemainingQty(slab[m]) \in Nat
      /\ RemainingQty(slab'[taker]) = RemainingQty(slab[taker]) - qty
  BY <1>1, ExecuteFacts
<1>3. slab[m].id \in DOMAIN orders
  BY <1>2, RestingFacts
<1>4. /\ taker # 0 /\ RemainingQty(slab[taker]) > 0
      /\ taker' = taker /\ reply' = reply /\ reply = "none"
      /\ \E x : x.maker = slab[m].id /\ fills' = Append(fills, x)
  BY <1>1 DEF CanMatch, Execute, FillsOrdered
<1>5. PICK x : x.maker = slab[m].id /\ fills' = Append(fills, x)
  BY <1>4
<1>6. /\ Len(fills) \in Nat /\ DOMAIN fills = 1..Len(fills)
      /\ Len(fills') = Len(fills) + 1 /\ DOMAIN fills' = 1..(Len(fills) + 1)
      /\ fills'[Len(fills) + 1] = x /\ \A i \in 1..Len(fills) : fills'[i] = fills[i]
  <2>1. fills \in Seq(Fill) /\ fills' \in Seq(Fill)
    BY <1>1, ExecuteFacts DEF IInv, TypeOK
  <2>2. /\ Len(fills) \in Nat /\ DOMAIN fills = 1..Len(fills) /\ DOMAIN fills' = 1..Len(fills')
        /\ \A i \in DOMAIN fills : fills[i] \in Fill
    BY <2>1, LenProperties
  <2>3. fills \in Seq(Fill \cup {x}) /\ x \in Fill \cup {x}
    BY <2>2, <2>1, SeqDef
  <2> QED BY <1>5, <2>2, <2>3, AppendProperties
<1>7. \A i \in DOMAIN fills : fills[i].maker \notin DOMAIN orders
  BY <1>2, <1>4 DEF FillsOrdered
<1>8. DOMAIN orders' \subseteq DOMAIN orders
      /\ DOMAIN orders' \cup {slab[m].id} = DOMAIN orders
  BY <1>1, <1>3 DEF Delete
<1>9. slab[m].id \in DOMAIN orders' => RemainingQty(slab'[taker]) = 0
  <2>1. SUFFICES ASSUME slab[m].id \in DOMAIN orders' PROVE RemainingQty(slab'[taker]) = 0
    OBVIOUS
  <2>2. RemainingQty(slab[m]) # qty
    BY <1>1, <2>1 DEF Delete
  <2> QED BY <1>1, <1>2, <2>2 DEF min64
<1>10. DOMAIN slab' = DOMAIN slab /\ \A y \in DOMAIN slab : slab'[y].id = slab[y].id
  <2>1. DOMAIN slab' = 1..Len(slab') /\ DOMAIN slab = 1..Len(slab) /\ Len(slab') = Len(slab)
    BY <1>2, LenProperties DEF IInv, TypeOK, SlabOK, SlabKept
  <2> QED BY <1>2, <2>1 DEF SlabKept
<1>11. FillsOrdered'
  <2>1. ASSUME NEW i \in DOMAIN fills'
        PROVE  /\ \E y \in DOMAIN slab' : y # taker' /\ slab'[y].id = fills'[i].maker
               /\ fills'[i].maker \in DOMAIN orders' =>
                    /\ i = Len(fills') /\ reply' # "rests"
                    /\ RemainingQty(slab'[taker]) = 0
    <3>1. CASE i \in DOMAIN fills
      <4>1. fills'[i] = fills[i] /\ fills[i].maker \notin DOMAIN orders'
        BY <1>6, <1>7, <1>8, <3>1
      <4>2. \E y \in DOMAIN slab : y # taker /\ slab[y].id = fills[i].maker
        BY <3>1 DEF FillsOrdered
      <4> QED BY <1>4, <1>10, <4>1, <4>2
    <3>2. CASE i = Len(fills) + 1
      <4>1. fills'[i].maker = slab[m].id
        BY <1>5, <1>6, <3>2
      <4> QED BY <1>2, <1>4, <1>6, <1>9, <1>10, <3>2, <4>1
    <3> QED BY <1>6, <3>1, <3>2
  <2> QED BY <1>4, <2>1 DEF FillsOrdered
<1>12. Makers' = Makers \cup {slab[m].id}
  <2>1. ASSUME NEW i \in DOMAIN fills' PROVE fills'[i].maker \in Makers \cup {slab[m].id}
    <3>1. i \in DOMAIN fills \/ i = Len(fills) + 1
      BY <1>6
    <3> QED BY <1>5, <1>6, <3>1 DEF Makers
  <2>2. \A i \in DOMAIN fills : fills[i].maker \in Makers'
    <3>1. \A i \in DOMAIN fills : i \in DOMAIN fills' /\ fills'[i] = fills[i]
      BY <1>6
    <3> QED BY <3>1 DEF Makers
  <2>3. slab[m].id \in Makers'
    <3>1. Len(fills) + 1 \in DOMAIN fills'
      BY <1>6
    <3> QED BY <1>5, <1>6, <3>1 DEF Makers
  <2> QED BY <2>1, <2>2, <2>3 DEF Makers
<1>13. restingIds' = restingIds
  BY <1>1, <1>3, <1>4, <1>8, <1>12 DEF restingIds
<1> QED BY <1>4, <1>11, <1>13

\* The end of an Add.
LEMMA FillsOrderedEnd ==
  ASSUME IInv, FillsOrdered, Rest \/ Discard
  PROVE  FillsOrdered' /\ AddAtOnce(slab[taker].id)
<1> DEFINE id == slab[taker].id
           rests == (reply' = "rests")
<1>1. /\ taker # 0 /\ taker' = 0 /\ slab' = slab /\ fills' = fills
      /\ Rest => /\ RemainingQty(slab[taker]) > 0 /\ reply' = "rests"
                 /\ DOMAIN orders' = DOMAIN orders \cup {id}
      /\ ~Rest => reply' = "done" /\ orders' = orders
  BY DEF Rest, Discard, Put
<1>2. \A i \in DOMAIN fills : fills[i].maker # id
  <2>1. taker \in DOMAIN slab
    BY <1>1, InHandFacts
  <2> QED BY <2>1 DEF FillsOrdered, IInv, UniqueIds
<1>3. \A i \in DOMAIN fills :
        fills[i].maker \in DOMAIN orders => i = Len(fills) /\ RemainingQty(slab[taker]) = 0
  BY <1>1 DEF FillsOrdered
<1>4. Rest => Makers \cap DOMAIN orders = {}
  BY <1>1, <1>3 DEF Makers
<1>13. rests <=> Rest
  BY <1>1
<1>5. FillsOrdered'
  <2>1. ASSUME NEW i \in DOMAIN fills'
        PROVE  /\ \E y \in DOMAIN slab' : y # taker' /\ slab'[y].id = fills'[i].maker
               /\ fills'[i].maker \in DOMAIN orders' => i = Len(fills') /\ reply' # "rests"
    <3>1. PICK y \in DOMAIN slab : y # taker /\ slab[y].id = fills[i].maker
      BY <1>1, <2>1 DEF FillsOrdered
    <3>2. y # 0
      <4>1. DOMAIN slab = 1..Len(slab)
        BY <1>1, InHandFacts
      <4> QED BY <3>1, <4>1
    <3>3. CASE Rest
      <4>1. fills[i].maker \notin DOMAIN orders
        BY <1>1, <1>4, <2>1, <3>3 DEF Makers
      <4> QED BY <1>1, <1>2, <2>1, <3>1, <3>2, <3>3, <4>1
    <3>4. CASE ~Rest
      BY <1>1, <1>3, <2>1, <3>1, <3>2, <3>4
    <3> QED BY <3>3, <3>4
  <2> QED BY <1>1, <2>1 DEF FillsOrdered
<1>6. Makers' = Makers
  BY <1>1 DEF Makers
<1>7. /\ restingIds = DOMAIN orders \cup Makers /\ restingIds' = DOMAIN orders'
  BY <1>1 DEF restingIds
<1> DEFINE filled == Makers \ DOMAIN orders'
<1>8. restingIds' = (restingIds \ filled) \cup (IF rests THEN {id} ELSE {})
  <2>1. CASE Rest
    <3>1. id \notin Makers
      BY <1>2 DEF Makers
    <3> QED BY <1>1, <1>4, <1>7, <2>1, <3>1
  <2>2. CASE ~Rest
    BY <1>1, <1>7, <2>2
  <2> QED BY <2>1, <2>2
<1>9. Makers # filled => ~rests
  <2>1. SUFFICES ASSUME Rest PROVE Makers = filled
    BY <1>13
  <2>2. id \notin Makers
    BY <1>2 DEF Makers
  <2> QED BY <1>1, <1>4, <2>1, <2>2
<1>10. IsFiniteSet(Makers \ filled) /\ Cardinality(Makers \ filled) <= 1
  <2>1. Makers \ filled \subseteq {fills[Len(fills)].maker}
    <3>1. SUFFICES ASSUME NEW x \in Makers, x \in DOMAIN orders'
                   PROVE  x = fills[Len(fills)].maker
      OBVIOUS
    <3>2. x \in DOMAIN orders
      BY <1>1, <1>2, <3>1 DEF Makers
    <3>3. PICK i \in DOMAIN fills : fills[i].maker = x
      BY <3>1 DEF Makers
    <3> QED BY <1>3, <3>2, <3>3
  <2> HIDE DEF filled
  <2>2. Makers \ filled = {} \/ Makers \ filled = {fills[Len(fills)].maker}
    BY <2>1
  <2>3. IsFiniteSet({}) /\ Cardinality({}) = 0
    BY FS_EmptySet
  <2>4. \A T, x : T = {x} => IsFiniteSet(T) /\ Cardinality(T) <= 1
    BY FS_Singleton
  <2>5. CASE Makers \ filled = {}
    BY <2>3, <2>5
  <2>6. CASE Makers \ filled = {fills[Len(fills)].maker}
    BY <2>4, <2>6
  <2> QED BY <2>2, <2>5, <2>6
<1>11. /\ Makers \in SUBSET restingIds /\ filled \in SUBSET Makers /\ rests \in BOOLEAN
       /\ reply' = IF rests THEN "rests" ELSE "done"
  <2>1. rests \in BOOLEAN
    OBVIOUS
  <2> QED BY <1>1, <1>7, <2>1
<1> HIDE DEF filled
<1>12. AddAtOnce(id)
  BY <1>6, <1>8, <1>9, <1>10, <1>11, Zenon DEF AddAtOnce
<1> QED BY <1>5, <1>12

\* The other steps.
LEMMA FillsOrderedOther ==
  ASSUME IInv, FillsOrdered,
         \/ \E o \in NewOrder : BeginAdd(o)
         \/ \E id \in Ids : CancelFound(id) \/ CancelMissing(id)
         \/ Reset \/ ArenaExhausted \/ UNCHANGED vars
  PROVE  FillsOrdered' /\ SeenFromOutside
<1>1. DOMAIN <<>> = {}
  OBVIOUS
<1>2. ASSUME NEW o \in NewOrder, BeginAdd(o) PROVE FillsOrdered' /\ SeenFromOutside
  <2>1. taker = 0 /\ taker' = Len(slab) + 1 /\ fills' = <<>> /\ orders' = orders /\ reply' = "none"
    BY <1>2 DEF BeginAdd, Idle
  <2>2. Len(slab) \in Nat
    BY LenProperties DEF IInv, TypeOK, SlabOK
  <2>3. FillsOrdered'
    BY <1>1, <2>1 DEF FillsOrdered
  <2>4. taker' # 0 /\ restingIds' = restingIds
    <3>1. Makers' = {}
      BY <1>1, <2>1 DEF Makers
    <3> QED BY <2>1, <2>2, <3>1 DEF restingIds
  <2> QED BY <2>1, <2>3, <2>4 DEF SeenFromOutside
<1>3. ASSUME NEW id \in Ids, CancelFound(id) \/ CancelMissing(id)
      PROVE  FillsOrdered' /\ SeenFromOutside
  <2>1. /\ taker = 0 /\ taker' = 0 /\ fills' = <<>>
        /\ DOMAIN orders' = DOMAIN orders \ {id}
        /\ reply' = IF id \in DOMAIN orders THEN "cancelled" ELSE "notfound"
    BY <1>3 DEF CancelFound, CancelMissing, Idle, Unindex, Delete
  <2>2. FillsOrdered'
    BY <1>1, <2>1 DEF FillsOrdered
  <2>3. CancelAtOnce(id)
    BY <2>1 DEF CancelAtOnce, restingIds
  <2> QED BY <2>1, <2>2, <2>3 DEF SeenFromOutside
<1>4. CASE Reset
  <2>1. taker = 0 /\ taker' = 0 /\ fills' = <<>> /\ orders' = <<>> /\ reply' = "none"
    BY <1>4 DEF Reset, Idle
  <2> QED BY <1>1, <2>1 DEF FillsOrdered, SeenFromOutside, restingIds
<1>5. CASE ArenaExhausted \/ UNCHANGED vars
  <2>1. UNCHANGED <<taker, fills, orders, reply, slab>>
    BY <1>5 DEF ArenaExhausted, vars
  <2>2. FillsOrdered'
    BY <2>1 DEF FillsOrdered
  <2> QED BY <2>1, <2>2 DEF SeenFromOutside, restingIds, Makers
<1> QED BY <1>2, <1>3, <1>4, <1>5

\* From outside, an Add is one step of the kind that Sequencer takes for it: it trades
\* with orders that rested when it began, fills all of them but perhaps one, and rests
\* itself only when it has filled them all; a Cancel takes the one order it names, and
\* is told whether it rested.  So the book that Sequencer and AtomicBook assume is the
\* book that engine.go has.
THEOREM BookOfSequencer == Spec => [][SeenFromOutside]_vars
<1>1. Init => FillsOrdered
  <2>1. DOMAIN <<>> = {}
    OBVIOUS
  <2> QED BY <2>1 DEF Init, FillsOrdered
<1>2. IInv /\ FillsOrdered /\ [Next]_vars => FillsOrdered' /\ SeenFromOutside
  <2>a. SUFFICES ASSUME IInv, FillsOrdered, [Next]_vars
                 PROVE  FillsOrdered' /\ SeenFromOutside
    OBVIOUS
  <2>1. CASE MakerSurvives \/ MakerFilled
    BY <2>a, <2>1, FillsOrderedTrade DEF SeenFromOutside
  <2>2. CASE Rest \/ Discard
    <3>1. taker # 0 /\ taker' = 0
      BY <2>2 DEF Rest, Discard
    <3> QED BY <2>a, <2>2, <3>1, FillsOrderedEnd DEF SeenFromOutside
  <2>3. CASE \/ \E o \in NewOrder : BeginAdd(o)
             \/ \E id \in Ids : CancelFound(id) \/ CancelMissing(id)
             \/ Reset \/ ArenaExhausted \/ UNCHANGED vars
    BY <2>a, <2>3, FillsOrderedOther
  <2> QED BY <2>a, <2>1, <2>2, <2>3 DEF Next, Step
<1> QED BY <1>1, <1>2, Invariance, PTL DEF Spec
=============================================================================
