----------------------------- MODULE Validator -----------------------------
(***************************************************************************)
(* internal/validator: every tick of a run is replayed in the validator's  *)
(* own reference engine and the contestant's answer is compared with it.   *)
(*                                                                         *)
(* The contestant is not modelled: it may answer any tick with any fills   *)
(* and any terminal response, or none.  reported is the book as someone    *)
(* would know it who sees the ticks and the contestant's answers only.     *)
(* Two parts of an answer are looked at by no verdict, the fills in the    *)
(* answer to a cancel and the terminal response to an ADD; overlooked has  *)
(* the orders about which such a part said something else.                 *)
(***************************************************************************)
EXTENDS Integers, Sequences, Functions

CONSTANTS Prices, Qtys,  \* of the orders of the workload and of reported fills
          MaxTicks,      \* bound on the ticks of a run, for model checking
          MaxFills,      \* bound on the fills reported for an added order
          MaxStray       \* bound on the fills reported for a cancel

ASSUME WorkloadAssumption == Prices \subseteq Nat \ {0} /\ Qtys \subseteq Nat \ {0}
ASSUME BoundsAssumption == MaxTicks \in Nat /\ MaxFills \in Nat /\ MaxStray \in Nat

Buy == 1
Sell == -1
Limit == 1
Market == 2

VARIABLES
  idx,        \* ticks judged so far
  book,       \* reference engine: id -> resting order, ids in the order of arrival
  cancelled,  \* ids the reference engine has cancelled
  reported,   \* the book that the contestant's answers describe
  overlooked, \* the orders named in a part of an answer that no verdict looks at
  flawless    \* every verdict so far was correct

validatorVars == <<idx, book, cancelled, reported, overlooked, flawless>>

Correct == "correct"

\* The k-th tick adds order k or cancels an order added before; ids are unique.
Orders == {o \in [id : {idx + 1}, side : {Buy, Sell}, type : {Limit, Market},
                  price : Prices \cup {0}, qty : Qtys] :
             o.price = 0 <=> o.type = Market}

-----------------------------------------------------------------------------
(* The reference engine, one whole command at a time; OrderBook has its steps. *)

Eligible_Strict(b, o) ==
  {i \in DOMAIN b : /\ b[i].qty > 0 /\ b[i].side # o.side
                    /\ \/ o.type = Market
                       \/ o.side = Buy /\ b[i].price < o.price
                       \/ o.side = Sell /\ b[i].price > o.price}

\* The resting orders of b that o trades with.
Eligible(b, o) ==
  {i \in DOMAIN b : /\ b[i].qty > 0 /\ b[i].side # o.side
                    /\ \/ o.type = Market
                       \/ o.side = Buy /\ b[i].price <= o.price
                       \/ o.side = Sell /\ b[i].price >= o.price}

Ahead(b, i, j) ==
  \/ b[i].side = Buy /\ b[i].price > b[j].price
  \/ b[i].side = Sell /\ b[i].price < b[j].price
  \/ b[i].price = b[j].price /\ i < j

Best(b, es) == CHOOSE i \in es : \A j \in es \ {i} : Ahead(b, i, j)

Trade(acc, i, o) ==
  LET m == acc.book[i]
      q == IF m.qty < acc.left THEN m.qty ELSE acc.left
  IN [book |-> [acc.book EXCEPT ![i].qty = @ - q], left |-> acc.left - q,
      fills |-> Append(acc.fills, [maker |-> i, taker |-> o.id, price |-> m.price, qty |-> q])]

Matched(acc, o) ==
  LET es == Eligible(acc.book, o) IN
  IF acc.left = 0 \/ es = {} THEN acc ELSE Trade(acc, Best(acc.book, es), o)

\* There are no more trades than resting orders.
Worked(o) ==
  LET w[n \in 0..idx] == IF n = 0 THEN [book |-> book, left |-> o.qty, fills |-> <<>>]
                         ELSE Matched(w[n - 1], o)
  IN w[idx]

OpenOrders(b) == {i \in DOMAIN b : b[i].qty > 0}

\* What is left of o when it has traded joins the book, if it is a limit order.
Settled(b, o, left) ==
  LET open == OpenOrders(b)
      rests == IF o.type = Limit /\ left > 0 THEN {o.id} ELSE {}
  IN [i \in open \cup rests |->
        IF i \in open THEN b[i] ELSE [side |-> o.side, price |-> o.price, qty |-> left]]

Without_Kept(b, id) == b

Without(b, id) == Restrict(b, DOMAIN b \ {id})

-----------------------------------------------------------------------------
(* The verdicts. *)

ViolationOf_NoTaker(got, ref) ==
  CASE got.maker # ref.maker -> "PRICE_TIME_PRIORITY"
    [] got.maker = ref.maker /\ got.price # ref.price -> "WRONG_EXEC_PRICE"
    [] OTHER -> Correct

\* The first difference of a reported fill to the reference fill.
ViolationOf(got, ref) ==
  CASE got.maker # ref.maker \/ got.taker # ref.taker -> "PRICE_TIME_PRIORITY"
    [] got.price # ref.price -> "WRONG_EXEC_PRICE"
    [] got.qty > ref.qty -> "OVERFILL"
    [] got.qty < ref.qty -> "UNDERFILL"
    [] OTHER -> Correct

\* Fills are compared in order and the first difference decides.
Compared(got, ref) ==
  LET wrong == {i \in DOMAIN ref : ViolationOf(got[i], ref[i]) # Correct} IN
  IF wrong = {} THEN Correct
  ELSE LET i == CHOOSE i \in wrong : \A j \in wrong : i <= j
       IN ViolationOf(got[i], ref[i])

Zombie(got) == \E i \in DOMAIN got : got[i].maker \in cancelled

\* ref are the fills of the reference engine.
verifyAdd(ref, got) ==
  IF Zombie(got) THEN "ZOMBIE_FILL"
  ELSE IF Len(got) > Len(ref) THEN "OVERFILL"
  ELSE IF Len(got) < Len(ref) THEN "UNDERFILL"
  ELSE Compared(got, ref)

verifyCancel(id, terminal) ==
  IF (id \in DOMAIN book) = (terminal = "ACK") THEN Correct ELSE "CANCEL_MISMATCH"

Judged(v) ==
  /\ flawless' = (flawless /\ v = Correct)
  /\ idx' = idx + 1

-----------------------------------------------------------------------------

ValidatorInit ==
  /\ idx = 0
  /\ book = <<>>
  /\ cancelled = {}
  /\ reported = <<>>
  /\ overlooked = {}
  /\ flawless = TRUE

\* What the fills take from order id.
Taken(fills, id) ==
  SumFunctionOnSet([i \in DOMAIN fills |-> IF id \in {fills[i].maker, fills[i].taker}
                                           THEN fills[i].qty ELSE 0], DOMAIN fills)

\* The reported book after reported fills.
Lessened(got) == [i \in DOMAIN reported |-> [reported[i] EXCEPT !.qty = @ - Taken(got, i)]]

\* An order that is not acknowledged is not known to rest.
AddReported(o, got, terminal) ==
  Settled(Lessened(got), o, IF terminal = "ACK" THEN o.qty - Taken(got, o.id) ELSE 0)

CancelReported(id, got, terminal) ==
  LET b == Lessened(got) IN
  Restrict(b, OpenOrders(b) \ (IF terminal = "ACK" THEN {id} ELSE {}))

\* After the first wrong answer the reported book is of no interest, and neither
\* is an overlooked order that has left both books.
Tracked(v, b, ids) ==
  IF flawless /\ v = Correct
  THEN reported' = b /\ overlooked' = (overlooked \cup ids) \cap (DOMAIN book' \cup DOMAIN b)
  ELSE reported' = <<>> /\ overlooked' = {}

\* w is what the reference engine does with o; the terminal response is not looked at.
JudgeAdd(o, w, got, terminal) ==
  /\ Judged(verifyAdd(w.fills, got))
  /\ book' = Settled(w.book, o, w.left)
  /\ Tracked(verifyAdd(w.fills, got), AddReported(o, got, terminal),
             IF terminal = "ACK" THEN {} ELSE {o.id})
  /\ UNCHANGED cancelled

Cancelled(id) == IF id \in DOMAIN book THEN cancelled \cup {id} ELSE cancelled

\* The fills in the answer to a cancel are not looked at.
JudgeCancel(id, got, terminal) ==
  LET v == verifyCancel(id, terminal) IN
  /\ Judged(v)
  /\ cancelled' = Cancelled(id)
  /\ book' = Without(book, id)
  /\ Tracked(v, CancelReported(id, got, terminal),
              UNION {{got[i].maker, got[i].taker} : i \in DOMAIN got})

\* Reported fills of a tick name any orders of the run.
ReportedFills == [maker : 1..idx, taker : {0, idx + 1}, price : Prices, qty : Qtys]
Answers(n) == UNION {[1..k -> ReportedFills] : k \in 0..n}

\* The first terminal response of an answer; none is as good as a REJ.
Terminals == {"ACK", "REJ"}

ValidatorNext ==
  /\ idx < MaxTicks
  /\ \/ \E o \in Orders : LET w == Worked(o) IN
          \E got \in Answers(MaxFills), terminal \in Terminals : JudgeAdd(o, w, got, terminal)
     \/ \E id \in 1..idx, got \in Answers(MaxStray), terminal \in Terminals :
          JudgeCancel(id, got, terminal)

ValidatorSpec == ValidatorInit /\ [][ValidatorNext]_validatorVars

-----------------------------------------------------------------------------
(* Properties. *)

\* A contestant that matches as the reference does is never marked wrong, in
\* any state of the run: not for a fill it owes, nor for any cancel.
HonestIsCorrect ==
  /\ \A o \in Orders : verifyAdd(Worked(o).fills, Worked(o).fills) = Correct
  /\ \A id \in 1..idx : verifyCancel(id, IF id \in DOMAIN book THEN "ACK" ELSE "REJ") = Correct

\* As long as no tick is judged wrong, the answers describe the reference book:
\* the same orders with the same quantities, but for the orders about which an
\* answer said what no verdict looks at (fills in the answer to a cancel, an ADD
\* not acknowledged).  What those do to the book stays with the orders they name.
CorrectMeansSameBook ==
  flawless => \A id \in 1..idx \ overlooked :
                /\ id \in DOMAIN reported <=> id \in DOMAIN book
                /\ id \in DOMAIN book => reported[id] = book[id]

BookNotCrossed ==
  \A i, j \in DOMAIN book : book[i].side = Buy /\ book[j].side = Sell => book[i].price < book[j].price

\* Nothing is left of o, or nobody in the book accepts it.
WorkedOut(acc, o) == acc.left = 0 \/ Eligible(acc.book, o) = {}

\* The reference, which is right by definition for the contestants, is right: it
\* works every order to its end, and no bid of its book reaches an ask.
ReferenceWorksOrders == BookNotCrossed /\ \A o \in Orders : WorkedOut(Worked(o), o)
=============================================================================
