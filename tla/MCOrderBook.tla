---------------------------- MODULE MCOrderBook ----------------------------
(* The instance of OrderBook that TLC checks.                              *)
EXTENDS OrderBook

(***************************************************************************)
(* Ids are only compared for equality, so they can be handed out in order  *)
(* (SYMMETRY would not do: a liveness property is checked).  The dearest   *)
(* price is for a first sell order of the least quantity: it is there so   *)
(* that a side can have three levels, and a rescan for its best price a    *)
(* choice.                                                                 *)
(***************************************************************************)
Least(S) == CHOOSE x \in S : \A y \in S : x <= y

Typical(o) ==
  /\ o.id = Len(slab) + 1
  /\ o.price = MaxPrice => o.id = 1 /\ o.side = Sell /\ o.qty = Least(Qtys)

MCNext ==
  \/ \E o \in NewOrder : Typical(o) /\ BeginAdd(o)
  \/ ArenaExhausted
  \/ Step
  \/ \E id \in Ids : CancelFound(id) \/ CancelMissing(id)
  \/ Reset

MCSpec == Init /\ [][MCNext]_vars /\ WF_vars(Step)
=============================================================================
