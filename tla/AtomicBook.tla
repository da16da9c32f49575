----------------------------- MODULE AtomicBook -----------------------------
(***************************************************************************)
(* What the Sequencer and the Engine promise to concurrent callers, who    *)
(* name orders with their own ids: every call takes effect at one instant  *)
(* between its invocation and its return, as if the callers took turns.    *)
(***************************************************************************)
CONSTANTS Clients,  \* goroutines that call Add and Cancel
          ExtIds,   \* callers' order ids
          NoCall    \* the state of a client outside a call

VARIABLES
  resting,  \* callers' ids of the orders in the book
  call      \* client -> NoCall, or its call and, once effective, its answer

vars == <<resting, call>>

NoAnswer == [is |-> "none", makers |-> {}]

Init ==
  /\ resting = {}
  /\ call = [c \in Clients |-> NoCall]

Invoke(c) ==
  \E op \in {"add", "cancel"}, ext \in ExtIds :
    /\ call[c] = NoCall
    /\ call' = [call EXCEPT ![c] = [op |-> op, ext |-> ext, answer |-> NoAnswer]]
    /\ UNCHANGED resting

Pending(c, op) == call[c] # NoCall /\ call[c].op = op /\ call[c].answer = NoAnswer

\* An order trades with makers, of which all but the last are filled; it can
\* rest only when none is left to trade with.
AddEffect(c) ==
  \E makers \in SUBSET resting, filled \in SUBSET resting, is \in {"rests", "done"} :
    /\ Pending(c, "add")
    /\ filled \subseteq makers
    /\ makers # filled => is = "done" /\ \E m \in makers : makers \ filled = {m}
    /\ resting' = (resting \ filled) \cup
                  (IF is = "rests" THEN {call[c].ext} ELSE {})
    /\ call' = [call EXCEPT ![c].answer = [is |-> is, makers |-> makers]]

CancelEffect(c) ==
  /\ Pending(c, "cancel")
  /\ call' = [call EXCEPT ![c].answer =
                [is |-> IF call[c].ext \in resting THEN "cancelled" ELSE "notfound",
                  makers |-> {}]]
  /\ resting' = resting \ {call[c].ext}

Return(c) ==
  /\ call[c] # NoCall /\ call[c].answer # NoAnswer
  /\ call' = [call EXCEPT ![c] = NoCall]
  /\ UNCHANGED resting

\* Between two runs.
Clear ==
  /\ \A c \in Clients : call[c] = NoCall
  /\ resting' = {}
  /\ UNCHANGED call

Next == Clear \/ \E c \in Clients :
                   Invoke(c) \/ AddEffect(c) \/ CancelEffect(c) \/ Return(c)

Spec == Init /\ [][Next]_vars
=============================================================================
