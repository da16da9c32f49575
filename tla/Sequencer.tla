----------------------------- MODULE Sequencer -----------------------------
(***************************************************************************)
(* The boundary between concurrent callers and the one goroutine that owns *)
(* the book: sequencer.go and the Engine of engine.go.  A call to Add or   *)
(* Cancel is worked in the steps at which another goroutine may come       *)
(* between: claiming a number, writing the maps under the lock, sending on *)
(* the bounded command channel, being dispatched, and taking the reply.    *)
(*                                                                         *)
(* The book itself is OrderBook's subject.  Here it is the set of internal *)
(* numbers of the orders that rest in it, and Add may trade with any of    *)
(* them that leaves the rest of the protocol possible.                     *)
(***************************************************************************)
EXTENDS Integers, Sequences, FiniteSets

CONSTANTS Clients,    \* goroutines that call Add and Cancel
          ExtIds,     \* callers' order ids
          QueueSize,  \* buffer of cmdCh
          NoCall      \* a client's state outside Add and Cancel

ASSUME QueueSizeAssumption == QueueSize \in Nat \ {0}

\* A call of a client: the number it works with, how far it got, its reply.
Call == [op : {"add", "cancel"}, ext : ExtIds, id : Nat,
         at : {"called", "claimed", "sending", "sent", "answered"},
         answer : [is : {"none", "rests", "done", "cancelled", "notfound"},
                   makers : SUBSET (Nat \ {0})]]

\* A call as its client sees it: without the number, with orders by their names.
ClientCall == [op : {"add", "cancel"}, ext : ExtIds,
               answer : [is : {"none", "rests", "done", "cancelled", "notfound"},
                         makers : SUBSET ExtIds]]

ASSUME NoCallAssumption == NoCall \notin Call \cup ClientCall

VARIABLES
  nextID,   \* the atomic counter
  idMap,    \* callers' id -> internal number
  revMap,   \* internal number -> callers' id
  cmdCh,    \* commands sent to the engine, each with its caller's respCh
  resting,  \* the book: internal numbers of the resting orders
  running,  \* the Run loop has not seen its context cancelled
  call      \* client -> NoCall, or the call it is in

vars == <<nextID, idMap, revMap, cmdCh, resting, running, call>>

NoAnswer == [is |-> "none", makers |-> {}]

Put(m, k, v) == [x \in DOMAIN m \cup {k} |-> IF x = k THEN v ELSE m[x]]

Init ==
  /\ nextID = 1
  /\ idMap = <<>>
  /\ revMap = <<>>
  /\ cmdCh = <<>>
  /\ resting = {}
  /\ running = TRUE
  /\ call = [c \in Clients |-> NoCall]

InCall(c, at) == call[c] # NoCall /\ call[c].at = at

\* Callers name an order once in a run, as the workload generator does.
Unused(ext) ==
  /\ ext \notin DOMAIN idMap
  /\ \A c \in Clients : call[c] # NoCall => call[c].op # "add" \/ call[c].ext # ext

Calls(c, op, ext) ==
  call' = [call EXCEPT ![c] = [op |-> op, ext |-> ext, id |-> 0, at |-> "called",
                               answer |-> NoAnswer]]

Invoke(c, op, ext) ==
  /\ running
  /\ call[c] = NoCall
  /\ op = "add" => Unused(ext)
  /\ Calls(c, op, ext)
  /\ UNCHANGED <<nextID, idMap, revMap, cmdCh, resting, running>>

\* id := atomic.AddUint64(&s.nextID, 1) - 1
Claim(c) ==
  /\ InCall(c, "called") /\ call[c].op = "add"
  /\ nextID' = nextID + 1
  /\ call' = [call EXCEPT ![c].id = nextID, ![c].at = "claimed"]
  /\ UNCHANGED <<idMap, revMap, cmdCh, resting, running>>

Register_Forward(c) ==
  /\ InCall(c, "claimed")
  /\ idMap' = Put(idMap, call[c].ext, call[c].id)
  /\ call' = [call EXCEPT ![c].at = "sending"]
  /\ UNCHANGED <<nextID, revMap, cmdCh, resting, running>>

\* Both maps are written under one lock, before the order is sent.
Register(c) ==
  /\ InCall(c, "claimed")
  /\ idMap' = Put(idMap, call[c].ext, call[c].id)
  /\ revMap' = Put(revMap, call[c].id, call[c].ext)
  /\ call' = [call EXCEPT ![c].at = "sending"]
  /\ UNCHANGED <<nextID, cmdCh, resting, running>>

Lookup(c) ==
  /\ InCall(c, "called") /\ call[c].op = "cancel"
  /\ call' = IF call[c].ext \in DOMAIN idMap
             THEN [call EXCEPT ![c].id = idMap[call[c].ext], ![c].at = "sending"]
             ELSE [call EXCEPT ![c].at = "answered",
                               ![c].answer = [is |-> "notfound", makers |-> {}]]
  /\ UNCHANGED <<nextID, idMap, revMap, cmdCh, resting, running>>

HasRoom_OneMore == Len(cmdCh) <= QueueSize

HasRoom == Len(cmdCh) < QueueSize

\* Submit and CancelOrder: the send waits while the channel is full.
Send(c) ==
  /\ InCall(c, "sending")
  /\ HasRoom
  /\ cmdCh' = Append(cmdCh, [typ |-> call[c].op, id |-> call[c].id, respCh |-> c])
  /\ call' = [call EXCEPT ![c].at = "sent"]
  /\ UNCHANGED <<nextID, idMap, revMap, resting, running>>

\* cmd.respCh <- resp; the channel has room for the one reply of its call.
Respond(cmd, is, makers) ==
  call' = [call EXCEPT ![cmd.respCh].at = "answered",
                       ![cmd.respCh].answer = [is |-> is, makers |-> makers]]

Take == /\ running
        /\ cmdCh # <<>>
        /\ cmdCh' = Tail(cmdCh)
        /\ UNCHANGED <<nextID, idMap, revMap, running>>

\* b.Add: the order trades with makers, all filled but perhaps the last, and
\* rests only when none of them is left to trade with.
DispatchAdd(makers, filled, rests) ==
  /\ Take
  /\ LET cmd == Head(cmdCh) IN
     /\ cmd.typ = "add"
     /\ makers \subseteq resting
     /\ makers # filled => ~rests
     /\ resting' = (resting \ filled) \cup (IF rests THEN {cmd.id} ELSE {})
     /\ Respond(cmd, IF rests THEN "rests" ELSE "done", makers)

CancelAnswer_Known(id) == "cancelled"

CancelAnswer(id) == IF id \in resting THEN "cancelled" ELSE "notfound"

DispatchCancel_Found ==
  /\ Take
  /\ LET cmd == Head(cmdCh) IN
     /\ cmd.typ = "cancel"
     /\ resting' = resting \ {cmd.id}
     /\ IF cmd.id \in resting THEN Respond(cmd, "cancelled", {}) ELSE UNCHANGED call

DispatchCancel ==
  /\ Take
  /\ LET cmd == Head(cmdCh) IN
     /\ cmd.typ = "cancel"
     /\ resting' = resting \ {cmd.id}
     /\ Respond(cmd, CancelAnswer(cmd.id), {})

Return(c) ==
  /\ InCall(c, "answered")
  /\ call' = [call EXCEPT ![c] = NoCall]
  /\ UNCHANGED <<nextID, idMap, revMap, cmdCh, resting, running>>

Quiet == \A c \in Clients : call[c] = NoCall

\* The owner cancels the engine's context once its calls have returned: the
\* contestant when a connection ends, the validator after its last result.
Stop ==
  /\ running /\ Quiet
  /\ running' = FALSE
  /\ UNCHANGED <<nextID, idMap, revMap, cmdCh, resting, call>>

Forgotten_Counter == nextID' = 1 /\ UNCHANGED <<idMap, revMap>>

Forgotten == nextID' = 1 /\ idMap' = <<>> /\ revMap' = <<>>

\* Between runs, with the engine stopped; then the engine is run again.
Reset ==
  /\ ~running
  /\ Forgotten
  /\ resting' = {}
  /\ UNCHANGED <<cmdCh, running, call>>

Run ==
  /\ ~running
  /\ running' = TRUE
  /\ UNCHANGED <<nextID, idMap, revMap, cmdCh, resting, call>>

\* A partial fill of one maker at most: the last one.
Trades == {t \in (SUBSET resting) \X (SUBSET resting) :
             t[2] \subseteq t[1] /\ Cardinality(t[1] \ t[2]) <= 1}

Dispatch ==
  \/ DispatchCancel
  \/ \E t \in Trades, rests \in BOOLEAN : DispatchAdd(t[1], t[2], rests)

Progress(c) == Claim(c) \/ Register(c) \/ Lookup(c) \/ Return(c)

Next ==
  \/ \E c \in Clients :
       \/ \E op \in {"add", "cancel"}, ext \in ExtIds : Invoke(c, op, ext)
       \/ Progress(c) \/ Send(c)
  \/ Dispatch
  \/ Stop \/ Reset \/ Run

Spec == Init /\ [][Next]_vars

\* Goroutines run on, and senders blocked on a channel are served in turn.
FairSpec ==
  /\ Spec
  /\ WF_vars(Dispatch)
  /\ \A c \in Clients : WF_vars(Progress(c)) /\ SF_vars(Send(c))

-----------------------------------------------------------------------------
(* Properties. *)

Numbers == 1..(nextID - 1)

\* Types of the protocol's state, and the bound of the command channel.
TypeOK ==
  /\ nextID \in Nat \ {0}
  /\ DOMAIN idMap \subseteq ExtIds /\ idMap \in [DOMAIN idMap -> Nat \ {0}]
  /\ DOMAIN revMap \subseteq Nat \ {0} /\ revMap \in [DOMAIN revMap -> ExtIds]
  /\ cmdCh \in Seq([typ : {"add", "cancel"}, id : Nat \ {0}, respCh : Clients])
  /\ Len(cmdCh) <= QueueSize
  /\ resting \subseteq Nat \ {0}
  /\ running \in BOOLEAN
  /\ call \in [Clients -> Call \cup {NoCall}]

\* An internal number names one order: concurrent Adds claim different ones,
\* the two maps stay inverse to each other although claiming and recording
\* are two steps, and no number of the run before survives a Reset.
OneNumberOneOrder ==
  /\ \A ext \in DOMAIN idMap : /\ idMap[ext] \in DOMAIN revMap
                               /\ revMap[idMap[ext]] = ext
  /\ \A id \in DOMAIN revMap : id \in Numbers
  /\ \A c \in Clients : InCall(c, "claimed") =>
       /\ call[c].id \in Numbers \ DOMAIN revMap
       /\ \A d \in Clients \ {c} : InCall(d, "claimed") => call[d].id # call[c].id

\* ExternalID finds the caller's name of every order the engine can mention in
\* a fill, at any moment a reply may be read.
EngineOrdersNamed ==
  /\ resting \subseteq DOMAIN revMap
  /\ \A c \in Clients :
       InCall(c, "answered") => call[c].answer.makers \subseteq DOMAIN revMap

\* ExternalID: the empty name, here NoCall, when there is none.
ExternalID(id) == IF id \in DOMAIN revMap THEN revMap[id] ELSE NoCall

Names(ids) == {ExternalID(id) : id \in ids}

\* What a client sees of its call, with orders by their names.
View(r) == IF r = NoCall THEN NoCall
           ELSE [op |-> r.op, ext |-> r.ext,
                 answer |-> [is |-> r.answer.is, makers |-> Names(r.answer.makers)]]

Views == [c \in Clients |-> View(call[c])]

Abstract == INSTANCE AtomicBook WITH resting <- Names(resting), call <- Views

\* Calls of concurrent clients are linearizable: each takes effect on the book
\* at one instant between its invocation and its return, on the order that the
\* client named, and is answered by that effect.
ImplementsAtomicBook == Abstract!Spec

\* No call hangs: neither the full channel, nor the owner's stopping the
\* engine, nor a reply that is not read leaves a caller waiting.
EveryCallReturns ==
  \A c \in Clients : call[c] # NoCall ~> call[c] = NoCall
=============================================================================
