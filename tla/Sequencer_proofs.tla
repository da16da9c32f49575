-------------------------- MODULE Sequencer_proofs --------------------------
(***************************************************************************)
(* Proofs about Sequencer for any clients, order ids and queue size: an    *)
(* internal number never names two orders, the engine never mentions an    *)
(* order whose name the Sequencer does not know, calls are linearizable    *)
(* (Sequencer implements AtomicBook), and none of them is ever stuck.      *)
(***************************************************************************)
EXTENDS Sequencer, SequenceTheorems, FiniteSetTheorems, TLAPS

\* A command waits in the channel exactly as long as its caller waits for the
\* reply, and no caller has two commands in it.
CallersWait ==
  /\ \A i \in DOMAIN cmdCh : InCall(cmdCh[i].respCh, "sent")
  /\ \A i, j \in DOMAIN cmdCh : cmdCh[i].respCh = cmdCh[j].respCh => i = j

\* An order that was sent, or is about to be, is in the maps.
SentOrdersNamed ==
  /\ \A i \in DOMAIN cmdCh : cmdCh[i].typ = "add" => cmdCh[i].id \in DOMAIN revMap
  /\ \A c \in Clients :
       (InCall(c, "sending") /\ call[c].op = "add") => call[c].id \in DOMAIN revMap
  /\ \A c \in Clients : InCall(c, "sending") => call[c].id # 0

StoppedIsQuiet == ~running => Quiet

IInv ==
  /\ TypeOK /\ OneNumberOneOrder /\ EngineOrdersNamed
  /\ CallersWait /\ SentOrdersNamed /\ StoppedIsQuiet
-----------------------------------------------------------------------------
(* Facts about maps, commands and calls. *)

\* The command channel without its head.
LEMMA TailFacts ==
  ASSUME NEW S, NEW q \in Seq(S), q # <<>>
  PROVE  /\ Head(q) \in S /\ Tail(q) \in Seq(S) /\ Len(Tail(q)) = Len(q) - 1
         /\ Len(q) \in Nat \ {0} /\ DOMAIN q = 1..Len(q)
         /\ DOMAIN Tail(q) = 1..(Len(q) - 1)
         /\ Head(q) = q[1]
         /\ \A i \in DOMAIN Tail(q) : i + 1 \in DOMAIN q /\ Tail(q)[i] = q[i + 1]
<1>1. Len(q) \in Nat /\ Len(q) # 0 /\ DOMAIN q = 1..Len(q)
  BY EmptySeq, LenProperties
<1>2. Head(q) = q[1] /\ Tail(q) \in Seq(S) /\ Len(Tail(q)) = Len(q) - 1
  BY HeadTailProperties
<1>3. DOMAIN Tail(q) = 1..(Len(q) - 1)
  BY <1>2, LenProperties
<1>4. \A i \in 1..(Len(q) - 1) : Tail(q)[i] = q[i + 1]
  BY HeadTailProperties
<1>5. q[1] \in S BY <1>1, LenProperties
<1> QED BY <1>1, <1>2, <1>3, <1>4, <1>5

\* The fields of a command in the channel.
LEMMA CommandFields ==
  ASSUME TypeOK, NEW i \in DOMAIN cmdCh
  PROVE  /\ cmdCh[i].typ \in {"add", "cancel"}
         /\ cmdCh[i].id \in Nat \ {0}
         /\ cmdCh[i].respCh \in Clients
<1>1. cmdCh \in Seq([typ : {"add", "cancel"}, id : Nat \ {0}, respCh : Clients])
  BY DEF TypeOK
<1>2. cmdCh[i] \in [typ : {"add", "cancel"}, id : Nat \ {0}, respCh : Clients]
  BY <1>1, LenProperties
<1> QED BY <1>2

\* The fields of a call.
LEMMA CallFields ==
  ASSUME TypeOK, NEW c \in Clients, call[c] # NoCall
  PROVE  /\ call[c] \in Call
         /\ call[c].op \in {"add", "cancel"} /\ call[c].ext \in ExtIds
         /\ call[c].id \in Nat
         /\ call[c].answer.makers \subseteq Nat \ {0}
         /\ call[c] = [op |-> call[c].op, ext |-> call[c].ext, id |-> call[c].id,
                       at |-> call[c].at, answer |-> call[c].answer]
<1>1. call[c] \in Call
  BY DEF TypeOK
<1> QED BY <1>1 DEF Call

\* What happens to the calls when one of them, of client c, becomes r.
LEMMA CallStep ==
  ASSUME TypeOK, NEW c \in Clients, NEW r \in Call,
         call' = [call EXCEPT ![c] = r]
  PROVE  /\ call' \in [Clients -> Call \cup {NoCall}]
         /\ call'[c] = r /\ call'[c] # NoCall
         /\ \A d \in Clients \ {c} : call'[d] = call[d]
         /\ \A at : InCall(c, at)' <=> r.at = at
         /\ \A d \in Clients \ {c} : \A at : InCall(d, at)' <=> InCall(d, at)
<1>1. call \in [Clients -> Call \cup {NoCall}] /\ r # NoCall
  BY NoCallAssumption DEF TypeOK
<1>2. /\ call' \in [Clients -> Call \cup {NoCall}]
      /\ call'[c] = r /\ call'[c] # NoCall
      /\ \A d \in Clients \ {c} : call'[d] = call[d]
  BY <1>1
<1> QED BY <1>2 DEF InCall

-----------------------------------------------------------------------------
(* Every action preserves the invariant. *)

LEMMA InitInv == Init => IInv
<1> SUFFICES ASSUME Init PROVE IInv
  OBVIOUS
<1>0. /\ nextID = 1 /\ idMap = <<>> /\ revMap = <<>> /\ cmdCh = <<>>
      /\ resting = {} /\ running = TRUE /\ \A c \in Clients : call[c] = NoCall
      /\ call \in [Clients -> Call \cup {NoCall}]
  BY DEF Init
<1>1. DOMAIN idMap = {} /\ DOMAIN revMap = {} /\ DOMAIN cmdCh = {}
  BY <1>0
<1>2. \A c \in Clients : \A at : ~InCall(c, at)
  BY <1>0 DEF InCall
<1>3. idMap \in [DOMAIN idMap -> Nat \ {0}] /\ revMap \in [DOMAIN revMap -> ExtIds]
  BY <1>0, <1>1
<1>4. cmdCh \in Seq([typ : {"add", "cancel"}, id : Nat \ {0}, respCh : Clients])
      /\ Len(cmdCh) = 0
  BY <1>0, EmptySeq
<1>5. TypeOK
  BY <1>0, <1>1, <1>3, <1>4, QueueSizeAssumption DEF TypeOK
<1>6. OneNumberOneOrder /\ EngineOrdersNamed /\ CallersWait /\ SentOrdersNamed
      /\ StoppedIsQuiet
  BY <1>0, <1>1, <1>2 DEF OneNumberOneOrder, EngineOrdersNamed, CallersWait,
                          SentOrdersNamed, StoppedIsQuiet
<1> QED BY <1>5, <1>6 DEF IInv

\* Steps of a client that leave the maps, the channel and the book alone: the
\* call moves on, and what the invariant says of it is shown by each action.
LEMMA CallMoves ==
  ASSUME IInv, NEW c \in Clients, NEW r \in Call,
         call' = [call EXCEPT ![c] = r],
         UNCHANGED <<nextID, idMap, revMap, cmdCh, resting, running>>,
         running, ~InCall(c, "sent"),
         r.at # "claimed",
         r.at = "sending" => r.id # 0 /\ (r.op = "add" => r.id \in DOMAIN revMap),
         r.at = "answered" => r.answer.makers = {}
  PROVE  IInv'
<1>1. TypeOK BY DEF IInv
<1>2. /\ call' \in [Clients -> Call \cup {NoCall}]
      /\ call'[c] = r /\ call'[c] # NoCall
      /\ \A d \in Clients \ {c} : call'[d] = call[d]
      /\ \A at : InCall(c, at)' <=> r.at = at
      /\ \A d \in Clients \ {c} : \A at : InCall(d, at)' <=> InCall(d, at)
  BY <1>1, CallStep
<1>3. TypeOK'
  BY <1>1, <1>2 DEF TypeOK
<1>4. OneNumberOneOrder'
  BY <1>2 DEF IInv, OneNumberOneOrder, Numbers
<1>5. EngineOrdersNamed'
  BY <1>2 DEF IInv, EngineOrdersNamed
<1>6. CallersWait'
  <2>1. \A i \in DOMAIN cmdCh : cmdCh[i].respCh \in Clients \ {c}
    BY <1>1, CommandFields DEF IInv, CallersWait
  <2> QED BY <1>2, <2>1 DEF IInv, CallersWait
<1>7. SentOrdersNamed'
  BY <1>2 DEF IInv, SentOrdersNamed
<1>8. StoppedIsQuiet'
  BY DEF IInv, StoppedIsQuiet
<1> QED BY <1>3, <1>4, <1>5, <1>6, <1>7, <1>8 DEF IInv

LEMMA InvokeInv ==
  ASSUME IInv, NEW c \in Clients, NEW op \in {"add", "cancel"}, NEW ext \in ExtIds,
         Invoke(c, op, ext)
  PROVE  IInv'
<1> DEFINE r == [op |-> op, ext |-> ext, id |-> 0, at |-> "called", answer |-> NoAnswer]
<1>1. r \in Call /\ r.at = "called" /\ r.answer.makers = {}
  BY DEF Call, NoAnswer
<1>2. call' = [call EXCEPT ![c] = r]
  BY DEF Invoke, Calls
<1>3. ~InCall(c, "sent") /\ running
      /\ UNCHANGED <<nextID, idMap, revMap, cmdCh, resting, running>>
  BY DEF Invoke, InCall
<1> HIDE DEF r
<1> QED BY <1>1, <1>2, <1>3, CallMoves

LEMMA ClaimInv ==
  ASSUME IInv, NEW c \in Clients, Claim(c)
  PROVE  IInv'
<1> DEFINE r == [call[c] EXCEPT !.id = nextID, !.at = "claimed"]
<1>0. TypeOK /\ InCall(c, "called") /\ call[c] # NoCall BY DEF IInv, Claim, InCall
<1>1. r \in Call /\ r.at = "claimed" /\ r.id = nextID
      /\ r.answer.makers = call[c].answer.makers
  BY <1>0, CallFields DEF Call, TypeOK
<1>2. call' = [call EXCEPT ![c] = r] /\ nextID' = nextID + 1
      /\ UNCHANGED <<idMap, revMap, cmdCh, resting, running>>
  BY <1>0 DEF Claim, TypeOK
<1> HIDE DEF r
<1>3. /\ call' \in [Clients -> Call \cup {NoCall}]
      /\ call'[c] = r /\ call'[c] # NoCall
      /\ \A d \in Clients \ {c} : call'[d] = call[d]
      /\ \A at : InCall(c, at)' <=> r.at = at
      /\ \A d \in Clients \ {c} : \A at : InCall(d, at)' <=> InCall(d, at)
  BY <1>0, <1>1, <1>2, CallStep
<1>4. TypeOK'
  BY <1>0, <1>2, <1>3 DEF TypeOK
<1>5. nextID \in Nat \ {0} /\ Numbers' = Numbers \cup {nextID} /\ nextID \notin Numbers
  BY <1>0, <1>2 DEF TypeOK, Numbers
<1>6. OneNumberOneOrder'
  <2>1. /\ \A id \in DOMAIN revMap : id \in Numbers
        /\ \A d \in Clients : InCall(d, "claimed") => call[d].id \in Numbers \ DOMAIN revMap
    BY DEF IInv, OneNumberOneOrder
  <2>2. \A d \in Clients \ {c} : InCall(d, "claimed")' =>
          call'[d].id \in Numbers \ DOMAIN revMap /\ call'[d].id # nextID
    BY <1>3, <1>5, <2>1
  <2>3. call'[c].id = nextID /\ nextID \notin DOMAIN revMap
    BY <1>1, <1>3, <1>5, <2>1
  <2> QED BY <1>2, <1>3, <1>5, <2>1, <2>2, <2>3 DEF IInv, OneNumberOneOrder
<1>7. EngineOrdersNamed' /\ SentOrdersNamed'
  BY <1>1, <1>2, <1>3 DEF IInv, EngineOrdersNamed, SentOrdersNamed
<1>8. CallersWait'
  <2>1. \A i \in DOMAIN cmdCh : cmdCh[i].respCh \in Clients \ {c}
    BY <1>0, CommandFields DEF IInv, CallersWait, InCall
  <2> QED BY <1>2, <1>3, <2>1 DEF IInv, CallersWait
<1>9. StoppedIsQuiet'
  BY <1>0, <1>2 DEF IInv, StoppedIsQuiet, Quiet, InCall
<1> QED BY <1>4, <1>6, <1>7, <1>8, <1>9 DEF IInv

LEMMA RegisterInv ==
  ASSUME IInv, NEW c \in Clients, Register(c)
  PROVE  IInv'
<1> DEFINE r == [call[c] EXCEPT !.at = "sending"]
<1> DEFINE ext == call[c].ext
<1> DEFINE id == call[c].id
<1>0. TypeOK /\ InCall(c, "claimed") /\ call[c] # NoCall BY DEF IInv, Register, InCall
<1>1. r \in Call /\ r.at = "sending" /\ r.id = id /\ r.op = call[c].op
  BY <1>0, CallFields DEF Call
<1>2. call' = [call EXCEPT ![c] = r]
      /\ UNCHANGED <<nextID, cmdCh, resting, running>>
  BY <1>0 DEF Register, TypeOK
<1>3. ext \in ExtIds /\ id \in Numbers \ DOMAIN revMap /\ id \in Nat \ {0}
  <2>1. id \in Numbers \ DOMAIN revMap /\ ext \in ExtIds
    BY <1>0, CallFields DEF IInv, OneNumberOneOrder
  <2>2. nextID \in Nat \ {0} BY <1>0 DEF TypeOK
  <2> QED BY <2>1, <2>2 DEF Numbers
<1>4. idMap' = Put(idMap, ext, id) /\ revMap' = Put(revMap, id, ext)
  BY DEF Register
<1> HIDE DEF r, ext, id
<1>5. /\ call' \in [Clients -> Call \cup {NoCall}]
      /\ call'[c] = r /\ call'[c] # NoCall
      /\ \A d \in Clients \ {c} : call'[d] = call[d]
      /\ \A at : InCall(c, at)' <=> r.at = at
      /\ \A d \in Clients \ {c} : \A at : InCall(d, at)' <=> InCall(d, at)
  BY <1>0, <1>1, <1>2, CallStep
<1>6. /\ DOMAIN idMap' = DOMAIN idMap \cup {ext} /\ idMap'[ext] = id
      /\ \A x \in DOMAIN idMap \ {ext} : idMap'[x] = idMap[x]
      /\ idMap' = [x \in DOMAIN idMap \cup {ext} |-> IF x = ext THEN id ELSE idMap[x]]
  BY <1>4 DEF Put
<1>7. /\ DOMAIN revMap' = DOMAIN revMap \cup {id} /\ revMap'[id] = ext
      /\ \A x \in DOMAIN revMap \ {id} : revMap'[x] = revMap[x]
      /\ revMap' = [x \in DOMAIN revMap \cup {id} |-> IF x = id THEN ext ELSE revMap[x]]
  BY <1>4 DEF Put
<1>8. TypeOK'
  <2>1. DOMAIN idMap' \subseteq ExtIds /\ idMap' \in [DOMAIN idMap' -> Nat \ {0}]
    BY <1>0, <1>3, <1>6 DEF TypeOK
  <2>2. DOMAIN revMap' \subseteq Nat \ {0} /\ revMap' \in [DOMAIN revMap' -> ExtIds]
    BY <1>0, <1>3, <1>7 DEF TypeOK
  <2> QED BY <1>0, <1>2, <1>5, <2>1, <2>2 DEF TypeOK
<1>9. OneNumberOneOrder'
  <2>0. /\ \A x \in DOMAIN idMap : idMap[x] \in DOMAIN revMap /\ revMap[idMap[x]] = x
        /\ \A x \in DOMAIN revMap : x \in Numbers
        /\ \A d \in Clients : InCall(d, "claimed") =>
             /\ call[d].id \in Numbers \ DOMAIN revMap
             /\ \A e \in Clients \ {d} : InCall(e, "claimed") => call[e].id # call[d].id
    BY DEF IInv, OneNumberOneOrder
  <2>1. \A x \in DOMAIN idMap' : idMap'[x] \in DOMAIN revMap' /\ revMap'[idMap'[x]] = x
    BY <1>3, <1>6, <1>7, <2>0
  <2>2. Numbers' = Numbers BY <1>2 DEF Numbers
  <2>3. \A d \in Clients : InCall(d, "claimed")' => d # c /\ InCall(d, "claimed")
    BY <1>1, <1>5
  <2>4. \A d \in Clients \ {c} : InCall(d, "claimed") => call[d].id # id
    BY <1>0, <2>0 DEF id
  <2>5. \A d \in Clients : InCall(d, "claimed")' => call'[d].id = call[d].id
    BY <1>5, <2>3
  <2>6. \A x \in DOMAIN revMap' : x \in Numbers'
    BY <1>3, <1>7, <2>0, <2>2
  <2>7. \A d \in Clients : InCall(d, "claimed")' =>
          /\ call'[d].id \in Numbers' \ DOMAIN revMap'
          /\ \A e \in Clients \ {d} : InCall(e, "claimed")' => call'[e].id # call'[d].id
    BY <1>7, <2>0, <2>2, <2>3, <2>4, <2>5
  <2> QED BY <2>1, <2>6, <2>7 DEF OneNumberOneOrder
<1>10. EngineOrdersNamed'
  BY <1>1, <1>2, <1>5, <1>7 DEF IInv, EngineOrdersNamed
<1>11. SentOrdersNamed'
  BY <1>1, <1>2, <1>3, <1>5, <1>7 DEF IInv, SentOrdersNamed
<1>12. CallersWait'
  <2>1. \A i \in DOMAIN cmdCh : cmdCh[i].respCh \in Clients \ {c}
    BY <1>0, CommandFields DEF IInv, CallersWait, InCall
  <2> QED BY <1>2, <1>5, <2>1 DEF IInv, CallersWait
<1>13. StoppedIsQuiet'
  BY <1>0, <1>2 DEF IInv, StoppedIsQuiet, Quiet, InCall
<1> QED BY <1>8, <1>9, <1>10, <1>11, <1>12, <1>13 DEF IInv

LEMMA LookupInv ==
  ASSUME IInv, NEW c \in Clients, Lookup(c)
  PROVE  IInv'
<1>0. TypeOK /\ InCall(c, "called") /\ call[c] # NoCall /\ call[c].op = "cancel"
  BY DEF IInv, Lookup, InCall
<1>1. ~InCall(c, "sent") /\ running
      /\ UNCHANGED <<nextID, idMap, revMap, cmdCh, resting, running>>
  BY <1>0 DEF IInv, StoppedIsQuiet, Quiet, Lookup, InCall
<1>2. CASE call[c].ext \in DOMAIN idMap
  <2> DEFINE r == [call[c] EXCEPT !.id = idMap[call[c].ext], !.at = "sending"]
  <2>1. idMap[call[c].ext] \in Nat \ {0}
    BY <1>0, <1>2 DEF TypeOK
  <2>2. r \in Call /\ r.at = "sending" /\ r.op = "cancel" /\ r.id # 0
    BY <1>0, <2>1, CallFields DEF Call
  <2>3. call' = [call EXCEPT ![c] = r]
    BY <1>0, <1>2 DEF Lookup, TypeOK
  <2> HIDE DEF r
  <2> QED BY <1>1, <2>2, <2>3, CallMoves
<1>3. CASE call[c].ext \notin DOMAIN idMap
  <2> DEFINE r == [call[c] EXCEPT !.at = "answered",
                                  !.answer = [is |-> "notfound", makers |-> {}]]
  <2>1. r \in Call /\ r.at = "answered" /\ r.answer.makers = {}
    BY <1>0, CallFields DEF Call
  <2>2. call' = [call EXCEPT ![c] = r]
    BY <1>0, <1>3 DEF Lookup, TypeOK
  <2> HIDE DEF r
  <2> QED BY <1>1, <2>1, <2>2, CallMoves
<1> QED BY <1>2, <1>3

LEMMA SendInv ==
  ASSUME IInv, NEW c \in Clients, Send(c)
  PROVE  IInv'
<1> DEFINE r == [call[c] EXCEPT !.at = "sent"]
<1> DEFINE cmd == [typ |-> call[c].op, id |-> call[c].id, respCh |-> c]
<1>0. TypeOK /\ InCall(c, "sending") /\ call[c] # NoCall BY DEF IInv, Send, InCall
<1>1. r \in Call /\ r.at = "sent"
  BY <1>0, CallFields DEF Call
<1>2. call' = [call EXCEPT ![c] = r] /\ cmdCh' = Append(cmdCh, cmd)
      /\ Len(cmdCh) < QueueSize
      /\ UNCHANGED <<nextID, idMap, revMap, resting, running>>
  BY <1>0 DEF Send, TypeOK, HasRoom
<1>3. /\ cmd \in [typ : {"add", "cancel"}, id : Nat \ {0}, respCh : Clients]
      /\ cmd.respCh = c /\ (cmd.typ = "add" => cmd.id \in DOMAIN revMap)
  BY <1>0, CallFields DEF IInv, SentOrdersNamed
<1> HIDE DEF r, cmd
<1>4. /\ call' \in [Clients -> Call \cup {NoCall}]
      /\ \A d \in Clients \ {c} : call'[d] = call[d]
      /\ \A at : InCall(c, at)' <=> r.at = at
      /\ \A d \in Clients \ {c} : \A at : InCall(d, at)' <=> InCall(d, at)
  BY <1>0, <1>1, <1>2, CallStep
<1>5. /\ cmdCh' \in Seq([typ : {"add", "cancel"}, id : Nat \ {0}, respCh : Clients])
      /\ Len(cmdCh') = Len(cmdCh) + 1 /\ Len(cmdCh) \in Nat
      /\ DOMAIN cmdCh = 1..Len(cmdCh) /\ DOMAIN cmdCh' = 1..(Len(cmdCh) + 1)
      /\ cmdCh'[Len(cmdCh) + 1] = cmd
      /\ \A i \in DOMAIN cmdCh : cmdCh'[i] = cmdCh[i]
  <2>1. cmdCh \in Seq([typ : {"add", "cancel"}, id : Nat \ {0}, respCh : Clients])
    BY <1>0 DEF TypeOK
  <2> QED BY <1>2, <1>3, <2>1, AppendProperties, LenProperties
<1>6. TypeOK'
  BY <1>0, <1>2, <1>4, <1>5, QueueSizeAssumption DEF TypeOK
<1>7. OneNumberOneOrder' /\ EngineOrdersNamed'
  BY <1>1, <1>2, <1>4 DEF IInv, OneNumberOneOrder, EngineOrdersNamed, Numbers
<1>8. \A i \in DOMAIN cmdCh : cmdCh[i].respCh \in Clients \ {c}
  BY <1>0, CommandFields DEF IInv, CallersWait, InCall
<1>9. \A i \in DOMAIN cmdCh' : i \in DOMAIN cmdCh \/ i = Len(cmdCh) + 1
  BY <1>5
<1>10. CallersWait'
  <2>1. \A i \in DOMAIN cmdCh' : /\ call'[cmdCh'[i].respCh] # NoCall
                                  /\ call'[cmdCh'[i].respCh].at = "sent"
    <3>1. \A i \in DOMAIN cmdCh : /\ call[cmdCh[i].respCh] # NoCall
                                  /\ call[cmdCh[i].respCh].at = "sent"
      BY DEF IInv, CallersWait, InCall
    <3>2. call'[c] # NoCall /\ call'[c].at = "sent"
      BY <1>1, <1>4 DEF InCall
    <3> QED BY <1>3, <1>4, <1>5, <1>8, <1>9, <3>1, <3>2
  <2>2. \A i, j \in DOMAIN cmdCh' : cmdCh'[i].respCh = cmdCh'[j].respCh => i = j
    BY <1>3, <1>5, <1>8, <1>9 DEF IInv, CallersWait
  <2> QED BY <2>1, <2>2 DEF CallersWait, InCall
<1>11. SentOrdersNamed'
  <2>1. \A i \in DOMAIN cmdCh' : cmdCh'[i].typ = "add" => cmdCh'[i].id \in DOMAIN revMap'
    BY <1>2, <1>3, <1>5, <1>9 DEF IInv, SentOrdersNamed
  <2> QED BY <1>1, <1>2, <1>4, <2>1 DEF IInv, SentOrdersNamed
<1>12. StoppedIsQuiet'
  BY <1>0, <1>2 DEF IInv, StoppedIsQuiet, Quiet, InCall
<1> QED BY <1>6, <1>7, <1>10, <1>11, <1>12 DEF IInv

LEMMA ReturnInv ==
  ASSUME IInv, NEW c \in Clients, Return(c)
  PROVE  IInv'
<1>0. TypeOK /\ InCall(c, "answered") /\ call[c] # NoCall BY DEF IInv, Return, InCall
<1>1. call' = [call EXCEPT ![c] = NoCall]
      /\ UNCHANGED <<nextID, idMap, revMap, cmdCh, resting, running>>
  BY DEF Return
<1>2. /\ call' \in [Clients -> Call \cup {NoCall}]
      /\ call'[c] = NoCall /\ \A d \in Clients \ {c} : call'[d] = call[d]
  BY <1>0, <1>1 DEF TypeOK
<1>3. /\ \A at : ~InCall(c, at)'
      /\ \A d \in Clients \ {c} : \A at : InCall(d, at)' <=> InCall(d, at)
  BY <1>2 DEF InCall
<1>4. TypeOK' BY <1>0, <1>1, <1>2 DEF TypeOK
<1>5. OneNumberOneOrder' /\ EngineOrdersNamed' /\ SentOrdersNamed'
  BY <1>1, <1>2, <1>3
     DEF IInv, OneNumberOneOrder, EngineOrdersNamed, SentOrdersNamed, Numbers
<1>6. CallersWait'
  <2>1. \A i \in DOMAIN cmdCh : cmdCh[i].respCh \in Clients \ {c}
    BY <1>0, CommandFields DEF IInv, CallersWait, InCall
  <2> QED BY <1>1, <1>3, <2>1 DEF IInv, CallersWait
<1>7. StoppedIsQuiet'
  BY <1>0, <1>1 DEF IInv, StoppedIsQuiet, Quiet, InCall
<1> QED BY <1>4, <1>5, <1>6, <1>7 DEF IInv

\* The engine takes the head of the channel and replies to its caller; what the
\* book does is left to the two lemmas that follow.
LEMMA DispatchInv ==
  ASSUME IInv, Take, NEW is \in {"rests", "done", "cancelled", "notfound"},
         NEW makers \in SUBSET resting,
         Respond(Head(cmdCh), is, makers),
         resting' \in SUBSET (resting \cup
           (IF Head(cmdCh).typ = "add" THEN {Head(cmdCh).id} ELSE {}))
  PROVE  IInv'
<1> DEFINE cmd == Head(cmdCh)
<1>c. PICK c : c = Head(cmdCh).respCh
  OBVIOUS
<1> DEFINE answer == [is |-> is, makers |-> makers]
<1> DEFINE r == [call[c] EXCEPT !.at = "answered", !.answer = answer]
<1>0. TypeOK /\ running /\ cmdCh # <<>> /\ cmdCh' = Tail(cmdCh)
      /\ UNCHANGED <<nextID, idMap, revMap, running>>
  BY DEF IInv, Take
<1>1. cmdCh \in Seq([typ : {"add", "cancel"}, id : Nat \ {0}, respCh : Clients])
  BY <1>0 DEF TypeOK
<1>2. /\ cmdCh' \in Seq([typ : {"add", "cancel"}, id : Nat \ {0}, respCh : Clients])
      /\ Len(cmdCh') = Len(cmdCh) - 1 /\ Len(cmdCh) \in Nat \ {0}
      /\ DOMAIN cmdCh = 1..Len(cmdCh) /\ DOMAIN cmdCh' = 1..(Len(cmdCh) - 1)
      /\ cmd = cmdCh[1]
      /\ \A i \in DOMAIN cmdCh' : i + 1 \in DOMAIN cmdCh /\ cmdCh'[i] = cmdCh[i + 1]
  BY <1>0, <1>1, TailFacts
<1>3. /\ c \in Clients /\ cmd.id \in Nat \ {0}
      /\ InCall(c, "sent") /\ call[c] # NoCall
      /\ cmd.typ = "add" => cmd.id \in DOMAIN revMap
  <2>1. 1 \in DOMAIN cmdCh BY <1>2
  <2>2. c \in Clients /\ cmd.id \in Nat \ {0}
    BY <1>c, <1>0, <1>2, <2>1, CommandFields
  <2>3. InCall(c, "sent") BY <1>c, <1>2, <2>1 DEF IInv, CallersWait
  <2>4. cmd.typ = "add" => cmd.id \in DOMAIN revMap
    BY <1>2, <2>1 DEF IInv, SentOrdersNamed
  <2> QED BY <2>2, <2>3, <2>4 DEF InCall
<1>4. makers \subseteq Nat \ {0} /\ makers \subseteq DOMAIN revMap
  BY <1>0 DEF IInv, EngineOrdersNamed, TypeOK
<1>5. r \in Call /\ r.at = "answered" /\ r.answer.makers = makers
  <2>1. /\ answer.makers = makers
        /\ answer \in [is : {"none", "rests", "done", "cancelled", "notfound"},
                       makers : SUBSET (Nat \ {0})]
    BY <1>4
  <2> HIDE DEF answer
  <2> QED BY <1>0, <1>3, <2>1, CallFields DEF Call
<1>6. call' = [call EXCEPT ![c] = r]
  BY <1>c, <1>0, <1>3 DEF Respond, TypeOK
<1>7. resting' \subseteq Nat \ {0} /\ resting' \subseteq DOMAIN revMap
  BY <1>0, <1>3 DEF IInv, EngineOrdersNamed, TypeOK
<1> HIDE DEF r, cmd, answer
<1>8. /\ call' \in [Clients -> Call \cup {NoCall}]
      /\ call'[c] = r /\ \A d \in Clients \ {c} : call'[d] = call[d]
      /\ \A at : InCall(c, at)' <=> r.at = at
      /\ \A d \in Clients \ {c} : \A at : InCall(d, at)' <=> InCall(d, at)
  BY <1>0, <1>3, <1>5, <1>6, CallStep
<1>9. TypeOK'
  <2>1. Len(cmdCh') <= QueueSize
    BY <1>0, <1>2, QueueSizeAssumption DEF TypeOK
  <2> QED BY <1>0, <1>2, <1>7, <1>8, <2>1 DEF TypeOK
<1>10. OneNumberOneOrder'
  BY <1>0, <1>5, <1>8 DEF IInv, OneNumberOneOrder, Numbers
<1>11. EngineOrdersNamed'
  BY <1>0, <1>4, <1>5, <1>7, <1>8 DEF IInv, EngineOrdersNamed
<1>12. CallersWait'
  <2>1. \A i \in DOMAIN cmdCh : /\ cmdCh[i].respCh \in Clients
                                /\ call[cmdCh[i].respCh] # NoCall
                                /\ call[cmdCh[i].respCh].at = "sent"
    BY <1>0, CommandFields DEF IInv, CallersWait, InCall
  <2>2. \A i, j \in DOMAIN cmdCh : cmdCh[i].respCh = cmdCh[j].respCh => i = j
    BY DEF IInv, CallersWait
  <2>3. \A i \in DOMAIN cmdCh' : cmdCh'[i].respCh \in Clients \ {c}
    <3> SUFFICES ASSUME NEW i \in DOMAIN cmdCh'
                 PROVE  cmdCh'[i].respCh \in Clients \ {c}
      OBVIOUS
    <3>1. i + 1 \in DOMAIN cmdCh /\ 1 \in DOMAIN cmdCh /\ i + 1 # 1
          /\ cmdCh'[i] = cmdCh[i + 1]
      BY <1>2
    <3> QED BY <1>c, <1>2, <2>1, <2>2, <3>1 DEF cmd
  <2>4. \A i \in DOMAIN cmdCh' : /\ call'[cmdCh'[i].respCh] # NoCall
                                 /\ call'[cmdCh'[i].respCh].at = "sent"
    BY <1>2, <1>8, <2>1, <2>3
  <2>5. \A i, j \in DOMAIN cmdCh' : cmdCh'[i].respCh = cmdCh'[j].respCh => i = j
    <3> SUFFICES ASSUME NEW i \in DOMAIN cmdCh', NEW j \in DOMAIN cmdCh',
                        cmdCh'[i].respCh = cmdCh'[j].respCh
                 PROVE  i = j
      OBVIOUS
    <3>1. i + 1 \in DOMAIN cmdCh /\ j + 1 \in DOMAIN cmdCh
          /\ cmdCh[i + 1].respCh = cmdCh[j + 1].respCh
      BY <1>2
    <3>2. i + 1 = j + 1 BY <2>2, <3>1
    <3>3. i \in Int /\ j \in Int BY <1>2
    <3> QED BY <3>2, <3>3
  <2> QED BY <2>4, <2>5 DEF CallersWait, InCall
<1>13. SentOrdersNamed'
  <2>1. \A i \in DOMAIN cmdCh' : cmdCh'[i].typ = "add" => cmdCh'[i].id \in DOMAIN revMap'
    BY <1>0, <1>2 DEF IInv, SentOrdersNamed
  <2> QED BY <1>0, <1>5, <1>8, <2>1 DEF IInv, SentOrdersNamed
<1>14. StoppedIsQuiet'
  BY <1>0 DEF StoppedIsQuiet
<1> QED BY <1>9, <1>10, <1>11, <1>12, <1>13, <1>14 DEF IInv

LEMMA DispatchAddInv ==
  ASSUME IInv, NEW makers, NEW filled, NEW rests \in BOOLEAN,
         DispatchAdd(makers, filled, rests)
  PROVE  IInv'
<1>1. /\ Take /\ Head(cmdCh).typ = "add" /\ makers \in SUBSET resting
      /\ resting' \in SUBSET (resting \cup {Head(cmdCh).id})
      /\ Respond(Head(cmdCh), IF rests THEN "rests" ELSE "done", makers)
  BY DEF DispatchAdd
<1>2. (IF rests THEN "rests" ELSE "done") \in {"rests", "done", "cancelled", "notfound"}
  OBVIOUS
<1> QED BY <1>1, <1>2, DispatchInv

LEMMA DispatchCancelInv ==
  ASSUME IInv, DispatchCancel
  PROVE  IInv'
<1>1. /\ Take /\ Head(cmdCh).typ = "cancel"
      /\ resting' = resting \ {Head(cmdCh).id}
      /\ Respond(Head(cmdCh), CancelAnswer(Head(cmdCh).id), {})
  BY DEF DispatchCancel
<1>2. CancelAnswer(Head(cmdCh).id) \in {"rests", "done", "cancelled", "notfound"}
  BY DEF CancelAnswer
<1>3. resting' \in SUBSET (resting \cup
        (IF Head(cmdCh).typ = "add" THEN {Head(cmdCh).id} ELSE {}))
      /\ {} \in SUBSET resting
  BY <1>1
<1> QED BY <1>1, <1>2, <1>3, DispatchInv

\* Stopping, resetting and running the engine again.
LEMMA OwnerInv ==
  ASSUME IInv, Stop \/ Reset \/ Run
  PROVE  IInv'
<1>0. TypeOK /\ UNCHANGED <<cmdCh, call>> BY DEF IInv, Stop, Reset, Run
<1>1. Quiet
  BY DEF IInv, StoppedIsQuiet, Stop, Reset, Run
<1>2. \A c \in Clients : \A at : ~InCall(c, at) /\ ~InCall(c, at)'
  BY <1>0, <1>1 DEF Quiet, InCall
<1>3. CASE UNCHANGED <<nextID, idMap, revMap, resting>> /\ running' \in BOOLEAN
  <2>1. TypeOK' BY <1>0, <1>3 DEF TypeOK
  <2>2. OneNumberOneOrder' /\ EngineOrdersNamed' /\ SentOrdersNamed' /\ StoppedIsQuiet'
    BY <1>0, <1>1, <1>2, <1>3 DEF IInv, OneNumberOneOrder, EngineOrdersNamed,
       SentOrdersNamed, StoppedIsQuiet, Quiet, Numbers
  <2>3. CallersWait'
    BY <1>0 DEF IInv, CallersWait, InCall
  <2> QED BY <2>1, <2>2, <2>3 DEF IInv
<1>4. CASE Reset
  <2>1. /\ nextID' = 1 /\ idMap' = <<>> /\ revMap' = <<>> /\ resting' = {}
        /\ running' = running
    BY <1>4 DEF Reset, Forgotten
  <2>2. DOMAIN idMap' = {} /\ DOMAIN revMap' = {}
    BY <2>1
  <2>3. idMap' \in [DOMAIN idMap' -> Nat \ {0}] /\ revMap' \in [DOMAIN revMap' -> ExtIds]
    BY <2>1, <2>2
  <2>4. TypeOK' BY <1>0, <2>1, <2>2, <2>3 DEF TypeOK
  <2>5. \A i \in DOMAIN cmdCh : FALSE
    BY <1>0, <1>2, CommandFields DEF IInv, CallersWait
  <2>6. OneNumberOneOrder' /\ EngineOrdersNamed' /\ SentOrdersNamed' /\ CallersWait'
    BY <1>0, <1>2, <2>1, <2>2, <2>5
       DEF OneNumberOneOrder, EngineOrdersNamed, SentOrdersNamed, CallersWait
  <2>7. StoppedIsQuiet'
    BY <1>0, <1>1 DEF StoppedIsQuiet, Quiet
  <2> QED BY <2>4, <2>6, <2>7 DEF IInv
<1> QED BY <1>3, <1>4 DEF Stop, Run

-----------------------------------------------------------------------------
(* Theorems. *)

\* The invariant holds for any number of concurrent clients, any order ids and
\* any size of the command channel.
THEOREM Invariance == Spec => []IInv
<1>1. IInv /\ [Next]_vars => IInv'
  <2>a. SUFFICES ASSUME IInv, [Next]_vars PROVE IInv'
    OBVIOUS
  <2>1. CASE \E c \in Clients, op \in {"add", "cancel"}, ext \in ExtIds : Invoke(c, op, ext)
    BY <2>a, <2>1, InvokeInv
  <2>2. ASSUME NEW c \in Clients, Progress(c) \/ Send(c) PROVE IInv'
    BY <2>a, <2>2, ClaimInv, RegisterInv, LookupInv, ReturnInv, SendInv DEF Progress
  <2>3. CASE DispatchCancel
    BY <2>a, <2>3, DispatchCancelInv
  <2>4. ASSUME NEW t \in Trades, NEW rests \in BOOLEAN, DispatchAdd(t[1], t[2], rests)
        PROVE  IInv'
    BY <2>a, <2>4, DispatchAddInv
  <2>5. CASE Stop \/ Reset \/ Run
    BY <2>a, <2>5, OwnerInv
  <2>6. CASE UNCHANGED vars
    BY <2>a, <2>6 DEF vars, IInv, TypeOK, OneNumberOneOrder, EngineOrdersNamed,
       CallersWait, SentOrdersNamed, StoppedIsQuiet, Quiet, InCall, Numbers
  <2> QED BY <2>a, <2>1, <2>2, <2>3, <2>4, <2>5, <2>6 DEF Next, Dispatch
<1> QED BY <1>1, InitInv, PTL DEF Spec

\* The state keeps its types, and the channel its bound.
THEOREM TypeCorrect == Spec => []TypeOK
<1>1. IInv => TypeOK BY DEF IInv
<1> QED BY <1>1, Invariance, PTL

\* No internal number ever names two orders, within a run or across a Reset.
THEOREM NumbersUnique == Spec => []OneNumberOneOrder
<1>1. IInv => OneNumberOneOrder BY DEF IInv
<1> QED BY <1>1, Invariance, PTL

\* ExternalID never comes back empty for an order of a fill.
THEOREM FillsHaveNames == Spec => []EngineOrdersNamed
<1>1. IInv => EngineOrdersNamed BY DEF IInv
<1> QED BY <1>1, Invariance, PTL

-----------------------------------------------------------------------------
(* Linearizability: the second invariant, which relates numbers, names and  *)
(* commands, and the step of AtomicBook that each action is.                *)

\* The two maps are inverse to each other: an order is found by its name.
MapsInverse ==
  \A id \in DOMAIN revMap : revMap[id] \in DOMAIN idMap /\ idMap[revMap[id]] = id

\* The name of an Add that is not registered yet is new, and no other Add has it.
NamesOfAdds ==
  /\ \A c \in Clients : InCall(c, "claimed") => call[c].op = "add"
  /\ \A c \in Clients : (InCall(c, "called") \/ InCall(c, "claimed")) /\ call[c].op = "add" =>
       call[c].ext \notin DOMAIN idMap
  /\ \A c, d \in Clients :
       (/\ c # d /\ call[c] # NoCall /\ call[d] # NoCall
        /\ call[c].op = "add" /\ call[d].op = "add") => call[c].ext # call[d].ext

\* A command is its caller's, and its number is that of the order the caller named.
CommandsMatchCalls ==
  /\ \A i \in DOMAIN cmdCh : /\ cmdCh[i].typ = call[cmdCh[i].respCh].op
                             /\ cmdCh[i].id = call[cmdCh[i].respCh].id
  /\ \A c \in Clients : InCall(c, "sending") \/ InCall(c, "sent") =>
       call[c].id \in DOMAIN revMap /\ revMap[call[c].id] = call[c].ext

\* A call is answered when it says so.
AnswersWhenAnswered ==
  \A c \in Clients : call[c] # NoCall =>
    IF call[c].at = "answered" THEN call[c].answer.is # "none"
                               ELSE call[c].answer = NoAnswer

LInv ==
  /\ MapsInverse /\ NamesOfAdds /\ CommandsMatchCalls /\ AnswersWhenAnswered
  /\ IsFiniteSet(resting)


\* A step of client c, seen from outside.
LEMMA AbstractStep ==
  ASSUME NEW c \in Clients, NEW r, NEW S, NEW v \in ClientCall,
         Views[c] = v, Views' = [Views EXCEPT ![c] = r], Names(resting)' = S
  PROVE
  /\ (/\ v.op = "cancel" /\ v.answer = NoAnswer
      /\ r = [op |-> v.op, ext |-> v.ext,
              answer |-> [is |-> IF v.ext \in Names(resting) THEN "cancelled" ELSE "notfound",
                          makers |-> {}]]
      /\ S = Names(resting) \ {v.ext}) => Abstract!Next
  /\ (v.answer # NoAnswer /\ r = NoCall /\ S = Names(resting)) => Abstract!Next
<1>1. Abstract!NoAnswer = NoAnswer BY DEF Abstract!NoAnswer, NoAnswer
<1>2. v # NoCall /\ v = [op |-> v.op, ext |-> v.ext, answer |-> v.answer]
  BY NoCallAssumption DEF ClientCall
<1>3. DOMAIN Views = Clients BY DEF Views
<1>4. ASSUME v.op = "cancel", v.answer = NoAnswer,
             r = [op |-> v.op, ext |-> v.ext,
              answer |-> [is |-> IF v.ext \in Names(resting) THEN "cancelled" ELSE "notfound",
                          makers |-> {}]],
             S = Names(resting) \ {v.ext}
      PROVE  Abstract!CancelEffect(c)
  <2>1. Abstract!Pending(c, "cancel") BY <1>1, <1>2, <1>4 DEF Abstract!Pending
  <2>2. Views' = [Views EXCEPT ![c].answer =
                [is |-> IF Views[c].ext \in Names(resting) THEN "cancelled" ELSE "notfound",
                  makers |-> {}]]
    BY <1>2, <1>3, <1>4
  <2> QED BY <2>1, <2>2, <1>4 DEF Abstract!CancelEffect
<1>5. ASSUME v.answer # NoAnswer, r = NoCall, S = Names(resting)
      PROVE  Abstract!Return(c)
  BY <1>1, <1>2, <1>5 DEF Abstract!Return
<1> QED BY <1>2, <1>4, <1>5 DEF Abstract!Next

\* Names do not change as long as maps only grow.
LEMMA NamesStay ==
  ASSUME \A id \in DOMAIN revMap : id \in DOMAIN revMap' /\ revMap'[id] = revMap[id]
  PROVE  \A id \in DOMAIN revMap : ExternalID(id)' = ExternalID(id)
BY DEF ExternalID

\* What the invariant says of a call that is going on.
LEMMA SeenCall ==
  ASSUME IInv, LInv, NEW c \in Clients, call[c] # NoCall
  PROVE
  /\ Views[c] = [op |-> call[c].op, ext |-> call[c].ext,
                 answer |-> [is |-> call[c].answer.is, makers |-> Names(call[c].answer.makers)]]
  /\ Views[c] \in ClientCall /\ Views[c].op = call[c].op /\ Views[c].ext = call[c].ext
  /\ call[c].answer.makers \subseteq DOMAIN revMap
  /\ call[c].at # "answered" => call[c].answer = NoAnswer /\ Views[c].answer = NoAnswer
  /\ call[c].at = "answered" => Views[c].answer # NoAnswer
<1>1. TypeOK BY DEF IInv
<1>2. Views[c] = [op |-> call[c].op, ext |-> call[c].ext,
                 answer |-> [is |-> call[c].answer.is, makers |-> Names(call[c].answer.makers)]]
  BY DEF Views, View
<1>3. call[c].answer.makers \subseteq DOMAIN revMap
  <2>1. CASE call[c].at = "answered"
    BY <2>1 DEF IInv, EngineOrdersNamed, InCall
  <2>2. CASE call[c].at # "answered"
    BY <2>2 DEF LInv, AnswersWhenAnswered, NoAnswer
  <2> QED BY <2>1, <2>2
<1>4. Names(call[c].answer.makers) \subseteq ExtIds
  BY <1>1, <1>3 DEF TypeOK, Names, ExternalID
<1>5. call[c].answer.is \in {"none", "rests", "done", "cancelled", "notfound"}
  BY <1>1, CallFields DEF Call
<1>6. Views[c] \in ClientCall
  <2>1. [is |-> call[c].answer.is, makers |-> Names(call[c].answer.makers)]
          \in [is : {"none", "rests", "done", "cancelled", "notfound"}, makers : SUBSET ExtIds]
    BY <1>4, <1>5
  <2>2. call[c].op \in {"add", "cancel"} /\ call[c].ext \in ExtIds
    BY <1>1, CallFields
  <2> QED BY <1>2, <2>1, <2>2 DEF ClientCall
<1>7. ASSUME call[c].at # "answered"
      PROVE  call[c].answer = NoAnswer /\ Views[c].answer = NoAnswer
  <2>1. call[c].answer = NoAnswer BY <1>7 DEF LInv, AnswersWhenAnswered
  <2>2. Names({}) = {} BY DEF Names
  <2> QED BY <1>2, <2>1, <2>2 DEF NoAnswer
<1>8. ASSUME call[c].at = "answered" PROVE Views[c].answer # NoAnswer
  <2>1. call[c].answer.is # "none" BY <1>8 DEF LInv, AnswersWhenAnswered
  <2> QED BY <1>2, <2>1 DEF NoAnswer
<1>9. Views[c].op = call[c].op /\ Views[c].ext = call[c].ext
  BY <1>2
<1> QED BY <1>2, <1>3, <1>6, <1>7, <1>8, <1>9

\* What clients see when the call of c becomes r.
LEMMA SeenStep ==
  ASSUME IInv, LInv, NEW c \in Clients, NEW r \in Call,
         call' = [call EXCEPT ![c] = r],
         \A id \in DOMAIN revMap : ExternalID(id)' = ExternalID(id),
         r.answer.makers \subseteq DOMAIN revMap
  PROVE  Views' = [Views EXCEPT ![c] =
           [op |-> r.op, ext |-> r.ext,
            answer |-> [is |-> r.answer.is, makers |-> Names(r.answer.makers)]]]
<1> DEFINE v == [op |-> r.op, ext |-> r.ext,
                 answer |-> [is |-> r.answer.is, makers |-> Names(r.answer.makers)]]
<1>1. TypeOK BY DEF IInv
<1>2. /\ call'[c] = r /\ call'[c] # NoCall
      /\ \A d \in Clients \ {c} : call'[d] = call[d]
  BY <1>1, CallStep
<1>3. Views'[c] = v
  <2>1. {ExternalID(id)' : id \in r.answer.makers} = {ExternalID(id) : id \in r.answer.makers}
    OBVIOUS
  <2>2. Views'[c] = [op |-> r.op, ext |-> r.ext,
                     answer |-> [is |-> r.answer.is,
                                 makers |-> {ExternalID(id)' : id \in r.answer.makers}]]
    BY <1>2 DEF Views, View, Names
  <2> QED BY <2>1, <2>2 DEF Names
<1>4. ASSUME NEW d \in Clients \ {c} PROVE Views'[d] = Views[d]
  <2>1. CASE call[d] = NoCall
    BY <1>2, <2>1 DEF Views, View
  <2>2. CASE call[d] # NoCall
    <3>1. call[d].answer.makers \subseteq DOMAIN revMap
      BY <2>2, SeenCall
    <3>2. {ExternalID(id)' : id \in call[d].answer.makers}
            = {ExternalID(id) : id \in call[d].answer.makers}
      BY <3>1
    <3> QED BY <1>2, <2>2, <3>2 DEF Views, View, Names
  <2> QED BY <2>1, <2>2
<1> HIDE DEF v
<1>5. Views' = [d \in Clients |-> Views'[d]] /\ Views = [d \in Clients |-> Views[d]]
  BY DEF Views
<1>6. Views' = [Views EXCEPT ![c] = v]
  BY <1>3, <1>4, <1>5
<1> QED BY <1>6 DEF v

\* The client's view is unchanged by a step inside its call.
LEMMA SeenSame ==
  ASSUME IInv, LInv, NEW c \in Clients, NEW r \in Call, call[c] # NoCall,
         call' = [call EXCEPT ![c] = r],
         \A id \in DOMAIN revMap : ExternalID(id)' = ExternalID(id),
         r.op = call[c].op, r.ext = call[c].ext, r.answer = call[c].answer,
         resting' = resting
  PROVE  UNCHANGED Abstract!vars
<1>1. /\ Views[c] = [op |-> r.op, ext |-> r.ext,
                     answer |-> [is |-> r.answer.is, makers |-> Names(r.answer.makers)]]
      /\ r.answer.makers \subseteq DOMAIN revMap
  BY SeenCall
<1>2. Views' = [Views EXCEPT ![c] = Views[c]]
  BY <1>1, SeenStep
<1>3. Views' = Views BY <1>2 DEF Views
<1>4. Names(resting)' = Names(resting)
  BY DEF Names, IInv, EngineOrdersNamed
<1> QED BY <1>3, <1>4 DEF Abstract!vars

\* The second invariant for steps that move the call of c outside the channel.
LEMMA CallMovesNamed ==
  ASSUME IInv, LInv, NEW c \in Clients, NEW r \in Call,
         call' = [call EXCEPT ![c] = r], ~InCall(c, "sent"),
         UNCHANGED <<idMap, revMap, cmdCh, resting>>,
         r.at = "claimed" => r.op = "add",
         r.at \in {"called", "claimed"} /\ r.op = "add" => r.ext \notin DOMAIN idMap,
         r.op = "add" => \A d \in Clients \ {c} :
                           call[d] # NoCall /\ call[d].op = "add" => call[d].ext # r.ext,
         r.at \in {"sending", "sent"} => r.id \in DOMAIN revMap /\ revMap[r.id] = r.ext,
         IF r.at = "answered" THEN r.answer.is # "none" ELSE r.answer = NoAnswer
  PROVE  LInv'
<1>1. TypeOK BY DEF IInv
<1>2. /\ call'[c] = r /\ call'[c] # NoCall
      /\ \A d \in Clients \ {c} : call'[d] = call[d]
      /\ \A at : InCall(c, at)' <=> r.at = at
      /\ \A d \in Clients \ {c} : \A at : InCall(d, at)' <=> InCall(d, at)
  BY <1>1, CallStep
<1>3. MapsInverse' BY DEF LInv, MapsInverse
<1>4. NamesOfAdds'
  BY <1>2 DEF LInv, NamesOfAdds
<1>5. CommandsMatchCalls'
  <2>1. \A i \in DOMAIN cmdCh : cmdCh[i].respCh \in Clients \ {c}
    BY <1>1, CommandFields DEF IInv, CallersWait
  <2> QED BY <1>2, <2>1 DEF LInv, CommandsMatchCalls
<1>6. AnswersWhenAnswered'
  BY <1>2 DEF LInv, AnswersWhenAnswered
<1> QED BY <1>3, <1>4, <1>5, <1>6 DEF LInv

LEMMA InvokeLin ==
  ASSUME IInv, LInv, NEW c \in Clients, NEW op \in {"add", "cancel"}, NEW ext \in ExtIds,
         Invoke(c, op, ext)
  PROVE  LInv' /\ Abstract!Next
<1> DEFINE r == [op |-> op, ext |-> ext, id |-> 0, at |-> "called", answer |-> NoAnswer]
<1>1. r \in Call /\ r.at = "called" /\ r.op = op /\ r.ext = ext /\ r.answer = NoAnswer
  BY DEF Call, NoAnswer
<1>2. /\ call' = [call EXCEPT ![c] = r] /\ ~InCall(c, "sent") /\ call[c] = NoCall
      /\ UNCHANGED <<nextID, idMap, revMap, cmdCh, resting, running>>
      /\ op = "add" => Unused(ext)
  BY DEF Invoke, Calls, InCall
<1> HIDE DEF r
<1>3. LInv'
  BY <1>1, <1>2, CallMovesNamed DEF Unused
<1>4. Views' = [Views EXCEPT ![c] = [op |-> op, ext |-> ext, answer |-> NoAnswer]]
  <2>1. \A id \in DOMAIN revMap : ExternalID(id)' = ExternalID(id)
    BY <1>2, NamesStay
  <2>2. r.answer.makers = {} /\ r.answer.is = "none" /\ Names(r.answer.makers) = {}
    BY <1>1 DEF NoAnswer, Names
  <2> QED BY <1>1, <1>2, <2>1, <2>2, SeenStep DEF NoAnswer
<1>5. Names(resting)' = Names(resting)
  BY <1>2 DEF Names, ExternalID
<1>6. Views[c] = NoCall
  BY <1>2 DEF Views, View
<1>7. Abstract!Invoke(c)
  BY <1>4, <1>5, <1>6 DEF Abstract!Invoke, Abstract!NoAnswer, NoAnswer
<1> QED BY <1>3, <1>7 DEF Abstract!Next

LEMMA ClaimLin ==
  ASSUME IInv, LInv, NEW c \in Clients, Claim(c)
  PROVE  LInv' /\ UNCHANGED Abstract!vars
<1> DEFINE r == [call[c] EXCEPT !.id = nextID, !.at = "claimed"]
<1>0. TypeOK /\ InCall(c, "called") /\ call[c] # NoCall /\ call[c].op = "add"
      /\ ~InCall(c, "sent")
  BY DEF IInv, Claim, InCall
<1>1. /\ r \in Call /\ r.at = "claimed" /\ r.op = call[c].op /\ r.ext = call[c].ext
      /\ r.answer = call[c].answer
  BY <1>0, CallFields DEF Call, TypeOK
<1>2. call' = [call EXCEPT ![c] = r]
      /\ UNCHANGED <<idMap, revMap, cmdCh, resting, running>>
  BY <1>0 DEF Claim, TypeOK
<1> HIDE DEF r
<1>3. /\ r.ext \notin DOMAIN idMap /\ r.answer = NoAnswer
      /\ \A d \in Clients \ {c} : call[d] # NoCall /\ call[d].op = "add" => call[d].ext # r.ext
  BY <1>0, <1>1 DEF LInv, NamesOfAdds, AnswersWhenAnswered, InCall
<1>4. LInv'
  BY <1>0, <1>1, <1>2, <1>3, CallMovesNamed
<1>5. \A id \in DOMAIN revMap : ExternalID(id)' = ExternalID(id)
  BY <1>2, NamesStay
<1> QED BY <1>0, <1>1, <1>2, <1>4, <1>5, SeenSame

LEMMA RegisterLin ==
  ASSUME IInv, LInv, NEW c \in Clients, Register(c)
  PROVE  LInv' /\ UNCHANGED Abstract!vars
<1> DEFINE r == [call[c] EXCEPT !.at = "sending"]
<1> DEFINE ext == call[c].ext
<1> DEFINE id == call[c].id
<1>0. TypeOK /\ InCall(c, "claimed") /\ call[c] # NoCall /\ ~InCall(c, "sent")
  BY DEF IInv, Register, InCall
<1>1. /\ r \in Call /\ r.at = "sending" /\ r.op = call[c].op /\ r.ext = ext /\ r.id = id
      /\ r.answer = call[c].answer
  BY <1>0, CallFields DEF Call
<1>2. call' = [call EXCEPT ![c] = r]
      /\ UNCHANGED <<nextID, cmdCh, resting, running>>
  BY <1>0 DEF Register, TypeOK
<1>3. /\ id \notin DOMAIN revMap /\ ext \notin DOMAIN idMap /\ call[c].op = "add"
      /\ call[c].answer = NoAnswer
  BY <1>0 DEF IInv, OneNumberOneOrder, LInv, NamesOfAdds, AnswersWhenAnswered, InCall
<1>4. idMap' = Put(idMap, ext, id) /\ revMap' = Put(revMap, id, ext)
  BY DEF Register
<1> HIDE DEF r, ext, id
<1>5. /\ call'[c] = r /\ call'[c] # NoCall
      /\ \A d \in Clients \ {c} : call'[d] = call[d]
      /\ \A at : InCall(c, at)' <=> r.at = at
      /\ \A d \in Clients \ {c} : \A at : InCall(d, at)' <=> InCall(d, at)
  BY <1>0, <1>1, <1>2, CallStep
<1>6. /\ DOMAIN idMap' = DOMAIN idMap \cup {ext} /\ idMap'[ext] = id
      /\ \A x \in DOMAIN idMap : idMap'[x] = idMap[x]
  BY <1>3, <1>4 DEF Put
<1>7. /\ DOMAIN revMap' = DOMAIN revMap \cup {id} /\ revMap'[id] = ext
      /\ \A x \in DOMAIN revMap : x \in DOMAIN revMap' /\ revMap'[x] = revMap[x]
  BY <1>3, <1>4 DEF Put
<1>8. MapsInverse'
  BY <1>6, <1>7 DEF LInv, MapsInverse
<1>9. NamesOfAdds'
  <2>1. /\ \A d \in Clients : InCall(d, "claimed")' => call'[d].op = "add"
        /\ \A d, e \in Clients :
             (/\ d # e /\ call'[d] # NoCall /\ call'[e] # NoCall
              /\ call'[d].op = "add" /\ call'[e].op = "add") => call'[d].ext # call'[e].ext
    BY <1>0, <1>1, <1>5 DEF LInv, NamesOfAdds, ext
  <2>2. ASSUME NEW d \in Clients,
               InCall(d, "called")' \/ InCall(d, "claimed")', call'[d].op = "add"
        PROVE  call'[d].ext \notin DOMAIN idMap'
    <3>1. d # c BY <1>1, <1>5, <2>2
    <3>2. call[d].ext \notin DOMAIN idMap
      BY <1>5, <2>2, <3>1 DEF LInv, NamesOfAdds
    <3>3. call[d].ext # ext
      BY <1>0, <1>3, <1>5, <2>2, <3>1 DEF LInv, NamesOfAdds, ext, InCall
    <3> QED BY <1>5, <1>6, <3>1, <3>2, <3>3
  <2> QED BY <2>1, <2>2 DEF NamesOfAdds
<1>10. CommandsMatchCalls'
  <2>1. \A i \in DOMAIN cmdCh : cmdCh[i].respCh \in Clients \ {c}
    BY <1>0, CommandFields DEF IInv, CallersWait
  <2>2. \A i \in DOMAIN cmdCh' : /\ cmdCh'[i].typ = call'[cmdCh'[i].respCh].op
                                 /\ cmdCh'[i].id = call'[cmdCh'[i].respCh].id
    BY <1>2, <1>5, <2>1 DEF LInv, CommandsMatchCalls
  <2>3. \A d \in Clients : InCall(d, "sending")' \/ InCall(d, "sent")' =>
          call'[d].id \in DOMAIN revMap' /\ revMap'[call'[d].id] = call'[d].ext
    BY <1>1, <1>5, <1>7 DEF LInv, CommandsMatchCalls
  <2> QED BY <2>2, <2>3 DEF CommandsMatchCalls
<1>11. AnswersWhenAnswered'
  BY <1>1, <1>3, <1>5 DEF LInv, AnswersWhenAnswered
<1>12. LInv'
  BY <1>2, <1>8, <1>9, <1>10, <1>11 DEF LInv
<1>13. \A x \in DOMAIN revMap : ExternalID(x)' = ExternalID(x)
  BY <1>7, NamesStay
<1> QED BY <1>0, <1>1, <1>2, <1>12, <1>13, SeenSame DEF ext

\* An order is in the book exactly if its name is among those that clients see.
LEMMA BookByName ==
  ASSUME IInv, LInv, NEW id \in DOMAIN revMap
  PROVE  /\ ExternalID(id) = revMap[id]
         /\ \A ids \in SUBSET DOMAIN revMap : revMap[id] \in Names(ids) <=> id \in ids
BY DEF LInv, MapsInverse, Names, ExternalID

\* The names without those of a part of the book.
LEMMA NamesWithout ==
  ASSUME IInv, LInv, NEW S \in SUBSET DOMAIN revMap, NEW T \in SUBSET DOMAIN revMap
  PROVE  Names(S \ T) = Names(S) \ Names(T)
BY DEF LInv, MapsInverse, Names, ExternalID

LEMMA LookupLin ==
  ASSUME IInv, LInv, NEW c \in Clients, Lookup(c)
  PROVE  LInv' /\ [Abstract!Next]_(Abstract!vars)
<1>0. TypeOK /\ InCall(c, "called") /\ call[c] # NoCall /\ call[c].op = "cancel"
      /\ ~InCall(c, "sent") /\ call[c].ext \in ExtIds
      /\ UNCHANGED <<nextID, idMap, revMap, cmdCh, resting, running>>
  BY CallFields DEF IInv, Lookup, InCall
<1>1. \A id \in DOMAIN revMap : ExternalID(id)' = ExternalID(id)
  BY <1>0, NamesStay
<1>2. CASE call[c].ext \in DOMAIN idMap
  <2> DEFINE r == [call[c] EXCEPT !.id = idMap[call[c].ext], !.at = "sending"]
  <2>1. idMap[call[c].ext] \in Nat \ {0}
    BY <1>0, <1>2 DEF TypeOK
  <2>2. /\ r \in Call /\ r.at = "sending" /\ r.op = "cancel" /\ r.id = idMap[call[c].ext]
        /\ r.ext = call[c].ext /\ r.answer = call[c].answer
    BY <1>0, <2>1, CallFields DEF Call
  <2>3. call' = [call EXCEPT ![c] = r]
    BY <1>0, <1>2 DEF Lookup, TypeOK
  <2> HIDE DEF r
  <2>4. r.id \in DOMAIN revMap /\ revMap[r.id] = r.ext
    BY <1>2, <2>2 DEF IInv, OneNumberOneOrder
  <2>5. r.answer = NoAnswer
    BY <1>0, <2>2 DEF LInv, AnswersWhenAnswered, InCall
  <2>6. LInv'
    BY <1>0, <2>2, <2>3, <2>4, <2>5, CallMovesNamed
  <2>7. UNCHANGED Abstract!vars
    BY <1>0, <1>1, <2>2, <2>3, SeenSame
  <2> QED BY <2>6, <2>7
<1>3. CASE call[c].ext \notin DOMAIN idMap
  <2> DEFINE a == [is |-> "notfound", makers |-> {}]
  <2> DEFINE r == [call[c] EXCEPT !.at = "answered", !.answer = a]
  <2>1. r \in Call /\ r.at = "answered" /\ r.answer = a /\ r.op = "cancel" /\ r.ext = call[c].ext
    BY <1>0, CallFields DEF Call
  <2>2. call' = [call EXCEPT ![c] = r]
    BY <1>0, <1>3 DEF Lookup, TypeOK
  <2>3. a.is = "notfound" /\ a.makers = {}
    OBVIOUS
  <2> HIDE DEF r
  <2>4. LInv'
    BY <1>0, <2>1, <2>2, <2>3, CallMovesNamed
  <2>5. call[c].ext \notin Names(resting)
    BY <1>3 DEF IInv, EngineOrdersNamed, LInv, MapsInverse, Names, ExternalID
  <2>6. Views' = [Views EXCEPT ![c] = [op |-> "cancel", ext |-> call[c].ext, answer |-> a]]
    <3>1. [is |-> r.answer.is, makers |-> Names(r.answer.makers)] = a
      BY <2>1, <2>3 DEF Names
    <3>2. r.answer.makers \subseteq DOMAIN revMap
      BY <2>1, <2>3
    <3> HIDE DEF a
    <3> QED BY <1>1, <2>1, <2>2, <3>1, <3>2, SeenStep
  <2>7. Names(resting)' = Names(resting) \ {call[c].ext}
    <3>1. Names(resting)' = Names(resting)
      BY <1>0, <1>1 DEF Names, IInv, EngineOrdersNamed
    <3> QED BY <2>5, <3>1
  <2>8. /\ Views[c] \in ClientCall /\ Views[c].op = "cancel" /\ Views[c].ext = call[c].ext
        /\ Views[c].answer = NoAnswer
    <3>1. call[c].at # "answered" BY <1>0 DEF InCall
    <3>2. /\ Views[c].op = call[c].op /\ Views[c].ext = call[c].ext
          /\ Views[c] \in ClientCall /\ Views[c].answer = NoAnswer
      BY <1>0, <3>1, SeenCall
    <3> QED BY <1>0, <3>2
  <2>9. Abstract!Next
    BY <2>5, <2>6, <2>7, <2>8, AbstractStep
  <2> QED BY <2>4, <2>9
<1> QED BY <1>2, <1>3

LEMMA SendLin ==
  ASSUME IInv, LInv, NEW c \in Clients, Send(c)
  PROVE  LInv' /\ UNCHANGED Abstract!vars
<1> DEFINE r == [call[c] EXCEPT !.at = "sent"]
<1> DEFINE cmd == [typ |-> call[c].op, id |-> call[c].id, respCh |-> c]
<1>0. TypeOK /\ InCall(c, "sending") /\ call[c] # NoCall BY DEF IInv, Send, InCall
<1>1. /\ r \in Call /\ r.at = "sent" /\ r.op = call[c].op /\ r.ext = call[c].ext
      /\ r.id = call[c].id /\ r.answer = call[c].answer
  BY <1>0, CallFields DEF Call
<1>2. call' = [call EXCEPT ![c] = r] /\ cmdCh' = Append(cmdCh, cmd)
      /\ UNCHANGED <<nextID, idMap, revMap, resting, running>>
  BY <1>0 DEF Send, TypeOK
<1>3. /\ cmd \in [typ : {"add", "cancel"}, id : Nat \ {0}, respCh : Clients]
      /\ cmd.respCh = c /\ cmd.typ = call[c].op /\ cmd.id = call[c].id
  BY <1>0, CallFields DEF IInv, SentOrdersNamed
<1> HIDE DEF r, cmd
<1>4. /\ call'[c] = r /\ call'[c] # NoCall
      /\ \A d \in Clients \ {c} : call'[d] = call[d]
      /\ \A at : InCall(c, at)' <=> r.at = at
      /\ \A d \in Clients \ {c} : \A at : InCall(d, at)' <=> InCall(d, at)
  BY <1>0, <1>1, <1>2, CallStep
<1>5. /\ \A i \in DOMAIN cmdCh' : i \in DOMAIN cmdCh \/ i = Len(cmdCh) + 1
      /\ cmdCh'[Len(cmdCh) + 1] = cmd
      /\ \A i \in DOMAIN cmdCh : cmdCh'[i] = cmdCh[i]
  <2>1. cmdCh \in Seq([typ : {"add", "cancel"}, id : Nat \ {0}, respCh : Clients])
    BY <1>0 DEF TypeOK
  <2>2. /\ DOMAIN cmdCh = 1..Len(cmdCh) /\ DOMAIN cmdCh' = 1..(Len(cmdCh) + 1)
        /\ Len(cmdCh) \in Nat /\ cmdCh'[Len(cmdCh) + 1] = cmd
        /\ \A i \in DOMAIN cmdCh : cmdCh'[i] = cmdCh[i]
    BY <1>2, <1>3, <2>1, AppendProperties, LenProperties
  <2> QED BY <2>2
<1>6. NamesOfAdds'
  <2>1. \A d \in Clients :
          /\ InCall(d, "called")' => InCall(d, "called") /\ call'[d] = call[d]
          /\ InCall(d, "claimed")' => InCall(d, "claimed") /\ call'[d] = call[d]
    BY <1>1, <1>4
  <2>2. \A d \in Clients : call'[d] # NoCall => /\ call[d] # NoCall /\ call'[d].op = call[d].op
                                               /\ call'[d].ext = call[d].ext
    BY <1>0, <1>1, <1>4
  <2>3. \A d \in Clients : InCall(d, "claimed")' => call'[d].op = "add"
    BY <2>1 DEF LInv, NamesOfAdds
  <2>4. \A d \in Clients :
          (InCall(d, "called")' \/ InCall(d, "claimed")') /\ call'[d].op = "add" =>
            call'[d].ext \notin DOMAIN idMap'
    BY <1>2, <2>1 DEF LInv, NamesOfAdds
  <2>5. \A d, e \in Clients :
          (/\ d # e /\ call'[d] # NoCall /\ call'[e] # NoCall
           /\ call'[d].op = "add" /\ call'[e].op = "add") => call'[d].ext # call'[e].ext
    BY <2>2 DEF LInv, NamesOfAdds
  <2> QED BY <2>3, <2>4, <2>5 DEF NamesOfAdds
<1>7. CommandsMatchCalls'
  <2>1. \A i \in DOMAIN cmdCh : cmdCh[i].respCh \in Clients \ {c}
    BY <1>0, CommandFields DEF IInv, CallersWait, InCall
  <2>2. ASSUME NEW i \in DOMAIN cmdCh'
        PROVE  /\ cmdCh'[i].typ = call'[cmdCh'[i].respCh].op
               /\ cmdCh'[i].id = call'[cmdCh'[i].respCh].id
    <3>1. CASE i = Len(cmdCh) + 1
      BY <1>1, <1>3, <1>4, <1>5, <3>1
    <3>2. CASE i \in DOMAIN cmdCh
      BY <1>4, <1>5, <2>1, <3>2 DEF LInv, CommandsMatchCalls
    <3> QED BY <1>5, <3>1, <3>2
  <2>3. \A d \in Clients : InCall(d, "sending")' \/ InCall(d, "sent")' =>
          call'[d].id \in DOMAIN revMap' /\ revMap'[call'[d].id] = call'[d].ext
    BY <1>0, <1>1, <1>2, <1>4 DEF LInv, CommandsMatchCalls
  <2> QED BY <2>2, <2>3 DEF CommandsMatchCalls
<1>8. AnswersWhenAnswered'
  BY <1>0, <1>1, <1>4 DEF LInv, AnswersWhenAnswered, InCall
<1>9. LInv'
  BY <1>2, <1>6, <1>7, <1>8 DEF LInv, MapsInverse
<1>10. \A id \in DOMAIN revMap : ExternalID(id)' = ExternalID(id)
  BY <1>2, NamesStay
<1> QED BY <1>0, <1>1, <1>2, <1>9, <1>10, SeenSame

LEMMA ReturnLin ==
  ASSUME IInv, LInv, NEW c \in Clients, Return(c)
  PROVE  LInv' /\ Abstract!Next
<1>0. TypeOK /\ InCall(c, "answered") /\ call[c] # NoCall BY DEF IInv, Return, InCall
<1>1. call' = [call EXCEPT ![c] = NoCall]
      /\ UNCHANGED <<nextID, idMap, revMap, cmdCh, resting, running>>
  BY DEF Return
<1>2. call'[c] = NoCall /\ \A d \in Clients \ {c} : call'[d] = call[d]
  BY <1>0, <1>1 DEF TypeOK
<1>3. /\ \A at : ~InCall(c, at)'
      /\ \A d \in Clients \ {c} : \A at : InCall(d, at)' <=> InCall(d, at)
  BY <1>2 DEF InCall
<1>4. NamesOfAdds' /\ AnswersWhenAnswered' /\ MapsInverse'
  BY <1>1, <1>2, <1>3 DEF LInv, NamesOfAdds, AnswersWhenAnswered, MapsInverse
<1>5. CommandsMatchCalls'
  <2>1. \A i \in DOMAIN cmdCh : cmdCh[i].respCh \in Clients \ {c}
    BY <1>0, CommandFields DEF IInv, CallersWait, InCall
  <2> QED BY <1>1, <1>2, <1>3, <2>1 DEF LInv, CommandsMatchCalls
<1>6. LInv'
  BY <1>1, <1>4, <1>5 DEF LInv
<1>7. \A S : {ExternalID(id)' : id \in S} = {ExternalID(id) : id \in S}
  BY <1>1 DEF ExternalID
<1>8. Views' = [Views EXCEPT ![c] = NoCall]
  <2>1. Views'[c] = NoCall /\ \A d \in Clients \ {c} : Views'[d] = Views[d]
    BY <1>2, <1>7 DEF Views, View, Names
  <2>2. Views' = [d \in Clients |-> Views'[d]] /\ Views = [d \in Clients |-> Views[d]]
    BY DEF Views
  <2> QED BY <2>1, <2>2
<1>9. Names(resting)' = Names(resting)
  BY <1>1, <1>7 DEF Names
<1>10. Views[c] \in ClientCall /\ Views[c].answer # NoAnswer
  BY <1>0, SeenCall DEF InCall
<1>11. Abstract!Next
  BY <1>8, <1>9, <1>10, AbstractStep
<1> QED BY <1>6, <1>11

\* The order that client c named is id, and c is answered and sees nothing else.
Effect(c, id, is, makers) ==
  /\ id \in DOMAIN revMap /\ revMap[id] = Views[c].ext
  /\ Views' = [Views EXCEPT ![c] = [op |-> Views[c].op, ext |-> Views[c].ext,
                                    answer |-> [is |-> is, makers |-> Names(makers)]]]
  /\ Names(resting)' = {ExternalID(x) : x \in resting'}

\* The engine works the head of the channel for the client that sent it, and the
\* number in the command is that of the order the client named.
LEMMA DispatchLin ==
  ASSUME IInv, LInv, Take, NEW is \in {"rests", "done", "cancelled", "notfound"},
         NEW makers \in SUBSET resting, Respond(Head(cmdCh), is, makers),
         resting' \in SUBSET (resting \cup {Head(cmdCh).id}),
         NEW caller, caller = Head(cmdCh).respCh
  PROVE
  /\ LInv' /\ caller \in Clients
  /\ Views[caller] \in ClientCall /\ Views[caller].op = Head(cmdCh).typ /\ Views[caller].answer = NoAnswer
  /\ Effect(caller, Head(cmdCh).id, is, makers)
<1>c. PICK c : c = caller
  OBVIOUS
<1> DEFINE cmd == Head(cmdCh)
<1> DEFINE answer == [is |-> is, makers |-> makers]
<1> DEFINE r == [call[c] EXCEPT !.at = "answered", !.answer = answer]
<1>0. TypeOK /\ running /\ cmdCh # <<>> /\ cmdCh' = Tail(cmdCh)
      /\ UNCHANGED <<nextID, idMap, revMap, running>>
  BY DEF IInv, Take
<1>1. cmdCh \in Seq([typ : {"add", "cancel"}, id : Nat \ {0}, respCh : Clients])
  BY <1>0 DEF TypeOK
<1>2. /\ 1 \in DOMAIN cmdCh /\ cmd = cmdCh[1]
      /\ \A i \in DOMAIN cmdCh' : /\ i + 1 \in DOMAIN cmdCh /\ i + 1 # 1
                                  /\ cmdCh'[i] = cmdCh[i + 1]
  <2>1. /\ Len(cmdCh) \in Nat \ {0} /\ DOMAIN cmdCh = 1..Len(cmdCh)
        /\ DOMAIN cmdCh' = 1..(Len(cmdCh) - 1) /\ cmd = cmdCh[1]
        /\ \A i \in DOMAIN cmdCh' : i + 1 \in DOMAIN cmdCh /\ cmdCh'[i] = cmdCh[i + 1]
    BY <1>0, <1>1, TailFacts
  <2> QED BY <2>1
<1>3. /\ c \in Clients /\ call[c] # NoCall /\ call[c].at = "sent" /\ InCall(c, "sent")
      /\ cmd.typ = call[c].op /\ cmd.id = call[c].id
      /\ cmd.id \in DOMAIN revMap /\ revMap[cmd.id] = call[c].ext
  <2>1. c \in Clients BY <1>c, <1>0, <1>2, CommandFields
  <2>2. InCall(c, "sent") BY <1>c, <1>2 DEF IInv, CallersWait
  <2>3. cmd.typ = call[c].op /\ cmd.id = call[c].id
    BY <1>c, <1>2 DEF LInv, CommandsMatchCalls
  <2>4. call[c].id \in DOMAIN revMap /\ revMap[call[c].id] = call[c].ext
    BY <2>1, <2>2 DEF LInv, CommandsMatchCalls
  <2> QED BY <2>1, <2>2, <2>3, <2>4 DEF InCall
<1>4. /\ Views[c] \in ClientCall /\ Views[c].op = call[c].op /\ Views[c].ext = call[c].ext
      /\ Views[c].answer = NoAnswer
  BY <1>3, SeenCall
<1>5. makers \subseteq Nat \ {0} /\ makers \subseteq DOMAIN revMap
  BY <1>0 DEF IInv, EngineOrdersNamed, TypeOK
<1>6. /\ r \in Call /\ r.at = "answered" /\ r.answer.is = is /\ r.answer.makers = makers
      /\ r.op = call[c].op /\ r.ext = call[c].ext
  <2>1. answer \in [is : {"none", "rests", "done", "cancelled", "notfound"},
                    makers : SUBSET (Nat \ {0})]
    BY <1>5
  <2>2. answer.is = is /\ answer.makers = makers
    OBVIOUS
  <2> HIDE DEF answer
  <2>a. TypeOK /\ c \in Clients /\ call[c] # NoCall
    BY <1>0, <1>3
  <2>3. r.at = "answered"
    BY <2>a, CallFields DEF Call
  <2>6. r \in Call
    <3>1. call[c] \in Call BY <2>a, CallFields
    <3> QED BY <2>1, <3>1 DEF Call
  <2>5. r.answer = answer
    BY <2>a, CallFields DEF Call
  <2>4. r.op = call[c].op /\ r.ext = call[c].ext
    BY <1>0, <1>3, CallFields DEF Call
  <2> QED BY <2>2, <2>3, <2>4, <2>5, <2>6
<1>7. call' = [call EXCEPT ![c] = r]
  BY <1>c, <1>0, <1>3 DEF Respond, TypeOK
<1> HIDE DEF r, answer, cmd
<1>9. /\ call'[c] = r /\ call'[c] # NoCall
      /\ \A d \in Clients \ {c} : call'[d] = call[d]
      /\ \A at : InCall(c, at)' <=> r.at = at
      /\ \A d \in Clients \ {c} : \A at : InCall(d, at)' <=> InCall(d, at)
  <2>1. TypeOK /\ c \in Clients /\ r \in Call BY <1>0, <1>3, <1>6
  <2> QED BY <1>7, <2>1, CallStep
<1>10. \A id \in DOMAIN revMap : ExternalID(id)' = ExternalID(id)
  BY <1>0, NamesStay
<1>11. Views' = [Views EXCEPT ![c] = [op |-> Views[c].op, ext |-> Views[c].ext,
                                      answer |-> [is |-> is, makers |-> Names(makers)]]]
  <2>2. Views' = [Views EXCEPT ![c] =
           [op |-> r.op, ext |-> r.ext,
            answer |-> [is |-> r.answer.is, makers |-> Names(r.answer.makers)]]]
    BY <1>3, <1>5, <1>6, <1>7, <1>10, SeenStep
  <2> QED BY <1>4, <1>6, <2>2
<1>12. Names(resting)' = {ExternalID(id) : id \in resting'}
  BY <1>0 DEF Names, ExternalID
<1>13. NamesOfAdds'
  <2>1. \A d \in Clients :
          /\ InCall(d, "called")' => InCall(d, "called") /\ call'[d] = call[d]
          /\ InCall(d, "claimed")' => InCall(d, "claimed") /\ call'[d] = call[d]
    BY <1>6, <1>9
  <2>2. \A d \in Clients : call'[d] # NoCall => /\ call[d] # NoCall /\ call'[d].op = call[d].op
                                               /\ call'[d].ext = call[d].ext
    BY <1>3, <1>6, <1>9
  <2>3. \A d \in Clients : InCall(d, "claimed")' => call'[d].op = "add"
    BY <2>1 DEF LInv, NamesOfAdds
  <2>4. \A d \in Clients :
          (InCall(d, "called")' \/ InCall(d, "claimed")') /\ call'[d].op = "add" =>
            call'[d].ext \notin DOMAIN idMap'
    BY <1>0, <2>1 DEF LInv, NamesOfAdds
  <2>5. \A d, e \in Clients :
          (/\ d # e /\ call'[d] # NoCall /\ call'[e] # NoCall
           /\ call'[d].op = "add" /\ call'[e].op = "add") => call'[d].ext # call'[e].ext
    BY <2>2 DEF LInv, NamesOfAdds
  <2> QED BY <2>3, <2>4, <2>5 DEF NamesOfAdds
<1>14. CommandsMatchCalls'
  <2>1. \A i \in DOMAIN cmdCh' : cmdCh'[i].respCh \in Clients \ {c}
    <3>1. \A i \in DOMAIN cmdCh : cmdCh[i].respCh \in Clients
      BY <1>0, CommandFields
    <3>2. \A i \in DOMAIN cmdCh : cmdCh[i].respCh = c => i = 1
      BY <1>c, <1>2 DEF IInv, CallersWait, cmd
    <3> QED BY <1>2, <3>1, <3>2
  <2>2. \A i \in DOMAIN cmdCh' : /\ cmdCh'[i].typ = call'[cmdCh'[i].respCh].op
                                 /\ cmdCh'[i].id = call'[cmdCh'[i].respCh].id
    BY <1>2, <1>9, <2>1 DEF LInv, CommandsMatchCalls
  <2>3. \A d \in Clients : InCall(d, "sending")' \/ InCall(d, "sent")' =>
          call'[d].id \in DOMAIN revMap' /\ revMap'[call'[d].id] = call'[d].ext
    <3>1. \A d \in Clients : InCall(d, "sending")' \/ InCall(d, "sent")' =>
            (InCall(d, "sending") \/ InCall(d, "sent")) /\ call'[d] = call[d]
      BY <1>6, <1>9
    <3> QED BY <1>0, <3>1 DEF LInv, CommandsMatchCalls
  <2> QED BY <2>2, <2>3 DEF CommandsMatchCalls
<1>15. AnswersWhenAnswered'
  BY <1>6, <1>9 DEF LInv, AnswersWhenAnswered
<1>16. IsFiniteSet(resting')
  BY FS_AddElement, FS_Subset DEF LInv
<1>17. LInv'
  BY <1>0, <1>13, <1>14, <1>15, <1>16 DEF LInv, MapsInverse
<1>18. Effect(c, cmd.id, is, makers)
  BY <1>3, <1>4, <1>11, <1>12 DEF Effect
<1> QED BY <1>c, <1>3, <1>4, <1>17, <1>18 DEF cmd

LEMMA DispatchCancelLin ==
  ASSUME IInv, LInv, DispatchCancel
  PROVE  LInv' /\ Abstract!Next
<1> DEFINE id == Head(cmdCh).id
<1>1. /\ Take /\ Head(cmdCh).typ = "cancel" /\ resting' = resting \ {id}
      /\ Respond(Head(cmdCh), CancelAnswer(id), {})
  BY DEF DispatchCancel
<1>2. /\ CancelAnswer(id) \in {"rests", "done", "cancelled", "notfound"}
      /\ {} \in SUBSET resting /\ resting' \in SUBSET (resting \cup {Head(cmdCh).id})
  BY <1>1 DEF CancelAnswer
<1>a. PICK a, none : a = CancelAnswer(id) /\ none = {}
  OBVIOUS
<1>3. PICK c : c = Head(cmdCh).respCh
  OBVIOUS
<1>4. /\ LInv' /\ c \in Clients
      /\ Views[c] \in ClientCall /\ Views[c].op = "cancel" /\ Views[c].answer = NoAnswer
      /\ id \in DOMAIN revMap /\ revMap[id] = Views[c].ext
      /\ Views' = [Views EXCEPT ![c] = [op |-> Views[c].op, ext |-> Views[c].ext,
                             answer |-> [is |-> CancelAnswer(id), makers |-> Names({})]]]
      /\ Names(resting)' = {ExternalID(x) : x \in resting'}
  <2>1. a \in {"rests", "done", "cancelled", "notfound"} /\ Respond(Head(cmdCh), a, none)
        /\ none \in SUBSET resting
    BY <1>1, <1>2, <1>a
  <2> HIDE DEF id
  <2>2. /\ LInv' /\ c \in Clients
        /\ Views[c] \in ClientCall /\ Views[c].op = Head(cmdCh).typ /\ Views[c].answer = NoAnswer
        /\ Effect(c, Head(cmdCh).id, a, none)
    BY <1>1, <1>2, <1>3, <2>1, DispatchLin
  <2> QED BY <1>1, <1>a, <2>2 DEF id, Effect
<1> HIDE DEF id
<1>5. resting \subseteq DOMAIN revMap BY DEF IInv, EngineOrdersNamed
<1>6. Names({}) = {} /\ Names({id}) = {Views[c].ext}
  BY <1>4 DEF Names, ExternalID
<1>7. CancelAnswer(id) = IF Views[c].ext \in Names(resting) THEN "cancelled" ELSE "notfound"
  BY <1>4, <1>5, BookByName DEF CancelAnswer
<1>8. Names(resting)' = Names(resting) \ {Views[c].ext}
  <2>1. Names(resting \ {id}) = Names(resting) \ Names({id})
    BY <1>4, <1>5, NamesWithout
  <2> QED BY <1>1, <1>4, <1>6, <2>1 DEF Names
<1>9. Abstract!Next
  BY <1>4, <1>6, <1>7, <1>8, AbstractStep
<1> QED BY <1>4, <1>9

\* A set of orders of which at most one is left, as clients see it.
LEMMA OneLeft ==
  ASSUME IInv, LInv, NEW t \in Trades
  PROVE  /\ t[1] \subseteq DOMAIN revMap /\ t[2] \subseteq t[1]
         /\ t[1] # t[2] => \E m \in Names(t[1]) : Names(t[1]) \ Names(t[2]) = {m}
<1>1. /\ t[1] \subseteq resting /\ t[2] \subseteq t[1]
      /\ Cardinality(t[1] \ t[2]) <= 1
  BY DEF Trades
<1>2. resting \subseteq DOMAIN revMap /\ IsFiniteSet(resting)
  BY DEF IInv, EngineOrdersNamed, LInv
<1>3. ASSUME t[1] # t[2]
      PROVE  \E m \in Names(t[1]) : Names(t[1]) \ Names(t[2]) = {m}
  <2>1. IsFiniteSet(t[1] \ t[2]) /\ t[1] \ t[2] # {}
    <3>1. t[1] \ t[2] \subseteq resting BY <1>1
    <3> QED BY <1>1, <1>2, <1>3, <3>1, FS_Subset
  <2>2. Cardinality(t[1] \ t[2]) = 1
    BY <1>1, <2>1, FS_CardinalityType, FS_EmptySet
  <2>3. PICK id : t[1] \ t[2] = {id}
    BY <2>1, <2>2, FS_Singleton
  <2>4. Names(t[1]) \ Names(t[2]) = Names({id})
    <3>1. t[1] \in SUBSET DOMAIN revMap /\ t[2] \in SUBSET DOMAIN revMap
      BY <1>1, <1>2
    <3>2. Names(t[1] \ t[2]) = Names(t[1]) \ Names(t[2])
      BY <3>1, NamesWithout
    <3> QED BY <2>3, <3>2
  <2>5. Names({id}) = {ExternalID(id)} /\ id \in t[1]
    BY <2>3 DEF Names
  <2> QED BY <2>4, <2>5
<1> QED BY <1>1, <1>2, <1>3

LEMMA DispatchAddLin ==
  ASSUME IInv, LInv, NEW t \in Trades, NEW rests \in BOOLEAN, DispatchAdd(t[1], t[2], rests)
  PROVE  LInv' /\ Abstract!Next
<1> DEFINE id == Head(cmdCh).id
<1>a. PICK c, makers, filled, is :
        /\ c = Head(cmdCh).respCh /\ makers = t[1] /\ filled = t[2]
        /\ is = IF rests THEN "rests" ELSE "done"
  OBVIOUS
<1>1. /\ Take /\ Head(cmdCh).typ = "add" /\ makers \in SUBSET resting
      /\ makers # filled => is = "done"
      /\ resting' = (resting \ filled) \cup (IF is = "rests" THEN {id} ELSE {})
      /\ resting' \in SUBSET (resting \cup {Head(cmdCh).id})
      /\ is \in {"rests", "done"}
      /\ is \in {"rests", "done", "cancelled", "notfound"}
      /\ Respond(Head(cmdCh), is, makers)
  BY <1>a DEF DispatchAdd
<1>2. /\ LInv' /\ c \in Clients
      /\ Views[c] \in ClientCall /\ Views[c].op = Head(cmdCh).typ /\ Views[c].answer = NoAnswer
      /\ Effect(c, Head(cmdCh).id, is, makers)
  BY <1>1, <1>a, DispatchLin
<1>3. /\ id \in DOMAIN revMap /\ revMap[id] = Views[c].ext
      /\ Views' = [Views EXCEPT ![c] = [op |-> Views[c].op, ext |-> Views[c].ext,
                                        answer |-> [is |-> is, makers |-> Names(makers)]]]
      /\ Names(resting)' = {ExternalID(x) : x \in resting'}
  BY <1>2 DEF Effect
<1> HIDE DEF id
<1>4. /\ resting \subseteq DOMAIN revMap /\ filled \subseteq makers
      /\ makers # filled => \E m \in Names(makers) : Names(makers) \ Names(filled) = {m}
  BY <1>a, OneLeft DEF IInv, EngineOrdersNamed
<1>5. /\ Names(makers) \subseteq Names(resting) /\ Names(filled) \subseteq Names(makers)
      /\ Names(makers) # Names(filled) => makers # filled
  BY <1>1, <1>4 DEF Names
<1>6. Names(resting)' =
        (Names(resting) \ Names(filled)) \cup (IF is = "rests" THEN {Views[c].ext} ELSE {})
  <2>1. Names(resting \ filled) = Names(resting) \ Names(filled)
    <3>1. resting \in SUBSET DOMAIN revMap /\ filled \in SUBSET DOMAIN revMap
      BY <1>1, <1>4
    <3> QED BY <3>1, NamesWithout
  <2>2. ExternalID(id) = Views[c].ext
    BY <1>3 DEF ExternalID
  <2>4. CASE is = "rests"
    <3>1. resting' = (resting \ filled) \cup {id} BY <1>1, <2>4
    <3>2. {ExternalID(x) : x \in (resting \ filled) \cup {id}}
            = {ExternalID(x) : x \in resting \ filled} \cup {ExternalID(id)}
      OBVIOUS
    <3>3. {ExternalID(x) : x \in resting \ filled} = Names(resting) \ Names(filled)
      BY <2>1 DEF Names
    <3> QED BY <1>3, <2>2, <2>4, <3>1, <3>2, <3>3
  <2>5. CASE is # "rests"
    <3>1. resting' = resting \ filled BY <1>1, <2>5
    <3>2. {ExternalID(x) : x \in resting \ filled} = Names(resting) \ Names(filled)
      BY <2>1 DEF Names
    <3> QED BY <1>3, <2>5, <3>1, <3>2
  <2> QED BY <2>4, <2>5
<1>7. Abstract!Pending(c, "add")
  BY <1>1, <1>2, NoCallAssumption DEF Abstract!Pending, Abstract!NoAnswer, NoAnswer
<1>8. Views' = [Views EXCEPT ![c].answer = [is |-> is, makers |-> Names(makers)]]
  <2>1. Views[c] = [op |-> Views[c].op, ext |-> Views[c].ext, answer |-> Views[c].answer]
    BY <1>2 DEF ClientCall
  <2>2. DOMAIN Views = Clients BY DEF Views
  <2> QED BY <1>2, <1>3, <2>1, <2>2
<1>9. Abstract!AddEffect(c)
  <2>1. Names(makers) \in SUBSET Names(resting) /\ Names(filled) \in SUBSET Names(resting)
    BY <1>5
  <2>2. Names(makers) # Names(filled) =>
          is = "done" /\ \E m \in Names(makers) : Names(makers) \ Names(filled) = {m}
    BY <1>1, <1>4, <1>5
  <2> QED BY <1>1, <1>5, <1>6, <1>7, <1>8, <2>1, <2>2 DEF Abstract!AddEffect
<1> QED BY <1>2, <1>9 DEF Abstract!Next

\* Stopping and running the engine is not seen by clients; Reset clears the book.
LEMMA OwnerLin ==
  ASSUME IInv, LInv, Stop \/ Reset \/ Run
  PROVE  LInv' /\ [Abstract!Next]_(Abstract!vars)
<1>0. TypeOK /\ UNCHANGED <<cmdCh, call>> BY DEF IInv, Stop, Reset, Run
<1>1. CASE UNCHANGED <<idMap, revMap, resting>>
  <2>1. LInv'
    BY <1>0, <1>1 DEF LInv, MapsInverse, NamesOfAdds, CommandsMatchCalls,
                      AnswersWhenAnswered, InCall
  <2>2. UNCHANGED Abstract!vars
    BY <1>0, <1>1 DEF Abstract!vars, Names, Views, View, ExternalID
  <2> QED BY <2>1, <2>2
<1>2. CASE Reset
  <2>1. Quiet
    BY <1>2 DEF IInv, StoppedIsQuiet, Reset
  <2>2. idMap' = <<>> /\ revMap' = <<>> /\ resting' = {}
    BY <1>2 DEF Reset, Forgotten
  <2>3. \A c \in Clients : call[c] = NoCall /\ call'[c] = NoCall /\ Views[c] = NoCall
    BY <1>0, <2>1 DEF Quiet, Views, View
  <2>4. \A i \in DOMAIN cmdCh : FALSE
    BY <1>0, <2>3, CommandFields DEF IInv, CallersWait, InCall
  <2>5. DOMAIN revMap' = {} /\ IsFiniteSet(resting')
    BY <2>2, FS_EmptySet
  <2>6. LInv'
    BY <1>0, <2>3, <2>4, <2>5 DEF LInv, MapsInverse, NamesOfAdds, CommandsMatchCalls,
                                  AnswersWhenAnswered, InCall
  <2>7. Views' = Views
    BY <2>3 DEF Views, View
  <2>8. Names(resting)' = {}
    BY <2>2 DEF Names
  <2>9. Abstract!Clear
    BY <2>3, <2>7, <2>8 DEF Abstract!Clear
  <2> QED BY <2>6, <2>9 DEF Abstract!Next
<1> QED BY <1>1, <1>2 DEF Stop, Run

LEMMA InitLin == Init => LInv /\ Abstract!Init
<1> SUFFICES ASSUME Init PROVE LInv /\ Abstract!Init
  OBVIOUS
<1>1. /\ revMap = <<>> /\ cmdCh = <<>> /\ resting = {} /\ \A c \in Clients : call[c] = NoCall
  BY DEF Init
<1>2. DOMAIN revMap = {} /\ DOMAIN cmdCh = {} /\ IsFiniteSet(resting)
  BY <1>1, FS_EmptySet
<1>3. LInv
  BY <1>1, <1>2 DEF LInv, MapsInverse, NamesOfAdds, CommandsMatchCalls,
                    AnswersWhenAnswered, InCall
<1>4. Names(resting) = {} /\ Views = [c \in Clients |-> NoCall]
  BY <1>1 DEF Names, Views, View
<1> QED BY <1>3, <1>4 DEF Abstract!Init

\* Calls of any number of clients are linearizable: every step of Sequencer is a
\* step of AtomicBook or is not seen by the clients.
THEOREM Linearizable == Spec => ImplementsAtomicBook
<1>1. IInv /\ LInv /\ [Next]_vars => LInv' /\ [Abstract!Next]_(Abstract!vars)
  <2>a. SUFFICES ASSUME IInv, LInv, [Next]_vars
                 PROVE  LInv' /\ [Abstract!Next]_(Abstract!vars)
    OBVIOUS
  <2>1. CASE \E c \in Clients, op \in {"add", "cancel"}, ext \in ExtIds : Invoke(c, op, ext)
    BY <2>a, <2>1, InvokeLin
  <2>2. ASSUME NEW c \in Clients, Progress(c) \/ Send(c)
        PROVE  LInv' /\ [Abstract!Next]_(Abstract!vars)
    BY <2>a, <2>2, ClaimLin, RegisterLin, LookupLin, ReturnLin, SendLin DEF Progress
  <2>3. CASE DispatchCancel
    BY <2>a, <2>3, DispatchCancelLin
  <2>4. ASSUME NEW t \in Trades, NEW rests \in BOOLEAN, DispatchAdd(t[1], t[2], rests)
        PROVE  LInv' /\ [Abstract!Next]_(Abstract!vars)
    BY <2>a, <2>4, DispatchAddLin
  <2>5. CASE Stop \/ Reset \/ Run
    BY <2>a, <2>5, OwnerLin
  <2>6. CASE UNCHANGED vars
    <3>1. LInv'
      BY <2>a, <2>6 DEF vars, LInv, MapsInverse, NamesOfAdds, CommandsMatchCalls,
                        AnswersWhenAnswered, InCall
    <3>2. UNCHANGED Abstract!vars
      BY <2>6 DEF vars, Abstract!vars, Names, Views, View, ExternalID
    <3> QED BY <3>1, <3>2
  <2> QED BY <2>a, <2>1, <2>2, <2>3, <2>4, <2>5, <2>6 DEF Next, Dispatch
<1>2. Init => LInv /\ Abstract!Init
  BY InitLin
<1> QED BY <1>1, <1>2, Invariance, PTL DEF Spec, ImplementsAtomicBook, Abstract!Spec
-----------------------------------------------------------------------------
(* No call hangs.                                                          *)

\* A caller that waits for its reply has its command in the channel.
SentIsInChannel ==
  \A c \in Clients : InCall(c, "sent") => \E i \in DOMAIN cmdCh : cmdCh[i].respCh = c

\* The steps that a call has before it at most.
StepsOf(r) ==
  IF r = NoCall THEN 0
  ELSE CASE r.at = "called"   -> 5
         [] r.at = "claimed"  -> 4
         [] r.at = "sending"  -> 3
         [] r.at = "sent"     -> 2
         [] r.at = "answered" -> 1

\* A step that moves a call that was under way takes it nearer to its return.
CallsGoOn ==
  \A c \in Clients : call[c] # NoCall /\ call'[c] # call[c] =>
                       StepsOf(call'[c]) < StepsOf(call[c])

\* Somebody can go on with a call that is under way: a client whose step waits
\* for nobody, a sender while the channel has room, or the engine.
CallsCanGoOn ==
  \/ \E c \in Clients : \/ InCall(c, "called") \/ InCall(c, "claimed") \/ InCall(c, "answered")
                        \/ InCall(c, "sending") /\ HasRoom
  \/ running /\ cmdCh # <<>>

\* A step in which only client c's call moves, by r, and the channel is left alone.
LEMMA ClientGoesOn ==
  ASSUME TypeOK, SentIsInChannel, NEW c \in Clients, NEW r \in Call \cup {NoCall},
         call' = [call EXCEPT ![c] = r], cmdCh' = cmdCh,
         r # NoCall => r.at # "sent"
  PROVE  /\ SentIsInChannel'
         /\ call'[c] = r /\ \A d \in Clients \ {c} : call'[d] = call[d]
<1>1. call'[c] = r /\ \A d \in Clients \ {c} : call'[d] = call[d]
  BY DEF TypeOK
<1>3. \A d \in Clients : InCall(d, "sent")' => InCall(d, "sent")
  BY <1>1 DEF InCall
<1>4. SentIsInChannel'
  BY <1>3 DEF SentIsInChannel
<1> QED BY <1>1, <1>4

LEMMA ProgressGoesOn ==
  ASSUME IInv, SentIsInChannel, NEW c \in Clients, Progress(c)
  PROVE  SentIsInChannel' /\ CallsGoOn
<1>0. TypeOK /\ call[c] # NoCall /\ call[c] \in Call
  BY CallFields DEF IInv, Progress, Claim, Register, Lookup, Return, InCall
<1>1. CASE Claim(c)
  <2> DEFINE r == [call[c] EXCEPT !.id = nextID, !.at = "claimed"]
  <2>1. /\ call' = [call EXCEPT ![c] = r] /\ cmdCh' = cmdCh
        /\ r \in Call /\ r.at = "claimed" /\ call[c].at = "called"
    BY <1>0, <1>1 DEF Claim, Call, TypeOK, InCall
  <2> HIDE DEF r
  <2>2. r # NoCall BY <2>1, NoCallAssumption
  <2>3. StepsOf(r) = 4 /\ StepsOf(call[c]) = 5
    BY <1>0, <2>1, <2>2 DEF StepsOf
  <2>4. /\ SentIsInChannel'
        /\ call'[c] = r /\ \A d \in Clients \ {c} : call'[d] = call[d]
    BY <1>0, <2>1, ClientGoesOn
  <2> QED BY <2>3, <2>4 DEF CallsGoOn
<1>2. CASE Register(c)
  <2> DEFINE r == [call[c] EXCEPT !.at = "sending"]
  <2>1. /\ call' = [call EXCEPT ![c] = r] /\ cmdCh' = cmdCh
        /\ r \in Call /\ r.at = "sending" /\ call[c].at = "claimed"
    BY <1>0, <1>2 DEF Register, Call, TypeOK, InCall
  <2> HIDE DEF r
  <2>2. r # NoCall BY <2>1, NoCallAssumption
  <2>3. StepsOf(r) = 3 /\ StepsOf(call[c]) = 4
    BY <1>0, <2>1, <2>2 DEF StepsOf
  <2>4. /\ SentIsInChannel'
        /\ call'[c] = r /\ \A d \in Clients \ {c} : call'[d] = call[d]
    BY <1>0, <2>1, ClientGoesOn
  <2> QED BY <2>3, <2>4 DEF CallsGoOn
<1>3. CASE Lookup(c) /\ call[c].ext \in DOMAIN idMap
  <2> DEFINE r == [call[c] EXCEPT !.id = idMap[call[c].ext], !.at = "sending"]
  <2>1. /\ call' = [call EXCEPT ![c] = r] /\ cmdCh' = cmdCh
        /\ r \in Call /\ r.at = "sending" /\ call[c].at = "called"
    BY <1>0, <1>3 DEF Lookup, Call, TypeOK, InCall
  <2> HIDE DEF r
  <2>2. r # NoCall BY <2>1, NoCallAssumption
  <2>3. StepsOf(r) = 3 /\ StepsOf(call[c]) = 5
    BY <1>0, <2>1, <2>2 DEF StepsOf
  <2>4. /\ SentIsInChannel'
        /\ call'[c] = r /\ \A d \in Clients \ {c} : call'[d] = call[d]
    BY <1>0, <2>1, ClientGoesOn
  <2> QED BY <2>3, <2>4 DEF CallsGoOn
<1>4. CASE Lookup(c) /\ call[c].ext \notin DOMAIN idMap
  <2> DEFINE r == [call[c] EXCEPT !.at = "answered",
                                  !.answer = [is |-> "notfound", makers |-> {}]]
  <2>1. /\ call' = [call EXCEPT ![c] = r] /\ cmdCh' = cmdCh
        /\ r \in Call /\ r.at = "answered" /\ call[c].at = "called"
    BY <1>0, <1>4 DEF Lookup, Call, TypeOK, InCall
  <2> HIDE DEF r
  <2>2. r # NoCall BY <2>1, NoCallAssumption
  <2>3. StepsOf(r) = 1 /\ StepsOf(call[c]) = 5
    BY <1>0, <2>1, <2>2 DEF StepsOf
  <2>4. /\ SentIsInChannel'
        /\ call'[c] = r /\ \A d \in Clients \ {c} : call'[d] = call[d]
    BY <1>0, <2>1, ClientGoesOn
  <2> QED BY <2>3, <2>4 DEF CallsGoOn
<1>5. CASE Return(c)
  <2>1. /\ call' = [call EXCEPT ![c] = NoCall] /\ cmdCh' = cmdCh
        /\ call[c].at = "answered"
    BY <1>5 DEF Return, InCall
  <2>2. StepsOf(NoCall) = 0 /\ StepsOf(call[c]) = 1
    BY <1>0, <2>1 DEF StepsOf
  <2>4. /\ SentIsInChannel'
        /\ call'[c] = NoCall /\ \A d \in Clients \ {c} : call'[d] = call[d]
    BY <1>0, <2>1, <2>2, ClientGoesOn
  <2> QED BY <2>1, <2>2, <2>4 DEF CallsGoOn
<1> QED BY <1>1, <1>2, <1>3, <1>4, <1>5 DEF Progress

LEMMA SendGoesOn ==
  ASSUME IInv, SentIsInChannel, NEW c \in Clients, Send(c)
  PROVE  SentIsInChannel' /\ CallsGoOn
<1> DEFINE r == [call[c] EXCEPT !.at = "sent"]
<1> DEFINE cmd == [typ |-> call[c].op, id |-> call[c].id, respCh |-> c]
<1>0. TypeOK /\ call[c] # NoCall /\ call[c] \in Call /\ call[c].at = "sending"
  BY CallFields DEF IInv, Send, InCall
<1>1. call' = [call EXCEPT ![c] = r] /\ cmdCh' = Append(cmdCh, cmd)
      /\ r \in Call /\ r.at = "sent" /\ cmd.respCh = c
      /\ cmd \in [typ : {"add", "cancel"}, id : Nat \ {0}, respCh : Clients]
  BY <1>0, CallFields DEF Send, Call, TypeOK, IInv, SentOrdersNamed, InCall
<1> HIDE DEF r, cmd
<1>2. StepsOf(r) = 2 /\ StepsOf(call[c]) = 3
  BY <1>0, <1>1, NoCallAssumption DEF StepsOf
<1>3. call'[c] = r /\ \A d \in Clients \ {c} : call'[d] = call[d]
  BY <1>0, <1>1 DEF TypeOK
<1>4. CallsGoOn
  BY <1>2, <1>3 DEF CallsGoOn
<1>5. /\ Len(cmdCh) + 1 \in DOMAIN cmdCh' /\ cmdCh'[Len(cmdCh) + 1] = cmd
      /\ \A i \in DOMAIN cmdCh : i \in DOMAIN cmdCh' /\ cmdCh'[i] = cmdCh[i]
  <2>1. cmdCh \in Seq([typ : {"add", "cancel"}, id : Nat \ {0}, respCh : Clients])
    BY <1>0 DEF TypeOK
  <2> QED BY <1>1, <2>1, AppendProperties, LenProperties
<1>6. ASSUME NEW d \in Clients, InCall(d, "sent")'
      PROVE  \E i \in DOMAIN cmdCh' : cmdCh'[i].respCh = d
  <2>1. CASE d = c
    BY <1>1, <1>5, <2>1
  <2>2. CASE d # c
    <3>1. InCall(d, "sent") BY <1>3, <1>6, <2>2 DEF InCall
    <3> QED BY <1>5, <3>1 DEF SentIsInChannel
  <2> QED BY <2>1, <2>2
<1>7. SentIsInChannel'
  BY <1>6 DEF SentIsInChannel
<1> QED BY <1>4, <1>7

LEMMA DispatchGoesOn ==
  ASSUME IInv, SentIsInChannel, Take, NEW is, NEW makers, Respond(Head(cmdCh), is, makers)
  PROVE  SentIsInChannel' /\ CallsGoOn
<1>c. PICK c : c = Head(cmdCh).respCh
  OBVIOUS
<1> DEFINE r == [call[c] EXCEPT !.at = "answered",
                                !.answer = [is |-> is, makers |-> makers]]
<1>0. TypeOK /\ cmdCh # <<>> /\ cmdCh' = Tail(cmdCh)
  BY DEF IInv, Take
<1>1. cmdCh \in Seq([typ : {"add", "cancel"}, id : Nat \ {0}, respCh : Clients])
  BY <1>0 DEF TypeOK
<1>2. /\ Len(cmdCh) \in Nat \ {0} /\ DOMAIN cmdCh = 1..Len(cmdCh)
      /\ DOMAIN cmdCh' = 1..(Len(cmdCh) - 1) /\ Head(cmdCh) = cmdCh[1]
      /\ \A i \in DOMAIN cmdCh' : i + 1 \in DOMAIN cmdCh /\ cmdCh'[i] = cmdCh[i + 1]
  BY <1>0, <1>1, TailFacts
<1>3. 1 \in DOMAIN cmdCh /\ cmdCh[1].respCh = c
  BY <1>c, <1>2
<1>4. c \in Clients /\ call[c] # NoCall /\ call[c].at = "sent" /\ call[c] \in Call
  BY <1>0, <1>3, CommandFields, CallFields DEF IInv, CallersWait, InCall
<1>5. call' = [call EXCEPT ![c] = r]
  BY <1>0, <1>c, <1>4 DEF Respond, TypeOK
<1>r. r.at = "answered"
  BY <1>4 DEF Call
<1> HIDE DEF r
<1>6. call'[c] = r /\ \A d \in Clients \ {c} : call'[d] = call[d]
  BY <1>0, <1>4, <1>5 DEF TypeOK
<1>7. StepsOf(r) \in {0, 1} /\ StepsOf(call[c]) = 2
  BY <1>4, <1>r DEF StepsOf
<1>8. CallsGoOn
  BY <1>6, <1>7 DEF CallsGoOn
<1>9. ASSUME NEW d \in Clients, InCall(d, "sent")'
      PROVE  \E i \in DOMAIN cmdCh' : cmdCh'[i].respCh = d
  <2>1. d # c /\ InCall(d, "sent")
    BY <1>r, <1>6, <1>9 DEF InCall
  <2>2. PICK i \in DOMAIN cmdCh : cmdCh[i].respCh = d
    BY <2>1 DEF SentIsInChannel
  <2>3. i # 1
    BY <1>3, <2>1, <2>2
  <2>4. i - 1 \in DOMAIN cmdCh' /\ (i - 1) + 1 = i
    BY <1>2, <2>2, <2>3
  <2> QED BY <1>2, <2>2, <2>4
<1>10. SentIsInChannel'
  BY <1>9 DEF SentIsInChannel
<1> QED BY <1>8, <1>10

LEMMA EveryStepGoesOn ==
  ASSUME IInv, SentIsInChannel, [Next]_vars
  PROVE  SentIsInChannel' /\ CallsGoOn
<1>0. TypeOK BY DEF IInv
<1>1. ASSUME NEW c \in Clients, NEW op \in {"add", "cancel"}, NEW ext \in ExtIds,
             Invoke(c, op, ext)
      PROVE  SentIsInChannel' /\ CallsGoOn
  <2> DEFINE r == [op |-> op, ext |-> ext, id |-> 0, at |-> "called", answer |-> NoAnswer]
  <2>1. call' = [call EXCEPT ![c] = r] /\ cmdCh' = cmdCh /\ call[c] = NoCall
    BY <1>1 DEF Invoke, Calls
  <2>2. r \in Call /\ r.at # "sent"
    BY DEF Call, NoAnswer
  <2> HIDE DEF r
  <2>4. /\ SentIsInChannel'
        /\ call'[c] = r /\ \A d \in Clients \ {c} : call'[d] = call[d]
    BY <1>0, <2>1, <2>2, ClientGoesOn
  <2> QED BY <2>1, <2>2, <2>4 DEF CallsGoOn
<1>2. ASSUME NEW c \in Clients, Progress(c) \/ Send(c)
      PROVE  SentIsInChannel' /\ CallsGoOn
  BY <1>2, ProgressGoesOn, SendGoesOn
<1>3. CASE Dispatch
  <2>1. CASE DispatchCancel
    BY <2>1, DispatchGoesOn DEF DispatchCancel
  <2>2. ASSUME NEW t \in Trades, NEW rests \in BOOLEAN, DispatchAdd(t[1], t[2], rests)
        PROVE  SentIsInChannel' /\ CallsGoOn
    BY <2>2, DispatchGoesOn DEF DispatchAdd
  <2> QED BY <1>3, <2>1, <2>2 DEF Dispatch
<1>4. CASE Stop \/ Reset \/ Run \/ UNCHANGED vars
  <2>1. UNCHANGED <<cmdCh, call>>
    BY <1>4 DEF Stop, Reset, Run, vars
  <2> QED BY <2>1 DEF SentIsInChannel, CallsGoOn, InCall
<1> QED BY <1>1, <1>2, <1>3, <1>4 DEF Next

LEMMA SomebodyMoves ==
  ASSUME IInv, SentIsInChannel, ~Quiet
  PROVE  CallsCanGoOn
<1>1. PICK c \in Clients : call[c] # NoCall
  BY DEF Quiet
<1>2. call[c].at \in {"called", "claimed", "sending", "sent", "answered"}
  BY <1>1, CallFields DEF IInv, Call
<1>3. running
  BY DEF IInv, StoppedIsQuiet
<1>4. CASE InCall(c, "sending") /\ ~HasRoom
  <2>1. cmdCh \in Seq([typ : {"add", "cancel"}, id : Nat \ {0}, respCh : Clients])
    BY DEF IInv, TypeOK
  <2>2. Len(cmdCh) # 0
    BY <1>4, <2>1, QueueSizeAssumption, LenProperties DEF HasRoom
  <2>3. cmdCh # <<>>
    BY <2>2
  <2> QED BY <1>3, <2>3 DEF CallsCanGoOn
<1>5. CASE InCall(c, "sent")
  <2>1. PICK i \in DOMAIN cmdCh : TRUE
    BY <1>5 DEF SentIsInChannel
  <2>2. cmdCh # <<>>
    BY <2>1
  <2> QED BY <1>3, <2>2 DEF CallsCanGoOn
<1> QED BY <1>1, <1>2, <1>4, <1>5 DEF InCall, CallsCanGoOn

\* No call hangs, but for the scheduler: whatever the clients, the engine and its
\* owner have done, a call that is under way has at most five steps left, none
\* that anybody takes adds to them, and while a call is under way somebody can
\* take one, for a full channel or an unread reply never stops everybody.
THEOREM CallsNeverHang ==
  Spec => [](~Quiet => CallsCanGoOn) /\ [][CallsGoOn]_vars
<1>1. IInv /\ SentIsInChannel /\ [Next]_vars => SentIsInChannel' /\ CallsGoOn
  BY EveryStepGoesOn
<1>2. Init => SentIsInChannel
  BY DEF Init, SentIsInChannel, InCall
<1>3. IInv /\ SentIsInChannel => (~Quiet => CallsCanGoOn)
  BY SomebodyMoves
<1> QED BY <1>1, <1>2, <1>3, Invariance, PTL DEF Spec
=============================================================================
