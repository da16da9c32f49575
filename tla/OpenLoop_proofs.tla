-------------------------- MODULE OpenLoop_proofs --------------------------
(***************************************************************************)
(* Proofs about OpenLoop for every length of the shard and every size of   *)
(* the event channel: that no tick is reported twice, that no answer is    *)
(* thrown away, and that an honest contestant is judged correct, unless    *)
(* two ticks of one order were in flight together.                         *)
(***************************************************************************)
EXTENDS OpenLoop, SequenceTheorems, TLAPS

-----------------------------------------------------------------------------
(* Sequences whose elements have no common type.  In what follows a sequence *)
(* is one over its own elements.                                             *)

IsSeq(f) == f \in Seq(ToSet(f))

\* A sequence over any set is one over its own elements.
LEMMA SeqOfIsSeq ==
  ASSUME NEW S, NEW f \in Seq(S)
  PROVE  IsSeq(f)
<1>1. DOMAIN f = 1..Len(f) /\ Len(f) \in Nat /\ f \in [1..Len(f) -> S]
  BY LenProperties
<1>2. f \in [1..Len(f) -> ToSet(f)]
  BY <1>1 DEF ToSet
<1> QED BY <1>1, <1>2, SeqDef DEF IsSeq

\* What a sequence is.
LEMMA SeqFacts ==
  ASSUME NEW f, IsSeq(f)
  PROVE  /\ Len(f) \in Nat /\ DOMAIN f = 1..Len(f)
         /\ f = <<>> <=> Len(f) = 0
BY LenProperties, EmptySeq DEF IsSeq

\* A new last element.
LEMMA SeqPut ==
  ASSUME NEW f, IsSeq(f), NEW x
  PROVE  /\ IsSeq(Append(f, x)) /\ Len(Append(f, x)) = Len(f) + 1
         /\ \A i \in 1..Len(f) : Append(f, x)[i] = f[i]
         /\ Append(f, x)[Len(f) + 1] = x
         /\ Append(f, x) # <<>>
<1> DEFINE S == ToSet(f) \cup {x}
<1>1. f \in Seq(S)
  BY SeqMonotonic DEF IsSeq
<1>2. x \in S
  OBVIOUS
<1> HIDE DEF S
<1>3. /\ Append(f, x) \in Seq(S) /\ Len(Append(f, x)) = Len(f) + 1
      /\ \A i \in 1..Len(f) : Append(f, x)[i] = f[i]
      /\ Append(f, x)[Len(f) + 1] = x
      /\ Append(f, x) # <<>>
  BY <1>1, <1>2, AppendProperties
<1> QED BY <1>3, SeqOfIsSeq

\* The first element and the others.
LEMMA SeqTake ==
  ASSUME NEW f, IsSeq(f), f # <<>>
  PROVE  /\ IsSeq(Tail(f)) /\ Len(f) \in Nat \ {0} /\ Len(Tail(f)) = Len(f) - 1
         /\ Head(f) = f[1]
         /\ \A i \in 1..(Len(f) - 1) : Tail(f)[i] = f[i + 1]
<1> DEFINE S == ToSet(f)
<1>1. f \in Seq(S)
  BY DEF IsSeq
<1> HIDE DEF S
<1>2. Len(f) \in Nat \ {0}
  BY <1>1, LenProperties, EmptySeq
<1>3. Tail(f) \in Seq(S) /\ Len(Tail(f)) = Len(f) - 1 /\ Head(f) = f[1]
  BY <1>1, HeadTailProperties
<1>4. \A i \in 1..(Len(f) - 1) : Tail(f)[i] = f[i + 1]
  BY <1>1, <1>2, <1>3, HeadTailProperties, LenProperties
<1> QED BY <1>2, <1>3, <1>4, SeqOfIsSeq

\* Two sequences in a row.
LEMMA SeqJoin ==
  ASSUME NEW f, IsSeq(f), NEW g, IsSeq(g)
  PROVE  /\ IsSeq(f \o g) /\ Len(f \o g) = Len(f) + Len(g)
         /\ \A i \in 1..(Len(f) + Len(g)) :
              (f \o g)[i] = IF i <= Len(f) THEN f[i] ELSE g[i - Len(f)]
         /\ f \o <<>> = f
<1> DEFINE S == ToSet(f) \cup ToSet(g)
<1>1. f \in Seq(S) /\ g \in Seq(S)
  BY SeqMonotonic DEF IsSeq
<1> HIDE DEF S
<1>2. /\ f \o g \in Seq(S) /\ Len(f \o g) = Len(f) + Len(g)
      /\ \A i \in 1..(Len(f) + Len(g)) :
           (f \o g)[i] = IF i <= Len(f) THEN f[i] ELSE g[i - Len(f)]
      /\ f \o <<>> = f
  BY <1>1, ConcatProperties, ConcatEmptySeq
<1> QED BY <1>2, SeqOfIsSeq

\* A single element is appended, and two are appended one after the other.
LEMMA SeqJoinFew ==
  ASSUME NEW f, IsSeq(f), NEW x, NEW y
  PROVE  /\ IsSeq(<<x>>) /\ f \o <<x>> = Append(f, x)
         /\ f \o <<x, y>> = Append(Append(f, x), y)
<1> DEFINE S == ToSet(f) \cup {x, y}
<1>1. f \in Seq(S) /\ <<x>> \in Seq(S) /\ <<y>> \in Seq(S)
  BY SeqMonotonic DEF IsSeq
<1>a. x \in S /\ y \in S
  OBVIOUS
<1> HIDE DEF S
<1>2. x \in S /\ y \in S /\ <<x, y>> = <<x>> \o <<y>>
  <2>1. <<x, y>> \in Seq(S) /\ Len(<<x, y>>) = 2
    BY <1>a
  <2>2. /\ <<x>> \o <<y>> \in Seq(S) /\ Len(<<x>> \o <<y>>) = 2
        /\ \A i \in 1..2 : (<<x>> \o <<y>>)[i] = IF i <= 1 THEN x ELSE y
    BY <1>1, ConcatProperties
  <2>3. \A i \in 1..2 : <<x, y>>[i] = IF i <= 1 THEN x ELSE y
    OBVIOUS
  <2> QED BY <1>a, <2>1, <2>2, <2>3, SeqEqual
<1>3. f \o <<x>> = Append(f, x) /\ Append(f, x) \in Seq(S)
  BY <1>1, <1>2, AppendIsConcat, AppendProperties
<1>4. Append(f, x) \o <<y>> = Append(Append(f, x), y)
  BY <1>2, <1>3, AppendIsConcat
<1>5. (f \o <<x>>) \o <<y>> = f \o (<<x>> \o <<y>>)
  BY <1>1, ConcatAssociative
<1> QED BY <1>1, <1>2, <1>3, <1>4, <1>5, SeqOfIsSeq

-----------------------------------------------------------------------------
(* The inductive invariant.                                                  *)
(*                                                                           *)
(* Everything the bot has sent stands in a line: ticks 1 to r are read, the  *)
(* answers in frames belong to ticks r+1 to worked, own[i] being the tick of *)
(* frame i, and the rest is in the contestant's inbox.  B[k] is the book     *)
(* after tick k, the same for the contestant and for the validator.          *)

TickSet == [type : {"ADD", "CAN"}, id : Int, side : {"B", "S", "-"}]

worked == sent - Len(inbox)

\* Events that readLoop has made and the correlator has not taken.
Pipe == botEvtCh \o pending

IsFill(i) == frames[i].type = "FILL"

Types ==
  /\ ticks \in Seq(TickSet) /\ writing \in BOOLEAN /\ sent \in Nat /\ acked \in Nat
  /\ inbox \in Seq(TickSet) /\ IsSeq(frames)
  /\ IsSeq(botEvtCh) /\ IsSeq(pending) /\ IsSeq(events)
  /\ bot \in {"dialing", "writing", "draining", "stopped"}
  /\ overlap \in BOOLEAN /\ cut \in BOOLEAN /\ finished \in BOOLEAN

\* Ticks are stored one by one, written in that order, and worked in that order.
Inbox ==
  /\ sent <= Len(ticks)
  /\ bot = "dialing" => Len(ticks) = 0 /\ ~writing
  /\ bot = "writing" => Len(ticks) = sent + (IF writing THEN 1 ELSE 0)
  /\ Len(inbox) <= sent
  /\ \A i \in 1..Len(inbox) : inbox[i] = ticks[worked + i]

\* The answers on their way belong to consecutive ticks, and an answer ends
\* with its terminal response.
Line(r, own) ==
  /\ r \in 0..worked
  /\ own \in Seq(Nat) /\ Len(own) = Len(frames)
  /\ frames = <<>> => r = worked
  /\ frames # <<>> => own[1] = r + 1 /\ own[Len(frames)] = worked /\ ~IsFill(Len(frames))
  /\ \A i \in 1..Len(frames) : own[i] \in (r + 1)..worked
  /\ \A i \in 1..(Len(frames) - 1) : own[i + 1] = IF IsFill(i) THEN own[i] ELSE own[i] + 1
  /\ \A i, j \in 1..Len(frames) : i < j => own[i] <= own[j] /\ (IsFill(i) \/ own[i] < own[j])

\* B is the history of the contestant's book.
Books(B) ==
  /\ B[0] = <<>> /\ B[worked] = theirs
  /\ \A k \in 1..worked : B[k] = After(B[k - 1], ticks[k])

Owed(B, k) == Makers(B[k - 1], ticks[k])

\* The answers are those of the engine, a fill, if any, before the response.
Answers(own, B) ==
  \A i \in 1..Len(frames) :
    /\ frames[i].id = ticks[own[i]].id
    /\ IsFill(i) => /\ Owed(B, own[i]) = <<frames[i].maker>>
                    /\ i < Len(frames) /\ ~IsFill(i + 1)
    /\ ~IsFill(i) => /\ frames[i].type = Reply(B[own[i] - 1], ticks[own[i]])
                     /\ i > 1 /\ ~IsFill(i - 1) => Owed(B, own[i]) = <<>>

\* The fills kept are those of the answer that is being read.
Kept(r, B) ==
  /\ frames = <<>> => DOMAIN fills = {}
  /\ frames # <<>> =>
       IF IsFill(1) THEN DOMAIN fills = {}
       ELSE /\ DOMAIN fills \subseteq {ticks[r + 1].id}
            /\ FillsOf(ticks[r + 1].id) = Owed(B, r + 1)

\* No tick is in two places: in flight, read, and judged.
Once ==
  /\ \A id \in DOMAIN inf : inf[id] \in 1..Len(ticks)
  /\ \A id, jd \in DOMAIN inf : inf[id] = inf[jd] => id = jd
  /\ \A k \in 1..Len(Pipe) : Pipe[k].tick \in 1..Len(ticks)
  /\ \A k \in 1..Len(events) : events[k].tick \in 1..Len(ticks)
  /\ \A k \in 1..Len(Pipe), id \in DOMAIN inf : Pipe[k].tick # inf[id]
  /\ \A k \in 1..Len(events), id \in DOMAIN inf : events[k].tick # inf[id]
  /\ \A k \in 1..Len(events), l \in 1..Len(Pipe) : events[k].tick # Pipe[l].tick
  /\ \A k, l \in 1..Len(Pipe) : Pipe[k].tick = Pipe[l].tick => k = l
  /\ \A k, l \in 1..Len(events) : events[k].tick = events[l].tick => k = l

Counts(r) == acked <= Len(events) + Len(Pipe) /\ Len(events) + Len(Pipe) <= r

\* Without overlap, inf holds exactly the ticks in flight, so that every answer
\* finds its own tick, and events are made and judged in the order of the ticks.
InOrder(r, B) ==
  ~overlap =>
    /\ \A j \in (r + 1)..Len(ticks) : ticks[j].id \in DOMAIN inf /\ inf[ticks[j].id] = j
    /\ \A id \in DOMAIN inf : inf[id] \in (r + 1)..Len(ticks) /\ ticks[inf[id]].id = id
    /\ r = Len(events) + Len(Pipe)
    /\ reference = B[Len(events)]
    /\ \A k \in 1..Len(Pipe) :
         /\ Pipe[k].tick = Len(events) + k
         /\ Pipe[k].makers = Owed(B, Len(events) + k)
         /\ Pipe[k].reply = Reply(B[Len(events) + k - 1], ticks[Len(events) + k])
    /\ AllCorrect

Ending ==
  /\ finished => bot = "stopped" /\ pending = <<>> /\ botEvtCh = <<>>
  /\ bot = "stopped" /\ ~cut => inbox = <<>> /\ frames = <<>>

AtTheBot(r, own, B) == Line(r, own) /\ Books(B) /\ Answers(own, B) /\ Kept(r, B)

Reported(r, B) == Once /\ Counts(r) /\ InOrder(r, B)

IInv ==
  /\ Types /\ Inbox /\ Ending
  /\ \E r, own, B : AtTheBot(r, own, B) /\ Reported(r, B)

\* Nothing has happened yet.
LEMMA InitIsIInv == Init => IInv
<1> SUFFICES ASSUME Init PROVE IInv
  OBVIOUS
<1>1. PICK r, own, B : r = 0 /\ own = <<>> /\ B = [k \in {0} |-> <<>>]
  OBVIOUS
<1>2. /\ IsSeq(<<>>) /\ Len(<<>>) = 0 /\ DOMAIN <<>> = {} /\ <<>> \in Seq(TickSet)
      /\ <<>> \in Seq(Nat) /\ <<>> \o <<>> = <<>>
  <2>1. <<>> \in Seq(TickSet) /\ <<>> \in Seq(Nat) /\ <<>> \in Seq({})
        /\ Len(<<>>) = 0 /\ DOMAIN <<>> = {}
    OBVIOUS
  <2> QED BY <2>1, SeqOfIsSeq, ConcatEmptySeq
<1>3. Types
  BY <1>2 DEF Init, Types
<1>4. worked = 0 /\ Pipe = <<>>
  <2>1. sent = 0 /\ inbox = <<>> /\ botEvtCh = <<>> /\ pending = <<>>
    BY DEF Init
  <2>2. botEvtCh \o pending = <<>>
    BY <1>2, <2>1
  <2>3. sent - Len(inbox) = 0
    <3>1. Len(inbox) = 0
      BY <2>1
    <3>2. \A x, y : x = 0 /\ y = 0 => x - y = 0
      OBVIOUS
    <3> QED BY <2>1, <3>1, <3>2, Zenon
  <2> QED BY <2>2, <2>3, Zenon DEF worked, Pipe
<1>5. Inbox /\ Once /\ Ending
  BY <1>2, <1>4 DEF Init, Inbox, Once, Ending
<1>6. Line(r, own) /\ Books(B) /\ Answers(own, B) /\ Kept(r, B) /\ Counts(r)
  BY <1>1, <1>2, <1>4 DEF Init, Line, Books, Answers, Kept, Counts
<1>7. InOrder(r, B)
  BY <1>1, <1>2, <1>4 DEF Init, InOrder, AllCorrect
<1> QED BY <1>3, <1>5, <1>6, <1>7 DEF IInv, AtTheBot, Reported

-----------------------------------------------------------------------------
(* What steps keep. *)

\* The numbers that the invariant relates.
LEMMA Numbers ==
  ASSUME Types, Inbox, NEW r, NEW own, Line(r, own)
  PROVE  /\ Len(ticks) \in Nat /\ DOMAIN ticks = 1..Len(ticks)
         /\ Len(inbox) \in Nat /\ worked \in Nat /\ worked <= sent /\ sent \in Nat
         /\ worked <= Len(ticks) /\ sent <= Len(ticks)
         /\ Len(frames) \in Nat /\ DOMAIN frames = 1..Len(frames)
         /\ r \in Nat /\ r <= worked
         /\ frames # <<>> => Len(frames) > 0 /\ r + 1 <= worked /\ own[1] = r + 1
<1>1. /\ Len(ticks) \in Nat /\ DOMAIN ticks = 1..Len(ticks)
      /\ Len(inbox) \in Nat /\ sent \in Nat
      /\ Len(frames) \in Nat /\ DOMAIN frames = 1..Len(frames)
      /\ frames # <<>> => Len(frames) > 0
  BY LenProperties, SeqFacts DEF Types
<1>2. worked \in Nat /\ worked <= sent /\ sent <= Len(ticks)
  <2>1. sent <= Len(ticks) /\ Len(inbox) <= sent
    BY DEF Inbox
  <2> QED BY <1>1, <2>1 DEF worked
<1>3. r \in Nat /\ r <= worked /\ (frames # <<>> => own[1] = r + 1 /\ own[1] \in (r + 1)..worked)
  BY <1>1, <1>2 DEF Line
<1> QED BY <1>1, <1>2, <1>3

\* The events on their way make one sequence, botEvtCh before pending.
LEMMA PipeFacts ==
  ASSUME Types
  PROVE  /\ IsSeq(Pipe) /\ Len(Pipe) \in Nat /\ Len(events) \in Nat
         /\ Len(Pipe) = Len(botEvtCh) + Len(pending)
BY SeqJoin, SeqFacts DEF Types, Pipe

\* The line of answers is as it was: nothing is worked and nothing is read.
LEMMA LineKept ==
  ASSUME Types, Inbox, NEW r, NEW own, NEW B, AtTheBot(r, own, B),
         frames' = frames, fills' = fills, theirs' = theirs, worked' = worked,
         \A k \in 1..Len(ticks) : ticks'[k] = ticks[k]
  PROVE  AtTheBot(r, own, B)'
<1>0. Line(r, own) /\ Books(B) /\ Answers(own, B) /\ Kept(r, B)
  BY DEF AtTheBot
<1>1. /\ worked \in Nat /\ worked <= Len(ticks) /\ Len(ticks) \in Nat
      /\ r \in Nat /\ (frames # <<>> => r + 1 <= worked)
      /\ Len(frames) \in Nat
  BY <1>0, Numbers
<1>2. Line(r, own)'
  BY <1>0 DEF Line, IsFill
<1>3. Books(B)'
  BY <1>0, <1>1 DEF Books
<1>4. Answers(own, B)'
  <2>1. \A i \in 1..Len(frames) : own[i] \in 1..Len(ticks)
    BY <1>0, <1>1 DEF Line
  <2> QED BY <1>0, <2>1 DEF Answers, IsFill, Owed
<1>5. Kept(r, B)'
  <2>1. frames # <<>> => r + 1 \in 1..Len(ticks)
    BY <1>1
  <2>2. FillsOf(ticks[r + 1].id)' = IF ticks'[r + 1].id \in DOMAIN fills
                                    THEN fills[ticks'[r + 1].id] ELSE <<>>
    BY DEF FillsOf
  <2> QED BY <1>0, <2>1, <2>2 DEF Kept, IsFill, Owed, FillsOf
<1> QED BY <1>2, <1>3, <1>4, <1>5 DEF AtTheBot

\* No event is made or judged: events only move on.
LEMMA ReportsKept ==
  ASSUME Types, NEW r \in Nat, NEW B, NEW C, Reported(r, B),
         \A k \in 0..r : C[k] = B[k],
         inf' = inf, events' = events, Pipe' = Pipe, acked' = acked,
         reference' = reference, overlap' = overlap, ticks' = ticks
  PROVE  Reported(r, C)'
<1>0. Once /\ Counts(r) /\ InOrder(r, B)
  BY DEF Reported
<1>1. Len(Pipe) \in Nat /\ Len(events) \in Nat
  BY PipeFacts
<1>2. Once' /\ Counts(r)'
  BY <1>0 DEF Once, Counts
<1>3. InOrder(r, C)'
  <2>1. SUFFICES ASSUME ~overlap PROVE InOrder(r, C)'
    BY DEF InOrder
  <2>2. r = Len(events) + Len(Pipe)
    BY <1>0, <2>1 DEF InOrder
  <2>3. C[Len(events)] = B[Len(events)]
    BY <1>1, <2>2
  <2>4. \A k \in 1..Len(Pipe) : C[Len(events) + k - 1] = B[Len(events) + k - 1]
    BY <1>1, <2>2
  <2> QED BY <1>0, <2>1, <2>3, <2>4 DEF InOrder, Owed, AllCorrect
<1> QED BY <1>2, <1>3 DEF Reported

-----------------------------------------------------------------------------
(* Each action keeps the invariant. *)

\* Steps that leave the line and the events alone, as long as what they do to
\* the bot's own state is right.
LEMMA QuietStep ==
  ASSUME IInv, Types', Inbox', Ending',
         worked' = worked,
         UNCHANGED <<ticks, inf, overlap, acked, fills, frames, theirs, reference, events, Pipe>>
  PROVE  IInv'
<1>1. PICK r, own, B : AtTheBot(r, own, B) /\ Reported(r, B)
  BY DEF IInv
<1>2. r \in Nat
  BY <1>1, Numbers DEF IInv, AtTheBot
<1>3. AtTheBot(r, own, B)'
  BY <1>1, LineKept DEF IInv
<1>4. Reported(r, B)'
  BY <1>1, <1>2, ReportsKept DEF IInv
<1> QED BY <1>3, <1>4 DEF IInv

\* The dial: nothing has been sent when it succeeds or fails.
LEMMA DialKeeps ==
  ASSUME IInv, Dial
  PROVE  IInv'
<1>1. /\ Types /\ Inbox /\ Ending /\ bot = "dialing" /\ bot' \in {"writing", "stopped"}
      /\ UNCHANGED <<ticks, writing, sent, overlap, inf, acked, fills, frames, pending, botEvtCh,
                     inbox, theirs, reference, events, finished, cut>>
  BY DEF IInv, Dial, writer, reader, correlator
<1>2. worked' = worked /\ Pipe' = Pipe
  BY <1>1 DEF worked, Pipe
<1>3. Types'
  BY <1>1 DEF Types, IsSeq
<1>4. sent = 0 /\ Len(ticks) = 0 /\ inbox = <<>> /\ frames = <<>>
  <2>1. PICK r, own, B : AtTheBot(r, own, B)
    BY DEF IInv
  <2>2. Len(ticks) = 0 /\ sent \in Nat /\ sent <= Len(ticks) /\ worked <= sent
        /\ Len(inbox) \in Nat /\ Len(inbox) <= sent /\ worked \in Nat
        /\ r \in Nat /\ (frames # <<>> => r + 1 <= worked)
    BY <1>1, <2>1, Numbers DEF AtTheBot, Inbox
  <2>3. inbox = <<>>
    BY <1>1, <2>2, EmptySeq DEF Types
  <2> QED BY <2>2, <2>3
<1>5. Inbox'
  BY <1>1, <1>2, <1>4 DEF Inbox
<1>6. Ending'
  BY <1>1, <1>4 DEF Ending
<1> QED BY <1>1, <1>2, <1>3, <1>5, <1>6, QuietStep

\* Writing a tick: it joins the end of the inbox.
LEMMA WriteKeeps ==
  ASSUME IInv, Write
  PROVE  IInv'
<1>1. /\ Types /\ Inbox /\ Ending /\ bot = "writing" /\ writing
      /\ inbox' = Append(inbox, ticks[Len(ticks)]) /\ sent' = sent + 1 /\ writing' = FALSE
      /\ UNCHANGED <<ticks, inf, overlap, acked, fills, frames, pending, botEvtCh, theirs, bot,
                     reference, events, finished, cut>>
  BY DEF IInv, Write, reader, correlator
<1>2. /\ Len(ticks) \in Nat /\ DOMAIN ticks = 1..Len(ticks) /\ sent \in Nat
      /\ Len(inbox) \in Nat /\ Len(inbox) <= sent /\ Len(ticks) = sent + 1
      /\ ticks[Len(ticks)] \in TickSet
  BY <1>1, LenProperties, ElementOfSeq DEF Types, Inbox
<1>3. /\ inbox' \in Seq(TickSet) /\ Len(inbox') = Len(inbox) + 1
      /\ \A i \in 1..Len(inbox) : inbox'[i] = inbox[i]
      /\ inbox'[Len(inbox) + 1] = ticks[Len(ticks)]
  BY <1>1, <1>2, AppendProperties DEF Types
<1>4. worked' = worked /\ worked \in Nat /\ worked + Len(inbox) + 1 = Len(ticks)
  BY <1>1, <1>2, <1>3 DEF worked
<1>5. Pipe' = Pipe
  BY <1>1 DEF Pipe
<1>6. Types'
  BY <1>1, <1>2, <1>3 DEF Types, IsSeq
<1>7. Inbox'
  <2>1. \A i \in 1..Len(inbox') : inbox'[i] = ticks[worked + i]
    BY <1>1, <1>2, <1>3, <1>4 DEF Inbox
  <2> QED BY <1>1, <1>2, <1>3, <1>4, <2>1 DEF Inbox
<1>8. Ending'
  BY <1>1 DEF Ending
<1> QED BY <1>1, <1>4, <1>5, <1>6, <1>7, <1>8, QuietStep

\* The end of writing: a tick in hand stays unsent.
LEMMA StopWritingKeeps ==
  ASSUME IInv, StopWriting
  PROVE  IInv'
<1>1. /\ Types /\ Inbox /\ Ending /\ bot = "writing" /\ bot' = "draining" /\ writing' = FALSE
      /\ UNCHANGED <<ticks, sent, inf, overlap, acked, fills, frames, pending, botEvtCh, inbox,
                     theirs, reference, events, finished, cut>>
  BY DEF IInv, StopWriting, reader, correlator
<1>2. worked' = worked /\ Pipe' = Pipe
  BY <1>1 DEF worked, Pipe
<1>3. Types'
  BY <1>1 DEF Types, IsSeq
<1>4. Inbox' /\ Ending'
  BY <1>1, <1>2 DEF Inbox, Ending
<1> QED BY <1>1, <1>2, <1>3, <1>4, QuietStep

\* Closing the connection: cut remembers whether anything was unread.
LEMMA StopKeeps ==
  ASSUME IInv, Stop
  PROVE  IInv'
<1>1. /\ Types /\ Inbox /\ Ending /\ bot = "draining" /\ bot' = "stopped"
      /\ cut' = (inbox # <<>> \/ frames # <<>>)
      /\ UNCHANGED <<ticks, writing, sent, inf, overlap, acked, fills, frames, pending, botEvtCh,
                     inbox, theirs, reference, events, finished>>
  BY DEF IInv, Stop, writer, reader, correlator
<1>2. worked' = worked /\ Pipe' = Pipe
  BY <1>1 DEF worked, Pipe
<1>3. Types'
  BY <1>1 DEF Types, IsSeq
<1>4. Inbox' /\ Ending'
  BY <1>1, <1>2 DEF Inbox, Ending
<1> QED BY <1>1, <1>2, <1>3, <1>4, QuietStep

\* Sending an event: it stays in the pipe.
LEMMA SendEventKeeps ==
  ASSUME IInv, SendEvent
  PROVE  IInv'
<1>1. /\ Types /\ Inbox /\ Ending /\ pending # <<>>
      /\ botEvtCh' = botEvtCh \o pending /\ pending' = <<>>
      /\ UNCHANGED <<ticks, writing, sent, inf, overlap, acked, fills, frames, inbox, theirs, bot,
                     reference, events, finished, cut>>
  BY DEF IInv, SendEvent, writer, correlator
<1>2. IsSeq(botEvtCh') /\ IsSeq(pending') /\ botEvtCh' \o pending' = botEvtCh \o pending
  <2>1. IsSeq(botEvtCh \o pending)
    BY <1>1, SeqJoin DEF Types
  <2>2. IsSeq(<<>>)
    <3>1. <<>> \in Seq({})
      OBVIOUS
    <3> QED BY <3>1, SeqOfIsSeq
  <2> QED BY <1>1, <2>1, <2>2, SeqJoin
<1>3. worked' = worked /\ Pipe' = Pipe
  BY <1>1, <1>2 DEF worked, Pipe
<1>4. Types'
  BY <1>1, <1>2 DEF Types, IsSeq
<1>5. Inbox' /\ Ending'
  BY <1>1, <1>3 DEF Inbox, Ending
<1> QED BY <1>1, <1>3, <1>4, <1>5, QuietStep

\* The end of the correlator: the pipe is empty.
LEMMA FinishKeeps ==
  ASSUME IInv, Finish
  PROVE  IInv'
<1>1. /\ Types /\ Inbox /\ Ending /\ finished' = TRUE
      /\ bot = "stopped" /\ pending = <<>> /\ botEvtCh = <<>>
      /\ UNCHANGED <<ticks, writing, sent, inf, overlap, acked, fills, frames, pending, botEvtCh,
                     inbox, theirs, bot, reference, events, cut>>
  BY DEF IInv, Finish, Closed, writer, reader
<1>2. worked' = worked /\ Pipe' = Pipe
  BY <1>1 DEF worked, Pipe
<1>3. Types'
  BY <1>1 DEF Types, IsSeq
<1>4. Inbox' /\ Ending'
  BY <1>1, <1>2 DEF Inbox, Ending
<1> QED BY <1>1, <1>2, <1>3, <1>4, QuietStep

\* Storing a tick: it is the newest in flight.
LEMMA StoreKeeps ==
  ASSUME IInv, NEW t \in Tick, Store(t)
  PROVE  IInv'
<1>1. /\ Types /\ Inbox /\ Ending /\ bot = "writing" /\ ~writing
      /\ inf' = Put(inf, t.id, Len(ticks) + 1) /\ ticks' = Append(ticks, t)
      /\ writing' = TRUE /\ overlap' = (overlap \/ t.id \in DOMAIN inf)
      /\ UNCHANGED <<sent, acked, fills, frames, pending, botEvtCh, inbox, theirs, bot,
                     reference, events, finished, cut>>
  BY DEF IInv, Store, Stored, reader, correlator
<1>2. PICK r, own, B : AtTheBot(r, own, B) /\ Reported(r, B)
  BY DEF IInv
<1>3. /\ Len(ticks) \in Nat /\ DOMAIN ticks = 1..Len(ticks) /\ r \in Nat /\ r <= worked
      /\ worked \in Nat /\ worked <= sent /\ sent \in Nat /\ Len(ticks) = sent
      /\ Len(inbox) \in Nat
  <2>1. Line(r, own)
    BY <1>2 DEF AtTheBot
  <2>2. Len(ticks) = sent + 0 /\ sent \in Nat
    BY <1>1 DEF Inbox, Types
  <2> QED BY <1>1, <2>1, <2>2, Numbers
<1>4. t \in TickSet
  <2>1. \A i \in DOMAIN ticks : i \in Int
    BY <1>3
  <2>2. Cancellable \subseteq Int
    BY <1>3, <2>1 DEF Cancellable
  <2>3. CASE t \in [type : {"ADD"}, id : {Len(ticks) + 1}, side : {"B", "S"}]
    BY <1>3, <2>3 DEF TickSet
  <2>4. CASE t \in [type : {"CAN"}, id : Cancellable, side : {"-"}]
    BY <2>2, <2>4 DEF TickSet
  <2> QED BY <2>3, <2>4 DEF Tick
<1>5. /\ ticks' \in Seq(TickSet) /\ Len(ticks') = Len(ticks) + 1
      /\ \A i \in 1..Len(ticks) : ticks'[i] = ticks[i]
      /\ ticks'[Len(ticks) + 1] = t
  BY <1>1, <1>4, AppendProperties DEF Types
<1>6. worked' = worked /\ Pipe' = Pipe
  BY <1>1 DEF worked, Pipe
<1>7. Types'
  <2>1. overlap' \in BOOLEAN
    BY <1>1, Zenon DEF Types
  <2> QED BY <1>1, <1>5, <2>1 DEF Types, IsSeq
<1>8. Ending'
  BY <1>1 DEF Ending
<1>9. Inbox'
  <2>1. \A i \in 1..Len(inbox) : worked + i \in 1..Len(ticks)
    BY <1>3 DEF worked
  <2>2. \A i \in 1..Len(inbox') : inbox'[i] = ticks'[worked + i]
    BY <1>1, <1>5, <2>1 DEF Inbox
  <2>3. sent' <= Len(ticks') /\ Len(inbox') <= sent'
    BY <1>1, <1>3, <1>5 DEF Inbox
  <2>4. Len(ticks') = sent' + 1 /\ bot' = "writing" /\ writing' = TRUE
    BY <1>1, <1>3, <1>5
  <2> QED BY <1>6, <2>2, <2>3, <2>4 DEF Inbox
<1>10. AtTheBot(r, own, B)'
  BY <1>1, <1>2, <1>5, <1>6, LineKept
<1>11. Len(Pipe) \in Nat /\ Len(events) \in Nat
  BY <1>1, PipeFacts
<1>12. /\ DOMAIN inf' = DOMAIN inf \cup {t.id}
       /\ inf'[t.id] = Len(ticks) + 1
       /\ \A id \in DOMAIN inf : id # t.id => inf'[id] = inf[id]
  BY <1>1 DEF Put
<1>13. Once'
  <2>0. Once
    BY <1>2 DEF Reported
  <2>1. /\ \A id \in DOMAIN inf' : \/ id = t.id /\ inf'[id] = Len(ticks) + 1
                                   \/ id \in DOMAIN inf /\ inf'[id] = inf[id]
                                      /\ inf[id] \in 1..Len(ticks) /\ id # t.id
    BY <1>12, <2>0 DEF Once
  <2>2. \A id \in DOMAIN inf' : inf'[id] \in 1..Len(ticks')
    BY <1>3, <1>5, <2>1
  <2>3. \A id, jd \in DOMAIN inf' : inf'[id] = inf'[jd] => id = jd
    BY <1>3, <2>0, <2>1 DEF Once
  <2>4. /\ \A k \in 1..Len(Pipe) : Pipe[k].tick \in 1..Len(ticks')
        /\ \A k \in 1..Len(events) : events[k].tick \in 1..Len(ticks')
    <3>1. \A k : k \in 1..Len(ticks) => k \in 1..Len(ticks')
      BY <1>3, <1>5
    <3> QED BY <2>0, <3>1 DEF Once
  <2>5. /\ \A k \in 1..Len(Pipe), id \in DOMAIN inf' : Pipe[k].tick # inf'[id]
        /\ \A k \in 1..Len(events), id \in DOMAIN inf' : events[k].tick # inf'[id]
    BY <1>3, <2>0, <2>1 DEF Once
  <2> QED BY <1>1, <1>6, <2>0, <2>2, <2>3, <2>4, <2>5 DEF Once
<1>14. Counts(r)'
  BY <1>1, <1>2, <1>6 DEF Reported, Counts
<1>15. InOrder(r, B)'
  <2>1. SUFFICES ASSUME ~overlap' PROVE InOrder(r, B)'
    BY DEF InOrder
  <2>2. ~overlap /\ t.id \notin DOMAIN inf
    BY <1>1, <2>1
  <2>3. InOrder(r, B)
    BY <1>2 DEF Reported
  <2>4. \A j \in (r + 1)..Len(ticks') : ticks'[j].id \in DOMAIN inf' /\ inf'[ticks'[j].id] = j
    <3> SUFFICES ASSUME NEW j \in (r + 1)..Len(ticks')
                 PROVE  ticks'[j].id \in DOMAIN inf' /\ inf'[ticks'[j].id] = j
      OBVIOUS
    <3>1. CASE j = Len(ticks) + 1
      BY <1>5, <1>12, <3>1
    <3>2. CASE j # Len(ticks) + 1
      <4>1. j \in (r + 1)..Len(ticks) /\ ticks'[j] = ticks[j]
        BY <1>3, <1>5, <3>2
      <4>2. ticks[j].id \in DOMAIN inf /\ inf[ticks[j].id] = j
        BY <2>2, <2>3, <4>1 DEF InOrder
      <4> QED BY <1>12, <2>2, <4>1, <4>2
    <3> QED BY <3>1, <3>2
  <2>5. \A id \in DOMAIN inf' : inf'[id] \in (r + 1)..Len(ticks') /\ ticks'[inf'[id]].id = id
    <3> SUFFICES ASSUME NEW id \in DOMAIN inf'
                 PROVE  inf'[id] \in (r + 1)..Len(ticks') /\ ticks'[inf'[id]].id = id
      OBVIOUS
    <3>1. CASE id = t.id
      BY <1>3, <1>5, <1>12, <3>1
    <3>2. CASE id # t.id
      <4>1. id \in DOMAIN inf /\ inf'[id] = inf[id]
        BY <1>12, <3>2
      <4>2. inf[id] \in (r + 1)..Len(ticks) /\ ticks[inf[id]].id = id
        BY <2>2, <2>3, <4>1 DEF InOrder
      <4> QED BY <1>3, <1>5, <4>1, <4>2
    <3> QED BY <3>1, <3>2
  <2>6. /\ r = Len(events) + Len(Pipe) /\ reference = B[Len(events)] /\ AllCorrect
        /\ \A k \in 1..Len(Pipe) :
             /\ Pipe[k].tick = Len(events) + k
             /\ Pipe[k].makers = Makers(B[Len(events) + k - 1], ticks[Len(events) + k])
             /\ Pipe[k].reply = Reply(B[Len(events) + k - 1], ticks[Len(events) + k])
    BY <2>2, <2>3 DEF InOrder, Owed
  <2>7. \A k \in 1..Len(Pipe) : ticks'[Len(events) + k] = ticks[Len(events) + k]
    BY <1>3, <1>5, <1>11, <2>6
  <2>8. \A k \in 1..Len(Pipe') :
          /\ Pipe'[k].tick = Len(events') + k
          /\ Pipe'[k].makers = Makers(B[Len(events') + k - 1], ticks'[Len(events') + k])
          /\ Pipe'[k].reply = Reply(B[Len(events') + k - 1], ticks'[Len(events') + k])
    BY <1>1, <1>6, <2>6, <2>7
  <2>9. /\ r = Len(events') + Len(Pipe') /\ reference' = B[Len(events')]
        /\ AllCorrect'
    BY <1>1, <1>6, <2>6 DEF AllCorrect
  <2> QED BY <2>4, <2>5, <2>8, <2>9 DEF InOrder, Owed
<1> QED BY <1>7, <1>8, <1>9, <1>10, <1>13, <1>14, <1>15 DEF IInv, Reported

\* An order is filled by one maker at most, as all orders are for one unit.
LEMMA MakersShape ==
  ASSUME NEW b, NEW t
  PROVE  Makers(b, t) = <<>> \/ Makers(b, t) = <<Makers(b, t)[1]>>
BY DEF Makers

\* To a line of frames of the ticks own, an answer to t, the tick numbered w, is
\* added: a fill, if there is a maker, and the terminal response.
AnswerTo(own2, own, w, t) ==
  /\ IsSeq(frames') /\ Len(own2) = Len(frames')
  /\ \A i \in 1..Len(frames) : frames'[i] = frames[i] /\ own2[i] = own[i]
  /\ \/ /\ Len(frames') = Len(frames) + 1 /\ Makers(theirs, t) = <<>>
     \/ /\ Len(frames') = Len(frames) + 2 /\ own2[Len(frames) + 1] = w
        /\ frames'[Len(frames) + 1].type = "FILL" /\ frames'[Len(frames) + 1].id = t.id
        /\ Makers(theirs, t) = <<frames'[Len(frames) + 1].maker>>
  /\ own2[Len(frames')] = w
  /\ frames'[Len(frames')].type = Reply(theirs, t) /\ frames'[Len(frames')].id = t.id

\* What the contestant writes for a tick: a fill, if there is a maker, and the
\* terminal response, both of that tick.
LEMMA AnswerShape ==
  ASSUME Contestant, IsSeq(frames), NEW own \in Seq(Nat), Len(own) = Len(frames),
         NEW w \in Nat, NEW t, t = Head(inbox)
  PROVE  \E own2 \in Seq(Nat) : AnswerTo(own2, own, w, t)
<1> DEFINE m == Makers(theirs, t)
           Fill(maker) == [type |-> "FILL", id |-> t.id, maker |-> maker]
           term == [type |-> Reply(theirs, t), id |-> t.id, maker |-> 0]
           n == Len(frames)
<1>1. frames' = frames \o Append([i \in DOMAIN m |-> Fill(m[i])], term)
  BY DEF Contestant
<1>2. n \in Nat /\ IsSeq(own) /\ Len(own) = n
  BY SeqFacts, SeqOfIsSeq
<1>3. term.type = Reply(theirs, t) /\ term.id = t.id
  OBVIOUS
<1>4. CASE m = <<>>
  <2>1. [i \in DOMAIN m |-> Fill(m[i])] = <<>>
    BY <1>4
  <2>2. Append(<<>>, term) = <<term>>
    OBVIOUS
  <2> HIDE DEF m, Fill, term
  <2>3. frames' = Append(frames, term)
    BY <1>1, <2>1, <2>2, SeqJoinFew
  <2>4. Append(own, w) \in Seq(Nat)
    BY AppendProperties
  <2>5. /\ IsSeq(frames') /\ Len(frames') = n + 1
        /\ \A i \in 1..n : frames'[i] = frames[i]
        /\ frames'[n + 1] = term
    BY <2>3, SeqPut
  <2>6. /\ Len(Append(own, w)) = n + 1
        /\ \A i \in 1..n : Append(own, w)[i] = own[i]
        /\ Append(own, w)[n + 1] = w
    BY <1>2, SeqPut
  <2>7. PICK own2 : own2 = Append(own, w)
    OBVIOUS
  <2> HIDE DEF n
  <2>8. /\ own2 \in Seq(Nat) /\ Len(own2) = n + 1 /\ own2[n + 1] = w
        /\ \A i \in 1..n : own2[i] = own[i]
    BY <2>4, <2>6, <2>7
  <2> QED BY <1>3, <1>4, <2>5, <2>8 DEF m, n, AnswerTo
<1>5. CASE m = <<m[1]>>
  <2>1. PICK x : m = <<x>>
    BY <1>5
  <2>2. [i \in DOMAIN m |-> Fill(m[i])] = <<Fill(x)>>
    BY <2>1
  <2>3. Append(<<Fill(x)>>, term) = <<Fill(x), term>>
    <3>1. ASSUME NEW a, NEW b PROVE Append(<<a>>, b) = <<a, b>>
      <4>1. <<>> \in Seq({}) /\ <<a, b>> \in Seq({a, b}) /\ <<>> \in Seq({a, b})
            /\ Append(<<>>, a) = <<a>>
        OBVIOUS
      <4>2. <<>> \o <<a, b>> = Append(Append(<<>>, a), b)
        BY <4>1, SeqOfIsSeq, SeqJoinFew
      <4>3. <<>> \o <<a, b>> = <<a, b>>
        BY <4>1, ConcatEmptySeq
      <4> QED BY <4>1, <4>2, <4>3
    <3> HIDE DEF Fill, term
    <3> QED BY <3>1
  <2>4. Fill(x).type = "FILL" /\ Fill(x).id = t.id /\ Fill(x).maker = x
    OBVIOUS
  <2> HIDE DEF m, Fill, term
  <2>5. frames' = Append(Append(frames, Fill(x)), term)
    BY <1>1, <2>2, <2>3, SeqJoinFew
  <2>6. Append(own, w) \in Seq(Nat) /\ Append(Append(own, w), w) \in Seq(Nat)
    BY AppendProperties
  <2>7. /\ IsSeq(Append(frames, Fill(x))) /\ Len(Append(frames, Fill(x))) = n + 1
        /\ \A i \in 1..n : Append(frames, Fill(x))[i] = frames[i]
        /\ Append(frames, Fill(x))[n + 1] = Fill(x)
    BY SeqPut
  <2>8. /\ IsSeq(frames') /\ Len(frames') = n + 2
        /\ \A i \in 1..(n + 1) : frames'[i] = Append(frames, Fill(x))[i]
        /\ frames'[n + 2] = term
    <3>1. PICK g : g = Append(frames, Fill(x))
      OBVIOUS
    <3>2. /\ IsSeq(Append(g, term)) /\ Len(Append(g, term)) = Len(g) + 1
          /\ \A i \in 1..Len(g) : Append(g, term)[i] = g[i]
          /\ Append(g, term)[Len(g) + 1] = term
      BY <2>7, <3>1, SeqPut
    <3>3. Len(g) = n + 1 /\ Len(g) + 1 = n + 2
      BY <1>2, <2>7, <3>1
    <3> QED BY <2>5, <3>1, <3>2, <3>3
  <2>9. /\ Len(Append(own, w)) = n + 1
        /\ \A i \in 1..n : Append(own, w)[i] = own[i]
        /\ Append(own, w)[n + 1] = w
    BY <1>2, SeqPut
  <2>10. PICK own2 : own2 = Append(Append(own, w), w)
    OBVIOUS
  <2>11. /\ own2 \in Seq(Nat) /\ Len(own2) = n + 2 /\ own2[n + 2] = w
         /\ \A i \in 1..(n + 1) : own2[i] = Append(own, w)[i]
    <3>1. PICK g : g = Append(own, w)
      OBVIOUS
    <3>2. g \in Seq(Nat) /\ Len(g) = n + 1
      BY <2>6, <2>9, <3>1
    <3>3. /\ Len(Append(g, w)) = Len(g) + 1
          /\ \A i \in 1..Len(g) : Append(g, w)[i] = g[i]
          /\ Append(g, w)[Len(g) + 1] = w
      BY <3>2, SeqOfIsSeq, SeqPut
    <3> QED BY <1>2, <2>6, <2>10, <3>1, <3>2, <3>3
  <2>12. /\ \A i \in 1..n : frames'[i] = frames[i] /\ own2[i] = own[i]
         /\ frames'[n + 1] = Fill(x) /\ own2[n + 1] = w
    <3>1. n + 1 \in 1..(n + 1) /\ \A i \in 1..n : i \in 1..(n + 1)
      BY <1>2
    <3> HIDE DEF n
    <3>2. \A i \in 1..n : frames'[i] = frames[i]
      BY <2>7, <2>8, <3>1
    <3>3. \A i \in 1..n : own2[i] = own[i]
      BY <2>9, <2>11, <3>1
    <3> QED BY <2>7, <2>8, <2>9, <2>11, <3>1, <3>2, <3>3
  <2> HIDE DEF n
  <2> QED BY <1>3, <2>1, <2>4, <2>8, <2>11, <2>12 DEF m, n, AnswerTo
<1> QED BY <1>4, <1>5, MakersShape

\* Working a frame: the line grows at its end, and so does the history of books.
LEMMA ContestantKeeps ==
  ASSUME IInv, Contestant
  PROVE  IInv'
<1>1. /\ Types /\ Inbox /\ Ending /\ inbox # <<>> /\ inbox' = Tail(inbox)
      /\ theirs' = After(theirs, Head(inbox))
      /\ UNCHANGED <<ticks, writing, sent, inf, overlap, acked, fills, pending, botEvtCh, bot,
                     reference, events, finished, cut>>
  BY DEF IInv, Contestant, writer, correlator
<1>2. PICK r, own, B : AtTheBot(r, own, B) /\ Reported(r, B)
  BY DEF IInv
<1>3. Line(r, own) /\ Books(B) /\ Answers(own, B) /\ Kept(r, B)
  BY <1>2 DEF AtTheBot
<1>4. /\ Len(ticks) \in Nat /\ DOMAIN ticks = 1..Len(ticks)
      /\ Len(inbox) \in Nat /\ worked \in Nat /\ worked <= sent /\ sent \in Nat
      /\ sent <= Len(ticks) /\ Len(frames) \in Nat
      /\ r \in Nat /\ r <= worked
      /\ (frames # <<>> => Len(frames) > 0 /\ r + 1 <= worked /\ own[1] = r + 1)
  BY <1>1, <1>3, Numbers
<1>5. PICK w \in Nat : w = worked + 1
  BY <1>4
<1>5a. PICK t : t = Head(inbox)
  OBVIOUS
<1>6. /\ Len(inbox) \in Nat \ {0} /\ Len(Tail(inbox)) = Len(inbox) - 1 /\ t = inbox[1]
      /\ \A i \in 1..(Len(inbox) - 1) : Tail(inbox)[i] = inbox[i + 1]
      /\ Tail(inbox) \in Seq(TickSet)
  <2>1. IsSeq(inbox) /\ inbox \in Seq(TickSet)
    BY <1>1, SeqOfIsSeq DEF Types
  <2>2. Tail(inbox) \in Seq(TickSet)
    BY <1>1, <2>1, HeadTailProperties
  <2> QED BY <1>1, <1>5a, <2>1, <2>2, SeqTake
<1>7. t = ticks[w] /\ w <= sent /\ w <= Len(ticks) /\ worked' = w
  <2>1. \A i \in 1..Len(inbox) : inbox[i] = ticks[worked + i]
    BY <1>1 DEF Inbox
  <2>2. t = ticks[worked + 1]
    BY <1>6, <2>1
  <2>3. worked + Len(inbox) = sent /\ worked' = sent - Len(inbox')
    BY <1>1, <1>4 DEF worked
  <2> QED BY <1>1, <1>4, <1>5, <1>6, <2>2, <2>3
<1>8. Pipe' = Pipe
  BY <1>1 DEF Pipe
<1>9a. PICK own2 \in Seq(Nat) : AnswerTo(own2, own, w, t)
  <2>1. IsSeq(frames) /\ own \in Seq(Nat) /\ Len(own) = Len(frames)
    BY <1>1, <1>3 DEF Types, Line
  <2> QED BY <1>5a, <2>1, AnswerShape, Zenon
<1>9. /\ IsSeq(frames') /\ Len(own2) = Len(frames')
      /\ \A i \in 1..Len(frames) : frames'[i] = frames[i] /\ own2[i] = own[i]
      /\ \/ /\ Len(frames') = Len(frames) + 1 /\ Makers(theirs, t) = <<>>
         \/ /\ Len(frames') = Len(frames) + 2 /\ own2[Len(frames) + 1] = w
            /\ frames'[Len(frames) + 1].type = "FILL" /\ frames'[Len(frames) + 1].id = t.id
            /\ Makers(theirs, t) = <<frames'[Len(frames) + 1].maker>>
      /\ own2[Len(frames')] = w
      /\ frames'[Len(frames')].type = Reply(theirs, t) /\ frames'[Len(frames')].id = t.id
  BY <1>9a, Zenon DEF AnswerTo
<1>10. PICK n \in Nat, L \in Nat : n = Len(frames) /\ L = Len(frames')
  BY <1>4, <1>9, SeqFacts
<1>11. /\ L > 0 /\ L \in {n + 1, n + 2} /\ n + 1 \in 1..L /\ frames' # <<>>
       /\ \A i \in 1..n : i \in 1..L
       /\ \A i \in 1..L : i \in 1..n \/ i = L \/ (i = n + 1 /\ L = n + 2)
  BY <1>9, <1>10, SeqFacts
<1>12. IsFill(L)' = FALSE
  BY <1>9, <1>10 DEF IsFill, Reply
<1>13. /\ \A i \in 1..n : IsFill(i)' = IsFill(i) /\ frames'[i] = frames[i] /\ own2[i] = own[i]
       /\ L = n + 2 => IsFill(n + 1)'
  BY <1>9, <1>10, <1>11 DEF IsFill
<1>14. Line(r, own2)'
  <2>1. r \in 0..worked' /\ own2 \in Seq(Nat) /\ Len(own2) = Len(frames')
    BY <1>4, <1>5, <1>7, <1>9
  <2>2. own2[1] = r + 1
    <3>1. CASE n = 0
      <4>1. r = worked
        BY <1>1, <1>3, <1>10, <3>1, SeqFacts DEF Types, Line
      <4>2. own2[1] = w
        BY <1>9, <1>10, <1>11, <3>1
      <4> QED BY <1>5, <4>1, <4>2
    <3>2. CASE n # 0
      <4>1. own[1] = r + 1
        BY <1>1, <1>4, <1>10, <3>2, SeqFacts DEF Types
      <4> QED BY <1>13, <3>2, <4>1
    <3> QED BY <3>1, <3>2
  <2>3. own2[L] = w /\ ~IsFill(L)'
    BY <1>9, <1>10, <1>12
  <2>4. \A i \in 1..L : own2[i] \in (r + 1)..w
    <3>1. \A i \in 1..n : own[i] \in (r + 1)..w
      BY <1>3, <1>4, <1>5, <1>10 DEF Line
    <3>2. \A i \in 1..L : own2[i] = w \/ (i \in 1..n /\ own2[i] = own[i])
      BY <1>9, <1>10, <1>11
    <3>3. w \in (r + 1)..w
      BY <1>4, <1>5
    <3> QED BY <3>1, <3>2, <3>3, Zenon
  <2>5. \A i \in 1..(L - 1) : own2[i + 1] = IF IsFill(i)' THEN own2[i] ELSE own2[i] + 1
    <3> SUFFICES ASSUME NEW i \in 1..(L - 1)
                 PROVE  own2[i + 1] = IF IsFill(i)' THEN own2[i] ELSE own2[i] + 1
      OBVIOUS
    <3>1. CASE i < n
      <4>1. i \in 1..n /\ i + 1 \in 1..n /\ i \in 1..(n - 1)
        BY <3>1
      <4>2. own[i + 1] = IF IsFill(i) THEN own[i] ELSE own[i] + 1
        BY <1>3, <1>10, <4>1 DEF Line
      <4> QED BY <1>13, <4>1, <4>2
    <3>2. CASE i = n
      <4>1. n \in 1..n /\ frames # <<>>
        BY <1>1, <1>10, <3>2, SeqFacts DEF Types
      <4>2. own[n] = worked /\ ~IsFill(n)
        BY <1>3, <1>10, <4>1 DEF Line
      <4>3. own2[n + 1] = w
        BY <1>9, <1>10, <1>11
      <4> QED BY <1>5, <1>13, <3>2, <4>1, <4>2, <4>3
    <3>3. CASE i > n
      <4>1. i = n + 1 /\ L = n + 2
        BY <1>11, <3>3
      <4>2. own2[n + 1] = w /\ own2[n + 2] = w /\ IsFill(n + 1)'
        BY <1>9, <1>10, <1>13, <4>1
      <4> QED BY <4>1, <4>2
    <3> QED BY <3>1, <3>2, <3>3
  <2>6. \A i, j \in 1..L : i < j => own2[i] <= own2[j] /\ (IsFill(i)' \/ own2[i] < own2[j])
    <3> SUFFICES ASSUME NEW i \in 1..L, NEW j \in 1..L, i < j
                 PROVE  own2[i] <= own2[j] /\ (IsFill(i)' \/ own2[i] < own2[j])
      OBVIOUS
    <3>1. CASE j \in 1..n
      <4>1. i \in 1..n
        BY <3>1
      <4>2. own[i] <= own[j] /\ (IsFill(i) \/ own[i] < own[j])
        BY <1>3, <1>10, <3>1, <4>1 DEF Line
      <4> QED BY <1>13, <3>1, <4>1, <4>2
    <3>2. CASE j \notin 1..n /\ i \in 1..n
      <4>1. own2[j] = w
        BY <1>9, <1>10, <1>11, <3>2
      <4>2. own2[i] \in (r + 1)..worked
        BY <1>3, <1>10, <1>13, <3>2 DEF Line
      <4> QED BY <1>4, <1>5, <4>1, <4>2
    <3>3. CASE j \notin 1..n /\ i \notin 1..n
      <4>1. i = n + 1 /\ L = n + 2 /\ j = L
        BY <1>11, <3>3
      <4>2. IsFill(i)' /\ own2[i] = w /\ own2[j] = w
        BY <1>9, <1>10, <1>13, <4>1
      <4> QED BY <4>2
    <3> QED BY <3>1, <3>2, <3>3
  <2> QED BY <1>7, <1>10, <1>11, <2>1, <2>2, <2>3, <2>4, <2>5, <2>6 DEF Line
<1>15. PICK C : C = [k \in 0..w |-> IF k = w THEN After(theirs, t) ELSE B[k]]
  OBVIOUS
<1>16. C[w] = After(theirs, t) /\ \A k \in 0..worked : C[k] = B[k]
  BY <1>4, <1>5, <1>15
<1>17. Books(C)'
  <2>1. /\ B[0] = <<>> /\ B[worked] = theirs
        /\ \A k \in 1..worked : B[k] = After(B[k - 1], ticks[k])
    BY <1>3 DEF Books
  <2>2. \A k \in 1..w : C[k] = After(C[k - 1], ticks[k])
    <3> SUFFICES ASSUME NEW k \in 1..w PROVE C[k] = After(C[k - 1], ticks[k])
      OBVIOUS
    <3>1. CASE k = w
      <4>1. C[k - 1] = theirs
        BY <1>4, <1>5, <1>16, <2>1, <3>1
      <4> QED BY <1>7, <1>16, <3>1, <4>1
    <3>2. CASE k # w
      <4>1. k \in 1..worked /\ k \in 0..worked /\ k - 1 \in 0..worked
        BY <1>4, <1>5, <3>2
      <4> QED BY <1>16, <2>1, <4>1
    <3> QED BY <3>1, <3>2
  <2>3. C[0] = <<>>
    BY <1>4, <1>16, <2>1
  <2>4. C[w] = theirs'
    BY <1>1, <1>5a, <1>16
  <2> QED BY <1>1, <1>7, <2>2, <2>3, <2>4 DEF Books
<1>18. /\ C[w - 1] = theirs /\ Makers(C[w - 1], ticks[w]) = Makers(theirs, t)
       /\ Reply(C[w - 1], ticks[w]) = Reply(theirs, t)
       /\ \A k \in 1..worked : C[k - 1] = B[k - 1]
  <2>1. w - 1 = worked /\ worked \in 0..worked /\ B[worked] = theirs
    BY <1>3, <1>4, <1>5 DEF Books
  <2>2. C[w - 1] = theirs
    BY <1>16, <2>1
  <2>3. \A k \in 1..worked : k - 1 \in 0..worked
    BY <1>4
  <2> QED BY <1>7, <1>16, <2>2, <2>3
<1>19. Answers(own2, C)'
  <2> SUFFICES ASSUME NEW i \in 1..L
               PROVE  /\ frames'[i].id = ticks[own2[i]].id
                      /\ IsFill(i)' =>
                           /\ Makers(C[own2[i] - 1], ticks[own2[i]]) = <<frames'[i].maker>>
                           /\ i < L /\ ~IsFill(i + 1)'
                      /\ ~IsFill(i)' =>
                           /\ frames'[i].type = Reply(C[own2[i] - 1], ticks[own2[i]])
                           /\ (i > 1 /\ ~IsFill(i - 1)') =>
                                Makers(C[own2[i] - 1], ticks[own2[i]]) = <<>>
    BY <1>1, <1>10 DEF Answers, Owed
  <2>1. CASE i \in 1..n
    <3>1. /\ frames[i].id = ticks[own[i]].id
          /\ IsFill(i) => /\ Makers(B[own[i] - 1], ticks[own[i]]) = <<frames[i].maker>>
                          /\ i < n /\ ~IsFill(i + 1)
          /\ ~IsFill(i) => /\ frames[i].type = Reply(B[own[i] - 1], ticks[own[i]])
                           /\ (i > 1 /\ ~IsFill(i - 1)) =>
                                Makers(B[own[i] - 1], ticks[own[i]]) = <<>>
      BY <1>3, <1>10, <2>1 DEF Answers, Owed
    <3>2. own[i] \in 1..worked
      BY <1>3, <1>4, <1>10, <2>1 DEF Line
    <3>3. C[own[i] - 1] = B[own[i] - 1]
      BY <1>18, <3>2
    <3>4. frames'[i] = frames[i] /\ own2[i] = own[i] /\ IsFill(i)' = IsFill(i)
      BY <1>13, <2>1
    <3>5. i < n => IsFill(i + 1)' = IsFill(i + 1)
      <4>1. i < n => i + 1 \in 1..n
        BY <2>1
      <4> QED BY <1>13, <4>1
    <3>6. i > 1 => IsFill(i - 1)' = IsFill(i - 1)
      <4>1. i > 1 => i - 1 \in 1..n
        BY <2>1
      <4> QED BY <1>13, <4>1
    <3>7. i < n => i < L
      BY <1>11
    <3> QED BY <3>1, <3>3, <3>4, <3>5, <3>6, <3>7
  <2>2. CASE i = L
    <3>1. /\ own2[i] = w /\ frames'[i].type = Reply(theirs, t) /\ frames'[i].id = t.id
          /\ ~IsFill(i)'
      BY <1>9, <1>10, <1>12, <2>2
    <3>2. (i > 1 /\ ~IsFill(i - 1)') => Makers(theirs, t) = <<>>
      <4>1. CASE L = n + 1
        BY <1>9, <1>10, <4>1
      <4>2. CASE L = n + 2
        <5>1. i - 1 = n + 1
          BY <2>2, <4>2
        <5> QED BY <1>13, <4>2, <5>1
      <4> QED BY <1>11, <4>1, <4>2
    <3> QED BY <1>7, <1>18, <3>1, <3>2
  <2>3. CASE i = n + 1 /\ L = n + 2
    <3>1. /\ own2[i] = w /\ frames'[i].id = t.id /\ IsFill(i)'
          /\ Makers(theirs, t) = <<frames'[i].maker>>
      BY <1>9, <1>10, <1>13, <2>3
    <3>2. i < L /\ i + 1 = L
      BY <2>3
    <3> QED BY <1>7, <1>12, <1>18, <3>1, <3>2
  <2> QED BY <1>11, <2>1, <2>2, <2>3
<1>20. Kept(r, C)'
  <2>2. CASE frames # <<>>
    <3>1. 1 \in 1..n /\ r + 1 \in 1..worked
      BY <1>4, <1>10, <2>2
    <3>2. IsFill(1)' = IsFill(1)
      BY <1>13, <3>1
    <3>3. Owed(C, r + 1)' = Owed(B, r + 1)
      <4>1. (r + 1) - 1 = r /\ C[r] = B[r]
        BY <1>4, <1>16
      <4>2. Owed(C, r + 1)' = Makers(C[(r + 1) - 1], ticks[r + 1])
        BY <1>1 DEF Owed
      <4>3. Owed(B, r + 1) = Makers(B[(r + 1) - 1], ticks[r + 1])
        BY DEF Owed
      <4> QED BY <4>1, <4>2, <4>3
    <3>4. IF IsFill(1) THEN DOMAIN fills = {}
          ELSE /\ DOMAIN fills \subseteq {ticks[r + 1].id}
               /\ FillsOf(ticks[r + 1].id) = Owed(B, r + 1)
      BY <1>3, <2>2, Zenon DEF Kept
    <3>5. FillsOf(ticks[r + 1].id)' = FillsOf(ticks[r + 1].id)
      BY <1>1 DEF FillsOf
    <3>6. ticks' = ticks /\ fills' = fills /\ frames' # <<>>
      BY <1>1, <1>11
    <3> QED BY <3>2, <3>3, <3>4, <3>5, <3>6, Zenon DEF Kept
  <2>3. CASE frames = <<>>
    <3>1. n = 0 /\ r = worked /\ DOMAIN fills = {}
      BY <1>1, <1>3, <1>10, <2>3, SeqFacts DEF Types, Line, Kept
    <3>2. r + 1 = w /\ (~IsFill(1)' => Makers(theirs, t) = <<>>)
      BY <1>5, <1>9, <1>10, <1>11, <1>13, <3>1
    <3>4. Owed(C, r + 1)' = Makers(theirs, t)
      BY <1>1, <1>18, <3>2 DEF Owed
    <3>5. FillsOf(ticks[r + 1].id)' = <<>>
      BY <1>1, <3>1 DEF FillsOf
    <3>6. ticks' = ticks /\ fills' = fills /\ frames' # <<>>
      BY <1>1, <1>11
    <3>7. DOMAIN fills' = {} /\ (~IsFill(1)' => FillsOf(ticks[r + 1].id)' = Owed(C, r + 1)')
      BY <3>1, <3>2, <3>4, <3>5, <3>6
    <3> QED BY <3>6, <3>7 DEF Kept
  <2> QED BY <2>2, <2>3
<1>21. Reported(r, C)'
  <2>1. \A k \in 0..r : C[k] = B[k]
    BY <1>4, <1>16
  <2> QED BY <1>1, <1>2, <1>4, <1>8, <2>1, ReportsKept
<1>22. Types'
  BY <1>1, <1>6, <1>9 DEF Types, IsSeq
<1>23. Inbox'
  <2>1. \A i \in 1..Len(inbox) : inbox[i] = ticks[worked + i]
    BY <1>1 DEF Inbox
  <2>2. \A i \in 1..Len(inbox') : inbox'[i] = ticks[w + i]
    <3> SUFFICES ASSUME NEW i \in 1..Len(inbox') PROVE inbox'[i] = ticks[w + i]
      OBVIOUS
    <3>1. i \in 1..(Len(inbox) - 1) /\ i + 1 \in 1..Len(inbox) /\ worked + (i + 1) = w + i
      BY <1>1, <1>4, <1>5, <1>6
    <3> QED BY <1>1, <1>6, <2>1, <3>1
  <2>3. Len(inbox') <= sent
    <3>1. Len(inbox) <= sent
      BY <1>1 DEF Inbox
    <3> QED BY <1>1, <1>4, <1>6, <3>1
  <2> QED BY <1>1, <1>7, <2>2, <2>3 DEF Inbox
<1>24. Ending'
  BY <1>1 DEF Ending
<1> QED BY <1>14, <1>17, <1>19, <1>20, <1>21, <1>22, <1>23, <1>24 DEF IInv, AtTheBot

\* Where the line is once its first frame is read: a tick is read with its
\* terminal response.
Behind(r) == IF IsFill(1) THEN r ELSE r + 1

\* The line without its first frame.
Shorter(q, own2, B) == Line(q, own2)' /\ Books(B)' /\ Answers(own2, B)'

\* Reading a frame takes it from the line.
LEMMA LineRead ==
  ASSUME Types, Inbox, NEW r, NEW own, NEW B, AtTheBot(r, own, B),
         frames # <<>>, frames' = Tail(frames), worked' = worked,
         UNCHANGED <<ticks, theirs>>,
         NEW q, q = Behind(r), NEW own2, own2 = Tail(own)
  PROVE  Shorter(q, own2, B)
<1>1. Line(r, own) /\ Books(B) /\ Answers(own, B)
  BY DEF AtTheBot
<1>2. /\ worked \in Nat /\ r \in Nat /\ r + 1 <= worked /\ own[1] = r + 1
      /\ Len(frames) > 0
  BY <1>1, Numbers
<1>3. PICK n : n = Len(frames)
  OBVIOUS
<1>4. /\ n \in Nat \ {0} /\ IsSeq(frames') /\ Len(frames') = n - 1
      /\ \A i \in 1..(n - 1) : frames'[i] = frames[i + 1]
  BY <1>3, SeqTake DEF Types
<1>5. /\ own2 \in Seq(Nat) /\ Len(own2) = n - 1
      /\ \A i \in 1..(n - 1) : own2[i] = own[i + 1]
  <2>1. own \in Seq(Nat) /\ Len(own) = n /\ own # <<>>
    BY <1>1, <1>3, <1>4, EmptySeq DEF Line
  <2>2. Tail(own) \in Seq(Nat)
    BY <2>1, HeadTailProperties
  <2>3. IsSeq(own)
    BY <2>1, SeqOfIsSeq
  <2> QED BY <2>1, <2>2, <2>3, SeqTake
<1>6. /\ \A i \in 1..(n - 1) : i + 1 \in 1..n /\ (IsFill(i)' <=> IsFill(i + 1))
  BY <1>4 DEF IsFill
<1>7. /\ own[n] = worked /\ ~IsFill(n)
      /\ \A i \in 1..n : own[i] \in (r + 1)..worked
      /\ \A i \in 1..(n - 1) : own[i + 1] = IF IsFill(i) THEN own[i] ELSE own[i] + 1
      /\ \A i, j \in 1..n : i < j => own[i] <= own[j] /\ (IsFill(i) \/ own[i] < own[j])
  BY <1>1, <1>3 DEF Line
<1>8. q \in Nat /\ (IsFill(1) => q = r) /\ (~IsFill(1) => q = r + 1)
  BY <1>2 DEF Behind
<1>9. Line(q, own2)'
  <2>1. q \in 0..worked
    BY <1>2, <1>8
  <2>2. n = 1 => q = worked
    BY <1>2, <1>7, <1>8
  <2>3. n # 1 => own2[1] = q + 1 /\ own2[n - 1] = worked /\ ~IsFill(n - 1)'
    <3> SUFFICES ASSUME n # 1 PROVE own2[1] = q + 1 /\ own2[n - 1] = worked /\ ~IsFill(n - 1)'
      OBVIOUS
    <3>1. 1 \in 1..(n - 1) /\ n - 1 \in 1..(n - 1) /\ 1 + 1 = 2 /\ (n - 1) + 1 = n
      BY <1>4
    <3>2. own2[1] = own[2] /\ own2[n - 1] = own[n]
      BY <1>5, <3>1
    <3>3. own[2] = IF IsFill(1) THEN own[1] ELSE own[1] + 1
      BY <1>7, <3>1
    <3>4. IsFill(n - 1)' <=> IsFill(n)
      BY <1>6, <3>1
    <3> QED BY <1>2, <1>7, <1>8, <3>2, <3>3, <3>4
  <2>4. \A i \in 1..(n - 1) : own2[i] \in (q + 1)..worked
    <3> SUFFICES ASSUME NEW i \in 1..(n - 1) PROVE own2[i] \in (q + 1)..worked
      OBVIOUS
    <3>1. own2[i] = own[i + 1] /\ own[i + 1] \in (r + 1)..worked
      BY <1>5, <1>6, <1>7
    <3>2. 1 \in 1..n /\ i + 1 \in 1..n /\ 1 < i + 1
      BY <1>4
    <3>3. own[1] <= own[i + 1] /\ (IsFill(1) \/ own[1] < own[i + 1])
      BY <1>7, <3>2
    <3>4. q < own[i + 1]
      <4>1. CASE IsFill(1)
        BY <1>2, <1>8, <3>1, <4>1
      <4>2. CASE ~IsFill(1)
        BY <1>2, <1>8, <3>1, <3>3, <4>2
      <4> QED BY <4>1, <4>2
    <3>5. \A a, b, x : a \in Nat /\ b \in Nat /\ x \in (r + 1)..b /\ a < x => x \in (a + 1)..b
      BY <1>2
    <3>6. q \in Nat /\ worked \in Nat
      BY <1>2, <1>8
    <3> QED BY <3>1, <3>4, <3>5, <3>6, Zenon
  <2>5. \A i \in 1..((n - 1) - 1) : own2[i + 1] = IF IsFill(i)' THEN own2[i] ELSE own2[i] + 1
    <3> SUFFICES ASSUME NEW i \in 1..((n - 1) - 1)
                 PROVE  own2[i + 1] = IF IsFill(i)' THEN own2[i] ELSE own2[i] + 1
      OBVIOUS
    <3>1. i \in 1..(n - 1) /\ i + 1 \in 1..(n - 1)
      BY <1>4
    <3>2. own[(i + 1) + 1] = IF IsFill(i + 1) THEN own[i + 1] ELSE own[i + 1] + 1
      BY <1>7, <3>1
    <3>3. own2[i] = own[i + 1] /\ own2[i + 1] = own[(i + 1) + 1] /\ (IsFill(i)' <=> IsFill(i + 1))
      BY <1>5, <1>6, <3>1
    <3> QED BY <3>2, <3>3
  <2>6. \A i, j \in 1..(n - 1) : i < j => own2[i] <= own2[j] /\ (IsFill(i)' \/ own2[i] < own2[j])
    <3> SUFFICES ASSUME NEW i \in 1..(n - 1), NEW j \in 1..(n - 1), i < j
                 PROVE  own2[i] <= own2[j] /\ (IsFill(i)' \/ own2[i] < own2[j])
      OBVIOUS
    <3>1. i + 1 \in 1..n /\ j + 1 \in 1..n /\ i + 1 < j + 1
      BY <1>4
    <3>2. own[i + 1] <= own[j + 1] /\ (IsFill(i + 1) \/ own[i + 1] < own[j + 1])
      BY <1>7, <3>1
    <3> QED BY <1>5, <1>6, <3>2
  <2>7. frames' = <<>> <=> n = 1
    BY <1>4, SeqFacts
  <2> QED BY <1>4, <1>5, <2>1, <2>2, <2>3, <2>4, <2>5, <2>6, <2>7 DEF Line
<1>10. Books(B)'
  BY <1>1 DEF Books
<1>11. Answers(own2, B)'
  <2>0. \A k : Owed(B, k)' = Owed(B, k)
    BY DEF Owed
  <2> SUFFICES ASSUME NEW i \in 1..(n - 1)
               PROVE  /\ frames'[i].id = ticks[own2[i]].id
                      /\ IsFill(i)' => /\ Owed(B, own2[i]) = <<frames'[i].maker>>
                                       /\ i < n - 1 /\ ~IsFill(i + 1)'
                      /\ ~IsFill(i)' =>
                           /\ frames'[i].type = Reply(B[own2[i] - 1], ticks[own2[i]])
                           /\ (i > 1 /\ ~IsFill(i - 1)') => Owed(B, own2[i]) = <<>>
    BY <1>4, <2>0 DEF Answers
  <2>1. PICK j \in 1..n : j = i + 1
    BY <1>6
  <2>2. /\ frames[j].id = ticks[own[j]].id
        /\ IsFill(j) => /\ Owed(B, own[j]) = <<frames[j].maker>>
                        /\ j < n /\ ~IsFill(j + 1)
        /\ ~IsFill(j) => /\ frames[j].type = Reply(B[own[j] - 1], ticks[own[j]])
                         /\ (j > 1 /\ ~IsFill(j - 1)) => Owed(B, own[j]) = <<>>
    BY <1>1, <1>3 DEF Answers
  <2>3. frames'[i] = frames[j] /\ own2[i] = own[j] /\ (IsFill(i)' <=> IsFill(j))
    BY <1>4, <1>5, <1>6, <2>1
  <2>4. j < n => i < n - 1 /\ (IsFill(i + 1)' <=> IsFill(j + 1))
    <3>1. j < n => i + 1 \in 1..(n - 1)
      BY <1>4, <2>1
    <3> QED BY <1>4, <1>6, <2>1, <3>1
  <2>5. i > 1 => j > 1 /\ (IsFill(i - 1)' <=> IsFill(j - 1))
    <3>1. i > 1 => i - 1 \in 1..(n - 1) /\ (i - 1) + 1 = j - 1 /\ j > 1
      BY <1>4, <2>1
    <3> QED BY <1>6, <3>1
  <2> QED BY <2>2, <2>3, <2>4, <2>5
<1> QED BY <1>9, <1>10, <1>11 DEF Shorter

\* Reading a fill: it is kept for the terminal response, the next frame.
LEMMA ReadFillKeeps ==
  ASSUME IInv, ReadFill
  PROVE  IInv'
<1>1. /\ Types /\ Inbox /\ Ending /\ frames # <<>> /\ Head(frames).type = "FILL"
      /\ bot # "stopped" /\ frames' = Tail(frames)
      /\ fills' = Put(fills, Head(frames).id, Append(FillsOf(Head(frames).id), Head(frames).maker))
      /\ UNCHANGED <<ticks, writing, sent, inf, overlap, acked, pending, botEvtCh, inbox, theirs,
                     bot, reference, events, finished, cut>>
  BY DEF IInv, ReadFill, CanRead, writer, correlator
<1>2. PICK r, own, B : AtTheBot(r, own, B) /\ Reported(r, B)
  BY DEF IInv
<1>3. Line(r, own) /\ Answers(own, B) /\ Kept(r, B)
  BY <1>2 DEF AtTheBot
<1>4. r \in Nat /\ Len(frames) \in Nat /\ Len(frames) > 0 /\ own[1] = r + 1
  BY <1>1, <1>3, Numbers
<1>5. worked' = worked /\ Pipe' = Pipe
  BY <1>1 DEF worked, Pipe
<1>6. /\ IsSeq(frames') /\ Head(frames) = frames[1] /\ Len(frames') = Len(frames) - 1
      /\ \A i \in 1..(Len(frames) - 1) : frames'[i] = frames[i + 1]
  BY <1>1, SeqTake DEF Types
<1>7. IsFill(1) /\ Behind(r) = r
  BY <1>1, <1>6 DEF IsFill, Behind
<1>8. PICK own2 : own2 = Tail(own)
  OBVIOUS
<1>9. Shorter(r, own2, B)
  BY <1>1, <1>2, <1>5, <1>7, <1>8, LineRead
<1>10. /\ frames[1].id = ticks[r + 1].id /\ Owed(B, r + 1) = <<frames[1].maker>>
       /\ 1 < Len(frames) /\ ~IsFill(1 + 1)
  BY <1>3, <1>4, <1>7 DEF Answers
<1>11. DOMAIN fills = {} /\ FillsOf(ticks[r + 1].id) = <<>>
  BY <1>1, <1>3, <1>7 DEF Kept, FillsOf
<1>12. Kept(r, B)'
  <2>1. frames' # <<>> /\ ~IsFill(1)'
    BY <1>4, <1>6, <1>10, SeqFacts DEF IsFill
  <2>2. fills' = Put(fills, ticks[r + 1].id, Owed(B, r + 1))
    <3>1. Append(<<>>, frames[1].maker) = <<frames[1].maker>>
      OBVIOUS
    <3> QED BY <1>1, <1>6, <1>10, <1>11, <3>1
  <2>3. /\ DOMAIN fills' = {ticks[r + 1].id}
        /\ fills'[ticks[r + 1].id] = Owed(B, r + 1)
    BY <1>11, <2>2 DEF Put
  <2>4. FillsOf(ticks[r + 1].id)' = Owed(B, r + 1)
    BY <1>1, <2>3 DEF FillsOf
  <2>5. Owed(B, r + 1)' = Owed(B, r + 1)
    BY <1>1 DEF Owed
  <2> QED BY <1>1, <2>1, <2>3, <2>4, <2>5 DEF Kept
<1>13. Reported(r, B)'
  BY <1>1, <1>2, <1>4, <1>5, ReportsKept
<1>14. Types'
  BY <1>1, <1>6 DEF Types, IsSeq
<1>15. Inbox' /\ Ending'
  BY <1>1, <1>5 DEF Inbox, Ending
<1> QED BY <1>9, <1>12, <1>13, <1>14, <1>15 DEF IInv, AtTheBot, Shorter

\* A terminal response at the head of the line is that of tick r + 1, and the
\* fills kept are those of the tick.
Terminal(r, B) ==
  /\ ~IsFill(1) /\ Head(frames) = frames[1]
  /\ frames[1].id = ticks[r + 1].id
  /\ frames[1].type = Reply(B[r], ticks[r + 1])
  /\ DOMAIN fills \subseteq {ticks[r + 1].id}
  /\ FillsOf(ticks[r + 1].id) = Owed(B, r + 1)

\* Reading a terminal response, whether or not it leads to an event.
LEMMA TerminalRead ==
  ASSUME Types, Inbox, Ending, NEW r, NEW own, NEW B, AtTheBot(r, own, B),
         frames # <<>>, Head(frames).type # "FILL", frames' = Tail(frames),
         fills' = Delete(fills, Head(frames).id),
         UNCHANGED <<ticks, sent, inbox, theirs>>
  PROVE  /\ Terminal(r, B) /\ IsSeq(frames')
         /\ \E own2 : AtTheBot(r + 1, own2, B)'
<1>1. Line(r, own) /\ Books(B) /\ Answers(own, B) /\ Kept(r, B)
  BY DEF AtTheBot
<1>2. r \in Nat /\ Len(frames) \in Nat /\ Len(frames) > 0 /\ own[1] = r + 1
  BY <1>1, Numbers
<1>3. worked' = worked
  BY DEF worked
<1>4. /\ IsSeq(frames') /\ Head(frames) = frames[1] /\ Len(frames') = Len(frames) - 1
      /\ \A i \in 1..(Len(frames) - 1) : frames'[i] = frames[i + 1]
  BY SeqTake DEF Types
<1>5. ~IsFill(1) /\ Behind(r) = r + 1
  BY <1>4 DEF IsFill, Behind
<1>6. PICK own2 : own2 = Tail(own)
  OBVIOUS
<1>7. Shorter(r + 1, own2, B)
  BY <1>3, <1>5, <1>6, LineRead
<1>8. frames[1].id = ticks[r + 1].id /\ frames[1].type = Reply(B[(r + 1) - 1], ticks[r + 1])
  <2>1. 1 \in 1..Len(frames)
    BY <1>2
  <2>2. frames[1].id = ticks[own[1]].id /\ frames[1].type = Reply(B[own[1] - 1], ticks[own[1]])
    BY <1>1, <1>5, <2>1 DEF Answers
  <2> QED BY <1>2, <2>2
<1>9. Terminal(r, B)
  <2>1. B[(r + 1) - 1] = B[r]
    BY <1>2
  <2>2. DOMAIN fills \subseteq {ticks[r + 1].id} /\ FillsOf(ticks[r + 1].id) = Owed(B, r + 1)
    BY <1>1, <1>5, Zenon DEF Kept
  <2> QED BY <1>4, <1>5, <1>8, <2>1, <2>2 DEF Terminal
<1>10. DOMAIN fills' = {}
  <2>1. fills' = Delete(fills, ticks[r + 1].id) /\ DOMAIN fills \subseteq {ticks[r + 1].id}
    BY <1>4, <1>8, <1>9 DEF Terminal
  <2> QED BY <2>1 DEF Delete
<1>11. Kept(r + 1, B)'
  <2>1. CASE frames' = <<>>
    BY <1>10, <2>1 DEF Kept
  <2>2. CASE frames' # <<>> /\ IsFill(1)'
    BY <1>10, <2>2 DEF Kept
  <2>3. CASE frames' # <<>> /\ ~IsFill(1)'
    <3>1. 2 \in 1..Len(frames) /\ 1 \in 1..(Len(frames) - 1)
      BY <1>2, <1>4, <2>3, SeqFacts
    <3>2. ~IsFill(2)
      BY <1>4, <2>3, <3>1 DEF IsFill
    <3>3. own[2] = (r + 1) + 1
      <4>1. own[1 + 1] = IF IsFill(1) THEN own[1] ELSE own[1] + 1
        BY <1>1, <3>1 DEF Line
      <4> QED BY <1>2, <1>5, <4>1
    <3>4. Owed(B, own[2]) = <<>>
      <4>1. 2 > 1 /\ ~IsFill(2 - 1)
        BY <1>5
      <4> QED BY <1>1, <3>1, <3>2, <4>1 DEF Answers
    <3>5. FillsOf(ticks[(r + 1) + 1].id)' = <<>>
      BY <1>10 DEF FillsOf
    <3>6. Owed(B, (r + 1) + 1)' = <<>>
      <4>1. Owed(B, (r + 1) + 1)' = Owed(B, (r + 1) + 1)
        BY DEF Owed
      <4> QED BY <3>3, <3>4, <4>1
    <3>7. DOMAIN fills' \subseteq {ticks'[(r + 1) + 1].id}
      BY <1>10
    <3> QED BY <2>3, <3>5, <3>6, <3>7, Zenon DEF Kept
  <2> QED BY <2>1, <2>2, <2>3
<1>12. AtTheBot(r + 1, own2, B)'
  BY <1>7, <1>11 DEF AtTheBot, Shorter
<1> QED BY <1>4, <1>9, <1>12

\* Reading the terminal response of a tick in flight makes an event of it.
LEMMA ReadTerminalKeeps ==
  ASSUME IInv, ReadTerminal
  PROVE  IInv'
<1>1. /\ Types /\ Inbox /\ Ending /\ pending = <<>> /\ frames # <<>>
      /\ Head(frames).type # "FILL" /\ Head(frames).id \in DOMAIN inf /\ bot # "stopped"
      /\ pending' = <<Bundle(Head(frames))>>
      /\ acked' = IF Head(frames).type = "ACK" THEN acked + 1 ELSE acked
      /\ inf' = Delete(inf, Head(frames).id)
      /\ fills' = Delete(fills, Head(frames).id) /\ frames' = Tail(frames)
      /\ UNCHANGED <<ticks, writing, sent, overlap, botEvtCh, inbox, theirs,
                     bot, reference, events, finished, cut>>
  BY DEF IInv, ReadTerminal, CanRead, Taken, writer, correlator
<1>2. PICK r, own, B : AtTheBot(r, own, B) /\ Reported(r, B)
  BY DEF IInv
<1>3. PICK id, e : id = ticks[r + 1].id /\ e = Bundle(Head(frames))
  OBVIOUS
<1>4. Terminal(r, B) /\ IsSeq(frames') /\ \E own2 : AtTheBot(r + 1, own2, B)'
  BY <1>1, <1>2, TerminalRead
<1>5. PICK own2 : AtTheBot(r + 1, own2, B)'
  BY <1>4
<1>6. /\ Len(ticks) \in Nat /\ r \in Nat /\ r + 1 <= Len(ticks)
  <2>1. Line(r, own)
    BY <1>2 DEF AtTheBot
  <2> QED BY <1>1, <2>1, Numbers
<1>7. /\ Head(frames).id = id /\ id \in DOMAIN inf
      /\ e.tick = inf[id] /\ e.makers = Owed(B, r + 1) /\ e.reply = Reply(B[r], ticks[r + 1])
  <2>1. /\ Head(frames) = frames[1] /\ frames[1].id = id
        /\ frames[1].type = Reply(B[r], ticks[r + 1]) /\ FillsOf(id) = Owed(B, r + 1)
    BY <1>3, <1>4 DEF Terminal
  <2>2. e = [tick |-> inf[id], makers |-> FillsOf(id), reply |-> frames[1].type]
    BY <1>3, <2>1 DEF Bundle
  <2> QED BY <1>1, <2>1, <2>2
<1>8. Len(Pipe) \in Nat /\ Len(events) \in Nat /\ IsSeq(Pipe) /\ Pipe = botEvtCh
  <2>1. botEvtCh \o <<>> = botEvtCh /\ IsSeq(botEvtCh)
    BY <1>1, SeqJoin DEF Types
  <2> QED BY <1>1, <2>1, PipeFacts DEF Pipe
<1>9. /\ Pipe' = Append(Pipe, e) /\ IsSeq(pending')
      /\ Len(Pipe') = Len(Pipe) + 1 /\ Pipe'[Len(Pipe) + 1] = e
      /\ \A k \in 1..Len(Pipe) : Pipe'[k] = Pipe[k]
  <2>1. Pipe' = botEvtCh \o <<e>>
    BY <1>1, <1>3 DEF Pipe
  <2>2. IsSeq(<<e>>) /\ botEvtCh \o <<e>> = Append(botEvtCh, e)
    BY <1>8, SeqJoinFew
  <2> QED BY <1>1, <1>3, <1>8, <2>1, <2>2, SeqPut
<1>10. /\ DOMAIN inf' = DOMAIN inf \ {id}
       /\ \A jd \in DOMAIN inf' : jd \in DOMAIN inf /\ jd # id /\ inf'[jd] = inf[jd]
  BY <1>1, <1>7 DEF Delete
<1>11. \A k \in 1..Len(Pipe') : k \in 1..Len(Pipe) \/ k = Len(Pipe) + 1
  BY <1>8, <1>9
<1>12. Once'
  <2>0. Once
    BY <1>2 DEF Reported
  <2>1. /\ \A jd \in DOMAIN inf' : inf'[jd] \in 1..Len(ticks)
        /\ \A jd, kd \in DOMAIN inf' : inf'[jd] = inf'[kd] => jd = kd
    BY <1>10, <2>0 DEF Once
  <2>2. /\ e.tick \in 1..Len(ticks)
        /\ \A jd \in DOMAIN inf' : e.tick # inf'[jd]
        /\ \A k \in 1..Len(events) : events[k].tick # e.tick
        /\ \A k \in 1..Len(Pipe) : Pipe[k].tick # e.tick
    BY <1>7, <1>10, <2>0 DEF Once
  <2>3. \A k \in 1..Len(Pipe') : \/ k \in 1..Len(Pipe) /\ Pipe'[k] = Pipe[k]
                                 \/ k = Len(Pipe) + 1 /\ Pipe'[k] = e
    BY <1>9, <1>11
  <2>4. \A k \in 1..Len(Pipe') : Pipe'[k].tick \in 1..Len(ticks)
    BY <2>0, <2>2, <2>3 DEF Once
  <2>5. \A k \in 1..Len(Pipe'), jd \in DOMAIN inf' : Pipe'[k].tick # inf'[jd]
    BY <1>10, <2>0, <2>2, <2>3 DEF Once
  <2>6. \A k \in 1..Len(events), l \in 1..Len(Pipe') : events[k].tick # Pipe'[l].tick
    BY <2>0, <2>2, <2>3 DEF Once
  <2>7. \A k, l \in 1..Len(Pipe') : Pipe'[k].tick = Pipe'[l].tick => k = l
    BY <2>0, <2>2, <2>3 DEF Once
  <2>8. /\ \A k \in 1..Len(events) : events[k].tick \in 1..Len(ticks)
        /\ \A k \in 1..Len(events), jd \in DOMAIN inf' : events[k].tick # inf'[jd]
        /\ \A k, l \in 1..Len(events) : events[k].tick = events[l].tick => k = l
    BY <1>10, <2>0 DEF Once
  <2> QED BY <1>1, <2>1, <2>4, <2>5, <2>6, <2>7, <2>8 DEF Once
<1>13. Counts(r + 1)'
  <2>1. acked <= Len(events) + Len(Pipe) /\ Len(events) + Len(Pipe) <= r
    BY <1>2 DEF Reported, Counts
  <2>2. acked \in Nat /\ (acked' = acked + 1 \/ acked' = acked)
    BY <1>1 DEF Types
  <2>3. events' = events
    BY <1>1
  <2> QED BY <1>6, <1>8, <1>9, <2>1, <2>2, <2>3 DEF Counts
<1>14. InOrder(r + 1, B)'
  <2>1. SUFFICES ASSUME ~overlap PROVE InOrder(r + 1, B)'
    BY <1>1 DEF InOrder
  <2>2. /\ \A j \in (r + 1)..Len(ticks) : ticks[j].id \in DOMAIN inf /\ inf[ticks[j].id] = j
        /\ \A jd \in DOMAIN inf : inf[jd] \in (r + 1)..Len(ticks) /\ ticks[inf[jd]].id = jd
        /\ r = Len(events) + Len(Pipe)
        /\ reference = B[Len(events)]
        /\ \A k \in 1..Len(Pipe) :
             /\ Pipe[k].tick = Len(events) + k
             /\ Pipe[k].makers = Owed(B, Len(events) + k)
             /\ Pipe[k].reply = Reply(B[Len(events) + k - 1], ticks[Len(events) + k])
        /\ AllCorrect
    BY <1>2, <2>1 DEF Reported, InOrder
  <2>3. inf[id] = r + 1
    <3>1. r + 1 \in (r + 1)..Len(ticks)
      BY <1>6
    <3> QED BY <1>3, <2>2, <3>1
  <2>4. \A j \in ((r + 1) + 1)..Len(ticks) : ticks[j].id \in DOMAIN inf' /\ inf'[ticks[j].id] = j
    <3> SUFFICES ASSUME NEW j \in ((r + 1) + 1)..Len(ticks)
                 PROVE  ticks[j].id \in DOMAIN inf' /\ inf'[ticks[j].id] = j
      OBVIOUS
    <3>1. j \in (r + 1)..Len(ticks) /\ j # r + 1
      BY <1>6
    <3>2. ticks[j].id \in DOMAIN inf /\ inf[ticks[j].id] = j
      BY <2>2, <3>1
    <3> QED BY <1>10, <2>3, <3>1, <3>2
  <2>5. \A jd \in DOMAIN inf' : inf'[jd] \in ((r + 1) + 1)..Len(ticks) /\ ticks[inf'[jd]].id = jd
    <3> SUFFICES ASSUME NEW jd \in DOMAIN inf'
                 PROVE  inf'[jd] \in ((r + 1) + 1)..Len(ticks) /\ ticks[inf'[jd]].id = jd
      OBVIOUS
    <3>1. jd \in DOMAIN inf /\ jd # id /\ inf'[jd] = inf[jd]
      BY <1>10
    <3>2. inf[jd] \in (r + 1)..Len(ticks) /\ ticks[inf[jd]].id = jd
      BY <2>2, <3>1
    <3>3. inf[jd] # r + 1
      BY <1>3, <3>1, <3>2
    <3> QED BY <1>6, <3>1, <3>2, <3>3
  <2>6. \A k \in 1..Len(Pipe') :
          /\ Pipe'[k].tick = Len(events) + k
          /\ Pipe'[k].makers = Owed(B, Len(events) + k)
          /\ Pipe'[k].reply = Reply(B[Len(events) + k - 1], ticks[Len(events) + k])
    <3> SUFFICES ASSUME NEW k \in 1..Len(Pipe')
                 PROVE  /\ Pipe'[k].tick = Len(events) + k
                        /\ Pipe'[k].makers = Owed(B, Len(events) + k)
                        /\ Pipe'[k].reply = Reply(B[Len(events) + k - 1], ticks[Len(events) + k])
      OBVIOUS
    <3>2. CASE k \in 1..Len(Pipe)
      BY <1>9, <2>2, <3>2
    <3>3. CASE k = Len(Pipe) + 1
      <4>1. Len(events) + k = r + 1 /\ Len(events) + k - 1 = r
        BY <1>8, <2>2, <3>3
      <4>2. Pipe'[k] = e
        BY <1>9, <3>3
      <4> QED BY <1>7, <2>3, <4>1, <4>2
    <3> QED BY <1>11, <3>2, <3>3
  <2>7. r + 1 = Len(events) + Len(Pipe')
    BY <1>8, <1>9, <2>2
  <2>8. \A k : Owed(B, k)' = Owed(B, k)
    BY <1>1 DEF Owed
  <2>9. AllCorrect'
    BY <1>1, <2>2 DEF AllCorrect
  <2> QED BY <1>1, <2>2, <2>4, <2>5, <2>6, <2>7, <2>8, <2>9 DEF InOrder
<1>15. Types'
  <2>1. acked' \in Nat
    BY <1>1 DEF Types
  <2> QED BY <1>1, <1>4, <1>9, <2>1 DEF Types, IsSeq
<1>16. worked' = worked
  BY <1>1 DEF worked
<1>17. Inbox' /\ Ending'
  BY <1>1, <1>16 DEF Inbox, Ending
<1> QED BY <1>5, <1>12, <1>13, <1>14, <1>15, <1>17 DEF IInv, Reported

\* A terminal response is spurious only after an overlap.
LEMMA DiscardSpuriousKeeps ==
  ASSUME IInv, DiscardSpurious
  PROVE  IInv'
<1>1. /\ Types /\ Inbox /\ Ending /\ frames # <<>> /\ bot # "stopped"
      /\ Head(frames).type # "FILL" /\ Head(frames).id \notin DOMAIN inf
      /\ fills' = Delete(fills, Head(frames).id) /\ frames' = Tail(frames)
      /\ UNCHANGED <<ticks, writing, sent, inf, overlap, acked, pending, botEvtCh, inbox, theirs,
                     bot, reference, events, finished, cut>>
  BY DEF IInv, DiscardSpurious, CanRead, writer, correlator
<1>2. PICK r, own, B : AtTheBot(r, own, B) /\ Reported(r, B)
  BY DEF IInv
<1>3. Terminal(r, B) /\ IsSeq(frames') /\ \E own2 : AtTheBot(r + 1, own2, B)'
  BY <1>1, <1>2, TerminalRead
<1>4. PICK own2 : AtTheBot(r + 1, own2, B)'
  BY <1>3
<1>5. /\ Len(ticks) \in Nat /\ r \in Nat /\ r + 1 \in (r + 1)..Len(ticks)
  <2>1. Line(r, own)
    BY <1>2 DEF AtTheBot
  <2>2. Len(ticks) \in Nat /\ r \in Nat /\ r + 1 <= Len(ticks)
    BY <1>1, <2>1, Numbers
  <2> QED BY <2>2
<1>6. overlap
  <2> SUFFICES ASSUME ~overlap PROVE FALSE
    BY <1>1 DEF Types
  <2>1. \A j \in (r + 1)..Len(ticks) : ticks[j].id \in DOMAIN inf
    BY <1>2 DEF Reported, InOrder
  <2>2. Head(frames).id = ticks[r + 1].id
    BY <1>3 DEF Terminal
  <2> QED BY <1>1, <1>5, <2>1, <2>2
<1>7. worked' = worked /\ Pipe' = Pipe
  BY <1>1 DEF worked, Pipe
<1>8. Once' /\ InOrder(r + 1, B)'
  BY <1>1, <1>2, <1>6, <1>7 DEF Reported, Once, InOrder
<1>9. Counts(r + 1)'
  <2>1. acked <= Len(events) + Len(Pipe) /\ Len(events) + Len(Pipe) <= r
    BY <1>2 DEF Reported, Counts
  <2>2. Len(events) \in Nat /\ Len(Pipe) \in Nat
    BY <1>1, PipeFacts
  <2> QED BY <1>1, <1>5, <1>7, <2>1, <2>2 DEF Counts
<1>10. Types'
  BY <1>1, <1>3 DEF Types, IsSeq
<1>11. Inbox' /\ Ending'
  BY <1>1, <1>7 DEF Inbox, Ending
<1> QED BY <1>4, <1>8, <1>9, <1>10, <1>11 DEF IInv, Reported

\* The verdict on an event of the tick t.
Verdict(e, t) == IF t.type = "ADD" THEN e.makers = Makers(reference, t)
                 ELSE (e.reply = "ACK") = Rests(reference, t.id)

\* Judging the oldest event.
LEMMA CorrelateKeeps ==
  ASSUME IInv, Correlate
  PROVE  IInv'
<1>1. /\ Types /\ Inbox /\ Ending /\ botEvtCh # <<>> /\ botEvtCh' = Tail(botEvtCh)
      /\ events' = Append(events, [tick |-> Head(botEvtCh).tick,
                                   correct |-> Verdict(Head(botEvtCh), ticks[Head(botEvtCh).tick])])
      /\ reference' = After(reference, ticks[Head(botEvtCh).tick])
      /\ UNCHANGED <<ticks, writing, sent, inf, overlap, acked, fills, frames, pending, inbox,
                     theirs, bot, finished, cut>>
  BY DEF IInv, Correlate, MayCorrelate, writer, Verdict
<1>2. PICK r, own, B : AtTheBot(r, own, B) /\ Reported(r, B)
  BY DEF IInv
<1>3. PICK e, t, j : e = Head(botEvtCh) /\ t = ticks[e.tick]
                     /\ j = [tick |-> e.tick, correct |-> Verdict(e, t)]
  OBVIOUS
<1>4. /\ worked \in Nat /\ r \in Nat /\ r <= worked
  <2>1. Line(r, own)
    BY <1>2 DEF AtTheBot
  <2> QED BY <1>1, <2>1, Numbers
<1>5. PICK n : n = Len(events)
  OBVIOUS
<1>6. n \in Nat /\ Len(Pipe) \in Nat /\ IsSeq(Pipe)
  BY <1>1, <1>5, PipeFacts
<1>7. /\ e = Pipe[1] /\ Len(Pipe) > 0 /\ IsSeq(botEvtCh') /\ Len(Pipe') = Len(Pipe) - 1
      /\ \A k \in 1..(Len(Pipe) - 1) : Pipe'[k] = Pipe[k + 1]
  <2>1. /\ IsSeq(botEvtCh) /\ IsSeq(pending) /\ IsSeq(Tail(botEvtCh))
        /\ Len(botEvtCh) \in Nat \ {0} /\ Len(Tail(botEvtCh)) = Len(botEvtCh) - 1
        /\ Head(botEvtCh) = botEvtCh[1]
        /\ \A i \in 1..(Len(botEvtCh) - 1) : Tail(botEvtCh)[i] = botEvtCh[i + 1]
        /\ Len(pending) \in Nat
    BY <1>1, SeqTake, SeqFacts DEF Types
  <2>2. /\ Len(Pipe) = Len(botEvtCh) + Len(pending)
        /\ \A i \in 1..(Len(botEvtCh) + Len(pending)) :
             Pipe[i] = IF i <= Len(botEvtCh) THEN botEvtCh[i] ELSE pending[i - Len(botEvtCh)]
    BY <2>1, SeqJoin DEF Pipe
  <2>3. PICK g : g = Tail(botEvtCh)
    OBVIOUS
  <2>4. IsSeq(g) /\ Len(g) = Len(botEvtCh) - 1
        /\ \A i \in 1..(Len(botEvtCh) - 1) : g[i] = botEvtCh[i + 1]
    BY <2>1, <2>3
  <2>5. /\ Len(g \o pending) = Len(g) + Len(pending)
        /\ \A i \in 1..(Len(g) + Len(pending)) :
             (g \o pending)[i] = IF i <= Len(g) THEN g[i] ELSE pending[i - Len(g)]
    BY <2>1, <2>4, SeqJoin
  <2>6. Pipe' = g \o pending
    BY <1>1, <2>3 DEF Pipe
  <2>7. Len(Pipe') = Len(Pipe) - 1 /\ e = Pipe[1] /\ Len(Pipe) > 0
    BY <1>3, <2>1, <2>2, <2>4, <2>5, <2>6
  <2>8. \A k \in 1..(Len(Pipe) - 1) : Pipe'[k] = Pipe[k + 1]
    <3> SUFFICES ASSUME NEW k \in 1..(Len(Pipe) - 1) PROVE Pipe'[k] = Pipe[k + 1]
      OBVIOUS
    <3>1. k \in 1..(Len(g) + Len(pending)) /\ k + 1 \in 1..(Len(botEvtCh) + Len(pending))
      BY <2>1, <2>2, <2>4
    <3>2. CASE k <= Len(g)
      <4>1. k \in 1..(Len(botEvtCh) - 1) /\ k + 1 <= Len(botEvtCh)
        BY <2>1, <2>4, <3>2
      <4> QED BY <2>2, <2>4, <2>5, <2>6, <3>1, <3>2, <4>1
    <3>3. CASE ~(k <= Len(g))
      <4>1. ~(k + 1 <= Len(botEvtCh)) /\ (k + 1) - Len(botEvtCh) = k - Len(g)
        BY <2>1, <2>4, <3>3
      <4> QED BY <2>2, <2>5, <2>6, <3>1, <3>3, <4>1
    <3> QED BY <3>2, <3>3
  <2> QED BY <1>1, <2>1, <2>7, <2>8
<1>8. /\ events' = Append(events, j) /\ reference' = After(reference, t)
      /\ IsSeq(events') /\ Len(events') = n + 1 /\ events'[n + 1] = j
      /\ \A k \in 1..n : events'[k] = events[k]
  <2>1. events' = Append(events, j) /\ reference' = After(reference, t)
    BY <1>1, <1>3
  <2> QED BY <1>1, <1>5, <2>1, SeqPut DEF Types
<1>9. j.tick = Pipe[1].tick
  BY <1>3, <1>7
<1>10. /\ \A k \in 1..Len(events') : \/ k \in 1..n /\ events'[k] = events[k]
                                     \/ k = n + 1 /\ events'[k] = j
       /\ \A k \in 1..Len(Pipe') : k + 1 \in 1..Len(Pipe) /\ k + 1 # 1 /\ Pipe'[k] = Pipe[k + 1]
       /\ 1 \in 1..Len(Pipe)
  BY <1>6, <1>7, <1>8
<1>11. Once'
  <2>0. Once
    BY <1>2 DEF Reported
  <2>1. /\ \A id \in DOMAIN inf : inf[id] \in 1..Len(ticks)
        /\ \A id, jd \in DOMAIN inf : inf[id] = inf[jd] => id = jd
    BY <2>0 DEF Once
  <2>2. \A k \in 1..Len(Pipe') : Pipe'[k].tick \in 1..Len(ticks)
    BY <1>10, <2>0 DEF Once
  <2>3. \A k \in 1..Len(events') : events'[k].tick \in 1..Len(ticks)
    BY <1>5, <1>9, <1>10, <2>0 DEF Once
  <2>4. \A k \in 1..Len(Pipe'), id \in DOMAIN inf : Pipe'[k].tick # inf[id]
    BY <1>10, <2>0 DEF Once
  <2>5. \A k \in 1..Len(events'), id \in DOMAIN inf : events'[k].tick # inf[id]
    BY <1>5, <1>9, <1>10, <2>0 DEF Once
  <2>6. \A k \in 1..Len(events'), l \in 1..Len(Pipe') : events'[k].tick # Pipe'[l].tick
    <3> SUFFICES ASSUME NEW k \in 1..Len(events'), NEW l \in 1..Len(Pipe')
                 PROVE  events'[k].tick # Pipe'[l].tick
      OBVIOUS
    <3>1. PICK m \in 1..Len(Pipe) : m # 1 /\ Pipe'[l] = Pipe[m]
      BY <1>10
    <3>2. CASE k \in 1..n /\ events'[k] = events[k]
      BY <1>5, <2>0, <3>1, <3>2 DEF Once
    <3>3. CASE events'[k] = j
      BY <1>9, <1>10, <2>0, <3>1, <3>3 DEF Once
    <3> QED BY <1>10, <3>2, <3>3
  <2>7. \A k, l \in 1..Len(Pipe') : Pipe'[k].tick = Pipe'[l].tick => k = l
    <3> SUFFICES ASSUME NEW k \in 1..Len(Pipe'), NEW l \in 1..Len(Pipe'),
                        Pipe'[k].tick = Pipe'[l].tick
                 PROVE  k = l
      OBVIOUS
    <3>1. k + 1 = l + 1
      BY <1>10, <2>0 DEF Once
    <3> QED BY <1>6, <1>7, <3>1
  <2>8. \A k, l \in 1..Len(events') : events'[k].tick = events'[l].tick => k = l
    <3> SUFFICES ASSUME NEW k \in 1..Len(events'), NEW l \in 1..Len(events'),
                        events'[k].tick = events'[l].tick
                 PROVE  k = l
      OBVIOUS
    <3>1. \A i \in 1..n : events[i].tick # j.tick
      BY <1>5, <1>9, <1>10, <2>0 DEF Once
    <3>2. \A i, m \in 1..n : events[i].tick = events[m].tick => i = m
      BY <1>5, <2>0 DEF Once
    <3> QED BY <1>10, <3>1, <3>2
  <2> QED BY <1>1, <2>1, <2>2, <2>3, <2>4, <2>5, <2>6, <2>7, <2>8 DEF Once
<1>12. Counts(r)'
  <2>1. acked <= n + Len(Pipe) /\ n + Len(Pipe) <= r
    BY <1>2, <1>5 DEF Reported, Counts
  <2>2. Len(events') + Len(Pipe') = n + Len(Pipe)
    BY <1>6, <1>7, <1>8
  <2> QED BY <1>1, <2>1, <2>2 DEF Counts
<1>13. InOrder(r, B)'
  <2>1. SUFFICES ASSUME ~overlap PROVE InOrder(r, B)'
    BY <1>1 DEF InOrder
  <2>2. /\ \A i \in (r + 1)..Len(ticks) : ticks[i].id \in DOMAIN inf /\ inf[ticks[i].id] = i
        /\ \A id \in DOMAIN inf : inf[id] \in (r + 1)..Len(ticks) /\ ticks[inf[id]].id = id
        /\ r = n + Len(Pipe)
        /\ reference = B[n]
        /\ \A k \in 1..Len(Pipe) :
             /\ Pipe[k].tick = n + k
             /\ Pipe[k].makers = Owed(B, n + k)
             /\ Pipe[k].reply = Reply(B[n + k - 1], ticks[n + k])
        /\ AllCorrect
    BY <1>2, <1>5, <2>1 DEF Reported, InOrder
  <2>3. /\ e.tick = n + 1 /\ e.makers = Makers(reference, t) /\ e.reply = Reply(reference, t)
        /\ t = ticks[n + 1]
    <3>1. n + 1 - 1 = n /\ (n + 1) - 1 = n
      BY <1>6
    <3>2. /\ e.tick = n + 1 /\ e.makers = Owed(B, n + 1)
          /\ e.reply = Reply(B[n + 1 - 1], ticks[n + 1])
      BY <1>7, <1>10, <2>2
    <3>3. Owed(B, n + 1) = Makers(B[(n + 1) - 1], ticks[n + 1])
      BY DEF Owed
    <3> QED BY <1>3, <2>2, <3>1, <3>2, <3>3
  <2>4. Verdict(e, t)
    <3>1. CASE t.type = "ADD"
      BY <2>3, <3>1 DEF Verdict
    <3>2. CASE t.type # "ADD"
      <4>1. Rests(reference, t.id) \in BOOLEAN
        BY DEF Rests
      <4>2. (e.reply = "ACK") = Rests(reference, t.id)
        BY <2>3, <3>2, <4>1 DEF Reply
      <4> QED BY <3>2, <4>2 DEF Verdict
    <3> QED BY <3>1, <3>2
  <2>5. AllCorrect'
    <3>1. j.correct
      BY <1>3, <2>4
    <3>2. \A k \in 1..n : events[k].correct
      BY <1>1, <1>5, <2>2, SeqFacts DEF Types, AllCorrect
    <3>3. DOMAIN events' = 1..Len(events')
      BY <1>8, SeqFacts
    <3> QED BY <1>10, <3>1, <3>2, <3>3 DEF AllCorrect
  <2>6. reference' = B[n + 1]
    <3>1. n + 1 \in 1..worked /\ (n + 1) - 1 = n
      BY <1>4, <1>6, <1>7, <2>2
    <3>2. B[n + 1] = After(B[(n + 1) - 1], ticks[n + 1])
      BY <1>2, <3>1 DEF AtTheBot, Books
    <3> QED BY <1>8, <2>2, <2>3, <3>1, <3>2
  <2>7. \A k \in 1..Len(Pipe') :
          /\ Pipe'[k].tick = (n + 1) + k
          /\ Pipe'[k].makers = Owed(B, (n + 1) + k)
          /\ Pipe'[k].reply = Reply(B[(n + 1) + k - 1], ticks[(n + 1) + k])
    <3> SUFFICES ASSUME NEW k \in 1..Len(Pipe')
                 PROVE  /\ Pipe'[k].tick = (n + 1) + k
                        /\ Pipe'[k].makers = Owed(B, (n + 1) + k)
                        /\ Pipe'[k].reply = Reply(B[(n + 1) + k - 1], ticks[(n + 1) + k])
      OBVIOUS
    <3>1. PICK l \in 1..Len(Pipe) : l = k + 1 /\ Pipe'[k] = Pipe[l]
      BY <1>10
    <3>2. n + l = (n + 1) + k /\ n + l - 1 = (n + 1) + k - 1
      BY <1>6, <1>7, <3>1
    <3>3. /\ Pipe[l].tick = n + l
          /\ Pipe[l].makers = Owed(B, n + l)
          /\ Pipe[l].reply = Reply(B[n + l - 1], ticks[n + l])
      BY <2>2
    <3> QED BY <3>1, <3>2, <3>3
  <2>8. r = (n + 1) + Len(Pipe')
    BY <1>6, <1>7, <2>2
  <2>10. n + 1 = Len(events') /\ ticks' = ticks /\ inf' = inf
    BY <1>1, <1>8
  <2>11. \A k \in 1..Len(Pipe') :
           /\ Pipe'[k].tick = Len(events') + k
           /\ Pipe'[k].makers = Owed(B, Len(events) + k)'
           /\ Pipe'[k].reply = Reply(B[Len(events') + k - 1], ticks'[Len(events') + k])
    <3>1. \A k : Owed(B, Len(events) + k)' = Owed(B, (n + 1) + k)
      BY <2>10 DEF Owed
    <3> QED BY <2>7, <2>10, <3>1
  <2>12. /\ r = Len(events') + Len(Pipe') /\ reference' = B[Len(events')]
         /\ \A i \in (r + 1)..Len(ticks') : ticks'[i].id \in DOMAIN inf' /\ inf'[ticks'[i].id] = i
         /\ \A id \in DOMAIN inf' : inf'[id] \in (r + 1)..Len(ticks') /\ ticks'[inf'[id]].id = id
    BY <2>2, <2>6, <2>8, <2>10
  <2> QED BY <2>5, <2>11, <2>12 DEF InOrder
<1>14. Types'
  BY <1>1, <1>7, <1>8 DEF Types, IsSeq
<1>15. worked' = worked
  BY <1>1 DEF worked
<1>16. Inbox' /\ Ending'
  BY <1>1, <1>15 DEF Inbox, Ending
<1>17. AtTheBot(r, own, B)'
  BY <1>1, <1>2, <1>15, LineKept
<1> QED BY <1>11, <1>12, <1>13, <1>14, <1>16, <1>17 DEF IInv, Reported

-----------------------------------------------------------------------------
(* The theorems. *)

\* Every reachable state satisfies the inductive invariant.
THEOREM Inductive == Spec => []IInv
<1>1. IInv /\ [Next]_vars => IInv'
  <2> SUFFICES ASSUME IInv, [Next]_vars PROVE IInv'
    OBVIOUS
  <2>1. CASE UNCHANGED vars
    <3>1. /\ Types /\ Inbox /\ Ending
          /\ UNCHANGED <<ticks, writing, sent, inf, overlap, acked, fills, frames, pending, botEvtCh,
                         inbox, theirs, bot, reference, events, finished, cut>>
      BY <2>1 DEF IInv, vars
    <3>2. worked' = worked /\ Pipe' = Pipe
      BY <3>1 DEF worked, Pipe
    <3>3. Types' /\ Inbox' /\ Ending'
      BY <3>1, <3>2 DEF Types, IsSeq, Inbox, Ending
    <3> QED BY <3>1, <3>2, <3>3, QuietStep
  <2>2. CASE \E t \in Tick : Store(t)
    BY <2>2, StoreKeeps
  <2>3. CASE Dial
    BY <2>3, DialKeeps
  <2>4. CASE Write
    BY <2>4, WriteKeeps
  <2>5. CASE StopWriting
    BY <2>5, StopWritingKeeps
  <2>6. CASE Contestant
    BY <2>6, ContestantKeeps
  <2>7. CASE Read
    BY <2>7, ReadFillKeeps, ReadTerminalKeeps, DiscardSpuriousKeeps DEF Read
  <2>8. CASE SendEvent
    BY <2>8, SendEventKeeps
  <2>9. CASE Stop
    BY <2>9, StopKeeps
  <2>10. CASE Correlate
    BY <2>10, CorrelateKeeps
  <2>11. CASE Finish
    BY <2>11, FinishKeeps
  <2> QED
    BY <2>1, <2>2, <2>3, <2>4, <2>5, <2>6, <2>7, <2>8, <2>9, <2>10, <2>11 DEF Next
<1> QED BY InitIsIInv, <1>1, PTL DEF Spec

\* However writer, reader, contestant and correlator interleave, and wherever the
\* connection is cut, a correct contestant is judged correct on every tick, as
\* long as no two ticks of one order were in flight together.
THEOREM HonestJudgedCorrect == Spec => []HonestUnlessOverlap
<1>1. IInv => HonestUnlessOverlap
  BY DEF IInv, Reported, InOrder, HonestUnlessOverlap
<1> QED BY <1>1, Inductive, PTL

\* No tick is reported twice, overlap or not, and a bot that has ended reports no
\* fewer ticks than it has counted as acknowledged and no more than it sent.
THEOREM TicksReportedOnce == Spec => []EachTickOnce
<1>1. IInv => EachTickOnce
  <2> SUFFICES ASSUME IInv PROVE EachTickOnce
    OBVIOUS
  <2>1. PICK r, own, B : AtTheBot(r, own, B) /\ Reported(r, B)
    BY DEF IInv
  <2>2. \A i, j \in DOMAIN events : events[i].tick = events[j].tick => i = j
    <3>1. DOMAIN events = 1..Len(events)
      BY SeqFacts DEF IInv, Types
    <3> QED BY <2>1, <3>1 DEF Reported, Once
  <2>3. ASSUME finished PROVE acked <= Len(events) /\ Len(events) <= sent
    <3>1. Len(Pipe) = 0
      <4>1. botEvtCh = <<>> /\ pending = <<>>
        BY <2>3 DEF IInv, Ending
      <4>2. Len(botEvtCh) = 0 /\ Len(pending) = 0
        BY <4>1
      <4> QED BY <4>2, PipeFacts DEF IInv
    <3>2. r \in Nat /\ worked \in Nat /\ r <= worked /\ worked <= sent /\ sent \in Nat
      BY <2>1, Numbers DEF IInv, AtTheBot
    <3>3. acked <= Len(events) + Len(Pipe) /\ Len(events) + Len(Pipe) <= r
      BY <2>1 DEF Reported, Counts
    <3>4. Len(events) \in Nat
      BY PipeFacts DEF IInv
    <3> QED BY <3>1, <3>2, <3>3, <3>4
  <2> QED BY <2>2, <2>3 DEF EachTickOnce
<1> QED BY <1>1, Inductive, PTL

\* A bot that read everything before its connection was closed has reported every
\* tick it sent: no answer was thrown away as spurious.
THEOREM AnswersReported == Spec => []EveryAnswerReported
<1>1. IInv => EveryAnswerReported
  <2> SUFFICES ASSUME IInv, finished, ~cut, ~overlap PROVE Len(events) = sent
    BY DEF EveryAnswerReported
  <2>1. PICK r, own, B : AtTheBot(r, own, B) /\ Reported(r, B)
    BY DEF IInv
  <2>2. inbox = <<>> /\ frames = <<>> /\ botEvtCh = <<>> /\ pending = <<>>
    BY DEF IInv, Ending
  <2>3. Len(inbox) = 0 /\ Len(botEvtCh) = 0 /\ Len(pending) = 0
    BY <2>2
  <2>4. Len(Pipe) = 0 /\ Len(events) \in Nat
    BY <2>3, PipeFacts DEF IInv
  <2>5. r = Len(events) + Len(Pipe)
    BY <2>1 DEF Reported, InOrder
  <2>6. r = worked
    BY <2>1, <2>2 DEF AtTheBot, Line
  <2>7. worked = sent
    <3>1. sent \in Nat
      BY DEF IInv, Types
    <3> QED BY <2>3, <3>1 DEF worked
  <2> QED BY <2>4, <2>5, <2>6, <2>7
<1> QED BY <1>1, Inductive, PTL
=============================================================================
