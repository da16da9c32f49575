------------------------------ MODULE OpenLoop ------------------------------
(***************************************************************************)
(* One bot of the open-loop fleet (bot.go) and its correlator (firer.go):  *)
(* writeLoop sends ticks at its own pace, readLoop matches the answers to  *)
(* them by order id through the shared map inf, and the correlator feeds   *)
(* every answered tick to a validator of the bot's own.                    *)
(*                                                                         *)
(* The contestant is honest: it works the frames of its connection in      *)
(* order with a matching engine.  All orders are for one unit at one price,*)
(* which is enough for fills, for resting orders and for cancels.          *)
(***************************************************************************)
EXTENDS Integers, SequencesExt

CONSTANTS Ticks,      \* length of the bot's shard
          EventsSize  \* buffer of botEvtCh

ASSUME TicksAssumption == Ticks \in Nat
ASSUME EventsSizeAssumption == EventsSize \in Nat \ {0}

VARIABLES
  ticks,     \* ticks taken from the shard so far
  writing,   \* the last of them is stored in inf and not yet written
  sent,      \* ticksSent
  acked,     \* ticksAcked
  inf,       \* order id -> index of the tick in flight
  fills,     \* order id -> fills received for it
  inbox,     \* ticks on their way to the contestant
  theirs,    \* the contestant's resting orders, oldest first
  frames,    \* answers on their way back
  bot,       \* "dialing", "writing", "draining" for 500ms, then "stopped"
  pending,   \* the event readLoop is about to send, if any
  botEvtCh,  \* events for the correlator
  reference, \* resting orders of the validator's engine
  events,    \* judged events handed to f.events
  finished,  \* the correlator has ended
  overlap,   \* a tick was stored while another of its order was in flight
  cut        \* the connection was closed before every answer was read

vars == <<ticks, writing, sent, acked, inf, fills, inbox, theirs, frames, bot, pending,
          botEvtCh, reference, events, finished, overlap, cut>>

writer == <<ticks, writing, sent, overlap>>
reader == <<acked, fills, frames, pending, botEvtCh>>
correlator == <<reference, events, finished>>

Put(m, k, v) == [x \in DOMAIN m \cup {k} |-> IF x = k THEN v ELSE m[x]]
Delete(m, k) == [x \in DOMAIN m \ {k} |-> m[x]]

\* A tick adds an order named after its place in the shard, or cancels, once, an
\* order of this shard or (a negative name) one that was added in another shard.
Cancellable == {i \in DOMAIN ticks : /\ ticks[i].type = "ADD"
                                     /\ \A j \in DOMAIN ticks : ticks[j].id = i => j = i}
               \cup {-(Len(ticks) + 1)}

Tick == [type : {"ADD"}, id : {Len(ticks) + 1}, side : {"B", "S"}]
        \cup [type : {"CAN"}, id : Cancellable, side : {"-"}]

-----------------------------------------------------------------------------
(* Matching, for orders that differ in side and age only. *)

Matches(b, side) == SelectSeq(b, LAMBDA o : o.side # side)

Without(b, id) == SelectSeq(b, LAMBDA o : o.id # id)

Rests(b, id) == \E i \in DOMAIN b : b[i].id = id

\* The book after a tick, and the makers of the fills the tick leads to.
After(b, t) ==
  IF t.type = "CAN" THEN Without(b, t.id)
  ELSE IF Matches(b, t.side) # <<>> THEN Without(b, Head(Matches(b, t.side)).id)
  ELSE Append(b, [id |-> t.id, side |-> t.side])

Makers(b, t) ==
  IF t.type = "ADD" /\ Matches(b, t.side) # <<>> THEN <<Head(Matches(b, t.side)).id>> ELSE <<>>

Reply(b, t) == IF t.type = "ADD" \/ Rests(b, t.id) THEN "ACK" ELSE "REJ"

-----------------------------------------------------------------------------

Init ==
  /\ ticks = <<>> /\ writing = FALSE /\ sent = 0 /\ acked = 0
  /\ inf = <<>> /\ fills = <<>>
  /\ inbox = <<>> /\ theirs = <<>> /\ frames = <<>>
  /\ bot = "dialing" /\ pending = <<>> /\ botEvtCh = <<>>
  /\ reference = <<>> /\ events = <<>> /\ finished = FALSE
  /\ overlap = FALSE /\ cut = FALSE

\* The dial succeeds, or fails and ends the bot.
Dial ==
  /\ bot = "dialing"
  /\ bot' \in {"writing", "stopped"}
  /\ UNCHANGED <<writer, inf, reader, inbox, theirs, correlator, cut>>

Stored(t) == inf' = Put(inf, t.id, Len(ticks) + 1)

\* A tick of the ticker: inf.Store, which overwrites the entry of the order.
Store(t) ==
  /\ bot = "writing" /\ ~writing /\ Len(ticks) < Ticks
  /\ Stored(t)
  /\ ticks' = Append(ticks, t)
  /\ writing' = TRUE
  /\ overlap' = (overlap \/ t.id \in DOMAIN inf)
  /\ UNCHANGED <<sent, reader, inbox, theirs, bot, correlator, cut>>

\* The counter follows the write before the bot can end.
Write ==
  /\ bot = "writing" /\ writing
  /\ inbox' = Append(inbox, ticks[Len(ticks)])
  /\ sent' = sent + 1
  /\ writing' = FALSE
  /\ UNCHANGED <<ticks, inf, overlap, reader, theirs, bot, correlator, cut>>

\* The shard is written; or the run's context ends, and the tick in hand is lost.
StopWriting ==
  /\ bot = "writing"
  /\ bot' = "draining"
  /\ writing' = FALSE
  /\ UNCHANGED <<ticks, sent, inf, overlap, reader, inbox, theirs, correlator, cut>>

\* The contestant works one frame and writes all of its answer.
Contestant ==
  /\ inbox # <<>>
  /\ LET t == Head(inbox)
         Fill(maker) == [type |-> "FILL", id |-> t.id, maker |-> maker]
     IN /\ frames' = frames \o Append([i \in DOMAIN Makers(theirs, t) |->
                                        Fill(Makers(theirs, t)[i])],
                                      [type |-> Reply(theirs, t), id |-> t.id, maker |-> 0])
        /\ theirs' = After(theirs, t)
  /\ inbox' = Tail(inbox)
  /\ UNCHANGED <<writer, inf, acked, fills, bot, pending, botEvtCh, correlator, cut>>

FillsOf(id) == IF id \in DOMAIN fills THEN fills[id] ELSE <<>>

\* readLoop is in ReadResponse and there is something to read.
CanRead == bot # "stopped" /\ pending = <<>> /\ frames # <<>>

ReadFill ==
  /\ CanRead /\ Head(frames).type = "FILL"
  /\ fills' = Put(fills, Head(frames).id, Append(FillsOf(Head(frames).id), Head(frames).maker))
  /\ frames' = Tail(frames)
  /\ UNCHANGED <<writer, inf, acked, inbox, theirs, bot, pending, botEvtCh, correlator, cut>>

Taken_Kept(id) == inf

\* LoadAndDelete
Taken(id) == Delete(inf, id)

Bundle_NoFills(frame) == [tick |-> inf[frame.id], makers |-> <<>>, reply |-> frame.type]

Bundle(frame) == [tick |-> inf[frame.id], makers |-> FillsOf(frame.id), reply |-> frame.type]

\* A terminal response: an event for the tick in flight of its order.
ReadTerminal ==
  /\ CanRead /\ Head(frames).type # "FILL"
  /\ LET frame == Head(frames) IN
     /\ frame.id \in DOMAIN inf
     /\ pending' = <<Bundle(frame)>>
     /\ acked' = IF frame.type = "ACK" THEN acked + 1 ELSE acked
     /\ inf' = Taken(frame.id)
     /\ fills' = Delete(fills, frame.id)
  /\ frames' = Tail(frames)
  /\ UNCHANGED <<writer, inbox, theirs, bot, botEvtCh, correlator, cut>>

\* The send waits for room and watches no context.
SendEvent ==
  /\ pending # <<>> /\ Len(botEvtCh) < EventsSize
  /\ botEvtCh' = botEvtCh \o pending
  /\ pending' = <<>>
  /\ UNCHANGED <<writer, inf, acked, fills, inbox, theirs, frames, bot, correlator, cut>>

\* No tick of the order is in flight: the response is spurious.
DiscardSpurious ==
  /\ CanRead /\ Head(frames).type # "FILL"
  /\ Head(frames).id \notin DOMAIN inf
  /\ fills' = Delete(fills, Head(frames).id)
  /\ frames' = Tail(frames)
  /\ UNCHANGED <<writer, inf, acked, inbox, theirs, bot, pending, botEvtCh, correlator, cut>>

\* 500ms after the last write the connection is closed, whatever is unread.
Stop ==
  /\ bot = "draining"
  /\ bot' = "stopped"
  /\ cut' = (inbox # <<>> \/ frames # <<>>)
  /\ UNCHANGED <<writer, inf, reader, inbox, theirs, correlator>>

Closed_NotWaiting == bot = "stopped"

\* run() waits for readLoop and then closes botEvtCh.
Closed == bot = "stopped" /\ pending = <<>>

MayCorrelate_UntilWrong == botEvtCh # <<>> /\ \A i \in DOMAIN events : events[i].correct

MayCorrelate == botEvtCh # <<>>

\* The correlator gives an event to the validator and takes back the verdict.
Correlate ==
  /\ MayCorrelate
  /\ LET e == Head(botEvtCh)
         t == ticks[e.tick]
     IN /\ events' = Append(events,
             [tick |-> e.tick,
              correct |-> IF t.type = "ADD" THEN e.makers = Makers(reference, t)
                          ELSE (e.reply = "ACK") = Rests(reference, t.id)])
        /\ reference' = After(reference, t)
  /\ botEvtCh' = Tail(botEvtCh)
  /\ UNCHANGED <<writer, inf, acked, fills, inbox, theirs, frames, bot, pending, finished, cut>>

Finish ==
  /\ Closed /\ botEvtCh = <<>> /\ ~finished
  /\ finished' = TRUE
  /\ UNCHANGED <<writer, inf, reader, inbox, theirs, bot, reference, events, cut>>

Read == ReadFill \/ ReadTerminal \/ DiscardSpurious

Next == \/ \E t \in Tick : Store(t)
        \/ Dial \/ Write \/ StopWriting \/ Contestant \/ Read \/ SendEvent \/ Stop \/ Correlate \/ Finish

Spec == Init /\ [][Next]_vars

\* Goroutines run on and timers fire; the contestant may be as slow as it likes.
FairSpec == /\ Spec
            /\ WF_vars(Dial) /\ WF_vars(Write) /\ WF_vars(StopWriting) /\ WF_vars(Read) /\ WF_vars(Stop)
            /\ WF_vars(SendEvent) /\ WF_vars(Correlate) /\ WF_vars(Finish)

-----------------------------------------------------------------------------
(* Properties. *)

AllCorrect == \A i \in DOMAIN events : events[i].correct

\* A correct contestant is judged correct on every tick.
HonestIsCorrect == AllCorrect

\* A correct contestant is judged correct on every tick as long as no tick was
\* sent while another one of the same order was in flight: splitting writer and
\* reader loses nothing else, whatever their interleaving and wherever the
\* connection is cut.
HonestUnlessOverlap == ~overlap => AllCorrect

\* No tick is reported twice, also when ticks of one order overlapped, and a
\* run does not report more ticks than it sent.
EachTickOnce ==
  /\ \A i, j \in DOMAIN events : events[i].tick = events[j].tick => i = j
  /\ finished => acked <= Len(events) /\ Len(events) <= sent

\* No answer is thrown away as spurious: a bot that read everything has reported
\* every tick it sent, again unless ticks of one order overlapped.
EveryAnswerReported ==
  (finished /\ ~cut /\ ~overlap) => Len(events) = sent

\* The bot and its correlator end, so that firer.Run can close its events.
BotEnds == <>finished
=============================================================================
