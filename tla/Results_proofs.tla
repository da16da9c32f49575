--------------------------- MODULE Results_proofs ---------------------------
(***************************************************************************)
(* The percentiles of a run are complete, for any number of events, any    *)
(* size of the channel and of the ingester's batch, and any number of      *)
(* faults; and the boards are fair and never go back, for any rows the run *)
(* may find, any measurements and any number of viewers.                   *)
(*                                                                         *)
(* The argument for the percentiles: the sentinel is behind every record   *)
(* of its run wherever the records are, so that nothing reaches the topic  *)
(* once it has (SentinelLast); and what the ingester has read is in the    *)
(* table, pending or lost (ReadIsKept), with nothing pending when it       *)
(* computes the percentiles (FlushedFirst).                                *)
(*                                                                         *)
(* The argument for the boards: an entry that dominates another has a      *)
(* greater composite score whatever the maxima of the tier are             *)
(* (DominatingScoresMore), so that every list the sort may return has it   *)
(* first; and what is on the board is still in run_scores, or is the row   *)
(* of the run, which holds zero or the score of an earlier run of its      *)
(* submission until it is given its own (LastIsBacked).                    *)
(***************************************************************************)
EXTENDS Results, SequenceTheorems, FiniteSetTheorems, FunctionTheorems, WellFoundedInduction,
        TLAPS

SentinelLast ==
  /\ \A i \in DOMAIN channel : channel[i] = End => i = Len(channel) /\ Closed
  /\ \A i \in DOMAIN buffered : buffered[i] = End => i = Len(buffered) /\ channel = <<>> /\ Closed
  /\ \A i \in DOMAIN topic :
       topic[i] = End => i = Len(topic) /\ buffered = <<>> /\ channel = <<>> /\ Closed

Places ==
  /\ read <= fetched /\ fetched <= Len(topic)
  /\ ingester \in {"reading", "finalising"} => read < fetched

ReadIsKept ==
  ingester # "down" => \A i \in 1..read : topic[i] = End \/ topic[i] \in table \cup pending \cup lost

FlushedFirst == ingester = "finalising" => pending = {} /\ topic[read + 1] = End

\* Percentiles are there only when the topic is complete.
SentinelSeen == "ingester" \in row.by => topic # <<>> /\ topic[Len(topic)] = End

IInv ==
  /\ TypeOK /\ SentinelLast /\ Places /\ ReadIsKept /\ FlushedFirst
  /\ SentinelSeen /\ PercentilesComplete

-----------------------------------------------------------------------------
(* Sequences. *)

\* What Append does to a sequence of records.
LEMMA AppendRecord ==
  ASSUME NEW s \in Seq(Record), NEW x \in Record
  PROVE  /\ Append(s, x) \in Seq(Record)
         /\ Len(Append(s, x)) = Len(s) + 1
         /\ \A i \in DOMAIN Append(s, x) : Append(s, x)[i] = IF i = Len(s) + 1 THEN x ELSE s[i]
         /\ DOMAIN Append(s, x) = DOMAIN s \cup {Len(s) + 1}
<1>1. Append(s, x) \in Seq(Record) /\ Len(Append(s, x)) = Len(s) + 1
  BY AppendProperties
<1>2. DOMAIN s = 1..Len(s) /\ DOMAIN Append(s, x) = 1..(Len(s) + 1) /\ Len(s) \in Nat
  BY <1>1, LenProperties
<1>3. \A i \in 1..Len(s) : Append(s, x)[i] = s[i]
  BY <1>2, AppendProperties
<1>4. Append(s, x)[Len(s) + 1] = x
  BY AppendProperties
<1> QED
  BY <1>1, <1>2, <1>3, <1>4

\* What Tail does to a sequence of records.
LEMMA TailRecord ==
  ASSUME NEW s \in Seq(Record), s # <<>>
  PROVE  /\ Tail(s) \in Seq(Record) /\ Head(s) \in Record /\ Head(s) = s[1]
         /\ Len(Tail(s)) = Len(s) - 1 /\ 1 \in DOMAIN s
         /\ \A i \in DOMAIN Tail(s) : i + 1 \in DOMAIN s /\ Tail(s)[i] = s[i + 1]
         /\ Len(s) = 1 => Tail(s) = <<>>
<1>1. /\ Tail(s) \in Seq(Record) /\ Head(s) \in Record
      /\ Len(Tail(s)) = Len(s) - 1 /\ Len(s) \in Nat
  BY HeadTailProperties, LenProperties
<1>2. Head(s) = s[1] /\ Len(s) # 0
  BY EmptySeq, HeadTailProperties
<1>3. DOMAIN s = 1..Len(s) /\ DOMAIN Tail(s) = 1..Len(s) - 1
  BY <1>1, LenProperties
<1>4. \A i \in 1..Len(s) - 1 : Tail(s)[i] = s[i + 1]
  BY <1>1, HeadTailProperties
<1>5. Len(s) = 1 => Tail(s) = <<>>
  <2>1. Len(s) = 1 => Len(Tail(s)) = 0
    BY <1>1
  <2> QED
    BY <1>1, <2>1, EmptySeq
<1> QED
  BY <1>1, <1>2, <1>3, <1>4, <1>5

-----------------------------------------------------------------------------
(* The score row and the batch. *)

Rows == [by : SUBSET {"api", "ingester"}, metrics : Metrics \cup {None},
         rows : SUBSET (1..Events)]

\* The API server's columns and mark are its own.
LEMMA RowUpserted ==
  ASSUME row \in Rows, NEW m \in Metrics
  PROVE  /\ Upserted(m) \in Rows /\ Upserted(m).rows = row.rows
         /\ "ingester" \in Upserted(m).by <=> "ingester" \in row.by
<1>1. Upserted(m) \in Rows
  BY DEF Upserted, Rows
<1>2. Upserted(m).rows = row.rows /\ Upserted(m).by = row.by \cup {"api"}
  BY DEF Upserted, Rows
<1> QED
  BY <1>1, <1>2

\* The ingester's columns and mark are its own.
LEMMA RowFinalised ==
  ASSUME row \in Rows, NEW rows \in SUBSET (1..Events)
  PROVE  WithPercentiles(rows) \in Rows /\ WithPercentiles(rows).rows = rows
<1>1. WithPercentiles(rows) \in Rows
  BY DEF WithPercentiles, Rows
<1>2. WithPercentiles(rows).rows = rows
  BY DEF WithPercentiles, Rows
<1> QED
  BY <1>1, <1>2

\* Insert leaves nothing pending, and its rows are in the table or lost.
LEMMA InsertKeeps ==
  ASSUME TypeOK, NEW rows \in SUBSET (1..Events), Insert(rows)
  PROVE  /\ pending' = {} /\ rows \subseteq table' \cup lost'
         /\ table \subseteq table' /\ lost \subseteq lost'
         /\ table' \subseteq 1..Events /\ lost' \subseteq 1..Events /\ faults' \in Nat
<1>1. pending' = {} /\ rows \subseteq table' \cup lost'
  BY DEF TypeOK, Insert
<1>2. table \subseteq table' /\ lost \subseteq lost'
  BY DEF TypeOK, Insert
<1>3. table' \subseteq 1..Events /\ lost' \subseteq 1..Events
  BY DEF TypeOK, Insert
<1>4. faults' \in Nat
  BY DEF TypeOK, Insert
<1> QED
  BY <1>1, <1>2, <1>3, <1>4

-----------------------------------------------------------------------------
(* Every step preserves IInv. *)

\* The coordinator only fills the channel, until it closes it.
LEMMA CoordinateStep == IInv /\ Coordinate => IInv'
<1> SUFFICES ASSUME IInv, Coordinate PROVE IInv'
  OBVIOUS
<1> USE SizesAssumption DEF IInv
<1>1. CASE FanIn
  <2>1. /\ offered' = offered + 1
        /\ UNCHANGED <<stage, expired, producer, buffered, topic, ingester, fetched, read,
                       pending, table, lost, faults, row>>
    BY <1>1 DEF FanIn, store
  <2>6. offered + 1 \in 0..Events /\ offered + 1 \in Record /\ offered + 1 # End
    BY <1>1 DEF FanIn, TypeOK, Record, End
  <2>2. channel' = channel \/ channel' = Append(channel, offered + 1)
    BY <1>1 DEF FanIn
  <2>7. channel' \in Seq(Record)
    <3>1. channel \in Seq(Record)
      BY DEF TypeOK
    <3> QED
      BY <2>2, <2>6, <3>1, AppendRecord
  <2>3. TypeOK'
    BY <2>1, <2>6, <2>7 DEF TypeOK
  <2>4. stage = "streaming" /\ ~Closed
    BY <1>1 DEF FanIn, Closed
  <2>5. SentinelLast'
    BY <2>1, <2>2, <2>4, <2>6, AppendRecord DEF SentinelLast, TypeOK
  <2> QED
    BY <2>1, <2>3, <2>5
    DEF Places, ReadIsKept, FlushedFirst, SentinelSeen, PercentilesComplete, Published
<1>2. CASE StreamsEnd
  <2>1. UNCHANGED <<expired, offered, channel, producer, buffered, topic, ingester, fetched, read,
                    pending, table, lost, faults, row>>
    BY <1>2 DEF StreamsEnd, store
  <2>2. TypeOK' /\ ~Closed
    BY <1>2, <2>1 DEF StreamsEnd, TypeOK, Closed
  <2>3. SentinelLast'
    BY <2>1, <2>2 DEF SentinelLast
  <2> QED
    BY <2>1, <2>2, <2>3
    DEF Places, ReadIsKept, FlushedFirst, SentinelSeen, PercentilesComplete, Published
<1>3. CASE SendSentinel
  <2>1. /\ stage' = "waiting" /\ Closed' /\ ~Closed /\ End \in Record
        /\ UNCHANGED <<expired, offered, producer, buffered, topic, ingester, fetched, read,
                       pending, table, lost, faults, row>>
    BY <1>3 DEF SendSentinel, store, Closed, End, Record
  <2>2. channel' = channel \/ channel' = Append(channel, End)
    BY <1>3 DEF SendSentinel
  <2>5. channel' \in Seq(Record)
    <3>1. channel \in Seq(Record)
      BY DEF TypeOK
    <3> QED
      BY <2>1, <2>2, <3>1, AppendRecord
  <2>3. TypeOK'
    BY <2>1, <2>5 DEF TypeOK
  <2>4. SentinelLast'
    BY <2>1, <2>2, AppendRecord DEF SentinelLast, TypeOK
  <2> QED
    BY <2>1, <2>3, <2>4
    DEF Places, ReadIsKept, FlushedFirst, SentinelSeen, PercentilesComplete, Published
<1>4. CASE ProducerDone
  <2>1. UNCHANGED <<expired, offered, channel, producer, buffered, topic, ingester, fetched, read,
                    pending, table, lost, faults, row>>
    BY <1>4 DEF ProducerDone, store
  <2>2. TypeOK' /\ Closed'
    BY <1>4, <2>1 DEF ProducerDone, TypeOK, Closed
  <2>3. SentinelLast'
    BY <2>1, <2>2 DEF SentinelLast
  <2> QED
    BY <2>1, <2>2, <2>3
    DEF Places, ReadIsKept, FlushedFirst, SentinelSeen, PercentilesComplete, Published
<1>5. CASE Score
  <2>1. /\ stage' = "over" /\ Closed' /\ buffered' = <<>> /\ faults' \in Nat
        /\ UNCHANGED <<expired, offered, channel, producer, topic, ingester, fetched, read,
                       pending, table, lost>>
    BY <1>5 DEF Score, Closed, TypeOK
  <2>2. row' = row \/ \E m \in Metrics : row' = Upserted(m)
    BY <1>5 DEF Score
  <2>3. row'.rows = row.rows /\ ("ingester" \in row'.by <=> "ingester" \in row.by)
    BY <2>2, RowUpserted DEF TypeOK, Rows
  <2>4. TypeOK'
    BY <2>1, <2>2, RowUpserted DEF TypeOK, Rows
  <2>5. SentinelLast'
    BY <2>1 DEF SentinelLast
  <2> QED
    BY <2>1, <2>3, <2>4, <2>5
    DEF Places, ReadIsKept, FlushedFirst, SentinelSeen, PercentilesComplete, Published
<1> QED
  BY <1>1, <1>2, <1>3, <1>4, <1>5 DEF Coordinate

\* Records move from the channel to the client, or fail; the sentinel is the
\* last to do so.
LEMMA PublishStep == IInv /\ (Expire \/ Publish \/ FailRecord) => IInv'
<1> SUFFICES ASSUME IInv, Expire \/ Publish \/ FailRecord PROVE IInv'
  OBVIOUS
<1> USE DEF IInv
<1>1. CASE Expire
  <2>1. /\ expired' \in BOOLEAN
        /\ UNCHANGED <<stage, offered, channel, producer, buffered, topic, ingester, fetched, read,
                       pending, table, lost, faults, row>>
    BY <1>1 DEF Expire, store
  <2> QED
    BY <2>1 DEF TypeOK, SentinelLast, Closed, Places, ReadIsKept, FlushedFirst, SentinelSeen,
                PercentilesComplete, Published
<1>2. CASE Produce
  <2>1. /\ channel # <<>> /\ channel' = Tail(channel) /\ buffered' = Append(buffered, Head(channel))
        /\ UNCHANGED <<stage, expired, offered, producer, topic, ingester, fetched, read,
                       pending, table, lost, faults, row>>
    BY <1>2 DEF Produce, store
  <2>2. /\ Tail(channel) \in Seq(Record) /\ Head(channel) \in Record /\ Head(channel) = channel[1]
        /\ Len(Tail(channel)) = Len(channel) - 1 /\ 1 \in DOMAIN channel
        /\ \A i \in DOMAIN Tail(channel) :
             i + 1 \in DOMAIN channel /\ Tail(channel)[i] = channel[i + 1]
        /\ Len(channel) = 1 => Tail(channel) = <<>>
    BY <2>1, TailRecord DEF TypeOK
  <2>3. TypeOK'
    BY <2>1, <2>2, AppendRecord DEF TypeOK
  <2>4. Closed' = Closed
    BY <2>1 DEF Closed
  <2>5. \A i \in DOMAIN channel' : channel'[i] = End => i = Len(channel') /\ Closed'
    BY <2>1, <2>2, <2>4 DEF SentinelLast, TypeOK
  <2>6. \A i \in DOMAIN buffered : buffered[i] # End
    BY <2>1 DEF SentinelLast
  <2>7. \A i \in DOMAIN buffered' :
           buffered'[i] = End => i = Len(buffered') /\ channel' = <<>> /\ Closed'
    BY <2>1, <2>2, <2>4, <2>6, AppendRecord DEF SentinelLast, TypeOK
  <2>8. \A i \in DOMAIN topic : topic[i] # End
    BY <2>1 DEF SentinelLast
  <2>9. SentinelLast'
    BY <2>1, <2>5, <2>7, <2>8 DEF SentinelLast
  <2> QED
    BY <2>1, <2>3, <2>9
    DEF Places, ReadIsKept, FlushedFirst, SentinelSeen, PercentilesComplete, Published
<1>3. CASE ProducerReturns
  <2>1. /\ producer' = "done"
        /\ UNCHANGED <<stage, expired, offered, channel, buffered, topic, ingester, fetched, read,
                       pending, table, lost, faults, row>>
    BY <1>3 DEF ProducerReturns, store
  <2> QED
    BY <2>1 DEF TypeOK, SentinelLast, Closed, Places, ReadIsKept, FlushedFirst, SentinelSeen,
                PercentilesComplete, Published
<1>4. CASE FailRecord
  <2>1. /\ buffered # <<>> /\ buffered' = Tail(buffered)
        /\ UNCHANGED <<stage, expired, offered, channel, producer, topic, ingester, fetched, read,
                       pending, table, lost, faults, row>>
    BY <1>4 DEF FailRecord, store
  <2>2. /\ Tail(buffered) \in Seq(Record) /\ Len(Tail(buffered)) = Len(buffered) - 1
        /\ \A i \in DOMAIN Tail(buffered) :
             i + 1 \in DOMAIN buffered /\ Tail(buffered)[i] = buffered[i + 1]
    BY <2>1, TailRecord DEF TypeOK
  <2>3. TypeOK'
    BY <2>1, <2>2 DEF TypeOK
  <2>4. \A i \in DOMAIN topic : topic[i] # End
    BY <2>1 DEF SentinelLast
  <2>5. Closed' = Closed
    BY <2>1 DEF Closed
  <2>6. \A i \in DOMAIN buffered' :
           buffered'[i] = End => i = Len(buffered') /\ channel' = <<>> /\ Closed'
    <3> SUFFICES ASSUME NEW i \in DOMAIN buffered', buffered'[i] = End
                 PROVE  i = Len(buffered') /\ channel' = <<>> /\ Closed'
      OBVIOUS
    <3>1. i + 1 \in DOMAIN buffered /\ buffered[i + 1] = End
      BY <2>1, <2>2
    <3>2. i + 1 = Len(buffered) /\ channel = <<>> /\ Closed
      BY <3>1 DEF SentinelLast
    <3>3. i \in Int
      BY <2>1, <2>2, LenProperties
    <3> QED
      BY <2>1, <2>2, <2>5, <3>2, <3>3
  <2>7. SentinelLast'
    BY <2>1, <2>4, <2>5, <2>6 DEF SentinelLast
  <2> QED
    BY <2>1, <2>3, <2>7
    DEF Places, ReadIsKept, FlushedFirst, SentinelSeen, PercentilesComplete, Published
<1> QED
  BY <1>1, <1>2, <1>3, <1>4 DEF Publish

\* The topic grows, which it never does once the sentinel is there.
LEMMA DeliverStep == IInv /\ Deliver => IInv'
<1> SUFFICES ASSUME IInv, Deliver PROVE IInv'
  OBVIOUS
<1> USE DEF IInv
<1>1. /\ buffered # <<>> /\ buffered' = Tail(buffered) /\ topic' = Append(topic, Head(buffered))
      /\ UNCHANGED <<stage, expired, offered, channel, producer, ingester, fetched, read,
                     pending, table, lost, faults, row>>
  BY DEF Deliver, store
<1>2. /\ Tail(buffered) \in Seq(Record) /\ Head(buffered) \in Record
      /\ Head(buffered) = buffered[1]
      /\ Len(Tail(buffered)) = Len(buffered) - 1 /\ 1 \in DOMAIN buffered
      /\ \A i \in DOMAIN Tail(buffered) :
           i + 1 \in DOMAIN buffered /\ Tail(buffered)[i] = buffered[i + 1]
      /\ Len(buffered) = 1 => Tail(buffered) = <<>>
  BY <1>1, TailRecord DEF TypeOK
<1>3. /\ topic' \in Seq(Record) /\ Len(topic') = Len(topic) + 1
      /\ DOMAIN topic' = DOMAIN topic \cup {Len(topic) + 1}
      /\ \A i \in DOMAIN topic : topic'[i] = topic[i]
      /\ topic'[Len(topic) + 1] = Head(buffered)
  BY <1>1, <1>2, AppendRecord DEF TypeOK
<1>4. TypeOK'
  BY <1>1, <1>2, <1>3 DEF TypeOK
<1>5. \A i \in DOMAIN topic : topic[i] # End
  BY <1>1 DEF SentinelLast
<1>6. SentinelLast'
  <2>1. \A i \in DOMAIN buffered' :
           buffered'[i] = End => i = Len(buffered') /\ channel' = <<>> /\ Closed'
    BY <1>1, <1>2 DEF SentinelLast, TypeOK, Closed
  <2>2. \A i \in DOMAIN topic' :
           topic'[i] = End => i = Len(topic') /\ buffered' = <<>> /\ channel' = <<>> /\ Closed'
    BY <1>1, <1>2, <1>3, <1>5 DEF SentinelLast, TypeOK, Closed
  <2> QED
    BY <1>1, <2>1, <2>2 DEF SentinelLast, Closed
<1>7. 1..read \subseteq DOMAIN topic /\ (ingester = "finalising" => read + 1 \in DOMAIN topic)
  BY DEF Places, TypeOK
<1>8. Places' /\ ReadIsKept' /\ FlushedFirst'
  BY <1>1, <1>3, <1>7 DEF Places, ReadIsKept, FlushedFirst, TypeOK
<1>9. "ingester" \notin row.by
  BY <1>5, EmptySeq DEF SentinelSeen, TypeOK
<1> QED
  BY <1>1, <1>4, <1>6, <1>8, <1>9 DEF SentinelSeen, PercentilesComplete

\* What the ingester's steps leave alone keeps the sentinel the last record.
LEMMA SentinelStaysLast ==
  ASSUME SentinelLast, UNCHANGED <<stage, channel, buffered, topic>>
  PROVE  SentinelLast'
BY DEF SentinelLast, Closed

\* A step that keeps topic and score row, and of what is lost at most adds to
\* it, keeps the percentiles complete.
LEMMA PercentilesStay ==
  ASSUME SentinelSeen, PercentilesComplete, UNCHANGED <<topic, row>>, lost \subseteq lost'
  PROVE  SentinelSeen' /\ PercentilesComplete'
BY DEF SentinelSeen, PercentilesComplete, Published

\* The ingester moves rows from the batch to the table, and the flush that
\* precedes the percentiles leaves none behind.
LEMMA IngestStep == IInv /\ Ingest => IInv'
<1> SUFFICES ASSUME IInv, Ingest PROVE IInv'
  OBVIOUS
<1> USE DEF IInv
<1>1. CASE LoopTop
  <2>1. /\ ingester = "top" /\ ingester' = "polling"
        /\ UNCHANGED <<stage, expired, offered, channel, producer, buffered, topic, fetched, read,
                       row>>
        /\ Insert(pending) \/ UNCHANGED store
    BY <1>1 DEF LoopTop, run
  <2>2. /\ pending' \subseteq 1..Events /\ table' \subseteq 1..Events /\ lost' \subseteq 1..Events
        /\ faults' \in Nat
        /\ table \cup pending \cup lost \subseteq table' \cup pending' \cup lost'
        /\ lost \subseteq lost'
    <3>1. CASE Insert(pending)
      BY <3>1, InsertKeeps DEF TypeOK
    <3>2. CASE UNCHANGED store
      BY <3>2 DEF TypeOK, store
    <3> QED
      BY <2>1, <3>1, <3>2
  <2>3. TypeOK'
    BY <2>1, <2>2 DEF TypeOK
  <2>4. ReadIsKept' /\ Places' /\ FlushedFirst'
    BY <2>1, <2>2 DEF ReadIsKept, Places, FlushedFirst
  <2> QED
    BY <2>1, <2>2, <2>3, <2>4, SentinelStaysLast, PercentilesStay
<1>2. CASE Poll
  <2>1. /\ ingester' = "reading" /\ ingester = "polling"
        /\ fetched' \in (read + 1)..Len(topic)
        /\ UNCHANGED <<stage, expired, offered, channel, producer, buffered, topic, read,
                       pending, table, lost, faults, row>>
    BY <1>2 DEF Poll, run, store
  <2>2. Len(topic) \in Nat /\ read \in Nat
    BY LenProperties DEF TypeOK
  <2>3. TypeOK' /\ Places'
    BY <2>1, <2>2 DEF TypeOK, Places
  <2>4. ReadIsKept' /\ FlushedFirst'
    BY <2>1 DEF ReadIsKept, FlushedFirst
  <2> QED
    BY <2>1, <2>3, <2>4, SentinelStaysLast, PercentilesStay
<1>3. CASE ReadEvent
  <2>1. /\ ingester = "reading" /\ Next1 # End /\ read' = read + 1 /\ ingester' = AfterRecord
        /\ UNCHANGED <<stage, expired, offered, channel, producer, buffered, topic, fetched, row>>
        /\ \/ Insert(pending \cup {Next1})
           \/ pending' = pending \cup {Next1} /\ UNCHANGED <<table, lost, faults>>
    BY <1>3 DEF ReadEvent, run
  <2>2. Len(topic) \in Nat /\ read \in Nat /\ fetched \in Nat /\ read + 1 <= fetched
        /\ fetched <= Len(topic) /\ topic \in Seq(Record)
    BY <2>1, LenProperties DEF TypeOK, Places
  <2>3. Next1 \in 1..Events
    <3>1. topic[read + 1] \in Record
      BY <2>2, ElementOfSeq
    <3> QED
      BY <2>1, <3>1, SizesAssumption DEF Next1, Record, End
  <2>4. /\ pending' \subseteq 1..Events /\ table' \subseteq 1..Events /\ lost' \subseteq 1..Events
        /\ faults' \in Nat
        /\ table \cup pending \cup {Next1} \cup lost \subseteq table' \cup pending' \cup lost'
        /\ lost \subseteq lost'
    <3>1. CASE Insert(pending \cup {Next1})
      <4>1. pending \cup {Next1} \in SUBSET (1..Events)
        BY <2>3 DEF TypeOK
      <4> QED
        BY <3>1, <4>1, InsertKeeps
    <3>2. CASE pending' = pending \cup {Next1} /\ UNCHANGED <<table, lost, faults>>
      BY <2>3, <3>2 DEF TypeOK
    <3> QED
      BY <2>1, <3>1, <3>2
  <2>5. AfterRecord \in {"top", "reading"} /\ (AfterRecord = "reading" => read + 1 # fetched)
    BY DEF AfterRecord
  <2>6. TypeOK'
    BY <2>1, <2>2, <2>4, <2>5 DEF TypeOK
  <2>7. Places' /\ FlushedFirst'
    BY <2>1, <2>2, <2>5 DEF Places, FlushedFirst
  <2>8. ReadIsKept'
    <3>1. \A i \in 1..read : topic[i] = End \/ topic[i] \in table' \cup pending' \cup lost'
      BY <2>1, <2>4 DEF ReadIsKept
    <3>2. topic[read + 1] \in table' \cup pending' \cup lost'
      BY <2>4 DEF Next1
    <3>3. \A i \in 1..(read + 1) : i \in 1..read \/ i = read + 1
      BY <2>2
    <3> QED
      BY <2>1, <3>1, <3>2, <3>3 DEF ReadIsKept
  <2> QED
    BY <2>1, <2>4, <2>6, <2>7, <2>8, SentinelStaysLast, PercentilesStay
<1>4. CASE ReadSentinel
  <2>1. /\ ingester = "reading" /\ Next1 = End /\ ingester' = "finalising" /\ Insert(pending)
        /\ UNCHANGED <<stage, expired, offered, channel, producer, buffered, topic, fetched, read,
                       row>>
    BY <1>4 DEF ReadSentinel, FlushFirst, run
  <2>2. /\ pending' = {} /\ pending \subseteq table' \cup lost'
        /\ table \subseteq table' /\ lost \subseteq lost'
        /\ table' \subseteq 1..Events /\ lost' \subseteq 1..Events /\ faults' \in Nat
    BY <2>1, InsertKeeps DEF TypeOK
  <2>3. TypeOK'
    BY <2>1, <2>2 DEF TypeOK
  <2>4. Places' /\ FlushedFirst'
    BY <2>1, <2>2 DEF Places, FlushedFirst, Next1
  <2>5. ReadIsKept'
    BY <2>1, <2>2 DEF ReadIsKept
  <2> QED
    BY <2>1, <2>2, <2>3, <2>4, <2>5, SentinelStaysLast, PercentilesStay
<1>5. CASE Finalise
  <2>1. /\ ingester = "finalising" /\ read' = read + 1 /\ ingester' = AfterRecord
        /\ UNCHANGED <<stage, expired, offered, channel, producer, buffered, topic, fetched,
                       pending, table>>
    BY <1>5 DEF Finalise, run
  <2>2. faults' \in Nat /\ \/ row' = WithPercentiles(table \cap Acked) /\ lost' = lost
                           \/ row' = WithPercentiles({}) /\ lost' = lost \cup table
                           \/ row' = row /\ lost' = lost
    BY <1>5 DEF Finalise, TypeOK
  <2>3. /\ Len(topic) \in Nat /\ read \in Nat /\ fetched \in Nat /\ read + 1 <= fetched
        /\ fetched <= Len(topic) /\ pending = {} /\ topic[read + 1] = End
        /\ DOMAIN topic = 1..Len(topic)
    BY <2>1, LenProperties DEF TypeOK, Places, FlushedFirst
  <2>4. Len(topic) = read + 1
    <3>1. read + 1 \in DOMAIN topic
      BY <2>3
    <3> QED
      BY <2>3, <3>1 DEF SentinelLast
  <2>5. Published \subseteq table \cup lost
    <3>1. \A i \in 1..read : topic[i] = End \/ topic[i] \in table \cup lost
      BY <2>1, <2>3 DEF ReadIsKept
    <3>2. \A i \in DOMAIN topic : i \in 1..read \/ i = read + 1
      BY <2>3, <2>4
    <3> QED
      BY <2>3, <3>1, <3>2 DEF Published
  <2>6. lost \subseteq lost' /\ lost' \subseteq 1..Events
    BY <2>2 DEF TypeOK
  <2>7. row' \in Rows
    <3>1. row \in Rows /\ table \cap Acked \in SUBSET (1..Events)
      BY DEF TypeOK, Rows
    <3> QED
      BY <2>2, <3>1, RowFinalised
  <2>8. AfterRecord \in {"top", "reading"} /\ (AfterRecord = "reading" => read + 1 # fetched)
    BY DEF AfterRecord
  <2>9. TypeOK'
    BY <2>1, <2>2, <2>3, <2>6, <2>7, <2>8 DEF TypeOK, Rows
  <2>10. Places' /\ FlushedFirst'
    BY <2>1, <2>3, <2>8 DEF Places, FlushedFirst
  <2>11. ReadIsKept'
    <3>1. \A i \in 1..(read + 1) : i \in 1..read \/ i = read + 1
      BY <2>3
    <3> QED
      BY <2>1, <2>3, <2>6, <3>1 DEF ReadIsKept
  <2>12. SentinelSeen'
    BY <2>1, <2>3, <2>4, EmptySeq DEF SentinelSeen, TypeOK
  <2>13. PercentilesComplete'
    <3>1. row \in Rows /\ table \cap Acked \in SUBSET (1..Events)
      BY DEF TypeOK, Rows
    <3>2. Published' = Published
      BY <2>1 DEF Published
    <3>3. CASE row' = WithPercentiles(table \cap Acked) /\ lost' = lost
      BY <2>5, <3>1, <3>2, <3>3, RowFinalised DEF PercentilesComplete
    <3>4. CASE row' = WithPercentiles({}) /\ lost' = lost \cup table
      BY <2>5, <3>1, <3>2, <3>4, RowFinalised DEF PercentilesComplete
    <3>5. CASE row' = row /\ lost' = lost
      BY <3>2, <3>5 DEF PercentilesComplete
    <3> QED
      BY <2>2, <3>3, <3>4, <3>5
  <2> QED
    BY <2>1, <2>9, <2>10, <2>11, <2>12, <2>13, SentinelStaysLast
<1>6. CASE Restart
  <2>1. /\ ingester = "down" /\ ingester' = "top" /\ fetched' = 0 /\ read' = 0
        /\ UNCHANGED <<stage, expired, offered, channel, producer, buffered, topic,
                       pending, table, lost, faults, row>>
    BY <1>6 DEF Restart, run, store
  <2>2. TypeOK'
    BY <2>1 DEF TypeOK
  <2>3. Places' /\ ReadIsKept' /\ FlushedFirst'
    BY <2>1, LenProperties DEF Places, ReadIsKept, FlushedFirst, TypeOK
  <2> QED
    BY <2>1, <2>2, <2>3, SentinelStaysLast, PercentilesStay
<1> QED
  BY <1>1, <1>2, <1>3, <1>4, <1>5, <1>6 DEF Ingest

\* A stop loses the batch, and what was read counts again from the start.
LEMMA StopStep == IInv /\ Stop => IInv'
<1> SUFFICES ASSUME IInv, Stop PROVE IInv'
  OBVIOUS
<1> USE DEF IInv
<1>1. /\ ingester' = "down" /\ pending' = {} /\ faults' = faults + 1
      /\ UNCHANGED <<stage, expired, offered, channel, producer, buffered, topic, fetched, read,
                     table, lost, row>>
  BY DEF Stop, run
<1>2. TypeOK'
  BY <1>1 DEF TypeOK
<1>3. Places' /\ ReadIsKept' /\ FlushedFirst'
  BY <1>1 DEF Places, ReadIsKept, FlushedFirst
<1> QED
  BY <1>1, <1>2, <1>3, SentinelStaysLast, PercentilesStay

-----------------------------------------------------------------------------
(* The theorems about the percentiles. *)

\* The pipeline starts empty.
LEMMA InitIsIInv == Init => IInv
<1> SUFFICES ASSUME Init PROVE IInv
  OBVIOUS
<1>1. <<>> \in Seq(Record) /\ Len(<<>>) = 0
  BY EmptySeq
<1>2. row = [by |-> {}, metrics |-> None, rows |-> {}]
  BY DEF Init
<1>3. row \in Rows /\ "ingester" \notin row.by
  BY <1>2 DEF Rows
<1>4. TypeOK
  <2>1. /\ channel \in Seq(Record) /\ buffered \in Seq(Record) /\ topic \in Seq(Record)
        /\ stage = "streaming" /\ expired = FALSE /\ offered = 0
        /\ producer = "running" /\ ingester = "top" /\ fetched = 0 /\ read = 0 /\ faults = 0
        /\ pending = {} /\ table = {} /\ lost = {}
    BY <1>1 DEF Init
  <2>2. row \in [by : SUBSET {"api", "ingester"}, metrics : Metrics \cup {None},
                 rows : SUBSET (1..Events)]
    BY <1>3 DEF Rows
  <2>3. 0 \in 0..Events
    BY SizesAssumption
  <2> QED
    BY <2>1, <2>2, <2>3 DEF TypeOK
<1>5. SentinelLast /\ Places /\ ReadIsKept /\ FlushedFirst
  BY <1>1 DEF Init, SentinelLast, Places, ReadIsKept, FlushedFirst
<1> QED
  BY <1>3, <1>4, <1>5 DEF IInv, SentinelSeen, PercentilesComplete

\* Every step keeps IInv.
LEMMA StepKeepsIInv == IInv /\ [TelemetryNext]_vars => IInv'
<1>1. ASSUME IInv, UNCHANGED vars PROVE IInv'
  BY <1>1 DEF vars, run, store, IInv, TypeOK, SentinelLast, Closed, Places, ReadIsKept,
              FlushedFirst, Next1, SentinelSeen, PercentilesComplete, Published
<1> QED
  BY <1>1, CoordinateStep, PublishStep, DeliverStep, IngestStep, StopStep DEF TelemetryNext

\* IInv is an invariant of the pipeline, whatever its fairness.
LEMMA Inductive == TelemetrySpec => []IInv
BY InitIsIInv, StepKeepsIInv, PTL DEF TelemetrySpec

\* Every variable of the pipeline keeps its type.
THEOREM TelemetryTypeCorrect == TelemetrySpec => []TypeOK
<1>1. IInv => TypeOK
  BY DEF IInv
<1> QED
  BY <1>1, Inductive, PTL

\* finalizeRun computes the percentiles of a run from every measurement of an
\* acknowledged tick that ever reaches the broker, apart from rows the database failed to take or give:
\* whatever the ingester had read before a stop, and however its batches fall.
THEOREM PercentilesAreComplete == TelemetrySpec => []PercentilesComplete
<1>1. IInv => PercentilesComplete
  BY DEF IInv
<1> QED
  BY <1>1, Inductive, PTL

\* Nothing comes behind the sentinel: a run is finalised once for each time the
\* ingester reads its topic, never before its last record.
THEOREM NothingBehindSentinel ==
  TelemetrySpec => [](\A i \in DOMAIN topic : topic[i] = End => i = Len(topic))
<1>1. IInv => \A i \in DOMAIN topic : topic[i] = End => i = Len(topic)
  BY DEF IInv, SentinelLast
<1> QED
  BY <1>1, Inductive, PTL

-----------------------------------------------------------------------------
(* Arithmetic. *)

\* Products are monotonic in a factor.
LEMMA TimesMonotonic ==
  ASSUME NEW x \in Int, NEW y \in Int, NEW k \in Int, k >= 1
  PROVE  /\ x * k \in Int
         /\ x >= y => x * k >= y * k
         /\ x > y => x * k > y * k
OBVIOUS

\* A finite set has a greatest value of a function into the naturals, or zero.
LEMMA MaximumExists ==
  ASSUME NEW S, IsFiniteSet(S), NEW g \in [S -> Nat]
  PROVE  \E m \in {g[x] : x \in S} \cup {0} : \A y \in {g[x] : x \in S} \cup {0} : y <= m
<1> DEFINE Values(A) == {g[x] : x \in A} \cup {0}
           HasMax(A) == \E m \in Values(A) : \A y \in Values(A) : y <= m
           Bad == {A \in FiniteSubsetsOf(S) : ~HasMax(A)}
<1>1. SUFFICES ASSUME Bad # {} PROVE FALSE
  <2>1. S \in FiniteSubsetsOf(S)
    BY DEF FiniteSubsetsOf
  <2> QED
    BY <1>1, <2>1
<1>2. PICK A \in Bad : \A B \in Bad : ~ (<<B, A>> \in StrictSubsetOrdering(S))
  <2>1. Bad \subseteq FiniteSubsetsOf(S)
    OBVIOUS
  <2>2. IsWellFoundedOn(StrictSubsetOrdering(S), FiniteSubsetsOf(S))
    BY FS_StrictSubsetOrderingWellFounded
  <2> HIDE DEF Bad
  <2> QED
    BY <1>1, <2>1, <2>2, WFMin
<1>3. A \in SUBSET S /\ IsFiniteSet(A) /\ ~HasMax(A)
  BY <1>2 DEF FiniteSubsetsOf
<1>4. A # {}
  <2>1. Values({}) = {0}
    OBVIOUS
  <2> QED
    BY <1>3, <2>1
<1>5. PICK a \in A : TRUE
  BY <1>4
<1>6. A \ {a} \in FiniteSubsetsOf(S) /\ <<A \ {a}, A>> \in StrictSubsetOrdering(S)
  BY <1>3, <1>5, FS_Subset DEF FiniteSubsetsOf, StrictSubsetOrdering
<1>7. HasMax(A \ {a})
  BY <1>2, <1>6
<1>8. PICK m \in Values(A \ {a}) : \A y \in Values(A \ {a}) : y <= m
  BY <1>7
<1>9. Values(A) = Values(A \ {a}) \cup {g[a]} /\ g[a] \in Nat /\ m \in Nat
  BY <1>3, <1>5, <1>8
<1> HIDE DEF Values
<1>10. CASE g[a] <= m
  BY <1>3, <1>8, <1>9, <1>10
<1>11. CASE ~(g[a] <= m)
  <2>1. \A y \in Values(A \ {a}) : y <= g[a]
    <3>1. \A y \in Values(A \ {a}) : y \in Nat
      BY <1>3 DEF Values
    <3> QED
      BY <1>8, <1>9, <1>11, <3>1
  <2>2. g[a] \in Values(A) /\ g[a] <= g[a]
    BY <1>9
  <2>3. \A y \in Values(A) : y <= g[a]
    BY <1>9, <2>1, <2>2
  <2> QED
    BY <1>3, <2>2, <2>3
<1> QED
  BY <1>10, <1>11

-----------------------------------------------------------------------------
(* Rankings. *)

\* Columns of a row that scores are computed from.
Measured(members) ==
  /\ IsFiniteSet(members)
  /\ \A m \in members : m.correctness \in Nat /\ m.capacity \in Nat /\ m.p99 \in Nat

\* The maxima of a tier are at least every value of it.
LEMMA MaximaBound ==
  ASSUME NEW members, Measured(members)
  PROVE  /\ maxCapTPS(members) \in Nat /\ maxP99(members) \in Nat
         /\ \A m \in members : m.p99 <= maxP99(members)
<1>1. /\ \E m \in {x.capacity : x \in members} \cup {0} :
           \A y \in {x.capacity : x \in members} \cup {0} : y <= m
  <2> DEFINE g == [x \in members |-> x.capacity]
  <2>1. g \in [members -> Nat] /\ {g[x] : x \in members} = {x.capacity : x \in members}
    BY DEF Measured
  <2> HIDE DEF g
  <2>2. IsFiniteSet(members)
    BY DEF Measured
  <2>3. \E m \in {g[x] : x \in members} \cup {0} : \A y \in {g[x] : x \in members} \cup {0} : y <= m
    BY <2>1, <2>2, MaximumExists
  <2> QED
    BY <2>1, <2>3
<1>2. \E m \in {x.p99 : x \in members} \cup {0} : \A y \in {x.p99 : x \in members} \cup {0} : y <= m
  <2> DEFINE g == [x \in members |-> x.p99]
  <2>1. g \in [members -> Nat] /\ {g[x] : x \in members} = {x.p99 : x \in members}
    BY DEF Measured
  <2> HIDE DEF g
  <2>2. IsFiniteSet(members)
    BY DEF Measured
  <2>3. \E m \in {g[x] : x \in members} \cup {0} : \A y \in {g[x] : x \in members} \cup {0} : y <= m
    BY <2>1, <2>2, MaximumExists
  <2> QED
    BY <2>1, <2>3
<1>3. \A y \in {x.capacity : x \in members} \cup {0} : y \in Nat
  BY DEF Measured
<1>4. \A y \in {x.p99 : x \in members} \cup {0} : y \in Nat
  BY DEF Measured
<1>5. maxCapTPS(members) \in Nat
  BY <1>1, <1>3 DEF maxCapTPS, MaxFrom0
<1>6. /\ maxP99(members) \in {x.p99 : x \in members} \cup {0}
      /\ \A y \in {x.p99 : x \in members} \cup {0} : y <= maxP99(members)
  BY <1>2 DEF maxP99, MaxFrom0
<1> QED
  BY <1>4, <1>5, <1>6

\* An entry that is nowhere worse than another of its tier, and somewhere
\* better, has the greater composite score.
LEMMA DominatingScoresMore ==
  ASSUME NEW members, Measured(members), NEW a \in members, NEW b \in members, Dominates(a, b)
  PROVE  Composite(a, members) > Composite(b, members)
<1> DEFINE C == AtLeast1(maxCapTPS(members))
           P == AtLeast1(maxP99(members))
           M == maxP99(members)
<1>1. /\ C \in Nat /\ C >= 1 /\ P \in Nat /\ P >= 1 /\ M \in Nat /\ a.p99 <= M /\ b.p99 <= M
      /\ a.correctness \in Nat /\ a.capacity \in Nat /\ a.p99 \in Nat
      /\ b.correctness \in Nat /\ b.capacity \in Nat /\ b.p99 \in Nat
  BY MaximaBound DEF AtLeast1, Measured
<1>2. /\ Composite(a, members) = 2 * a.correctness * C * P + 2 * a.capacity * Full * P
                                 + (M - a.p99) * Full * C
      /\ Composite(b, members) = 2 * b.correctness * C * P + 2 * b.capacity * Full * P
                                 + (M - b.p99) * Full * C
  BY DEF Composite
<1> HIDE DEF C, P, M
<1>3. /\ 2 * a.correctness * C * P \in Int /\ 2 * b.correctness * C * P \in Int
      /\ 2 * a.correctness * C * P >= 2 * b.correctness * C * P
      /\ a.correctness > b.correctness => 2 * a.correctness * C * P > 2 * b.correctness * C * P
  <2>1. /\ 2 * a.correctness * C \in Int /\ 2 * b.correctness * C \in Int
        /\ 2 * a.correctness * C >= 2 * b.correctness * C
        /\ a.correctness > b.correctness => 2 * a.correctness * C > 2 * b.correctness * C
    <3>1. a.correctness >= b.correctness
      BY DEF Dominates
    <3> QED
      BY <1>1, <3>1, TimesMonotonic
  <2> QED
    BY <1>1, <2>1, TimesMonotonic
<1>4. /\ 2 * a.capacity * Full * P \in Int /\ 2 * b.capacity * Full * P \in Int
      /\ 2 * a.capacity * Full * P >= 2 * b.capacity * Full * P
      /\ a.capacity > b.capacity => 2 * a.capacity * Full * P > 2 * b.capacity * Full * P
  <2>1. /\ 2 * a.capacity * Full \in Int /\ 2 * b.capacity * Full \in Int
        /\ 2 * a.capacity * Full >= 2 * b.capacity * Full
        /\ a.capacity > b.capacity => 2 * a.capacity * Full > 2 * b.capacity * Full
    BY <1>1 DEF Dominates, Full
  <2> QED
    BY <1>1, <2>1, TimesMonotonic
<1>5. /\ (M - a.p99) * Full * C \in Int /\ (M - b.p99) * Full * C \in Int
      /\ (M - a.p99) * Full * C >= (M - b.p99) * Full * C
      /\ a.p99 < b.p99 => (M - a.p99) * Full * C > (M - b.p99) * Full * C
  <2>1. /\ (M - a.p99) * Full \in Int /\ (M - b.p99) * Full \in Int
        /\ (M - a.p99) * Full >= (M - b.p99) * Full
        /\ a.p99 < b.p99 => (M - a.p99) * Full > (M - b.p99) * Full
    BY <1>1 DEF Dominates, Full
  <2> QED
    BY <1>1, <2>1, TimesMonotonic
<1>6. a.correctness > b.correctness \/ a.capacity > b.capacity \/ a.p99 < b.p99
  BY DEF Dominates
<1> QED
  BY <1>2, <1>3, <1>4, <1>5, <1>6

\* The sort of buildTiers ranks an entry before every entry of its tier that it
\* dominates, unless it alone is flagged.
THEOREM DominatingRanksFirst ==
  ASSUME NEW members, Measured(members), NEW r \in Rankings(members),
         NEW i \in DOMAIN r, NEW j \in DOMAIN r,
         r[i].critical = r[j].critical, Dominates(r[i], r[j])
  PROVE  i < j
<1> DEFINE composite == [m \in members |-> Composite(m, members)]
<1>1. /\ r \in [1..Cardinality(members) -> members]
      /\ \A k, l \in DOMAIN r : k < l => ~less(r[l], r[k], composite)
  BY DEF Rankings
<1>2. r[i] \in members /\ r[j] \in members /\ i \in Int /\ j \in Int
  BY <1>1
<1>3. composite[r[i]] > composite[r[j]]
  BY <1>2, DominatingScoresMore
<1>4. i # j
  BY <1>2 DEF Dominates, Measured
<1>5. ~(j < i)
  BY <1>1, <1>3 DEF less
<1> QED
  BY <1>2, <1>4, <1>5

\* Every member of a tier has a place in its ranking.
LEMMA EveryMemberRanked ==
  ASSUME NEW members, IsFiniteSet(members), NEW r \in Rankings(members), NEW m \in members
  PROVE  \E i \in DOMAIN r : r[i] = m
<1> DEFINE n == Cardinality(members)
           Ranked == {r[i] : i \in 1..n}
<1>1. r \in [1..n -> members] /\ \A i, j \in 1..n : i # j => r[i] # r[j]
  BY DEF Rankings
<1>2. n \in Nat /\ IsFiniteSet(1..n) /\ Cardinality(1..n) = n
  BY FS_CardinalityType, FS_Interval
<1> HIDE DEF n
<1>3. r \in Bijection(1..n, Ranked)
  <2>1. r \in [1..n -> Ranked]
    BY <1>1
  <2>2. \A i, j \in 1..n : r[i] = r[j] => i = j
    BY <1>1
  <2>3. \A x \in Ranked : \E i \in 1..n : r[i] = x
    OBVIOUS
  <2> QED
    BY <2>1, <2>2, <2>3, Fun_IsInj, Fun_IsSurj DEF Bijection
<1>4. Cardinality(Ranked) = n
  BY <1>2, <1>3, FS_Bijection DEF ExistsBijection
<1>5. Ranked = members
  BY <1>1, <1>4, FS_Subset DEF n
<1> QED
  BY <1>1, <1>5

-----------------------------------------------------------------------------
(* The row of the run. *)

\* The API server writes its half of the row once, at the end of runJob.
WrittenOnce == "api" \in row.by => stage = "over" /\ row.metrics \in Metrics

\* A step of the run leaves its row's score as it is, or gives it its own in the
\* place of the one that was there before the run.
LEMMA RowStep ==
  ASSUME IInv, WrittenOnce, [TelemetryNext]_vars, leftover' = leftover
  PROVE  /\ WrittenOnce'
         /\ row.by \subseteq row'.by
         /\ \/ RunRow'.composite = RunRow.composite
            \/ "api" \in row'.by /\ RunRow.composite = Old.composite
<1>1. row \in Rows
  BY DEF IInv, TypeOK, Rows
<1>2. \/ row' = row
      \/ \E rows \in SUBSET (1..Events) : row' = WithPercentiles(rows)
      \/ stage = "scoring" /\ stage' = "over" /\ \E m \in Metrics : row' = Upserted(m)
  <2>1. CASE UNCHANGED vars
    BY <2>1 DEF vars
  <2>2. CASE Score
    BY <2>2 DEF Score
  <2>3. CASE Finalise
    <3>1. table \cap Acked \in SUBSET (1..Events) /\ {} \in SUBSET (1..Events)
      BY DEF IInv, TypeOK
    <3> QED
      BY <2>3, <3>1 DEF Finalise
  <2> QED
    BY <2>1, <2>2, <2>3 DEF TelemetryNext, Coordinate, FanIn, StreamsEnd, SendSentinel,
      ProducerDone, Expire, Publish, Produce, ProducerReturns, Deliver, FailRecord, Ingest,
      LoopTop, Poll, ReadEvent, ReadSentinel, Restart, Stop
<1>3. stage = "over" => stage' = "over"
  <2>1. CASE UNCHANGED vars
    BY <2>1 DEF vars, run
  <2>2. CASE Coordinate
    BY <2>2 DEF Coordinate, FanIn, StreamsEnd, SendSentinel, ProducerDone, Score
  <2>3. CASE Expire \/ Publish \/ Deliver \/ FailRecord
    BY <2>3 DEF Expire, Publish, Produce, ProducerReturns, Deliver, FailRecord
  <2>4. CASE Ingest \/ Stop
    BY <2>4 DEF Ingest, LoopTop, Poll, ReadEvent, ReadSentinel, Finalise, Restart, Stop, run
  <2> QED
    BY <2>1, <2>2, <2>3, <2>4 DEF TelemetryNext
<1>4. /\ "api" \in row.by => RunRow.composite = row.metrics.composite
      /\ "api" \notin row.by => RunRow.composite = Old.composite
      /\ "api" \in row'.by => RunRow'.composite = row'.metrics.composite
      /\ "api" \notin row'.by => RunRow'.composite = Old'.composite
  BY DEF RunRow
<1>5. Old' = Old
  BY DEF Old
<1>6. CASE row' = row
  BY <1>3, <1>4, <1>5, <1>6 DEF WrittenOnce
<1>7. ASSUME NEW rows \in SUBSET (1..Events), row' = WithPercentiles(rows)
      PROVE  WrittenOnce' /\ row.by \subseteq row'.by /\ RunRow'.composite = RunRow.composite
  <2>1. row'.metrics = row.metrics /\ row'.by = row.by \cup {"ingester"}
    BY <1>1, <1>7 DEF WithPercentiles, Rows
  <2> QED
    BY <1>3, <1>4, <1>5, <2>1 DEF WrittenOnce
<1>8. ASSUME stage = "scoring", stage' = "over", NEW m \in Metrics, row' = Upserted(m)
      PROVE  /\ WrittenOnce' /\ row.by \subseteq row'.by
             /\ "api" \in row'.by /\ RunRow.composite = Old.composite
  <2>1. row'.metrics = m /\ row'.by = row.by \cup {"api"}
    BY <1>1, <1>8 DEF Upserted, Rows
  <2>2. "api" \notin row.by
    BY <1>8 DEF WrittenOnce
  <2> QED
    BY <1>4, <1>8, <2>1, <2>2 DEF WrittenOnce
<1> QED
  BY <1>2, <1>6, <1>7, <1>8

-----------------------------------------------------------------------------
(* Boards. *)

\* The columns that the run finds are counts.
LEMMA OldMeasured ==
  ASSUME leftover \in Leftovers \cup {NoRow}
  PROVE  Counts(Old) /\ Old.p99 \in Nat
<1>1. CASE leftover = NoRow
  BY <1>1 DEF Old, Defaults, Counts
<1>2. CASE leftover # NoRow
  BY <1>2, LeftoversAssumption DEF Old
<1> QED
  BY <1>1, <1>2

\* Rows as the poller can find them.
LEMMA RowsMeasured ==
  ASSUME IInv, WrittenOnce, finished \in Finished, leftover \in Leftovers \cup {NoRow}
  PROVE  /\ Measured(runScores)
         /\ \A m \in runScores : m.composite \in Nat /\ m.critical = FALSE
<1>1. /\ RunRow.correctness \in Nat /\ RunRow.capacity \in Nat /\ RunRow.composite \in Nat
      /\ RunRow.critical = FALSE
  <2>1. Counts(Old)
    BY OldMeasured
  <2>2. "api" \in row.by => Counts(row.metrics)
    BY MetricsAssumption DEF WrittenOnce
  <2> QED
    BY <2>1, <2>2 DEF RunRow, Counts
<1>2. RunRow.p99 \in Nat
  <2> DEFINE g == [e \in row.rows |-> Latency[e]]
             Values == {Latency[e] : e \in row.rows}
  <2>1. row.rows \subseteq 1..Events /\ IsFiniteSet(1..Events)
    BY FS_Interval, SizesAssumption DEF IInv, TypeOK
  <2>2. IsFiniteSet(row.rows)
    BY <2>1, FS_Subset
  <2>3. g \in [row.rows -> Nat] /\ {g[e] : e \in row.rows} = Values
    BY <2>1, LatencyAssumption
  <2>4. \A x \in Values \cup {0} : x \in Nat
    BY <2>1, LatencyAssumption
  <2> HIDE DEF g
  <2>5. \E m \in {g[e] : e \in row.rows} \cup {0} :
          \A y \in {g[e] : e \in row.rows} \cup {0} : y <= m
    BY <2>2, <2>3, MaximumExists
  <2> HIDE DEF Values
  <2>6. MaxFrom0(Values) \in Nat
    BY <2>3, <2>4, <2>5 DEF MaxFrom0
  <2>7. P99(row.rows) \in Nat
    BY <2>6 DEF P99, Values
  <2>8. Old.p99 \in Nat
    BY OldMeasured
  <2> QED
    BY <2>7, <2>8 DEF RunRow
<1>3. IsFiniteSet(finished) /\ \A m \in finished :
        Counts(m) /\ m.p99 \in Nat /\ m.critical = FALSE
  BY FinishedAssumption
<1>4. IsFiniteSet(runScores)
  BY <1>3, FS_AddElement DEF runScores
<1>5. \A m \in runScores : m \in finished \/ m = RunRow
  BY DEF runScores
<1> QED
  BY <1>1, <1>2, <1>3, <1>4, <1>5 DEF Measured, Counts

\* A tier of the board is a ranking of unflagged, measured entries.
TierOK(list) ==
  \E members : /\ Measured(members) /\ \A m \in members : m.critical = FALSE
               /\ list \in Rankings(members)

LastIsRanked == last # NoBoard => \A t \in Tiers : TierOK(last[t])

\* An entry made from the row of the run, as it is or as the run found it.
OfRun(m) ==
  /\ HasRow /\ m.team = Team /\ m.attempt = Attempt
  /\ m.composite = RunRow.composite \/ ("api" \in row.by /\ m.composite = Old.composite)

\* What is on the board is in the table, or was made from the row of the run.
LastIsBacked == last # NoBoard => \A m \in Shown(last) : m \in finished \/ OfRun(m)

LastIsCounted == last # NoBoard => \A m \in Shown(last) : m.composite \in Nat

RInv ==
  /\ IInv /\ WrittenOnce /\ finished \in Finished /\ leftover \in Leftovers \cup {NoRow}
  /\ LastIsRanked /\ LastIsBacked /\ LastIsCounted

\* A board that a poll builds from the rows of run_scores is ranked, shows rows
\* of the table only, and has a row of every team, none of a lower score.
LEMMA PolledBoard ==
  ASSUME NEW rows, Measured(rows), \A m \in rows : m.composite \in Nat /\ m.critical = FALSE,
         NEW best \in BestPerTeam(rows), NEW board \in Boards(best)
  PROVE  /\ \A t \in Tiers : TierOK(board[t])
         /\ Shown(board) \subseteq rows
         /\ \A m \in rows : \E n \in Shown(board) : n.team = m.team /\ n.composite >= m.composite
<1>1. /\ best \subseteq rows
      /\ \A m \in rows : \E p \in best : p.team = m.team /\ p.composite >= m.composite
  BY DEF BestPerTeam
<1>2. \A t \in Tiers : board[t] \in Rankings(ByTier(best)[t])
  BY DEF Boards, Tiers
<1>3. \A t \in Tiers : ByTier(best)[t] = {m \in best : tierFor(m.language) = t}
  BY DEF ByTier
<1>4. \A t \in Tiers : ByTier(best)[t] \subseteq rows
  BY <1>1, <1>3
<1>5. \A t \in Tiers : Measured(ByTier(best)[t])
  BY <1>4, FS_Subset DEF Measured
<1>6. \A t \in Tiers : TierOK(board[t])
  BY <1>2, <1>4, <1>5 DEF TierOK
<1>7. \A t \in Tiers : \A i \in DOMAIN board[t] : board[t][i] \in ByTier(best)[t]
  BY <1>2 DEF Rankings
<1>8. Shown(board) \subseteq rows
  BY <1>4, <1>7 DEF Shown
<1>9. ASSUME NEW m \in rows
      PROVE  \E n \in Shown(board) : n.team = m.team /\ n.composite >= m.composite
  <2>1. PICK p \in best : p.team = m.team /\ p.composite >= m.composite
    BY <1>1
  <2>2. tierFor(p.language) \in Tiers
    BY DEF tierFor, Tiers
  <2>3. p \in ByTier(best)[tierFor(p.language)]
    BY <1>3, <2>2
  <2>4. \E i \in DOMAIN board[tierFor(p.language)] : board[tierFor(p.language)][i] = p
    BY <1>2, <1>5, <2>2, <2>3, EveryMemberRanked DEF Measured
  <2>5. p \in Shown(board)
    BY <2>2, <2>4 DEF Shown
  <2> QED
    BY <2>1, <2>5
<1> QED
  BY <1>6, <1>8, <1>9

\* What a step of the leaderboard does to the last board.
LEMMA BoardChanges ==
  ASSUME LeaderboardNext(runScores)
  PROVE  \/ last' = last
         \/ \E best \in BestPerTeam(runScores) : \E board \in Boards(best) : last' = board
BY DEF LeaderboardNext, Browse, Connect, Stick, Leave, Handle, Register, ReadFails, Unregister,
       PollScores, Write

\* What an entry of the last board is worth, its team has in the table.
LEMMA WorthIsThere ==
  ASSUME RInv, last # NoBoard, NEW m \in Shown(last)
  PROVE  Worth(m) \in Nat /\ \E n \in runScores : n.team = m.team /\ n.composite >= Worth(m)
<1> USE DEF RInv
<1>1. m.composite \in Nat /\ \A n \in runScores : n.composite \in Nat
  BY RowsMeasured DEF LastIsCounted
<1>2. HasRow => RunRow \in runScores
  BY DEF runScores
<1>3. RunRow.team = Team /\ ("api" \in row.by => RunRow.composite = row.metrics.composite)
  BY DEF RunRow
<1>4. CASE Overwritten(m)
  <2>1. HasRow /\ m.team = Team /\ Worth(m) = RunRow.composite
    BY <1>3, <1>4 DEF Overwritten, Worth, HasRow
  <2> QED
    BY <1>1, <1>2, <1>3, <2>1
<1>5. CASE ~Overwritten(m)
  <2>1. Worth(m) = m.composite
    BY <1>5 DEF Worth
  <2>2. CASE m \in finished
    BY <1>1, <2>1, <2>2 DEF runScores
  <2>3. CASE OfRun(m)
    <3>1. RunRow \in runScores /\ RunRow.team = m.team /\ RunRow.composite \in Nat
      BY <1>1, <1>2, <1>3, <2>3 DEF OfRun
    <3>2. m.composite = RunRow.composite \/ m.composite = 0
      BY <1>5, <2>3 DEF OfRun, Overwritten, Old, Defaults
    <3> QED
      BY <1>1, <2>1, <3>1, <3>2
  <2> QED
    BY <2>2, <2>3 DEF LastIsBacked
<1> QED
  BY <1>4, <1>5

\* RInv is an invariant, and a new board has every team of the last one.
LEMMA BoardStepOK ==
  ASSUME RInv, [ResultsNext]_allVars
  PROVE  /\ RInv'
         /\ last' # last => (last # NoBoard =>
              \A m \in Shown(last) : \E n \in Shown(last') :
                n.team = m.team /\ n.composite >= Worth(m))
<1> USE DEF RInv
<1>1. CASE RunStep \/ UNCHANGED allVars
  <2>1. [TelemetryNext]_vars /\ UNCHANGED <<last, finished, leftover>>
    BY <1>1 DEF RunStep, boardVars, allVars
  <2>2. IInv'
    BY <2>1, StepKeepsIInv
  <2>3. /\ WrittenOnce' /\ row.by \subseteq row'.by /\ Old' = Old
        /\ \/ RunRow'.composite = RunRow.composite
           \/ "api" \in row'.by /\ RunRow.composite = Old.composite
    BY <2>1, RowStep DEF Old
  <2>4. LastIsRanked' /\ LastIsCounted'
    BY <2>1 DEF LastIsRanked, LastIsCounted
  <2>5. \A m : OfRun(m) => OfRun(m)'
    BY <2>1, <2>3 DEF OfRun, HasRow
  <2>6. LastIsBacked'
    BY <2>1, <2>5 DEF LastIsBacked
  <2> QED
    BY <2>1, <2>2, <2>3, <2>4, <2>6
<1>2. CASE BoardStep
  <2>1. UNCHANGED <<vars, finished, leftover>> /\ LeaderboardNext(runScores)
    BY <1>2 DEF BoardStep
  <2>2. row' = row /\ RunRow' = RunRow /\ Old' = Old /\ HasRow' = HasRow
    <3>1. row' = row /\ leftover' = leftover
      BY <2>1 DEF vars
    <3> QED
      BY <3>1 DEF RunRow, Old, HasRow
  <2>3. IInv' /\ WrittenOnce' /\ finished' = finished /\ leftover' = leftover
    <3>1. [TelemetryNext]_vars /\ finished' = finished /\ leftover' = leftover
      BY <2>1
    <3> QED
      BY <3>1, StepKeepsIInv, RowStep
  <2>4. CASE last' = last
    BY <2>2, <2>3, <2>4 DEF LastIsRanked, LastIsCounted, LastIsBacked, OfRun
  <2>5. ASSUME NEW best \in BestPerTeam(runScores), NEW board \in Boards(best), last' = board
        PROVE  RInv' /\ (last' # last => (last # NoBoard =>
                 \A m \in Shown(last) : \E n \in Shown(last') :
                   n.team = m.team /\ n.composite >= Worth(m)))
    <3>1. /\ Measured(runScores)
          /\ \A m \in runScores : m.composite \in Nat /\ m.critical = FALSE
      BY RowsMeasured
    <3>2. /\ \A t \in Tiers : TierOK(board[t])
          /\ Shown(board) \subseteq runScores
          /\ \A m \in runScores : \E n \in Shown(board) :
               n.team = m.team /\ n.composite >= m.composite
      BY <3>1, PolledBoard
    <3>3. LastIsRanked' /\ LastIsCounted'
      BY <2>5, <3>1, <3>2 DEF LastIsRanked, LastIsCounted
    <3>4. LastIsBacked'
      <4>1. \A m \in runScores : m \in finished \/ OfRun(m)
        BY DEF runScores, OfRun, RunRow
      <4> QED
        BY <2>2, <2>3, <2>5, <3>2, <4>1 DEF LastIsBacked, OfRun
    <3>5. ASSUME last # NoBoard, NEW m \in Shown(last)
          PROVE  \E n \in Shown(last') : n.team = m.team /\ n.composite >= Worth(m)
      <4>1. Worth(m) \in Nat /\ \E q \in runScores : q.team = m.team /\ q.composite >= Worth(m)
        BY <3>5, WorthIsThere
      <4>2. PICK q \in runScores : q.team = m.team /\ q.composite >= Worth(m)
        BY <4>1
      <4>3. PICK n \in Shown(board) : n.team = q.team /\ n.composite >= q.composite
        BY <3>2
      <4>4. n.composite \in Nat /\ q.composite \in Nat
        BY <3>1, <3>2
      <4> QED
        BY <2>5, <4>1, <4>2, <4>3, <4>4
    <3> QED
      BY <2>3, <3>3, <3>4, <3>5
  <2> QED
    BY <2>1, <2>4, <2>5, BoardChanges
<1> QED
  BY <1>1, <1>2 DEF ResultsNext

LEMMA BoardsInductive == ResultsSpec => []RInv
<1>1. ResultsInit => RInv
  <2> SUFFICES ASSUME ResultsInit PROVE RInv
    OBVIOUS
  <2>1. IInv
    BY InitIsIInv DEF ResultsInit
  <2>2. last = NoBoard /\ finished \in Finished /\ leftover \in Leftovers \cup {NoRow}
    BY DEF ResultsInit, LeaderboardInit
  <2>3. WrittenOnce
    BY DEF ResultsInit, Init, WrittenOnce
  <2> QED
    BY <2>1, <2>2, <2>3 DEF RInv, LastIsRanked, LastIsBacked, LastIsCounted
<1>2. RInv /\ [ResultsNext]_allVars => RInv'
  BY BoardStepOK
<1> QED
  BY <1>1, <1>2, PTL DEF ResultsSpec

-----------------------------------------------------------------------------
(* The theorems. *)

\* buildTiers ranks an entry before every entry of its tier that is nowhere
\* better and somewhere worse, on every board the leaderboard ever sends.
THEOREM BoardsInMeritOrder == ResultsSpec => []MeritOrder
<1>1. RInv => MeritOrder
  <2> SUFFICES ASSUME RInv, last # NoBoard, NEW t \in Tiers,
                      NEW i \in DOMAIN last[t], NEW j \in DOMAIN last[t],
                      Dominates(last[t][i], last[t][j])
               PROVE  i < j
    BY DEF MeritOrder
  <2>1. PICK members : /\ Measured(members) /\ \A m \in members : m.critical = FALSE
                       /\ last[t] \in Rankings(members)
    BY DEF RInv, LastIsRanked, TierOK
  <2>2. last[t][i] \in members /\ last[t][j] \in members
    BY <2>1 DEF Rankings
  <2>3. last[t][i].critical = last[t][j].critical
    BY <2>1, <2>2
  <2> QED
    BY <2>1, <2>3, DominatingRanksFirst
<1> QED
  BY <1>1, BoardsInductive, PTL

\* A team stays on the board with at least the score it had, although poll reads
\* the row of its new run while upsertRunScore and finalizeRun have written only
\* a half of it; a score is only ever lost to a second run of its submission,
\* and then for the score of that run.
THEOREM BoardNeverSlipsBack == ResultsSpec => NeverSlipsBack
<1>1. RInv /\ [ResultsNext]_allVars =>
        [last # NoBoard =>
           \A m \in Shown(last) : \E n \in Shown(last') :
             n.team = m.team /\ n.composite >= Worth(m)]_last
  BY BoardStepOK
<1> QED
  BY <1>1, BoardsInductive, PTL DEF ResultsSpec, NeverSlipsBack

\* The percentiles are complete also beside the leaderboard.
THEOREM ResultsPercentilesComplete == ResultsSpec => []PercentilesComplete
<1>1. RInv => PercentilesComplete
  BY DEF RInv, IInv
<1> QED
  BY <1>1, BoardsInductive, PTL
=============================================================================
