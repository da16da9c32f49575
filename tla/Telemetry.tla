----------------------------- MODULE Telemetry -----------------------------
(***************************************************************************)
(* The way of one run's measurements into its score row: the fan-in of     *)
(* coordinator.go offers every event to a bounded channel, producer.go     *)
(* publishes what it takes from it, the broker appends it to a topic, and  *)
(* ingester.go writes it to telemetry_events and, at the sentinel, the     *)
(* percentiles to run_scores.  The other half of that row comes from the   *)
(* API server, in runJob, once Coordinator.Run has returned.               *)
(*                                                                         *)
(* Events are numbered in the order the fan-in receives them.  The records *)
(* of a run have one key, so they share a partition and keep their order.  *)
(***************************************************************************)
EXTENDS Integers, Sequences, FiniteSets

CONSTANTS Events,      \* events the fan-in may receive
          Acked,       \* those of them that report an acknowledged tick, not a rejected one
          ChannelSize, \* places of producerCh
          FlushRows,   \* rows the ingester collects before it writes them
          MaxFaults,   \* failures of the database and stops of the ingester
          Metrics,     \* what the API server may write for the run
          None         \* the metrics of a row the API server has not written

ASSUME SizesAssumption == /\ Events \in Nat /\ MaxFaults \in Nat
                          /\ ChannelSize \in Nat \ {0} /\ FlushRows \in Nat \ {0}
ASSUME AckedAssumption == Acked \subseteq 1..Events
ASSUME NoneAssumption == None \notin Metrics

VARIABLES
  stage,    \* where runJob is: "streaming", "sentinel", "waiting", "scoring" or "over"
  expired,  \* the run's context is done before the run is
  offered,  \* events received by the fan-in
  channel,  \* producerCh
  producer, \* Producer.Run is "running" or "done"
  buffered, \* records handed to the client and not yet at the broker
  topic,    \* the partition of the run
  ingester, \* where Ingester.Run is: "top", "polling", "reading", "finalising" or "down"
  fetched,  \* records of the topic the ingester's polls have returned
  read,     \* records it has handled
  pending,  \* rows it has collected
  table,    \* rows of telemetry_events
  lost,     \* rows that a failed insert or query has left out
  row,      \* the run's row of run_scores and who has written it
  faults    \* faults so far

run == <<stage, expired, offered, channel, producer, buffered>>
store == <<pending, table, lost, faults>>
vars == <<run, topic, ingester, fetched, read, store, row>>

\* The sentinel record, with order id __RUN_COMPLETE__.
End == 0

Init ==
  /\ stage = "streaming" /\ expired = FALSE /\ offered = 0
  /\ channel = <<>> /\ producer = "running" /\ buffered = <<>>
  /\ topic = <<>>
  /\ ingester = "top" /\ fetched = 0 /\ read = 0
  /\ pending = {} /\ table = {} /\ lost = {} /\ faults = 0
  /\ row = [by |-> {}, metrics |-> None, rows |-> {}]

-----------------------------------------------------------------------------
(* The coordinator: Run and, after it, the rest of runJob. *)

HasRoom == Len(channel) < ChannelSize

\* The fan-in does not wait for the producer: an event that finds the channel
\* full is not published.
FanIn ==
  /\ stage = "streaming" /\ offered < Events
  /\ offered' = offered + 1
  /\ channel' = IF HasRoom THEN Append(channel, offered + 1) ELSE channel
  /\ UNCHANGED <<stage, expired, producer, buffered, topic, ingester, fetched, read, store, row>>

StreamsEnd ==
  /\ stage = "streaming"
  /\ stage' = "sentinel"
  /\ UNCHANGED <<expired, offered, channel, producer, buffered, topic, ingester, fetched, read,
                 store, row>>

SkipsSentinel_WhenFull == expired \/ ~HasRoom

SkipsSentinel == expired

\* The sentinel waits for a place in the channel or for the end of the context;
\* then the channel is closed.
SendSentinel ==
  /\ stage = "sentinel"
  /\ \/ HasRoom /\ channel' = Append(channel, End)
     \/ SkipsSentinel /\ UNCHANGED channel
  /\ stage' = "waiting"
  /\ UNCHANGED <<expired, offered, producer, buffered, topic, ingester, fetched, read, store, row>>

Closed == stage \notin {"streaming", "sentinel"}

\* producerWg.Wait, after which Run collects its metrics and returns.
ProducerDone ==
  /\ stage = "waiting" /\ producer = "done"
  /\ stage' = "scoring"
  /\ UNCHANGED <<expired, offered, channel, producer, buffered, topic, ingester, fetched, read,
                 store, row>>

Upserted(m) == [row EXCEPT !.by = @ \cup {"api"}, !.metrics = m]

\* upsertRunScore writes its columns of the row, or only logs that it could
\* not.  Then runJob returns and closes the producer's client.
Score ==
  /\ stage = "scoring"
  /\ \/ /\ \E m \in Metrics : row' = Upserted(m)
        /\ UNCHANGED faults
     \/ faults < MaxFaults /\ faults' = faults + 1 /\ UNCHANGED row
  /\ stage' = "over"
  /\ buffered' = <<>>
  /\ UNCHANGED <<expired, offered, channel, producer, topic, ingester, fetched, read, pending,
                 table, lost>>

\* The deadline of the run, or the end of the server.
Expire ==
  /\ stage # "over" /\ ~expired
  /\ expired' = TRUE
  /\ UNCHANGED <<stage, offered, channel, producer, buffered, topic, ingester, fetched, read,
                 store, row>>

-----------------------------------------------------------------------------
(* The producer and the broker. *)

Produce ==
  /\ producer = "running" /\ channel # <<>>
  /\ channel' = Tail(channel)
  /\ buffered' = Append(buffered, Head(channel))
  /\ UNCHANGED <<stage, expired, offered, producer, topic, ingester, fetched, read, store, row>>

\* The channel is closed and drained, or the context is done.  Flush waits for
\* the broker to have everything as long as the context is live.
ProducerReturns ==
  /\ producer = "running"
  /\ \/ Closed /\ channel = <<>> /\ buffered = <<>>
     \/ expired
  /\ producer' = "done"
  /\ UNCHANGED <<stage, expired, offered, channel, buffered, topic, ingester, fetched, read,
                 store, row>>

Deliver ==
  /\ buffered # <<>>
  /\ topic' = Append(topic, Head(buffered))
  /\ buffered' = Tail(buffered)
  /\ UNCHANGED <<stage, expired, offered, channel, producer, ingester, fetched, read, store, row>>

\* A record is produced under the run's context and fails with it.
FailRecord ==
  /\ buffered # <<>> /\ expired
  /\ buffered' = Tail(buffered)
  /\ UNCHANGED <<stage, expired, offered, channel, producer, topic, ingester, fetched, read,
                 store, row>>

-----------------------------------------------------------------------------
(* The ingester. *)

\* insertBatch: all of the rows or, after an error, which is logged, none.  They
\* are no longer pending in either case.
Insert(rows) ==
  /\ pending' = {}
  /\ \/ /\ table' = table \cup rows
        /\ UNCHANGED <<lost, faults>>
     \/ /\ rows # {} /\ faults < MaxFaults
        /\ faults' = faults + 1 /\ lost' = lost \cup rows
        /\ UNCHANGED table

\* The top of the loop looks at the flush timer and goes on to PollFetches.
LoopTop ==
  /\ ingester = "top"
  /\ ingester' = "polling"
  /\ Insert(pending) \/ UNCHANGED store
  /\ UNCHANGED <<run, topic, fetched, read, row>>

\* PollFetches waits for records, and while it does the timer is not looked at.
Poll ==
  /\ ingester = "polling" /\ read < Len(topic)
  /\ fetched' \in (read + 1)..Len(topic)
  /\ ingester' = "reading"
  /\ UNCHANGED <<run, topic, read, store, row>>

Next1 == topic[read + 1]

AfterRecord == IF read + 1 = fetched THEN "top" ELSE "reading"

ReadEvent ==
  /\ ingester = "reading" /\ Next1 # End
  /\ LET rows == pending \cup {Next1}
     IN IF Cardinality(rows) >= FlushRows THEN Insert(rows)
        ELSE pending' = rows /\ UNCHANGED <<table, lost, faults>>
  /\ read' = read + 1
  /\ ingester' = AfterRecord
  /\ UNCHANGED <<run, topic, fetched, row>>

FlushFirst_Not == UNCHANGED store

FlushFirst == Insert(pending)

\* At the sentinel the pending rows are written first.
ReadSentinel ==
  /\ ingester = "reading" /\ Next1 = End
  /\ FlushFirst
  /\ ingester' = "finalising"
  /\ UNCHANGED <<run, topic, fetched, read, row>>

\* finalizeRun writes the percentiles of these rows.
WithPercentiles(rows) == [row EXCEPT !.by = @ \cup {"ingester"}, !.rows = rows]

\* The query asks for acknowledged ticks.  One that fails counts as no rows; an
\* upsert that fails is only logged.
Finalise ==
  /\ ingester = "finalising"
  /\ \/ row' = WithPercentiles(table \cap Acked) /\ UNCHANGED <<lost, faults>>
     \/ /\ faults < MaxFaults /\ faults' = faults + 1
        /\ \/ row' = WithPercentiles({}) /\ lost' = lost \cup table
           \/ UNCHANGED <<row, lost>>
  /\ read' = read + 1
  /\ ingester' = AfterRecord
  /\ UNCHANGED <<run, topic, fetched, pending, table>>

\* The process is stopped, or dies.  What is pending is gone: the final flush of
\* Run uses the cancelled context.
Stop ==
  /\ ingester # "down" /\ faults < MaxFaults
  /\ faults' = faults + 1
  /\ ingester' = "down" /\ pending' = {}
  /\ UNCHANGED <<run, topic, fetched, read, table, lost, row>>

\* A consumer without a group starts at the beginning of the topic.
Restart ==
  /\ ingester = "down"
  /\ ingester' = "top" /\ fetched' = 0 /\ read' = 0
  /\ UNCHANGED <<run, topic, store, row>>

-----------------------------------------------------------------------------
Coordinate == FanIn \/ StreamsEnd \/ SendSentinel \/ ProducerDone \/ Score

Publish == Produce \/ ProducerReturns

Ingest == LoopTop \/ Poll \/ ReadEvent \/ ReadSentinel \/ Finalise \/ Restart

TelemetryNext == Coordinate \/ Expire \/ Publish \/ Deliver \/ FailRecord \/ Ingest \/ Stop

\* The streams end (module OpenLoop), the goroutines run on, the broker takes
\* what it is sent and containers are restarted.
TelemetryFairness ==
  /\ WF_vars(Coordinate) /\ WF_vars(Publish) /\ WF_vars(Deliver) /\ WF_vars(Ingest)

TelemetrySpec == Init /\ [][TelemetryNext]_vars /\ TelemetryFairness

-----------------------------------------------------------------------------
(* Properties. *)

Record == 0..Events

TypeOK ==
  /\ stage \in {"streaming", "sentinel", "waiting", "scoring", "over"}
  /\ expired \in BOOLEAN /\ offered \in 0..Events
  /\ channel \in Seq(Record) /\ buffered \in Seq(Record) /\ topic \in Seq(Record)
  /\ producer \in {"running", "done"}
  /\ ingester \in {"top", "polling", "reading", "finalising", "down"}
  /\ fetched \in Nat /\ read \in Nat /\ faults \in Nat
  /\ pending \subseteq 1..Events /\ table \subseteq 1..Events /\ lost \subseteq 1..Events
  /\ row \in [by : SUBSET {"api", "ingester"}, metrics : Metrics \cup {None},
             rows : SUBSET (1..Events)]

\* Measurements that reached the broker.
Published == {topic[i] : i \in DOMAIN topic} \ {End}

\* Percentiles are computed from every published measurement of the run that is
\* one of an acknowledged tick, apart from rows the database would not take or
\* give.
PercentilesComplete == "ingester" \in row.by => Published \cap Acked \subseteq row.rows \cup lost

\* Every run gets a row with its metrics and, unless its context ended first,
\* percentiles.
Recorded == "api" \in row.by /\ ("ingester" \in row.by \/ expired)

EveryRunRecorded == <>[](Recorded \/ faults > 0)
=============================================================================
