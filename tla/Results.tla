------------------------------ MODULE Results ------------------------------
(***************************************************************************)
(* From a run to the viewers' screens: the run of Telemetry writes its     *)
(* row of run_scores in two halves, beside the rows of finished attempts,  *)
(* and the leaderboard shows what it finds there.  The row may be there    *)
(* before the run: it is that of a submission, which may be run again, and *)
(* then the columns of the last run are overwritten one half at a time.    *)
(***************************************************************************)
EXTENDS Telemetry, Leaderboard

CONSTANTS Team,      \* the team whose run this is
          Attempt,   \* the number of the attempt
          Finished,  \* sets of rows the run may find: those of earlier attempts
                     \* and of other teams
          Leftovers, \* rows that an earlier run of the submission may have left
          NoRow,     \* there was none
          Latency    \* event -> the latency it measured

\* Columns of a row that are counts and rates; nothing ever flags a run as
\* critical.
Counts(m) == m.correctness \in Nat /\ m.capacity \in Nat /\ m.composite \in Nat

ASSUME MetricsAssumption == \A m \in Metrics : Counts(m)
ASSUME FinishedAssumption ==
  \A rows \in Finished :
    IsFiniteSet(rows) /\ \A m \in rows : Counts(m) /\ m.p99 \in Nat /\ m.critical = FALSE
ASSUME LeftoversAssumption ==
  \A m \in Leftovers : m.team = Team /\ m.attempt = Attempt /\ Counts(m) /\ m.p99 \in Nat
ASSUME LatencyAssumption == \A e \in 1..Events : Latency[e] \in Nat

VARIABLES
  finished,  \* rows of run_scores other than the run's
  leftover   \* the row of the run's submission before the run

allVars == <<vars, boardVars, finished, leftover>>

ResultsInit ==
  /\ Init /\ LeaderboardInit
  /\ finished \in Finished
  /\ leftover \in Leftovers \cup {NoRow}

\* approx_percentile of no rows is null, which is read as zero.
P99(events) == MaxFrom0({Latency[e] : e \in events})

\* What the columns of a row hold that its writer has not written: the
\* defaults of the table, or what the earlier run left.
Defaults ==
  [language |-> "unknown", correctness |-> 0, capacity |-> 0, p99 |-> 0, composite |-> 0]

Old == IF leftover = NoRow THEN Defaults ELSE leftover

\* The row of the submission as a query sees it: each of its two writers inserts
\* it, or updates its own columns.
RunRow ==
  LET m == IF "api" \in row.by THEN row.metrics ELSE Old
  IN [team |-> Team, attempt |-> Attempt, language |-> m.language,
      correctness |-> m.correctness, capacity |-> m.capacity, composite |-> m.composite,
      p99 |-> IF "ingester" \in row.by THEN P99(row.rows) ELSE Old.p99, critical |-> FALSE]

HasRow == row.by # {} \/ leftover # NoRow

runScores == finished \cup (IF HasRow THEN {RunRow} ELSE {})

RunStep == TelemetryNext /\ UNCHANGED <<boardVars, finished, leftover>>

BoardStep == LeaderboardNext(runScores) /\ UNCHANGED <<vars, finished, leftover>>

ResultsNext == RunStep \/ BoardStep

\* Handlers run on and get the mutex in their turn, the poller's ticker goes on,
\* so that polls happen in ever later seconds, and writes to viewers that read
\* or are gone return.
BoardFairness ==
  /\ \A v \in Viewers : SF_boardVars(Handle(v))
  /\ WF_boardVars(Poller(runScores))

ResultsSpec == ResultsInit /\ [][ResultsNext]_allVars /\ TelemetryFairness /\ BoardFairness

-----------------------------------------------------------------------------
(* Properties. *)

Shown(b) == UNION {{b[t][i] : i \in DOMAIN b[t]} : t \in Tiers}

\* An entry that is nowhere worse than another of its tier, and somewhere
\* better, is ranked before it.
MeritOrder ==
  last # NoBoard =>
    \A t \in Tiers : \A i, j \in DOMAIN last[t] : Dominates(last[t][i], last[t][j]) => i < j

\* What an entry of the board is worth: its score, or the new one where a second
\* run of the same submission has overwritten it.
Overwritten(m) ==
  /\ leftover # NoRow /\ "api" \in row.by
  /\ m.team = Team /\ m.attempt = Attempt /\ m.composite = leftover.composite

Worth(m) == IF Overwritten(m) THEN row.metrics.composite ELSE m.composite

\* A team stays on the board once it is there, and never with a worse attempt
\* than before, although the row of a new attempt appears half written.  Only a
\* second run of one submission can take a score away from its team.
NeverSlipsBack ==
  [][last # NoBoard =>
       \A m \in Shown(last) : \E n \in Shown(last') :
         n.team = m.team /\ n.composite >= Worth(m)]_last

\* In the end every viewer that reads shows a board of the final scores, unless
\* one that does not read keeps the hub waiting.
UpToDate(v) == conn[v] = "open" => \E best \in BestPerTeam(runScores) : shown[v] \in Boards(best)

EveryViewerUpToDate ==
  <>[]((\A v \in Viewers : UpToDate(v)) \/ (\E v \in Viewers : conn[v] = "stuck"))
=============================================================================
