----------------------------- MODULE MCResults -----------------------------
(* The instance of Results that TLC checks.                                *)
EXTENDS Results

RowOf(team, attempt, language, correctness, capacity, p99, composite) ==
  [team |-> team, attempt |-> attempt, language |-> language, correctness |-> correctness,
   capacity |-> capacity, p99 |-> p99, composite |-> composite, critical |-> FALSE]

\* A rival of the same tier, and an earlier attempt of the team or none.
rival == RowOf("other", 1, "go", 90, 2, 2, 3)
earlier == RowOf("team", 1, "go", 80, 1, 3, 2)

FinishedRows == {{rival}, {rival, earlier}}

\* The submission may have been run before.
LeftoverRows == {RowOf("team", 2, "go", 85, 1, 3, 3)}

\* The run may turn out worse than the earlier attempt, and than the rival but
\* for its latencies; or it may be the best, in another language.
Outcomes == {[language |-> "go", correctness |-> 90, capacity |-> 2, composite |-> 1],
             [language |-> "cpp", correctness |-> 100, capacity |-> 3, composite |-> 4]}

(***************************************************************************)
(* The leaderboard sees nothing of a run but its row.  A poll may come     *)
(* before the run starts; from the first write to the row on, the steps of *)
(* the leaderboard are interleaved with those of the run, with one viewer  *)
(* (Early); the others come when the run is Quiet.  A run that meets a     *)
(* fault or its deadline does so before the first viewer comes, and goes   *)
(* on without viewers: its row is one that other runs have too.            *)
(***************************************************************************)
CONSTANT Early

EarlyPoll ==
  /\ stage = "streaming" /\ offered = 0
  /\ PollScores(runScores, FALSE) /\ UNCHANGED <<vars, finished, leftover>>

Watched == row.by # {} /\ faults = 0 /\ ~expired

Quiet == stage = "over" /\ ingester = "polling" /\ read = Len(topic)

MCNext ==
  \/ /\ RunStep
     /\ <<faults, expired>>' # <<faults, expired>> => \A v \in Viewers : conn[v] = "none"
  \/ EarlyPoll
  \/ /\ Watched
     /\ BoardStep
     /\ \A v \in Viewers \ {Early} : conn'[v] # conn[v] => Quiet

MCBoardFairness ==
  /\ \A v \in Viewers : SF_boardVars(Watched /\ Handle(v))
  /\ WF_boardVars(Watched /\ Poller(runScores))

MCSpec == ResultsInit /\ [][MCNext]_allVars /\ TelemetryFairness /\ MCBoardFairness

\* The second tick of the run is rejected.
AckedEvents == {1}

LatencyOf == [e \in 1..Events |-> e]
=============================================================================
