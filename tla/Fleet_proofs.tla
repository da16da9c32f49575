---------------------------- MODULE Fleet_proofs ----------------------------
(***************************************************************************)
(* The barrier between Prepare and Fire holds, and a firer is fired only   *)
(* by the run it was made for: for any number of runs that meet at any     *)
(* workers, with any number of crashes.                                    *)
(*                                                                         *)
(* The argument: a worker that has answered Prepare has had a firer for    *)
(* the run (PreparedOnce), which only a crash takes from it and which then *)
(* counts as lost; a run that fires has had all of these answers           *)
(* (BarrierPassed).                                                        *)
(*                                                                         *)
(* And the accounts of a run agree: what the fan-in has counted and what   *)
(* is on its way make up the answers of the run's firers (AnswersCounted), *)
(* and what is collected is the ticks of those that have ended             *)
(* (CollectedSum), since a run that met no other one still has its workers *)
(* (KeepsWorkers).                                                         *)
(***************************************************************************)
EXTENDS Fleet, SumTheorems

PreparedOnce ==
  \A r \in Runs, w \in Workers :
    phase[r] = "preparing" /\ rpc[r][w] = "ok" => firer[r][w].at # "none"

BarrierPassed ==
  \A r \in Runs : phase[r] \in {"firing", "collecting", "done"} =>
    \A w \in Workers : firer[r][w].at # "none"

\* Answers follow ticks.
FirersCount ==
  \A r \in Runs, w \in Workers : firer[r][w].answered <= firer[r][w].sent

RunningIsFired ==
  \A r \in Runs, w \in Workers : firer[r][w].at = "running" => firer[r][w].by # None

\* A firer that was fired was fired by its own run, and the barrier had been passed.
FiresOwnShard ==
  \A r \in Runs, w \in Workers : firer[r][w].by # None =>
    /\ firer[r][w].by = r
    /\ \A v \in Workers : firer[r][v].at # "none"

IInv ==
  /\ TypeOK /\ PreparedOnce /\ BarrierPassed /\ FirersCount /\ RunningIsFired
  /\ FiresOwnShard

-----------------------------------------------------------------------------
(* Types. *)

\* Calls change in one place at a time.
LEMMA SetRpcType ==
  ASSUME rpc \in [Runs -> [Workers -> Answers]], NEW r \in Runs, NEW w \in Workers,
         NEW s \in Answers, SetRpc(r, w, s)
  PROVE  /\ rpc' \in [Runs -> [Workers -> Answers]]
         /\ rpc'[r][w] = s
         /\ \A q \in Runs, v \in Workers : q # r \/ v # w => rpc'[q][v] = rpc[q][v]
<1>1. rpc' = [q \in Runs |-> [v \in Workers |-> IF q = r /\ v = w THEN s ELSE rpc[q][v]]]
  BY DEF SetRpc
<1> QED
  BY <1>1

\* Or all at once, when the phase begins.
LEMMA CallAllType ==
  ASSUME rpc \in [Runs -> [Workers -> Answers]], NEW r \in Runs, CallAll(r)
  PROVE  /\ rpc' \in [Runs -> [Workers -> Answers]]
         /\ \A w \in Workers : rpc'[r][w] = "called"
         /\ \A q \in Runs \ {r} : rpc'[q] = rpc[q]
BY DEF CallAll, Answers

\* So do phases.
LEMMA PhaseType ==
  ASSUME phase \in [Runs -> Phases], NEW r \in Runs, NEW s \in Phases,
         phase' = [phase EXCEPT ![r] = s]
  PROVE  /\ phase' \in [Runs -> Phases] /\ phase'[r] = s
         /\ \A q \in Runs \ {r} : phase'[q] = phase[q]
OBVIOUS

\* A run that enters a phase disturbs the barrier of no run, if it has passed it
\* when it fires.
LEMMA PhaseStep ==
  ASSUME PreparedOnce, BarrierPassed, phase \in [Runs -> Phases],
         NEW r \in Runs, NEW s \in Phases, phase' = [phase EXCEPT ![r] = s], firer' = firer,
         \A q \in Runs \ {r} : rpc'[q] = rpc[q],
         s = "preparing" => \A w \in Workers : rpc'[r][w] = "called",
         s \in {"firing", "collecting", "done"} => \A w \in Workers : firer[r][w].at # "none"
  PROVE  PreparedOnce' /\ BarrierPassed'
<1>1. phase'[r] = s /\ \A q \in Runs \ {r} : phase'[q] = phase[q]
  BY PhaseType
<1>2. ASSUME NEW q \in Runs, NEW w \in Workers, phase'[q] = "preparing", rpc'[q][w] = "ok"
      PROVE  firer'[q][w].at # "none"
  <2>1. q # r
    BY <1>1, <1>2
  <2> QED
    BY <1>1, <1>2, <2>1 DEF PreparedOnce
<1>3. ASSUME NEW q \in Runs, NEW w \in Workers, phase'[q] \in {"firing", "collecting", "done"}
      PROVE  firer'[q][w].at # "none"
  <2>1. CASE q = r
    BY <1>1, <1>3, <2>1
  <2>2. CASE q # r
    BY <1>1, <1>3, <2>2 DEF BarrierPassed
  <2> QED
    BY <2>1, <2>2
<1> QED
  BY <1>2, <1>3 DEF PreparedOnce, BarrierPassed

\* A call that ends disturbs it neither, unless it ends well without a firer.
LEMMA CallStep ==
  ASSUME PreparedOnce, BarrierPassed, rpc \in [Runs -> [Workers -> Answers]],
         NEW r \in Runs, NEW w \in Workers, NEW s \in Answers, SetRpc(r, w, s),
         phase' = phase, firer' = firer, s = "ok" => phase[r] # "preparing"
  PROVE  PreparedOnce' /\ BarrierPassed'
<1>1. rpc'[r][w] = s /\ \A q \in Runs, v \in Workers : q # r \/ v # w => rpc'[q][v] = rpc[q][v]
  BY SetRpcType
<1>2. ASSUME NEW q \in Runs, NEW v \in Workers, phase[q] = "preparing", rpc'[q][v] = "ok"
      PROVE  firer[q][v].at # "none"
  <2>1. q # r \/ v # w
    BY <1>1, <1>2
  <2> QED
    BY <1>1, <1>2, <2>1 DEF PreparedOnce
<1> QED
  BY <1>2 DEF PreparedOnce, BarrierPassed

-----------------------------------------------------------------------------
(* What each group of actions does. *)

\* Steps of a run that start and end its phases: no firer changes.
LEMMA CoordinateStep ==
  ASSUME IInv, NEW r \in Runs, Coordinate(r)
  PROVE  IInv'
<1> USE DEF IInv
<1>1. CASE SmokeTest(r)
  <2>1. UNCHANGED <<deadline, received, sum, worker, firer, stream, crashes, overlap>>
    BY <1>1 DEF SmokeTest
  <2>2. CASE phase' = [phase EXCEPT ![r] = "preparing"] /\ CallAll(r)
    <3>1. TypeOK'
      BY <2>1, <2>2, PhaseType, CallAllType DEF TypeOK, Phases
    <3>2. PreparedOnce' /\ BarrierPassed'
      BY <2>1, <2>2, PhaseStep, CallAllType DEF TypeOK, Phases
    <3> QED
      BY <2>1, <3>1, <3>2 DEF FirersCount, RunningIsFired, FiresOwnShard
  <2>3. CASE phase' = [phase EXCEPT ![r] = "failed"] /\ UNCHANGED rpc
    <3>1. TypeOK'
      BY <2>1, <2>3, PhaseType DEF TypeOK, Phases
    <3>2. PreparedOnce' /\ BarrierPassed'
      BY <2>1, <2>3, PhaseStep DEF TypeOK, Phases
    <3> QED
      BY <2>1, <3>1, <3>2 DEF FirersCount, RunningIsFired, FiresOwnShard
  <2> QED
    BY <1>1, <2>2, <2>3 DEF SmokeTest
<1>2. CASE PrepareDone(r)
  <2>1. /\ phase[r] = "preparing" /\ Answered(r)
        /\ UNCHANGED <<deadline, received, sum, worker, firer, stream, crashes, overlap>>
    BY <1>2 DEF PrepareDone
  <2>2. CASE AllPrepared(r) /\ phase' = [phase EXCEPT ![r] = "firing"] /\ CallAll(r)
    <3>1. TypeOK'
      BY <2>1, <2>2, PhaseType, CallAllType DEF TypeOK, Phases
    <3>2. \A w \in Workers : firer[r][w].at # "none"
      BY <2>1, <2>2 DEF AllPrepared, Answered, Failed, PreparedOnce
    <3>3. PreparedOnce' /\ BarrierPassed'
      BY <2>1, <2>2, <3>2, PhaseStep, CallAllType DEF TypeOK, Phases
    <3> QED
      BY <2>1, <3>1, <3>3 DEF FirersCount, RunningIsFired, FiresOwnShard
  <2>3. CASE phase' = [phase EXCEPT ![r] = "failed"] /\ UNCHANGED rpc
    <3>1. TypeOK'
      BY <2>1, <2>3, PhaseType DEF TypeOK, Phases
    <3>2. PreparedOnce' /\ BarrierPassed'
      BY <2>1, <2>3, PhaseStep DEF TypeOK, Phases
    <3> QED
      BY <2>1, <3>1, <3>2 DEF FirersCount, RunningIsFired, FiresOwnShard
  <2> QED
    BY <1>2, <2>2, <2>3 DEF PrepareDone
<1>3. CASE FireDone(r)
  <2>1. /\ phase[r] = "firing" /\ phase' = [phase EXCEPT ![r] = "collecting"] /\ CallAll(r)
        /\ UNCHANGED <<deadline, received, sum, worker, firer, stream, crashes, overlap>>
    BY <1>3 DEF FireDone
  <2>2. TypeOK'
    BY <2>1, PhaseType, CallAllType DEF TypeOK, Phases
  <2>3. PreparedOnce' /\ BarrierPassed'
    <3>1. \A w \in Workers : firer[r][w].at # "none"
      BY <2>1 DEF BarrierPassed
    <3> QED
      BY <2>1, <3>1, PhaseStep, CallAllType DEF TypeOK, Phases
  <2> QED
    BY <2>1, <2>2, <2>3 DEF FirersCount, RunningIsFired, FiresOwnShard
<1>4. CASE CollectDone(r)
  <2>1. /\ phase[r] = "collecting" /\ phase' = [phase EXCEPT ![r] = "done"]
        /\ UNCHANGED <<deadline, received, sum, rpc, worker, firer, stream, crashes, overlap>>
    BY <1>4 DEF CollectDone
  <2>2. TypeOK'
    BY <2>1, PhaseType DEF TypeOK, Phases
  <2>3. PreparedOnce' /\ BarrierPassed'
    <3>1. \A w \in Workers : firer[r][w].at # "none"
      BY <2>1 DEF BarrierPassed
    <3> QED
      BY <2>1, <3>1, PhaseStep DEF TypeOK, Phases
  <2> QED
    BY <2>1, <2>2, <2>3 DEF FirersCount, RunningIsFired, FiresOwnShard
<1>5. CASE Expire(r)
  <2>1. /\ deadline' \in [Runs -> {"none", "fire", "run"}]
        /\ UNCHANGED <<phase, received, sum, rpc, worker, firer, stream, crashes, overlap>>
    BY <1>5 DEF Expire, TypeOK
  <2>2. TypeOK'
    BY <2>1 DEF TypeOK
  <2> QED
    BY <2>1, <2>2 DEF PreparedOnce, BarrierPassed, FirersCount, RunningIsFired, FiresOwnShard
<1> QED
  BY <1>1, <1>2, <1>3, <1>4, <1>5 DEF Coordinate

\* Calls that change no firer, and set no call of a phase "preparing" to "ok".
LEMMA OtherCallStep ==
  ASSUME IInv, NEW r \in Runs, NEW w \in Workers,
         \/ Unreachable(r, w) \/ FireRefused(r, w) \/ Receive(r, w) \/ RecvError(r, w)
         \/ Collect(r, w) \/ CollectError(r, w)
  PROVE  IInv'
<1> USE DEF IInv
<1>1. CASE Unreachable(r, w)
  <2>1. /\ SetRpc(r, w, "error") /\ "error" \in Answers
        /\ UNCHANGED <<coordinator, worker, firer, stream, crashes, overlap>>
    BY <1>1 DEF Unreachable, Answers
  <2>2. TypeOK'
    BY <2>1, SetRpcType DEF TypeOK, coordinator
  <2>3. PreparedOnce'
    BY <2>1, CallStep DEF TypeOK, coordinator
  <2> QED
    BY <2>1, <2>2, <2>3 DEF coordinator, BarrierPassed, FirersCount, RunningIsFired, FiresOwnShard
<1>2. CASE FireRefused(r, w) \/ CollectError(r, w)
  <2>1. /\ SetRpc(r, w, "error") /\ "error" \in Answers
        /\ UNCHANGED <<coordinator, worker, firer, stream, crashes, overlap>>
    BY <1>2 DEF FireRefused, CollectError, Answers
  <2>2. TypeOK'
    BY <2>1, SetRpcType DEF TypeOK, coordinator
  <2>3. PreparedOnce'
    BY <2>1, CallStep DEF TypeOK, coordinator
  <2> QED
    BY <2>1, <2>2, <2>3 DEF coordinator, BarrierPassed, FirersCount, RunningIsFired, FiresOwnShard
<1>3. CASE Receive(r, w)
  <2>1. /\ received' = [received EXCEPT ![r] = @ + 1]
        /\ stream' = [stream EXCEPT ![r][w] = @ - 1] /\ stream[r][w] > 0
        /\ UNCHANGED <<phase, deadline, sum, rpc, worker, firer, crashes, overlap>>
    BY <1>3 DEF Receive
  <2>2. received' \in [Runs -> Nat] /\ stream' \in [Runs -> [Workers -> Nat]]
    <3>1. /\ received[r] \in Nat /\ stream[r][w] \in Nat /\ stream[r] \in [Workers -> Nat]
          /\ received \in [Runs -> Nat] /\ stream \in [Runs -> [Workers -> Nat]]
      BY DEF TypeOK
    <3>2. received[r] + 1 \in Nat /\ stream[r][w] - 1 \in Nat
      BY <2>1, <3>1
    <3> QED
      BY <2>1, <3>1, <3>2
  <2>3. TypeOK'
    BY <2>1, <2>2 DEF TypeOK
  <2> QED
    BY <2>1, <2>3 DEF PreparedOnce, BarrierPassed, FirersCount, RunningIsFired, FiresOwnShard
<1>4. CASE RecvError(r, w)
  <2>1. /\ phase[r] = "firing"
        /\ SetRpc(r, w, "ok") \/ SetRpc(r, w, "error")
        /\ stream' = [stream EXCEPT ![r][w] = 0]
        /\ UNCHANGED <<coordinator, worker, firer, crashes, overlap>>
    BY <1>4 DEF RecvError
  <2>2. /\ rpc' \in [Runs -> [Workers -> Answers]]
        /\ \A q \in Runs \ {r}, v \in Workers : rpc'[q][v] = rpc[q][v]
    BY <2>1, SetRpcType DEF TypeOK, Answers
  <2>3. stream' \in [Runs -> [Workers -> Nat]]
    BY <2>1 DEF TypeOK
  <2>4. TypeOK'
    BY <2>1, <2>2, <2>3 DEF TypeOK, coordinator
  <2>5. PreparedOnce'
    BY <2>1, <2>2 DEF coordinator, PreparedOnce
  <2> QED
    BY <2>1, <2>4, <2>5 DEF coordinator, BarrierPassed, FirersCount, RunningIsFired, FiresOwnShard
<1>5. CASE Collect(r, w)
  <2>1. /\ phase[r] = "collecting" /\ SetRpc(r, w, "ok") /\ "ok" \in Answers
        /\ \/ UNCHANGED sum
           \/ Current(w) # None /\ sum' = [sum EXCEPT ![r] = @ + firer[Current(w)][w].sent]
        /\ UNCHANGED <<phase, deadline, received, worker, firer, stream, crashes, overlap>>
    BY <1>5 DEF Collect, Answers
  <2>2. /\ rpc' \in [Runs -> [Workers -> Answers]]
        /\ \A q \in Runs \ {r}, v \in Workers : rpc'[q][v] = rpc[q][v]
    BY <2>1, SetRpcType DEF TypeOK
  <2>3. sum' \in [Runs -> Nat]
    <3>1. sum \in [Runs -> Nat] /\ sum[r] \in Nat
      BY DEF TypeOK
    <3>2. ASSUME Current(w) # None PROVE firer[Current(w)][w].sent \in Nat
      <4>1. Current(w) \in Runs
        BY <3>2 DEF Current, TypeOK
      <4>2. firer[Current(w)][w] \in Firers
        BY <4>1 DEF TypeOK
      <4> QED
        BY <4>2, ShardAssumption DEF Firers
    <3>3. Current(w) # None => sum[r] + firer[Current(w)][w].sent \in Nat
      BY <3>1, <3>2
    <3> QED
      BY <2>1, <3>1, <3>3
  <2>4. TypeOK'
    BY <2>1, <2>2, <2>3 DEF TypeOK
  <2>5. PreparedOnce'
    BY <2>1, <2>2 DEF PreparedOnce
  <2> QED
    BY <2>1, <2>4, <2>5 DEF BarrierPassed, FirersCount, RunningIsFired, FiresOwnShard
<1> QED
  BY <1>1, <1>2, <1>3, <1>4, <1>5

WorkerStates == [state : {"idle", "prepared", "firing", "done"}, run : Runs \cup {None}]

\* A worker keeps its run when its state changes.
LEMMA WorkerType ==
  ASSUME worker \in [Workers -> WorkerStates], NEW w \in Workers,
         NEW s \in {"idle", "prepared", "firing", "done"},
         worker' = [worker EXCEPT ![w].state = s]
  PROVE  worker' \in [Workers -> WorkerStates]
<1>1. worker[w] \in WorkerStates
  OBVIOUS
<1>2. [worker[w] EXCEPT !.state = s] \in WorkerStates
  BY <1>1 DEF WorkerStates
<1> QED
  BY <1>2

\* A firer that takes the place of another one of its run and worker.
LEMMA FirerType ==
  ASSUME firer \in [Runs -> [Workers -> Firers]], NEW r \in Runs, NEW w \in Workers,
         NEW f \in Firers, firer' = [firer EXCEPT ![r][w] = f]
  PROVE  /\ firer' \in [Runs -> [Workers -> Firers]]
         /\ firer'[r][w] = f
         /\ \A q \in Runs, v \in Workers : q # r \/ v # w => firer'[q][v] = firer[q][v]
<1>1. firer' = [q \in Runs |-> [v \in Workers |-> IF q = r /\ v = w THEN f ELSE firer[q][v]]]
  OBVIOUS
<1> QED
  BY <1>1

\* A firer is there once it was, and was fired by its own run if it was fired by
\* any: then the barrier is kept.
LEMMA FirerStep ==
  ASSUME PreparedOnce, BarrierPassed, FiresOwnShard, phase' = phase, None \notin Runs,
         \A q \in Runs, v \in Workers :
           /\ firer[q][v].at # "none" => firer'[q][v].at # "none"
           /\ \/ firer'[q][v].by = None \/ firer'[q][v].by = firer[q][v].by
              \/ phase[q] = "firing" /\ firer'[q][v].by = q
           /\ firer'[q][v].at = "running" => firer'[q][v].by # None
           /\ firer'[q][v].answered <= firer'[q][v].sent,
         \A q \in Runs, v \in Workers :
           phase[q] = "preparing" /\ rpc'[q][v] = "ok" =>
             rpc[q][v] = "ok" \/ firer'[q][v].at # "none"
  PROVE  /\ PreparedOnce' /\ BarrierPassed' /\ FiresOwnShard'
         /\ FirersCount' /\ RunningIsFired'
<1>1. PreparedOnce'
  BY DEF PreparedOnce
<1>2. BarrierPassed'
  BY DEF BarrierPassed
<1>3. ASSUME NEW q \in Runs, NEW w \in Workers, firer'[q][w].by # None
      PROVE  firer'[q][w].by = q /\ \A v \in Workers : firer'[q][v].at # "none"
  <2>1. CASE firer'[q][w].by = firer[q][w].by
    BY <1>3, <2>1 DEF FiresOwnShard
  <2>2. CASE phase[q] = "firing" /\ firer'[q][w].by = q
    BY <2>2 DEF BarrierPassed
  <2> QED
    BY <1>3, <2>1, <2>2
<1>4. FiresOwnShard'
  BY <1>3 DEF FiresOwnShard
<1> QED
  BY <1>1, <1>2, <1>4 DEF FirersCount, RunningIsFired

\* A worker makes a new firer for the run it is prepared for.
LEMMA PrepareStep ==
  ASSUME IInv, NEW r \in Runs, NEW w \in Workers, Prepare(r, w)
  PROVE  IInv'
<1> USE DEF IInv
<1>1. /\ worker' = [worker EXCEPT ![w] = [state |-> "prepared", run |-> r]]
      /\ firer' = [firer EXCEPT ![r][w] = NewFirer]
      /\ \E answer \in {"ok", "error"} : SetRpc(r, w, answer)
      /\ overlap' \subseteq Runs
      /\ UNCHANGED <<coordinator, stream, crashes>>
  BY DEF Prepare, Met, TypeOK
<1>2. /\ NewFirer \in Firers /\ NewFirer.at = "new" /\ NewFirer.by = None
      /\ NewFirer.answered = 0 /\ NewFirer.sent = 0
  BY ShardAssumption DEF NewFirer, NoFirer, Firers
<1>3. /\ firer' \in [Runs -> [Workers -> Firers]] /\ firer'[r][w] = NewFirer
      /\ \A q \in Runs, v \in Workers : q # r \/ v # w => firer'[q][v] = firer[q][v]
  BY <1>1, <1>2, FirerType DEF TypeOK
<1>4. /\ rpc' \in [Runs -> [Workers -> Answers]]
      /\ \A q \in Runs, v \in Workers : q # r \/ v # w => rpc'[q][v] = rpc[q][v]
  <2>1. PICK answer \in {"ok", "error"} : SetRpc(r, w, answer)
    BY <1>1
  <2>2. answer \in Answers
    BY DEF Answers
  <2> QED
    BY <2>1, <2>2, SetRpcType DEF TypeOK
<1>5. worker' \in [Workers -> WorkerStates]
  BY <1>1 DEF TypeOK, WorkerStates
<1>6. TypeOK'
  BY <1>1, <1>3, <1>4, <1>5 DEF TypeOK, coordinator, WorkerStates
<1>7. ASSUME NEW q \in Runs, NEW v \in Workers
      PROVE  /\ firer[q][v].at # "none" => firer'[q][v].at # "none"
             /\ firer'[q][v].by = None \/ firer'[q][v].by = firer[q][v].by
             /\ firer'[q][v].at = "running" => firer'[q][v].by # None
             /\ firer'[q][v].answered <= firer'[q][v].sent
             /\ rpc'[q][v] = "ok" => rpc[q][v] = "ok" \/ firer'[q][v].at # "none"
  <2>1. CASE q = r /\ v = w
    BY <1>2, <1>3, <2>1
  <2>2. CASE q # r \/ v # w
    BY <1>3, <1>4, <2>2 DEF FirersCount, RunningIsFired
  <2> QED
    BY <2>1, <2>2
<1> QED
  <2>1. phase' = phase
    BY <1>1 DEF coordinator
  <2>2. PreparedOnce' /\ BarrierPassed' /\ FiresOwnShard'
        /\ FirersCount' /\ RunningIsFired'
    BY <1>7, <2>1, FirerStep, NoneAssumption
  <2> QED
    BY <1>6, <2>2

\* A worker fires the firer of its run, for the same run.
LEMMA FireStep ==
  ASSUME IInv, NEW r \in Runs, NEW w \in Workers, Fire(r, w)
  PROVE  IInv'
<1> USE DEF IInv
<1>1. /\ phase[r] = "firing" /\ Current(w) = r
      /\ worker' = [worker EXCEPT ![w].state = "firing"]
      /\ firer' = [firer EXCEPT ![Current(w)][w].at = "running", ![Current(w)][w].by = r]
      /\ SetRpc(r, w, "stream") /\ "stream" \in Answers
      /\ UNCHANGED <<coordinator, stream, crashes, overlap>>
  BY DEF Fire, Accepts, Current, Answers
<1> DEFINE f == [firer[r][w] EXCEPT !.at = "running", !.by = r]
<1>2. firer[r][w] \in Firers
  BY DEF TypeOK
<1>3. f \in Firers /\ f.at = "running" /\ f.by = r /\ f.sent = firer[r][w].sent
      /\ f.answered = firer[r][w].answered
  <2>1. f \in Firers
    BY <1>2 DEF Firers
  <2>2. f.at = "running" /\ f.by = r /\ f.sent = firer[r][w].sent
        /\ f.answered = firer[r][w].answered
    BY <1>2 DEF Firers
  <2> QED
    BY <2>1, <2>2
<1>4. firer' = [firer EXCEPT ![r][w] = f]
  <2>1. firer' = [firer EXCEPT ![r][w].at = "running", ![r][w].by = r]
    BY <1>1
  <2>2. firer \in [Runs -> [Workers -> Firers]]
    BY DEF TypeOK
  <2> QED
    BY <2>1, <2>2
<1> HIDE DEF f
<1>5. /\ firer' \in [Runs -> [Workers -> Firers]] /\ firer'[r][w] = f
      /\ \A q \in Runs, v \in Workers : q # r \/ v # w => firer'[q][v] = firer[q][v]
  BY <1>3, <1>4, FirerType DEF TypeOK
<1>6. /\ rpc' \in [Runs -> [Workers -> Answers]] /\ rpc'[r][w] = "stream"
      /\ \A q \in Runs, v \in Workers : q # r \/ v # w => rpc'[q][v] = rpc[q][v]
  BY <1>1, SetRpcType DEF TypeOK
<1>7. worker' \in [Workers -> WorkerStates]
  BY <1>1, WorkerType DEF TypeOK, WorkerStates
<1>8. TypeOK'
  BY <1>1, <1>5, <1>6, <1>7 DEF TypeOK, coordinator, WorkerStates
<1>9. ASSUME NEW q \in Runs, NEW v \in Workers
      PROVE  /\ firer[q][v].at # "none" => firer'[q][v].at # "none"
             /\ \/ firer'[q][v].by = firer[q][v].by
                \/ phase[q] = "firing" /\ firer'[q][v].by = q
             /\ firer'[q][v].at = "running" => firer'[q][v].by # None
             /\ firer'[q][v].answered <= firer'[q][v].sent
             /\ rpc'[q][v] = "ok" => rpc[q][v] = "ok"
  <2>1. CASE q = r /\ v = w
    BY <1>1, <1>3, <1>5, <1>6, <2>1, NoneAssumption DEF FirersCount, RunningIsFired
  <2>2. CASE q # r \/ v # w
    BY <1>5, <1>6, <2>2 DEF FirersCount, RunningIsFired
  <2> QED
    BY <2>1, <2>2
<1> QED
  <2>1. phase' = phase
    BY <1>1 DEF coordinator
  <2>2. PreparedOnce' /\ BarrierPassed' /\ FiresOwnShard'
        /\ FirersCount' /\ RunningIsFired'
    BY <1>9, <2>1, FirerStep, NoneAssumption
  <2> QED
    BY <1>8, <2>2

\* A firer that runs counts a tick, and its answer if there is one.
LEMMA TickStep ==
  ASSUME IInv, NEW q \in Runs, NEW w \in Workers, Tick(q, w)
  PROVE  IInv'
<1> USE DEF IInv
<1>1. PICK answered \in {0, 1} :
        /\ firer' = [firer EXCEPT ![q][w].sent = @ + 1, ![q][w].answered = @ + answered]
        /\ LET r == firer[q][w].by IN
           stream' = IF rpc[r][w] = "stream" THEN [stream EXCEPT ![r][w] = @ + answered]
                     ELSE stream
  BY DEF Tick
<1>2. /\ Running(q, w) /\ firer[q][w].sent < ShardSize
      /\ UNCHANGED <<coordinator, rpc, worker, crashes, overlap>>
  BY DEF Tick
<1> DEFINE old == firer[q][w]
           f == [firer[q][w] EXCEPT !.sent = @ + 1, !.answered = @ + answered]
<1>3. /\ old \in Firers /\ old.answered <= old.sent /\ old.sent < ShardSize
      /\ old.sent \in 0..ShardSize /\ old.answered \in 0..ShardSize
  BY <1>2 DEF TypeOK, Firers, FirersCount
<1>4. /\ f \in Firers /\ f.at = old.at /\ f.by = old.by /\ f.answered <= f.sent
  <2>1. old.sent + 1 \in 0..ShardSize /\ old.answered + answered \in 0..ShardSize
        /\ old.answered + answered <= old.sent + 1
    BY <1>3, ShardAssumption
  <2>2. f.at = old.at /\ f.by = old.by /\ f.sent = old.sent + 1
        /\ f.answered = old.answered + answered
    BY <1>3 DEF Firers
  <2>3. f \in Firers
    BY <1>3, <2>1 DEF Firers
  <2> QED
    BY <2>1, <2>2, <2>3
<1>5. firer' = [firer EXCEPT ![q][w] = f]
  <2>1. firer \in [Runs -> [Workers -> Firers]]
    BY DEF TypeOK
  <2> QED
    BY <1>1, <2>1
<1> HIDE DEF f
<1>6. /\ firer' \in [Runs -> [Workers -> Firers]] /\ firer'[q][w] = f
      /\ \A r \in Runs, v \in Workers : r # q \/ v # w => firer'[r][v] = firer[r][v]
  BY <1>4, <1>5, FirerType DEF TypeOK
<1>7. old.by = q
  <2>1. old.by # None
    BY <1>2 DEF Running, RunningIsFired
  <2> QED
    BY <2>1 DEF FiresOwnShard
<1>8. stream' \in [Runs -> [Workers -> Nat]]
  <2>1. /\ stream \in [Runs -> [Workers -> Nat]] /\ stream[q] \in [Workers -> Nat]
        /\ stream[q][w] \in Nat
    BY DEF TypeOK
  <2>2. stream[q][w] + answered \in Nat
    BY <2>1
  <2>3. stream' = stream \/ stream' = [stream EXCEPT ![q][w] = stream[q][w] + answered]
    BY <1>1, <1>7
  <2> QED
    BY <2>1, <2>2, <2>3
<1>9. TypeOK'
  BY <1>2, <1>6, <1>8 DEF TypeOK, coordinator, WorkerStates
<1>10. ASSUME NEW r \in Runs, NEW v \in Workers
       PROVE  /\ firer[r][v].at # "none" => firer'[r][v].at # "none"
              /\ firer'[r][v].by = firer[r][v].by
              /\ firer'[r][v].at = "running" => firer'[r][v].by # None
              /\ firer'[r][v].answered <= firer'[r][v].sent
  <2>1. CASE r = q /\ v = w
    BY <1>4, <1>6, <1>7, <2>1, NoneAssumption
  <2>2. CASE r # q \/ v # w
    BY <1>6, <2>2 DEF FirersCount, RunningIsFired
  <2> QED
    BY <2>1, <2>2
<1> QED
  <2>1. phase' = phase
    BY <1>2 DEF coordinator
  <2>2. PreparedOnce' /\ BarrierPassed' /\ FiresOwnShard'
        /\ FirersCount' /\ RunningIsFired'
    BY <1>2, <1>10, <2>1, FirerStep, NoneAssumption
  <2> QED
    BY <1>9, <2>2

\* A firer that ends is still there, and its worker is done.
LEMMA FireReturnStep ==
  ASSUME IInv, NEW q \in Runs, NEW w \in Workers, FireReturn(q, w)
  PROVE  IInv'
<1> USE DEF IInv
<1> DEFINE f == [firer[q][w] EXCEPT !.at = "done"]
<1>1. /\ firer[q][w].at = "running" /\ firer' = [firer EXCEPT ![q][w] = f]
      /\ worker' = [worker EXCEPT ![w].state = "done"]
      /\ UNCHANGED <<coordinator, stream, crashes, overlap>>
  BY DEF FireReturn, Running, TypeOK
<1>2. firer[q][w] \in Firers
  BY DEF TypeOK
<1>3. f \in Firers
  BY <1>2 DEF Firers
<1>4. f.at = "done" /\ f.by = firer[q][w].by /\ f.sent = firer[q][w].sent
      /\ f.answered = firer[q][w].answered
  BY <1>2 DEF Firers
<1> HIDE DEF f
<1>5. firer[q][w].by = q
  BY <1>1 DEF RunningIsFired, FiresOwnShard
<1>7. /\ rpc' \in [Runs -> [Workers -> Answers]]
      /\ \A r \in Runs, v \in Workers : rpc'[r][v] = "ok" => rpc[r][v] = "ok"
  <2>1. CASE rpc' = rpc
    BY <2>1 DEF TypeOK
  <2>2. CASE SetRpc(q, w, "eof")
    <3>1. "eof" \in Answers
      BY DEF Answers
    <3> QED
      BY <2>2, <3>1, SetRpcType DEF TypeOK
  <2> QED
    BY <1>5, <2>1, <2>2 DEF FireReturn
<1>8. /\ firer' \in [Runs -> [Workers -> Firers]] /\ firer'[q][w] = f
      /\ \A r \in Runs, v \in Workers : r # q \/ v # w => firer'[r][v] = firer[r][v]
  BY <1>1, <1>3, FirerType DEF TypeOK
<1>9. worker' \in [Workers -> WorkerStates]
  BY <1>1, WorkerType DEF TypeOK, WorkerStates
<1>10. TypeOK'
  BY <1>1, <1>7, <1>8, <1>9 DEF TypeOK, coordinator, WorkerStates
<1>11. ASSUME NEW r \in Runs, NEW v \in Workers
       PROVE  /\ firer[r][v].at # "none" => firer'[r][v].at # "none"
              /\ firer'[r][v].by = firer[r][v].by
              /\ firer'[r][v].at = "running" => firer'[r][v].by # None
              /\ firer'[r][v].answered <= firer'[r][v].sent
  <2>1. CASE r = q /\ v = w
    BY <1>4, <1>8, <2>1 DEF FirersCount
  <2>2. CASE r # q \/ v # w
    BY <1>8, <2>2 DEF FirersCount, RunningIsFired
  <2> QED
    BY <2>1, <2>2
<1> QED
  <2>1. phase' = phase
    BY <1>1 DEF coordinator
  <2>2. PreparedOnce' /\ BarrierPassed' /\ FiresOwnShard'
        /\ FirersCount' /\ RunningIsFired'
    BY <1>7, <1>11, <2>1, FirerStep, NoneAssumption
  <2> QED
    BY <1>10, <2>2

\* A crash loses the firers of a worker, which are then known to have been there.
LEMMA CrashStep ==
  ASSUME IInv, NEW w \in Workers, Crash(w)
  PROVE  IInv'
<1> USE DEF IInv
<1>1. /\ crashes < MaxCrashes /\ crashes' = crashes + 1
      /\ worker' = [worker EXCEPT ![w] = Idle]
      /\ firer' = [r \in Runs |-> [firer[r] EXCEPT ![w].at = IF @ = "none" THEN @ ELSE "lost"]]
      /\ rpc' = [r \in Runs |-> [rpc[r] EXCEPT ![w] = IF @ = "stream" THEN "error" ELSE @]]
      /\ stream' = [r \in Runs |-> [stream[r] EXCEPT ![w] = 0]]
      /\ UNCHANGED <<coordinator, overlap>>
  BY DEF Crash
<1>2. ASSUME NEW r \in Runs
      PROVE  /\ firer'[r] \in [Workers -> Firers]
             /\ \A v \in Workers :
                  /\ firer[r][v].at # "none" => firer'[r][v].at # "none"
                  /\ firer'[r][v].by = firer[r][v].by
                  /\ firer'[r][v].at = "running" => firer'[r][v].by # None
                  /\ firer'[r][v].answered <= firer'[r][v].sent
  <2> DEFINE old == firer[r][w]
             at == IF old.at = "none" THEN old.at ELSE "lost"
             f == [old EXCEPT !.at = at]
  <2>1. firer[r] \in [Workers -> Firers] /\ old \in Firers
    BY DEF TypeOK
  <2>2. at \in {"none", "new", "running", "done", "lost"} /\ at # "running"
        /\ (old.at # "none" => at # "none")
    OBVIOUS
  <2>3. firer'[r] = [firer[r] EXCEPT ![w] = f]
    BY <1>1, <2>1
  <2> HIDE DEF at, old
  <2>4. f \in Firers
    BY <2>1, <2>2 DEF Firers
  <2>5. f.at = at /\ f.by = old.by /\ f.sent = old.sent /\ f.answered = old.answered
    BY <2>1 DEF Firers
  <2> HIDE DEF f
  <2>6. firer'[r][w] = f /\ \A v \in Workers \ {w} : firer'[r][v] = firer[r][v]
    BY <2>1, <2>3
  <2>7. firer'[r] \in [Workers -> Firers]
    BY <2>1, <2>3, <2>4
  <2> QED
    BY <2>2, <2>5, <2>6, <2>7 DEF FirersCount, RunningIsFired, old
<1>3. firer' \in [Runs -> [Workers -> Firers]]
  BY <1>1, <1>2
<1>4. rpc' \in [Runs -> [Workers -> Answers]]
  BY <1>1 DEF TypeOK, Answers
<1>5. \A r \in Runs, v \in Workers : rpc'[r][v] = "ok" => rpc[r][v] = "ok"
  BY <1>1 DEF TypeOK
<1>6. stream' \in [Runs -> [Workers -> Nat]]
  BY <1>1 DEF TypeOK
<1>7. worker' \in [Workers -> WorkerStates]
  BY <1>1 DEF TypeOK, Idle, WorkerStates
<1>8. crashes' \in 0..MaxCrashes
  BY <1>1, CrashesAssumption DEF TypeOK
<1>9. TypeOK'
  BY <1>1, <1>3, <1>4, <1>6, <1>7, <1>8 DEF TypeOK, coordinator, WorkerStates
<1> QED
  <2>1. phase' = phase
    BY <1>1 DEF coordinator
  <2>2. PreparedOnce' /\ BarrierPassed' /\ FiresOwnShard'
        /\ FirersCount' /\ RunningIsFired'
    BY <1>2, <1>5, <2>1, FirerStep, NoneAssumption
  <2> QED
    BY <1>9, <2>2

-----------------------------------------------------------------------------
(* The theorems. *)

\* Every step of the fleet keeps IInv.
LEMMA Inductive == Spec => []IInv
<1>1. Init => IInv
  <2> SUFFICES ASSUME Init PROVE IInv
    OBVIOUS
  <2>1. NoFirer \in Firers /\ NoFirer.at = "none" /\ NoFirer.by = None
        /\ NoFirer.sent = 0 /\ NoFirer.answered = 0
    BY ShardAssumption DEF NoFirer, Firers
  <2>2. Idle \in [state : {"idle", "prepared", "firing", "done"}, run : Runs \cup {None}]
    BY DEF Idle
  <2>3. TypeOK
    <3>1. crashes \in 0..MaxCrashes
      BY CrashesAssumption DEF Init
    <3>2. firer \in [Runs -> [Workers -> Firers]]
      BY <2>1 DEF Init
    <3>3. worker \in [Workers -> WorkerStates]
      BY <2>2 DEF Init, WorkerStates
    <3>4. rpc \in [Runs -> [Workers -> Answers]] /\ phase \in [Runs -> Phases]
      BY DEF Init, Answers, Phases
    <3> QED
      BY <3>1, <3>2, <3>3, <3>4 DEF Init, TypeOK, WorkerStates
  <2>4. PreparedOnce /\ BarrierPassed
    BY DEF Init, PreparedOnce, BarrierPassed
  <2>5. FirersCount /\ RunningIsFired /\ FiresOwnShard
    BY <2>1 DEF Init, FirersCount, RunningIsFired, FiresOwnShard
  <2> QED
    BY <2>3, <2>4, <2>5 DEF IInv
<1>2. IInv /\ [Next]_vars => IInv'
  <2> SUFFICES ASSUME IInv, [Next]_vars PROVE IInv'
    OBVIOUS
  <2>1. CASE UNCHANGED vars
    BY <2>1 DEF vars, IInv, TypeOK, PreparedOnce, BarrierPassed, FirersCount, RunningIsFired,
                FiresOwnShard
  <2>2. ASSUME NEW r \in Runs, Coordinate(r) PROVE IInv'
    BY <2>2, CoordinateStep
  <2>3. ASSUME NEW r \in Runs, NEW w \in Workers, Call(r, w) PROVE IInv'
    BY <2>3, PrepareStep, FireStep, OtherCallStep DEF Call
  <2>4. ASSUME NEW r \in Runs, NEW w \in Workers, Work(r, w) PROVE IInv'
    BY <2>4, TickStep, FireReturnStep DEF Work
  <2>5. ASSUME NEW w \in Workers, Crash(w) PROVE IInv'
    BY <2>5, CrashStep
  <2> QED
    BY <2>1, <2>2, <2>3, <2>4, <2>5 DEF Next
<1> QED
  BY <1>1, <1>2, PTL DEF Spec

\* Every variable of coordinators and workers keeps its type; no firer counts
\* more ticks than its shard has.
THEOREM FleetTypeCorrect == Spec => []TypeOK
<1>1. IInv => TypeOK
  BY DEF IInv
<1> QED
  BY <1>1, Inductive, PTL

\* Run fires no worker before all have been prepared for it, also when runs share
\* workers and workers are restarted.
THEOREM BarrierHolds == Spec => []FiresAfterBarrier
<1>1. IInv => FiresAfterBarrier
  BY DEF IInv, FiresOwnShard, FiresAfterBarrier
<1> QED
  BY <1>1, Inductive, PTL

-----------------------------------------------------------------------------
(* The accounts of a run. *)

\* Until the run fires, none of its answers is counted anywhere.
NothingFired(r) ==
  phase[r] \in {"smoke", "preparing"} =>
    /\ received[r] = 0
    /\ \A w \in Workers : /\ stream[r][w] = 0
                          /\ firer[r][w].answered = 0 /\ firer[r][w].at # "running"

\* Events are on their way only while their stream is read.
StreamsRead(r) == \A w \in Workers : stream[r][w] # 0 => rpc[r][w] \in {"stream", "eof"}

\* Nothing has happened to the streams of the run.
Streaming(r) == crashes = 0 /\ FireLive(r)

FirersStream(r) ==
  \A w \in Workers : Streaming(r) /\ firer[r][w].at = "running" => rpc[r][w] = "stream"

Counted(r) == received[r] + SumFunctionOnSet(stream[r], Workers)

\* Every event the fan-in has counted or will count is an answer, and every
\* answer such an event as long as nothing happens to the streams.
AnswersCounted(r) ==
  /\ Counted(r) <= TotalAnswered(r)
  /\ Streaming(r) => Counted(r) = TotalAnswered(r)

\* Nothing has happened to the workers of the run.
Calm(r) == crashes = 0 /\ r \notin overlap

KeepsWorkers(r) ==
  \A w \in Workers :
    Calm(r) /\ ~Ended(r) /\ firer[r][w].at # "none" => worker[w].run = r

Collected(r) == {w \in Workers : rpc[r][w] = "ok"}

\* What has been collected is what ended firers of the run have sent.
CollectedSum(r) ==
  /\ phase[r] \in {"smoke", "preparing", "firing"} => sum[r] = 0
  /\ Calm(r) /\ phase[r] \in {"collecting", "done"} =>
       /\ \A w \in Collected(r) : firer[r][w].at = "done"
       /\ sum[r] = SumFunctionOnSet([w \in Workers |-> firer[r][w].sent], Collected(r))

RunOK(r) ==
  /\ NothingFired(r) /\ StreamsRead(r) /\ FirersStream(r) /\ AnswersCounted(r)
  /\ KeepsWorkers(r) /\ CollectedSum(r)

Accounts == \A r \in Runs : RunOK(r)

\* What is counted are numbers.
LEMMA CountsAreNumbers ==
  ASSUME TypeOK, NEW r \in Runs
  PROVE  /\ received[r] \in Nat /\ sum[r] \in Nat
         /\ stream[r] \in [Workers -> Nat]
         /\ \A w \in Workers : /\ stream[r][w] \in Int
                               /\ firer[r][w] \in Firers
                               /\ firer[r][w].answered \in Int /\ firer[r][w].sent \in Int
<1>1. received[r] \in Nat /\ sum[r] \in Nat /\ stream[r] \in [Workers -> Nat]
  BY DEF TypeOK
<1>2. \A w \in Workers : firer[r][w] \in Firers
  BY DEF TypeOK
<1>3. \A f \in Firers : f.answered \in Int /\ f.sent \in Int
  BY ShardAssumption DEF Firers
<1> QED
  BY <1>1, <1>2, <1>3

\* A run counts as before what its firers and streams hold as before.
LEMMA AnswersKept ==
  ASSUME NEW r \in Runs, AnswersCounted(r), received'[r] = received[r], stream'[r] = stream[r],
         \A w \in Workers : firer'[r][w].answered = firer[r][w].answered,
         Streaming(r)' => Streaming(r)
  PROVE  AnswersCounted(r)'
<1>1. [w \in Workers |-> firer'[r][w].answered] = [w \in Workers |-> firer[r][w].answered]
  OBVIOUS
<1>2. TotalAnswered(r)' = TotalAnswered(r)
  BY <1>1 DEF TotalAnswered
<1>3. Counted(r)' = Counted(r)
  BY DEF Counted
<1> QED
  BY <1>2, <1>3 DEF AnswersCounted

\* So does it collect.
LEMMA CollectedKept ==
  ASSUME NEW r \in Runs, CollectedSum(r), sum'[r] = sum[r],
         \A w \in Workers : /\ firer'[r][w].sent = firer[r][w].sent
                            /\ firer[r][w].at = "done" => firer'[r][w].at = "done",
         Calm(r)' => Calm(r),
         phase'[r] \in {"smoke", "preparing", "firing"} =>
           phase[r] \in {"smoke", "preparing", "firing"},
         phase'[r] \in {"collecting", "done"} =>
           /\ phase[r] \in {"collecting", "done"}
           /\ \A w \in Workers : rpc'[r][w] = "ok" <=> rpc[r][w] = "ok"
  PROVE  CollectedSum(r)'
<1>1. [w \in Workers |-> firer'[r][w].sent] = [w \in Workers |-> firer[r][w].sent]
  OBVIOUS
<1>2. phase'[r] \in {"collecting", "done"} => Collected(r)' = Collected(r)
  BY DEF Collected
<1>3. ASSUME Calm(r)', phase'[r] \in {"collecting", "done"}
      PROVE  /\ \A w \in Collected(r)' : firer'[r][w].at = "done"
             /\ sum'[r] = SumFunctionOnSet([w \in Workers |-> firer'[r][w].sent], Collected(r)')
  <2>1. /\ \A w \in Collected(r) : firer[r][w].at = "done" /\ w \in Workers
        /\ sum[r] = SumFunctionOnSet([w \in Workers |-> firer[r][w].sent], Collected(r))
    BY <1>3 DEF CollectedSum, Collected
  <2> QED
    BY <1>1, <1>2, <1>3, <2>1
<1> QED
  BY <1>3 DEF CollectedSum

\* A step of one run leaves the accounts of the others as they are, and their
\* workers unless they meet it there.
LEMMA OthersKept ==
  ASSUME Accounts, NEW r \in Runs, crashes' = crashes, overlap \subseteq overlap',
         \A q \in Runs \ {r} :
           /\ phase'[q] = phase[q] /\ rpc'[q] = rpc[q] /\ deadline'[q] = deadline[q]
           /\ received'[q] = received[q] /\ sum'[q] = sum[q]
           /\ firer'[q] = firer[q] /\ stream'[q] = stream[q],
         \A q \in Runs \ {r}, w \in Workers :
           worker'[w].run = worker[w].run \/ q \in overlap' \/ Ended(q) \/ firer[q][w].at = "none"
  PROVE  \A q \in Runs \ {r} : RunOK(q)'
<1> SUFFICES ASSUME NEW q \in Runs \ {r} PROVE RunOK(q)'
  OBVIOUS
<1>1. RunOK(q)
  BY DEF Accounts
<1>2. (Streaming(q)' <=> Streaming(q)) /\ (Calm(q)' => Calm(q)) /\ (Ended(q)' <=> Ended(q))
  BY DEF Streaming, FireLive, Calm, Ended
<1>3. NothingFired(q)' /\ StreamsRead(q)' /\ FirersStream(q)'
  BY <1>1, <1>2 DEF RunOK, NothingFired, StreamsRead, FirersStream
<1>4. AnswersCounted(q)'
  BY <1>1, <1>2, AnswersKept DEF RunOK
<1>5. KeepsWorkers(q)'
  BY <1>1, <1>2 DEF RunOK, KeepsWorkers, Calm
<1>6. CollectedSum(q)'
  BY <1>1, <1>2, CollectedKept DEF RunOK
<1> QED
  BY <1>3, <1>4, <1>5, <1>6 DEF RunOK

\* A step that changes nothing of a run but its phase, calls and deadline.
LEMMA PhaseKeepsAccounts ==
  ASSUME IInv, Accounts, NEW r \in Runs,
         UNCHANGED <<received, sum, worker, firer, stream, crashes, overlap>>,
         \A q \in Runs \ {r} :
           phase'[q] = phase[q] /\ rpc'[q] = rpc[q] /\ deadline'[q] = deadline[q],
         phase'[r] \in {"smoke", "preparing"} => phase[r] \in {"smoke", "preparing"},
         phase'[r] \in {"smoke", "preparing", "firing"} =>
           phase[r] \in {"smoke", "preparing", "firing"},
         phase'[r] \in {"collecting", "done"} =>
           \/ /\ phase[r] \in {"collecting", "done"}
              /\ \A w \in Workers : rpc'[r][w] = "ok" <=> rpc[r][w] = "ok"
           \/ phase[r] = "firing" /\ \A w \in Workers : rpc'[r][w] # "ok",
         Ended(r) => Ended(r)',
         FireLive(r)' => FireLive(r),
         \A w \in Workers :
           /\ stream[r][w] # 0 => rpc'[r][w] \in {"stream", "eof"}
           /\ Streaming(r)' /\ firer[r][w].at = "running" => rpc'[r][w] = "stream"
  PROVE  Accounts'
<1>1. RunOK(r)
  BY DEF Accounts
<1>2. (Streaming(r)' => Streaming(r)) /\ (Calm(r)' <=> Calm(r))
  BY DEF Streaming, Calm
<1>3. NothingFired(r)'
  BY <1>1 DEF RunOK, NothingFired
<1>4. StreamsRead(r)' /\ FirersStream(r)'
  BY DEF StreamsRead, FirersStream
<1>5. AnswersCounted(r)'
  BY <1>1, <1>2, AnswersKept DEF RunOK
<1>6. KeepsWorkers(r)'
  BY <1>1, <1>2 DEF RunOK, KeepsWorkers
<1>7. CollectedSum(r)'
  <2>1. CASE phase[r] = "firing" /\ \A w \in Workers : rpc'[r][w] # "ok"
    <3>1. sum'[r] = 0 /\ Collected(r)' = {}
      BY <1>1, <2>1 DEF RunOK, CollectedSum, Collected
    <3>2. SumFunctionOnSet([w \in Workers |-> firer'[r][w].sent], {}) = 0
      BY SumOfNothing
    <3> QED
      BY <3>1, <3>2 DEF CollectedSum
  <2>2. CASE ~(phase[r] = "firing" /\ \A w \in Workers : rpc'[r][w] # "ok")
    BY <1>1, <1>2, <2>2, CollectedKept DEF RunOK
  <2> QED
    BY <2>1, <2>2
<1>8. \A q \in Runs \ {r} : RunOK(q)'
  BY OthersKept
<1> QED
  BY <1>3, <1>4, <1>5, <1>6, <1>7, <1>8 DEF RunOK, Accounts

\* Steps of a run that start and end its phases.
LEMMA CoordinateAccounts ==
  ASSUME IInv, Accounts, NEW r \in Runs, Coordinate(r)
  PROVE  Accounts'
<1>0. TypeOK /\ RunOK(r)
  BY DEF IInv, Accounts
<1>1. CASE SmokeTest(r)
  <2>1. /\ phase[r] = "smoke"
        /\ UNCHANGED <<deadline, received, sum, worker, firer, stream, crashes, overlap>>
    BY <1>1 DEF SmokeTest
  <2>2. \A w \in Workers : stream[r][w] = 0 /\ firer[r][w].at # "running"
    BY <1>0, <2>1 DEF RunOK, NothingFired
  <2>3. CASE phase' = [phase EXCEPT ![r] = "preparing"] /\ CallAll(r)
    <3>1. phase'[r] = "preparing" /\ \A q \in Runs \ {r} : phase'[q] = phase[q]
      BY <1>0, <2>3, PhaseType DEF TypeOK, Phases
    <3>2. \A q \in Runs \ {r} : rpc'[q] = rpc[q]
      BY <1>0, <2>3, CallAllType DEF TypeOK
    <3> QED
      BY <2>1, <2>2, <3>1, <3>2, PhaseKeepsAccounts DEF Ended, FireLive
  <2>4. CASE phase' = [phase EXCEPT ![r] = "failed"] /\ UNCHANGED rpc
    <3>1. phase'[r] = "failed" /\ \A q \in Runs \ {r} : phase'[q] = phase[q]
      BY <1>0, <2>4, PhaseType DEF TypeOK, Phases
    <3> QED
      BY <2>1, <2>2, <2>4, <3>1, PhaseKeepsAccounts DEF Ended, FireLive
  <2> QED
    BY <1>1, <2>3, <2>4 DEF SmokeTest
<1>2. CASE PrepareDone(r)
  <2>1. /\ phase[r] = "preparing"
        /\ UNCHANGED <<deadline, received, sum, worker, firer, stream, crashes, overlap>>
    BY <1>2 DEF PrepareDone
  <2>2. \A w \in Workers : stream[r][w] = 0 /\ firer[r][w].at # "running"
    BY <1>0, <2>1 DEF RunOK, NothingFired
  <2>3. CASE phase' = [phase EXCEPT ![r] = "firing"] /\ CallAll(r)
    <3>1. phase'[r] = "firing" /\ \A q \in Runs \ {r} : phase'[q] = phase[q]
      BY <1>0, <2>3, PhaseType DEF TypeOK, Phases
    <3>2. \A q \in Runs \ {r} : rpc'[q] = rpc[q]
      BY <1>0, <2>3, CallAllType DEF TypeOK
    <3> QED
      BY <2>1, <2>2, <3>1, <3>2, PhaseKeepsAccounts DEF Ended, FireLive
  <2>4. CASE phase' = [phase EXCEPT ![r] = "failed"] /\ UNCHANGED rpc
    <3>1. phase'[r] = "failed" /\ \A q \in Runs \ {r} : phase'[q] = phase[q]
      BY <1>0, <2>4, PhaseType DEF TypeOK, Phases
    <3> QED
      BY <2>1, <2>2, <2>4, <3>1, PhaseKeepsAccounts DEF Ended, FireLive
  <2> QED
    BY <1>2, <2>3, <2>4 DEF PrepareDone
<1>3. CASE FireDone(r)
  <2>1. /\ phase[r] = "firing" /\ Answered(r)
        /\ phase' = [phase EXCEPT ![r] = "collecting"] /\ CallAll(r)
        /\ UNCHANGED <<deadline, received, sum, worker, firer, stream, crashes, overlap>>
    BY <1>3 DEF FireDone
  <2>2. phase'[r] = "collecting" /\ \A q \in Runs \ {r} : phase'[q] = phase[q]
    BY <1>0, <2>1, PhaseType DEF TypeOK, Phases
  <2>3. (\A w \in Workers : rpc'[r][w] = "called") /\ \A q \in Runs \ {r} : rpc'[q] = rpc[q]
    BY <1>0, <2>1, CallAllType DEF TypeOK
  <2>4. \A w \in Workers : /\ stream[r][w] = 0
                           /\ Streaming(r) => firer[r][w].at # "running"
    BY <1>0, <2>1 DEF RunOK, StreamsRead, FirersStream, Answered
  <2> QED
    BY <2>1, <2>2, <2>3, <2>4, PhaseKeepsAccounts DEF Ended, FireLive, Streaming
<1>4. CASE CollectDone(r)
  <2>1. /\ phase[r] = "collecting" /\ Answered(r)
        /\ phase' = [phase EXCEPT ![r] = "done"]
        /\ UNCHANGED <<deadline, received, sum, rpc, worker, firer, stream, crashes, overlap>>
    BY <1>4 DEF CollectDone
  <2>2. phase'[r] = "done" /\ \A q \in Runs \ {r} : phase'[q] = phase[q]
    BY <1>0, <2>1, PhaseType DEF TypeOK, Phases
  <2>3. \A w \in Workers : /\ stream[r][w] = 0
                           /\ Streaming(r) => firer[r][w].at # "running"
    BY <1>0, <2>1 DEF RunOK, StreamsRead, FirersStream, Answered
  <2> QED
    BY <2>1, <2>2, <2>3, PhaseKeepsAccounts DEF Ended, FireLive, Streaming
<1>5. CASE Expire(r)
  <2>1. PICK d \in {"fire", "run"} : deadline' = [deadline EXCEPT ![r] = d]
    BY <1>5 DEF Expire
  <2>2. UNCHANGED <<phase, received, sum, rpc, worker, firer, stream, crashes, overlap>>
    BY <1>5 DEF Expire
  <2>3. deadline'[r] # "none" /\ \A q \in Runs \ {r} : deadline'[q] = deadline[q]
    BY <1>0, <2>1 DEF TypeOK
  <2>4. phase[r] \in {"firing", "collecting"}
    BY <1>5 DEF Expire
  <2> QED
    BY <1>0, <2>2, <2>3, <2>4, PhaseKeepsAccounts
    DEF Ended, FireLive, Streaming, RunOK, StreamsRead
<1> QED
  BY <1>1, <1>2, <1>3, <1>4, <1>5 DEF Coordinate

\* Calls that fail.
LEMMA FailedCallAccounts ==
  ASSUME IInv, Accounts, NEW r \in Runs, NEW w \in Workers,
         Unreachable(r, w) \/ FireRefused(r, w) \/ CollectError(r, w)
  PROVE  Accounts'
<1>0. TypeOK /\ RunOK(r)
  BY DEF IInv, Accounts
<1>1. /\ rpc[r][w] = "called" /\ SetRpc(r, w, "error") /\ "error" \in Answers
      /\ UNCHANGED <<phase, deadline, received, sum, worker, firer, stream, crashes, overlap>>
  BY DEF Unreachable, FireRefused, CollectError, coordinator, Answers
<1>2. /\ rpc'[r][w] = "error"
      /\ \A q \in Runs, v \in Workers : q # r \/ v # w => rpc'[q][v] = rpc[q][v]
      /\ rpc' \in [Runs -> [Workers -> Answers]]
  BY <1>0, <1>1, SetRpcType DEF TypeOK
<1>3. \A q \in Runs \ {r} : rpc'[q] = rpc[q]
  BY <1>0, <1>2 DEF TypeOK
<1>4. \A v \in Workers : /\ stream[r][v] # 0 => rpc'[r][v] \in {"stream", "eof"}
                         /\ Streaming(r) /\ firer[r][v].at = "running" => rpc'[r][v] = "stream"
                         /\ rpc'[r][v] = "ok" <=> rpc[r][v] = "ok"
  BY <1>0, <1>1, <1>2 DEF RunOK, StreamsRead, FirersStream
<1>5. (Streaming(r)' <=> Streaming(r)) /\ (FireLive(r)' <=> FireLive(r)) /\ (Ended(r)' <=> Ended(r))
  BY <1>1 DEF Streaming, FireLive, Ended
<1> QED
  BY <1>1, <1>3, <1>4, <1>5, PhaseKeepsAccounts

\* A worker is prepared for the run, which takes it from any other one.
LEMMA PrepareAccounts ==
  ASSUME IInv, Accounts, NEW r \in Runs, NEW w \in Workers, Prepare(r, w)
  PROVE  Accounts'
<1>0. TypeOK /\ RunOK(r)
  BY DEF IInv, Accounts
<1>1. /\ phase[r] = "preparing" /\ rpc[r][w] = "called"
      /\ worker' = [worker EXCEPT ![w] = [state |-> "prepared", run |-> r]]
      /\ firer' = [firer EXCEPT ![r][w] = NewFirer]
      /\ \E answer \in {"ok", "error"} : SetRpc(r, w, answer)
      /\ overlap' = IF Met(r, w) = {} THEN overlap ELSE overlap \cup {r} \cup Met(r, w)
      /\ UNCHANGED <<phase, deadline, received, sum, stream, crashes>>
  BY DEF Prepare, coordinator
<1>2. /\ NewFirer \in Firers /\ NewFirer.at = "new" /\ NewFirer.answered = 0
  BY ShardAssumption DEF NewFirer, NoFirer, Firers
<1>3. /\ firer' \in [Runs -> [Workers -> Firers]] /\ firer'[r][w] = NewFirer
      /\ \A q \in Runs, v \in Workers : q # r \/ v # w => firer'[q][v] = firer[q][v]
  BY <1>0, <1>1, <1>2, FirerType DEF TypeOK
<1>4. /\ rpc' \in [Runs -> [Workers -> Answers]]
      /\ \A q \in Runs, v \in Workers : q # r \/ v # w => rpc'[q][v] = rpc[q][v]
  <2>1. PICK answer \in {"ok", "error"} : SetRpc(r, w, answer)
    BY <1>1
  <2> QED
    BY <1>0, <2>1, SetRpcType DEF TypeOK, Answers
<1>5. /\ worker'[w].run = r /\ \A v \in Workers \ {w} : worker'[v] = worker[v]
  BY <1>0, <1>1 DEF TypeOK
<1>6. \A q \in Runs \ {r} : firer'[q] = firer[q] /\ rpc'[q] = rpc[q]
  BY <1>0, <1>1, <1>3, <1>4 DEF TypeOK
<1>7. overlap \subseteq overlap' /\ Met(r, w) \subseteq overlap'
  BY <1>1
<1>8. ASSUME NEW q \in Runs \ {r}, NEW v \in Workers
      PROVE  worker'[v].run = worker[v].run \/ q \in overlap' \/ Ended(q) \/ firer[q][v].at = "none"
  BY <1>5, <1>7 DEF Met
<1>9. \A q \in Runs \ {r} : RunOK(q)'
  BY <1>1, <1>6, <1>7, <1>8, OthersKept
<1>10. /\ received[r] = 0
       /\ \A v \in Workers : /\ stream[r][v] = 0
                             /\ firer[r][v].answered = 0 /\ firer[r][v].at # "running"
  BY <1>0, <1>1 DEF RunOK, NothingFired
<1>11. \A v \in Workers : firer'[r][v].answered = 0 /\ firer'[r][v].at # "running"
  BY <1>2, <1>3, <1>10
<1>12. NothingFired(r)' /\ StreamsRead(r)' /\ FirersStream(r)'
  BY <1>1, <1>10, <1>11 DEF NothingFired, StreamsRead, FirersStream
<1>13. AnswersCounted(r)'
  <2>1. Streaming(r)' <=> Streaming(r)
    BY <1>1 DEF Streaming, FireLive
  <2> QED
    BY <1>0, <1>1, <1>10, <1>11, <2>1, AnswersKept DEF RunOK
<1>14. KeepsWorkers(r)'
  BY <1>0, <1>1, <1>3, <1>5, <1>7 DEF RunOK, KeepsWorkers, Calm, Ended
<1>15. CollectedSum(r)'
  BY <1>0, <1>1 DEF RunOK, CollectedSum
<1> QED
  BY <1>9, <1>12, <1>13, <1>14, <1>15 DEF RunOK, Accounts

\* The run's stream begins with its firer.
LEMMA FireAccounts ==
  ASSUME IInv, Accounts, NEW r \in Runs, NEW w \in Workers, Fire(r, w)
  PROVE  Accounts'
<1>0. TypeOK /\ RunOK(r)
  BY DEF IInv, Accounts
<1>1. /\ phase[r] = "firing" /\ Current(w) = r
      /\ worker' = [worker EXCEPT ![w].state = "firing"]
      /\ firer' = [firer EXCEPT ![r][w].at = "running", ![r][w].by = r]
      /\ SetRpc(r, w, "stream") /\ "stream" \in Answers
      /\ UNCHANGED <<phase, deadline, received, sum, stream, crashes, overlap>>
  BY DEF Fire, Accepts, Current, Answers, coordinator
<1>2. /\ \A v \in Workers : /\ firer'[r][v].answered = firer[r][v].answered
                            /\ v # w => firer'[r][v] = firer[r][v]
      /\ \A q \in Runs \ {r} : firer'[q] = firer[q]
  BY <1>0, <1>1 DEF TypeOK, Firers
<1>3. /\ rpc' \in [Runs -> [Workers -> Answers]] /\ rpc'[r][w] = "stream"
      /\ \A q \in Runs, v \in Workers : q # r \/ v # w => rpc'[q][v] = rpc[q][v]
  BY <1>0, <1>1, SetRpcType DEF TypeOK
<1>4. \A q \in Runs \ {r} : rpc'[q] = rpc[q]
  BY <1>0, <1>3 DEF TypeOK
<1>5. \A v \in Workers : worker'[v].run = worker[v].run
  BY <1>0, <1>1 DEF TypeOK
<1>6. \A q \in Runs \ {r} : RunOK(q)'
  BY <1>1, <1>2, <1>4, <1>5, OthersKept
<1>7. Streaming(r)' <=> Streaming(r)
  BY <1>1 DEF Streaming, FireLive
<1>8. NothingFired(r)' /\ StreamsRead(r)' /\ FirersStream(r)'
  <2>1. NothingFired(r)'
    BY <1>1 DEF NothingFired
  <2>2. StreamsRead(r)'
    BY <1>0, <1>1, <1>3 DEF RunOK, StreamsRead
  <2>3. FirersStream(r)'
    BY <1>0, <1>2, <1>3, <1>7 DEF RunOK, FirersStream
  <2> QED
    BY <2>1, <2>2, <2>3
<1>9. AnswersCounted(r)'
  BY <1>0, <1>1, <1>2, <1>7, AnswersKept DEF RunOK
<1>10. KeepsWorkers(r)'
  BY <1>0, <1>1, <1>2, <1>5 DEF RunOK, KeepsWorkers, Calm, Ended, Current
<1>11. CollectedSum(r)'
  BY <1>0, <1>1 DEF RunOK, CollectedSum
<1> QED
  BY <1>6, <1>8, <1>9, <1>10, <1>11 DEF RunOK, Accounts

\* A tick that is answered is an answer and an event, if its stream is there.
LEMMA TickAccounts ==
  ASSUME IInv, Accounts, NEW r \in Runs, NEW w \in Workers, Tick(r, w)
  PROVE  Accounts'
<1>0. TypeOK /\ RunOK(r)
  BY DEF IInv, Accounts
<1>1. PICK answered \in {0, 1} :
        /\ firer' = [firer EXCEPT ![r][w].sent = @ + 1, ![r][w].answered = @ + answered]
        /\ LET q == firer[r][w].by IN
           stream' = IF rpc[q][w] = "stream" THEN [stream EXCEPT ![q][w] = @ + answered]
                     ELSE stream
  BY DEF Tick
<1>2. /\ firer[r][w].at = "running" /\ FireLive(firer[r][w].by)
      /\ UNCHANGED <<phase, deadline, received, sum, rpc, worker, crashes, overlap>>
  BY DEF Tick, Running, coordinator
<1>3. firer[r][w].by = r
  BY <1>2 DEF IInv, RunningIsFired, FiresOwnShard
<1>4. /\ \A v \in Workers : /\ firer'[r][v].at = firer[r][v].at
                            /\ v # w => firer'[r][v] = firer[r][v]
      /\ firer'[r][w].answered = firer[r][w].answered + answered
      /\ \A q \in Runs \ {r} : firer'[q] = firer[q]
  BY <1>0, <1>1 DEF TypeOK, Firers
<1>5. /\ stream'[r] = IF rpc[r][w] = "stream" THEN [stream[r] EXCEPT ![w] = @ + answered]
                      ELSE stream[r]
      /\ \A q \in Runs \ {r} : stream'[q] = stream[q]
  BY <1>0, <1>1, <1>3 DEF TypeOK
<1>6. \A q \in Runs \ {r} : RunOK(q)'
  BY <1>2, <1>4, <1>5, OthersKept
<1>7. Streaming(r)' <=> Streaming(r)
  BY <1>2 DEF Streaming, FireLive
<1>8. NothingFired(r)'
  BY <1>0, <1>2 DEF RunOK, NothingFired
<1>9. StreamsRead(r)' /\ FirersStream(r)'
  BY <1>0, <1>2, <1>4, <1>5, <1>7, CountsAreNumbers DEF RunOK, StreamsRead, FirersStream
<1>10. AnswersCounted(r)'
  <2> DEFINE f == [v \in Workers |-> firer[r][v].answered]
             g == [v \in Workers |-> firer'[r][v].answered]
             d == IF rpc[r][w] = "stream" THEN answered ELSE 0
  <2>1. \A v \in Workers : /\ f[v] \in Int /\ g[v] \in Int /\ (v # w => g[v] = f[v])
                           /\ stream[r][v] \in Int
    BY <1>0, <1>4, CountsAreNumbers
  <2>2. g[w] - f[w] = answered
    BY <1>4, <2>1
  <2>3. \A v \in Workers : /\ stream'[r][v] \in Int /\ (v # w => stream'[r][v] = stream[r][v])
                           /\ stream'[r][w] - stream[r][w] = d
    BY <1>0, <1>5, CountsAreNumbers
  <2> HIDE DEF f, g, d
  <2>4. SumFunctionOnSet(g, Workers) = SumFunctionOnSet(f, Workers) + answered
    BY <2>1, <2>2, SumAfterChange, WorkersAssumption
  <2>5. SumFunctionOnSet(stream'[r], Workers) = SumFunctionOnSet(stream[r], Workers) + d
    <3>1. SumFunctionOnSet(stream'[r], Workers)
            = SumFunctionOnSet(stream[r], Workers) + (stream'[r][w] - stream[r][w])
      BY <2>1, <2>3, SumAfterChange, WorkersAssumption
    <3> QED
      BY <2>3, <3>1
  <2>6. TotalAnswered(r) = SumFunctionOnSet(f, Workers)
        /\ TotalAnswered(r)' = SumFunctionOnSet(g, Workers)
    BY DEF TotalAnswered, f, g
  <2>7. SumFunctionOnSet(f, Workers) \in Int /\ SumFunctionOnSet(stream[r], Workers) \in Int
        /\ received[r] \in Int
    BY <1>0, <2>1, SumIsInt, WorkersAssumption, CountsAreNumbers
  <2>8. Counted(r)' = Counted(r) + d /\ Counted(r) \in Int
    BY <1>2, <2>5, <2>7 DEF Counted, d
  <2>9. d \in Int /\ d <= answered /\ (Streaming(r) => d = answered)
    BY <1>0, <1>2 DEF d, RunOK, FirersStream
  <2>10. /\ Counted(r) <= SumFunctionOnSet(f, Workers)
         /\ Streaming(r) => Counted(r) = SumFunctionOnSet(f, Workers)
    BY <1>0, <2>6 DEF RunOK, AnswersCounted
  <2>11. /\ Counted(r) + d <= SumFunctionOnSet(f, Workers) + answered
         /\ Streaming(r) => Counted(r) + d = SumFunctionOnSet(f, Workers) + answered
    BY <2>7, <2>8, <2>9, <2>10
  <2> QED
    BY <1>7, <2>4, <2>6, <2>8, <2>11 DEF AnswersCounted
<1>11. KeepsWorkers(r)'
  BY <1>0, <1>2, <1>4 DEF RunOK, KeepsWorkers, Calm, Ended
<1>12. CollectedSum(r)'
  <2> DEFINE f == [v \in Workers |-> firer[r][v].sent]
             g == [v \in Workers |-> firer'[r][v].sent]
  <2>1. phase[r] \in {"smoke", "preparing", "firing"} => sum'[r] = 0
    BY <1>0, <1>2 DEF RunOK, CollectedSum
  <2>2. ASSUME Calm(r), phase[r] \in {"collecting", "done"}
        PROVE  /\ \A v \in Collected(r) : firer[r][v].at = "done"
               /\ sum[r] = SumFunctionOnSet(g, Collected(r))
    <3>1. /\ \A v \in Collected(r) : firer[r][v].at = "done"
          /\ sum[r] = SumFunctionOnSet(f, Collected(r))
      BY <1>0, <2>2 DEF RunOK, CollectedSum
    <3>2. \A v \in Collected(r) : f[v] \in Int /\ g[v] = f[v]
      BY <1>0, <1>2, <1>4, <3>1, CountsAreNumbers DEF Collected
    <3>3. IsFiniteSet(Collected(r))
      BY WorkersAssumption, FS_Subset DEF Collected
    <3> HIDE DEF f, g
    <3>4. SumFunctionOnSet(g, Collected(r)) = SumFunctionOnSet(f, Collected(r))
      BY <3>2, <3>3, SumOfEquals
    <3> QED
      BY <3>1, <3>4
  <2>3. Collected(r)' = Collected(r) /\ (Calm(r)' <=> Calm(r))
    BY <1>2 DEF Collected, Calm
  <2>4. \A v \in Collected(r) : firer'[r][v].at = firer[r][v].at
    BY <1>4 DEF Collected
  <2> QED
    BY <1>2, <2>1, <2>2, <2>3, <2>4 DEF CollectedSum
<1> QED
  BY <1>6, <1>8, <1>9, <1>10, <1>11, <1>12 DEF RunOK, Accounts

\* A firer ends, and with it its stream.
LEMMA FireReturnAccounts ==
  ASSUME IInv, Accounts, NEW r \in Runs, NEW w \in Workers, FireReturn(r, w)
  PROVE  Accounts'
<1>0. TypeOK /\ RunOK(r)
  BY DEF IInv, Accounts
<1>1. /\ firer[r][w].at = "running" /\ firer' = [firer EXCEPT ![r][w].at = "done"]
      /\ worker' = [worker EXCEPT ![w].state = "done"]
      /\ UNCHANGED <<phase, deadline, received, sum, stream, crashes, overlap>>
  BY DEF FireReturn, Running, coordinator
<1>2. firer[r][w].by = r
  BY <1>1 DEF IInv, RunningIsFired, FiresOwnShard
<1>3. /\ \A v \in Workers : /\ firer'[r][v].answered = firer[r][v].answered
                            /\ firer'[r][v].sent = firer[r][v].sent
                            /\ v # w => firer'[r][v] = firer[r][v]
      /\ firer'[r][w].at = "done"
      /\ \A q \in Runs \ {r} : firer'[q] = firer[q]
  BY <1>0, <1>1 DEF TypeOK, Firers
<1>4. /\ \A v \in Workers : /\ v # w => rpc'[r][v] = rpc[r][v]
                            /\ rpc'[r][v] = "ok" <=> rpc[r][v] = "ok"
                            /\ rpc[r][v] \in {"stream", "eof"} => rpc'[r][v] \in {"stream", "eof"}
      /\ \A q \in Runs \ {r} : rpc'[q] = rpc[q]
  <2>1. CASE rpc' = rpc
    BY <2>1
  <2>2. CASE rpc[r][w] = "stream" /\ SetRpc(r, w, "eof")
    BY <1>0, <2>2 DEF SetRpc, TypeOK
  <2> QED
    BY <1>2, <2>1, <2>2 DEF FireReturn
<1>5. \A v \in Workers : worker'[v].run = worker[v].run
  BY <1>0, <1>1 DEF TypeOK
<1>6. \A q \in Runs \ {r} : RunOK(q)'
  BY <1>1, <1>3, <1>4, <1>5, OthersKept
<1>7. (Streaming(r)' <=> Streaming(r)) /\ (Calm(r)' <=> Calm(r))
  BY <1>1 DEF Streaming, FireLive, Calm
<1>8. NothingFired(r)'
  BY <1>0, <1>1 DEF RunOK, NothingFired
<1>9. StreamsRead(r)'
  BY <1>0, <1>1, <1>4 DEF RunOK, StreamsRead
<1>10. FirersStream(r)'
  BY <1>0, <1>3, <1>4, <1>7 DEF RunOK, FirersStream
<1>11. AnswersCounted(r)'
  BY <1>0, <1>1, <1>3, <1>7, AnswersKept DEF RunOK
<1>12. KeepsWorkers(r)'
  BY <1>0, <1>1, <1>3, <1>5 DEF RunOK, KeepsWorkers, Calm, Ended
<1>13. CollectedSum(r)'
  BY <1>0, <1>1, <1>3, <1>4, <1>7, CollectedKept DEF RunOK
<1> QED
  BY <1>6, <1>8, <1>9, <1>10, <1>11, <1>12, <1>13 DEF RunOK, Accounts

\* The fan-in counts an event that was on its way.
LEMMA ReceiveAccounts ==
  ASSUME IInv, Accounts, NEW r \in Runs, NEW w \in Workers, Receive(r, w)
  PROVE  Accounts'
<1>0. TypeOK /\ RunOK(r)
  BY DEF IInv, Accounts
<1>1. /\ phase[r] = "firing" /\ received' = [received EXCEPT ![r] = @ + 1]
      /\ stream' = [stream EXCEPT ![r][w] = @ - 1]
      /\ UNCHANGED <<phase, deadline, sum, rpc, worker, firer, crashes, overlap>>
      /\ rpc[r][w] \in {"stream", "eof"}
  BY DEF Receive
<1>2. /\ received'[r] = received[r] + 1 /\ stream'[r] = [stream[r] EXCEPT ![w] = @ - 1]
      /\ \A q \in Runs \ {r} : stream'[q] = stream[q] /\ received'[q] = received[q]
  BY <1>0, <1>1 DEF TypeOK
<1>3. \A q \in Runs \ {r} : RunOK(q)'
  BY <1>1, <1>2, OthersKept
<1>4. (Streaming(r)' <=> Streaming(r)) /\ (Calm(r)' <=> Calm(r))
  BY <1>1 DEF Streaming, FireLive, Calm
<1>5. \A v \in Workers : v # w => stream'[r][v] = stream[r][v]
  BY <1>0, <1>2, CountsAreNumbers
<1>6. NothingFired(r)' /\ StreamsRead(r)' /\ FirersStream(r)'
  BY <1>0, <1>1, <1>4, <1>5 DEF RunOK, NothingFired, StreamsRead, FirersStream
<1>7. AnswersCounted(r)'
  <2>1. \A v \in Workers : /\ stream[r][v] \in Int /\ stream'[r][v] \in Int
                           /\ v # w => stream'[r][v] = stream[r][v]
    BY <1>0, <1>2, CountsAreNumbers
  <2>2. stream'[r][w] - stream[r][w] = -1
    BY <1>0, <1>2, <2>1, CountsAreNumbers
  <2>3. SumFunctionOnSet(stream'[r], Workers)
          = SumFunctionOnSet(stream[r], Workers) + (stream'[r][w] - stream[r][w])
    BY <2>1, SumAfterChange, WorkersAssumption
  <2>4. SumFunctionOnSet(stream[r], Workers) \in Int /\ received[r] \in Int
    BY <1>0, <2>1, SumIsInt, WorkersAssumption, CountsAreNumbers
  <2>5. Counted(r)' = Counted(r)
    BY <1>2, <2>2, <2>3, <2>4 DEF Counted
  <2>6. TotalAnswered(r)' = TotalAnswered(r)
    BY <1>1 DEF TotalAnswered
  <2> QED
    BY <1>0, <1>4, <2>5, <2>6 DEF RunOK, AnswersCounted
<1>8. KeepsWorkers(r)'
  BY <1>0, <1>1 DEF RunOK, KeepsWorkers, Calm, Ended
<1>9. CollectedSum(r)'
  BY <1>0, <1>1, <1>4, CollectedKept DEF RunOK
<1> QED
  BY <1>3, <1>6, <1>7, <1>8, <1>9 DEF RunOK, Accounts

\* A stream that has ended by itself leaves nothing behind; one that its context
\* ended may lose answers.
LEMMA RecvErrorAccounts ==
  ASSUME IInv, Accounts, NEW r \in Runs, NEW w \in Workers, RecvError(r, w)
  PROVE  Accounts'
<1>0. TypeOK /\ RunOK(r)
  BY DEF IInv, Accounts
<1>1. /\ phase[r] = "firing" /\ stream' = [stream EXCEPT ![r][w] = 0]
      /\ UNCHANGED <<phase, deadline, received, sum, worker, firer, crashes, overlap>>
      /\ \/ rpc[r][w] = "eof" /\ stream[r][w] = 0 /\ SetRpc(r, w, "ok")
         \/ ~FireLive(r) /\ SetRpc(r, w, "error")
  BY DEF RecvError, StreamEnds, coordinator
<1>2. \A q \in Runs, v \in Workers : q # r \/ v # w => rpc'[q][v] = rpc[q][v]
  BY <1>0, <1>1, SetRpcType DEF TypeOK, Answers
<1>3. /\ stream'[r] = [stream[r] EXCEPT ![w] = 0]
      /\ \A q \in Runs \ {r} : stream'[q] = stream[q]
  BY <1>0, <1>1 DEF TypeOK
<1>4. \A q \in Runs \ {r} : rpc'[q] = rpc[q]
  BY <1>0, <1>1 DEF TypeOK, SetRpc
<1>5. \A q \in Runs \ {r} : RunOK(q)'
  BY <1>1, <1>3, <1>4, OthersKept
<1>6. (Streaming(r)' <=> Streaming(r)) /\ (Streaming(r) => stream[r][w] = 0 /\ rpc[r][w] = "eof")
  BY <1>1 DEF Streaming, FireLive
<1>7. /\ \A v \in Workers : v # w => stream'[r][v] = stream[r][v]
      /\ stream'[r][w] = 0
  BY <1>0, <1>3, CountsAreNumbers
<1>8. StreamsRead(r)' /\ FirersStream(r)'
  <2>1. StreamsRead(r)'
    BY <1>0, <1>2, <1>7 DEF RunOK, StreamsRead
  <2>2. FirersStream(r)'
    BY <1>0, <1>1, <1>2, <1>6 DEF RunOK, FirersStream
  <2> QED
    BY <2>1, <2>2
<1>9. NothingFired(r)' /\ KeepsWorkers(r)' /\ CollectedSum(r)'
  BY <1>0, <1>1 DEF RunOK, NothingFired, KeepsWorkers, CollectedSum, Calm, Ended
<1>10. AnswersCounted(r)'
  <2>1. \A v \in Workers : /\ stream[r][v] \in Nat /\ stream'[r][v] \in Int
                           /\ stream[r][v] \in Int /\ stream'[r][v] <= stream[r][v]
                           /\ v # w => stream'[r][v] = stream[r][v]
    BY <1>0, <1>3, CountsAreNumbers
  <2>2. SumFunctionOnSet(stream'[r], Workers) <= SumFunctionOnSet(stream[r], Workers)
    BY <2>1, SumIsMonotonic, WorkersAssumption
  <2>3. Streaming(r) => SumFunctionOnSet(stream'[r], Workers) = SumFunctionOnSet(stream[r], Workers)
    <3>1. Streaming(r) => stream'[r] = stream[r]
      BY <1>0, <1>3, <1>6, CountsAreNumbers
    <3> QED
      BY <3>1
  <2>4. /\ SumFunctionOnSet(stream[r], Workers) \in Int /\ SumFunctionOnSet(stream'[r], Workers) \in Int
        /\ received[r] \in Int
    BY <1>0, <2>1, SumIsInt, WorkersAssumption, CountsAreNumbers
  <2>5. /\ Counted(r)' <= Counted(r) /\ (Streaming(r) => Counted(r)' = Counted(r))
        /\ Counted(r) \in Int /\ Counted(r)' \in Int
    BY <1>1, <2>2, <2>3, <2>4 DEF Counted
  <2>6. TotalAnswered(r)' = TotalAnswered(r) /\ TotalAnswered(r) \in Int
    <3>1. TotalAnswered(r) \in Int
      BY <1>0, SumIsInt, WorkersAssumption, CountsAreNumbers DEF TotalAnswered
    <3> QED
      BY <1>1, <3>1 DEF TotalAnswered
  <2> QED
    BY <1>0, <1>6, <2>5, <2>6 DEF RunOK, AnswersCounted
<1> QED
  BY <1>5, <1>8, <1>9, <1>10 DEF RunOK, Accounts

\* A worker answers with the metrics of the firer it has, which is the run's
\* own if the run met no other one.
LEMMA CollectAccounts ==
  ASSUME IInv, Accounts, NEW r \in Runs, NEW w \in Workers, Collect(r, w)
  PROVE  Accounts'
<1>0. TypeOK /\ RunOK(r)
  BY DEF IInv, Accounts
<1>1. /\ phase[r] = "collecting" /\ rpc[r][w] = "called" /\ SetRpc(r, w, "ok") /\ "ok" \in Answers
      /\ UNCHANGED <<phase, deadline, received, worker, firer, stream, crashes, overlap>>
      /\ \/ Current(w) = None /\ UNCHANGED sum
         \/ /\ Current(w) # None /\ firer[Current(w)][w].at = "done"
            /\ sum' = [sum EXCEPT ![r] = @ + firer[Current(w)][w].sent]
  BY DEF Collect, Collectable, Answers
<1>2. /\ rpc'[r][w] = "ok"
      /\ \A q \in Runs, v \in Workers : q # r \/ v # w => rpc'[q][v] = rpc[q][v]
  BY <1>0, <1>1, SetRpcType DEF TypeOK
<1>3. \A q \in Runs \ {r} : rpc'[q] = rpc[q] /\ sum'[q] = sum[q]
  BY <1>0, <1>1 DEF TypeOK, SetRpc
<1>4. \A q \in Runs \ {r} : RunOK(q)'
  BY <1>1, <1>3, OthersKept
<1>5. (Streaming(r)' <=> Streaming(r)) /\ (Calm(r)' <=> Calm(r))
  BY <1>1 DEF Streaming, FireLive, Calm
<1>6. NothingFired(r)'
  BY <1>0, <1>1 DEF RunOK, NothingFired
<1>7. StreamsRead(r)'
  BY <1>0, <1>1, <1>2 DEF RunOK, StreamsRead
<1>8. FirersStream(r)'
  BY <1>0, <1>1, <1>2, <1>5 DEF RunOK, FirersStream
<1>9. AnswersCounted(r)' /\ KeepsWorkers(r)'
  BY <1>0, <1>1, <1>5, AnswersKept DEF RunOK, KeepsWorkers, Ended
<1>10. CollectedSum(r)'
  <2> DEFINE f == [v \in Workers |-> firer[r][v].sent]
  <2> SUFFICES ASSUME Calm(r)
               PROVE  /\ \A v \in Collected(r)' : firer[r][v].at = "done"
                      /\ sum'[r] = SumFunctionOnSet(f, Collected(r)')
    BY <1>1, <1>5 DEF CollectedSum
  <2>1. Current(w) = r
    <3>1. firer[r][w].at # "none"
      BY <1>1 DEF IInv, BarrierPassed
    <3> QED
      BY <1>0, <1>1, <3>1 DEF RunOK, KeepsWorkers, Current, Ended
  <2>2. firer[r][w].at = "done" /\ sum'[r] = sum[r] + firer[r][w].sent
    BY <1>0, <1>1, <2>1, NoneAssumption DEF TypeOK
  <2>3. Collected(r)' = Collected(r) \cup {w} /\ w \notin Collected(r)
    BY <1>1, <1>2 DEF Collected
  <2>4. /\ \A v \in Collected(r) : firer[r][v].at = "done"
        /\ sum[r] = SumFunctionOnSet(f, Collected(r))
    BY <1>0, <1>1 DEF RunOK, CollectedSum
  <2>5. IsFiniteSet(Collected(r))
    BY WorkersAssumption, FS_Subset DEF Collected
  <2>6. f[w] = firer[r][w].sent /\ \A v \in Collected(r) \cup {w} : f[v] \in Int
    BY <1>0, CountsAreNumbers DEF Collected
  <2> HIDE DEF f
  <2>7. SumFunctionOnSet(f, Collected(r) \cup {w}) = SumFunctionOnSet(f, Collected(r)) + f[w]
    BY <2>3, <2>5, <2>6, SumWithElement
  <2> QED
    BY <2>2, <2>3, <2>4, <2>6, <2>7
<1> QED
  BY <1>4, <1>6, <1>7, <1>8, <1>9, <1>10 DEF RunOK, Accounts

\* A crash loses events, and answers never become fewer.
LEMMA CrashAccounts ==
  ASSUME IInv, Accounts, NEW w \in Workers, Crash(w)
  PROVE  Accounts'
<1>0. TypeOK
  BY DEF IInv
<1>1. /\ crashes' # 0
      /\ firer' = [r \in Runs |-> [firer[r] EXCEPT ![w].at = IF @ = "none" THEN @ ELSE "lost"]]
      /\ rpc' = [r \in Runs |-> [rpc[r] EXCEPT ![w] = IF @ = "stream" THEN "error" ELSE @]]
      /\ stream' = [r \in Runs |-> [stream[r] EXCEPT ![w] = 0]]
      /\ UNCHANGED <<phase, deadline, received, sum, overlap>>
  <2>1. crashes' = crashes + 1 /\ crashes \in Nat
    BY <1>0, CrashesAssumption DEF Crash, TypeOK
  <2> QED
    BY <2>1 DEF Crash, coordinator
<1> SUFFICES ASSUME NEW r \in Runs PROVE RunOK(r)'
  BY DEF Accounts
<1>2. RunOK(r)
  BY DEF Accounts
<1>3. ~Streaming(r)' /\ ~Calm(r)'
  BY <1>1 DEF Streaming, Calm
<1>4. \A v \in Workers :
        /\ firer'[r][v].answered = firer[r][v].answered
        /\ firer'[r][v].at = "running" => firer[r][v].at = "running"
        /\ stream'[r][v] = IF v = w THEN 0 ELSE stream[r][v]
        /\ v # w => rpc'[r][v] = rpc[r][v]
  BY <1>0, <1>1 DEF TypeOK, Firers
<1>5. NothingFired(r)' /\ StreamsRead(r)'
  BY <1>1, <1>2, <1>4 DEF RunOK, NothingFired, StreamsRead
<1>6. FirersStream(r)' /\ KeepsWorkers(r)' /\ CollectedSum(r)'
  BY <1>1, <1>2, <1>3 DEF RunOK, FirersStream, KeepsWorkers, CollectedSum
<1>7. AnswersCounted(r)'
  <2>1. \A v \in Workers : /\ stream[r][v] \in Int /\ stream'[r][v] \in Int
                           /\ stream'[r][v] <= stream[r][v]
    BY <1>0, <1>4, CountsAreNumbers
  <2>2. SumFunctionOnSet(stream'[r], Workers) <= SumFunctionOnSet(stream[r], Workers)
    BY <2>1, SumIsMonotonic, WorkersAssumption
  <2>3. /\ SumFunctionOnSet(stream[r], Workers) \in Int /\ SumFunctionOnSet(stream'[r], Workers) \in Int
        /\ received[r] \in Int
    BY <1>0, <2>1, SumIsInt, WorkersAssumption, CountsAreNumbers
  <2>4. Counted(r)' <= Counted(r) /\ Counted(r) \in Int /\ Counted(r)' \in Int
    BY <1>1, <2>2, <2>3 DEF Counted
  <2>5. TotalAnswered(r)' = TotalAnswered(r) /\ TotalAnswered(r) \in Int
    <3>1. TotalAnswered(r) \in Int
      BY <1>0, SumIsInt, WorkersAssumption, CountsAreNumbers DEF TotalAnswered
    <3>2. [v \in Workers |-> firer'[r][v].answered] = [v \in Workers |-> firer[r][v].answered]
      BY <1>4
    <3> QED
      BY <3>1, <3>2 DEF TotalAnswered
  <2> QED
    BY <1>2, <1>3, <2>4, <2>5 DEF RunOK, AnswersCounted
<1> QED
  BY <1>5, <1>6, <1>7 DEF RunOK

\* A run that is done has had all its answers, and no call of it goes on.
DoneIsAnswered == \A r \in Runs : phase[r] = "done" => Answered(r)

LEMMA DoneStaysAnswered == IInv /\ DoneIsAnswered /\ [Next]_vars => DoneIsAnswered'
<1> SUFFICES ASSUME IInv, DoneIsAnswered, [Next]_vars, NEW r \in Runs, phase'[r] = "done",
                    NEW w \in Workers
             PROVE  rpc'[r][w] \in {"ok", "error"}
  BY DEF DoneIsAnswered, Answered
<1>0. /\ phase \in [Runs -> Phases] /\ rpc \in [Runs -> [Workers -> Answers]]
      /\ phase[r] = "done" => rpc[r][w] \in {"ok", "error"}
  BY DEF IInv, TypeOK, DoneIsAnswered, Answered
<1>1. CASE UNCHANGED vars
  BY <1>0, <1>1 DEF vars
<1>2. ASSUME NEW q \in Runs, Coordinate(q) PROVE rpc'[r][w] \in {"ok", "error"}
  <2>1. CASE SmokeTest(q)
    BY <1>0, <2>1 DEF SmokeTest, CallAll
  <2>2. CASE PrepareDone(q)
    BY <1>0, <2>2 DEF PrepareDone, CallAll
  <2>3. CASE FireDone(q)
    BY <1>0, <2>3 DEF FireDone, CallAll
  <2>4. CASE CollectDone(q)
    BY <1>0, <2>4 DEF CollectDone, Answered
  <2>5. CASE Expire(q)
    BY <1>0, <2>5 DEF Expire
  <2> QED
    BY <1>2, <2>1, <2>2, <2>3, <2>4, <2>5 DEF Coordinate
<1>3. ASSUME NEW q \in Runs, NEW v \in Workers, Call(q, v) PROVE rpc'[r][w] \in {"ok", "error"}
  <2>1. phase' = phase /\ phase[q] # "done"
    BY <1>3 DEF Call, Prepare, Unreachable, Fire, FireRefused, Receive, RecvError, Collect,
                CollectError, coordinator
  <2>2. rpc' = rpc \/ \E s \in Answers : SetRpc(q, v, s)
    BY <1>3 DEF Call, Prepare, Unreachable, Fire, FireRefused, Receive, RecvError, Collect,
                CollectError, Answers
  <2> QED
    BY <1>0, <2>1, <2>2 DEF SetRpc
<1>4. ASSUME NEW q \in Runs, NEW v \in Workers, Work(q, v) PROVE rpc'[r][w] \in {"ok", "error"}
  <2>1. /\ phase' = phase
        /\ \/ rpc' = rpc
           \/ rpc[firer[q][v].by][v] = "stream" /\ SetRpc(firer[q][v].by, v, "eof")
    BY <1>4 DEF Work, Tick, FireReturn, coordinator
  <2> QED
    BY <1>0, <2>1 DEF SetRpc
<1>5. ASSUME NEW v \in Workers, Crash(v) PROVE rpc'[r][w] \in {"ok", "error"}
  BY <1>0, <1>5 DEF Crash, coordinator
<1> QED
  BY <1>1, <1>2, <1>3, <1>4, <1>5 DEF Next

\* Every step keeps the accounts.
LEMMA AccountsInductive == Spec => [](IInv /\ Accounts /\ DoneIsAnswered)
<1>1. Init => Accounts
  <2> SUFFICES ASSUME Init, NEW r \in Runs PROVE RunOK(r)
    BY DEF Accounts
  <2>1. /\ received[r] = 0 /\ sum[r] = 0 /\ phase[r] = "smoke"
        /\ stream[r] = [w \in Workers |-> 0] /\ firer[r] = [w \in Workers |-> NoFirer]
    BY DEF Init
  <2>2. NoFirer.at = "none" /\ NoFirer.answered = 0
    BY DEF NoFirer
  <2>3. NothingFired(r) /\ StreamsRead(r) /\ FirersStream(r) /\ KeepsWorkers(r) /\ CollectedSum(r)
    BY <2>1, <2>2 DEF NothingFired, StreamsRead, FirersStream, KeepsWorkers, CollectedSum
  <2>4. AnswersCounted(r)
    <3>1. [w \in Workers |-> firer[r][w].answered] = stream[r]
      BY <2>1, <2>2
    <3>2. SumFunctionOnSet(stream[r], Workers) \in Int
      BY <2>1, SumIsInt, WorkersAssumption
    <3> QED
      BY <2>1, <3>1, <3>2 DEF AnswersCounted, Counted, TotalAnswered
  <2> QED
    BY <2>3, <2>4 DEF RunOK
<1>2. IInv /\ Accounts /\ [Next]_vars => Accounts'
  <2> SUFFICES ASSUME IInv, Accounts, [Next]_vars PROVE Accounts'
    OBVIOUS
  <2>1. CASE UNCHANGED vars
    <3> SUFFICES ASSUME NEW r \in Runs PROVE RunOK(r)'
      BY DEF Accounts
    <3>1. RunOK(r) /\ (Streaming(r)' <=> Streaming(r)) /\ (Calm(r)' <=> Calm(r))
      BY <2>1 DEF Accounts, vars, Streaming, FireLive, Calm
    <3>2. AnswersCounted(r)' /\ CollectedSum(r)'
      BY <2>1, <3>1, AnswersKept, CollectedKept DEF vars, RunOK
    <3> QED
      BY <2>1, <3>1, <3>2 DEF vars, RunOK, NothingFired, StreamsRead, FirersStream, KeepsWorkers, Ended
  <2>2. ASSUME NEW r \in Runs, Coordinate(r) PROVE Accounts'
    BY <2>2, CoordinateAccounts
  <2>3. ASSUME NEW r \in Runs, NEW w \in Workers, Call(r, w) PROVE Accounts'
    BY <2>3, PrepareAccounts, FireAccounts, FailedCallAccounts, ReceiveAccounts, RecvErrorAccounts,
       CollectAccounts DEF Call
  <2>4. ASSUME NEW r \in Runs, NEW w \in Workers, Work(r, w) PROVE Accounts'
    BY <2>4, TickAccounts, FireReturnAccounts DEF Work
  <2>5. ASSUME NEW w \in Workers, Crash(w) PROVE Accounts'
    BY <2>5, CrashAccounts
  <2> QED
    BY <2>1, <2>2, <2>3, <2>4, <2>5 DEF Next
<1>3. Init => DoneIsAnswered
  BY DEF Init, DoneIsAnswered
<1> QED
  BY <1>1, <1>2, <1>3, DoneStaysAnswered, Inductive, PTL DEF Spec

\* The metrics Coordinator.Run merges are those of the run's own bots and its
\* events their answers, for any number of workers, when the run had its
\* workers to itself and none of its last calls failed.
THEOREM AccountsCorrect == Spec => []AccountsAgree
<1>1. IInv /\ Accounts /\ DoneIsAnswered => AccountsAgree
  <2> SUFFICES ASSUME IInv, Accounts, DoneIsAnswered, NEW r \in Runs, phase[r] = "done",
                      Undisturbed(r)
               PROVE  /\ sum[r] = TotalSent(r)
                      /\ received[r] <= sum[r]
                      /\ deadline[r] = "none" => received[r] = TotalAnswered(r)
    BY DEF AccountsAgree
  <2>0. TypeOK /\ RunOK(r)
    BY DEF IInv, Accounts
  <2>1. \A w \in Workers : rpc[r][w] = "ok"
    BY DEF DoneIsAnswered, Answered, Undisturbed, Failed
  <2>2. Collected(r) = Workers /\ Calm(r)
    BY <2>1 DEF Collected, Undisturbed, Calm
  <2>3. sum[r] = TotalSent(r)
    BY <2>0, <2>2 DEF RunOK, CollectedSum, TotalSent
  <2>4. \A w \in Workers : stream[r][w] = 0
    BY <2>0, <2>1 DEF RunOK, StreamsRead
  <2>5. SumFunctionOnSet(stream[r], Workers) = 0
    <3> DEFINE z == [w \in Workers |-> 0]
    <3>1. \A w \in Workers : z[w] \in Int /\ stream[r][w] = z[w]
      BY <2>4
    <3>2. SumFunctionOnSet(stream[r], Workers) = SumFunctionOnSet(z, Workers)
      BY <3>1, SumOfEquals, WorkersAssumption
    <3> QED
      BY <3>2, SumOfZeros, WorkersAssumption
  <2>6. Counted(r) = received[r] /\ received[r] \in Int
    BY <2>0, <2>5, CountsAreNumbers DEF Counted
  <2>7. TotalAnswered(r) <= TotalSent(r) /\ TotalAnswered(r) \in Int /\ TotalSent(r) \in Int
    <3> DEFINE f == [w \in Workers |-> firer[r][w].answered]
               g == [w \in Workers |-> firer[r][w].sent]
    <3>1. \A w \in Workers : f[w] \in Int /\ g[w] \in Int /\ f[w] <= g[w]
      BY <2>0, CountsAreNumbers DEF IInv, FirersCount
    <3>2. /\ SumFunctionOnSet(f, Workers) <= SumFunctionOnSet(g, Workers)
          /\ SumFunctionOnSet(f, Workers) \in Int /\ SumFunctionOnSet(g, Workers) \in Int
      <4> HIDE DEF f, g
      <4> QED
        BY <3>1, SumIsMonotonic, SumIsInt, WorkersAssumption
    <3> QED
      BY <3>2 DEF TotalAnswered, TotalSent
  <2>8. received[r] <= TotalAnswered(r)
    BY <2>0, <2>6 DEF RunOK, AnswersCounted
  <2>9. deadline[r] = "none" => received[r] = TotalAnswered(r)
    BY <2>0, <2>2, <2>6 DEF RunOK, AnswersCounted, Streaming, FireLive, Calm
  <2> QED
    BY <2>3, <2>6, <2>7, <2>8, <2>9
<1> QED
  BY <1>1, AccountsInductive, PTL
=============================================================================
