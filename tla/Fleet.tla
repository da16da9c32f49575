------------------------------- MODULE Fleet -------------------------------
(***************************************************************************)
(* Open-loop runs over a fleet of workers: coordinator.go drives the RPCs  *)
(* Prepare, Fire and CollectMetrics of every worker, worker.go serves them *)
(* with one mutex-guarded state and one current firer.  The API server     *)
(* gives every concurrent job a coordinator over the same workers, so the  *)
(* calls of several runs may meet at a worker.                             *)
(*                                                                         *)
(* A firer is named after the run and the worker it was made for.  What    *)
(* its bots do is OpenLoop's subject: here it counts ticks and answers.    *)
(***************************************************************************)
EXTENDS Integers, FiniteSetsExt

CONSTANTS Runs,       \* benchmark runs, each with a coordinator of its own
          Workers,    \* the worker processes, all used by every run
          ShardSize,  \* ticks of a shard
          MaxCrashes, \* worker crashes
          None        \* no run

\* The workers are the addresses the coordinator is given a client for.
ASSUME WorkersAssumption == IsFiniteSet(Workers)
ASSUME ShardAssumption == ShardSize \in Nat
ASSUME CrashesAssumption == MaxCrashes \in Nat
ASSUME NoneAssumption == None \notin Runs

VARIABLES
  phase,    \* run -> where Coordinator.Run is
  rpc,      \* run -> worker -> the phase's call: "called", "stream", "eof", "ok" or "error"
  deadline, \* run -> contexts that are done: "none", "fire" (fireCtx) or "run" (both)
  received, \* run -> events counted by the fan-in
  sum,      \* run -> TicksSent merged from the collected metrics
  worker,   \* worker -> its state and runID; its firer is the one made for runID
  firer,    \* run -> worker -> the firer's progress
  stream,   \* run -> worker -> events on their way to the fan-in
  crashes,  \* crashes so far
  overlap   \* runs that met another one at a worker

vars == <<phase, rpc, deadline, received, sum, worker, firer, stream, crashes, overlap>>

coordinator == <<phase, deadline, received, sum>>

Idle == [state |-> "idle", run |-> None]
NoFirer == [at |-> "none", by |-> None, sent |-> 0, answered |-> 0]
NewFirer == [NoFirer EXCEPT !.at = "new"]

Ended(r) == phase[r] \in {"done", "failed"}

SetRpc(r, w, s) == rpc' = [rpc EXCEPT ![r][w] = s]

\* Every worker has answered the call of the phase.
Answered(r) == \A w \in Workers : rpc[r][w] \in {"ok", "error"}

Failed(r) == \E w \in Workers : rpc[r][w] = "error"

CallAll(r) == rpc' = [rpc EXCEPT ![r] = [w \in Workers |-> "called"]]

\* The run the worker's current firer was made for, if there is a firer.
Current(w) == worker[w].run

Init ==
  /\ phase = [r \in Runs |-> "smoke"]
  /\ rpc = [r \in Runs |-> [w \in Workers |-> "ok"]]
  /\ deadline = [r \in Runs |-> "none"]
  /\ received = [r \in Runs |-> 0]
  /\ sum = [r \in Runs |-> 0]
  /\ worker = [w \in Workers |-> Idle]
  /\ firer = [r \in Runs |-> [w \in Workers |-> NoFirer]]
  /\ stream = [r \in Runs |-> [w \in Workers |-> 0]]
  /\ crashes = 0
  /\ overlap = {}

-----------------------------------------------------------------------------
(* Smoke test and Prepare *)

\* The smoke test and the correctness gate (module ClosedLoop) let the run
\* through or end it.
SmokeTest(r) ==
  /\ phase[r] = "smoke"
  /\ \/ phase' = [phase EXCEPT ![r] = "preparing"] /\ CallAll(r)
     \/ phase' = [phase EXCEPT ![r] = "failed"] /\ UNCHANGED rpc
  /\ UNCHANGED <<deadline, received, sum, worker, firer, stream, crashes, overlap>>

\* Runs that another one meets when r prepares the worker.
Met(r, w) == {q \in Runs \ {r} : /\ firer[q][w].at # "none"
                                 /\ ~Ended(q) \/ firer[q][w].at = "running"}

\* Prepare replaces firer, run id and state whatever the worker is doing; the
\* reply may come too late for the caller.
Prepare(r, w) ==
  /\ phase[r] = "preparing" /\ rpc[r][w] = "called"
  /\ worker' = [worker EXCEPT ![w] = [state |-> "prepared", run |-> r]]
  /\ firer' = [firer EXCEPT ![r][w] = NewFirer]
  /\ \E answer \in {"ok", "error"} : SetRpc(r, w, answer)
  /\ overlap' = IF Met(r, w) = {} THEN overlap ELSE overlap \cup {r} \cup Met(r, w)
  /\ UNCHANGED <<coordinator, stream, crashes>>

\* A unary call fails before it reaches the worker: connection or deadline.
Unreachable(r, w) ==
  /\ phase[r] = "preparing" /\ rpc[r][w] = "called"
  /\ SetRpc(r, w, "error")
  /\ UNCHANGED <<coordinator, worker, firer, stream, crashes, overlap>>

AllPrepared_Unchecked(r) == Answered(r)

\* prepErrs are looked through after the last answer.
AllPrepared(r) == Answered(r) /\ ~Failed(r)

PrepareDone(r) ==
  /\ phase[r] = "preparing" /\ Answered(r)
  /\ \/ AllPrepared(r) /\ phase' = [phase EXCEPT ![r] = "firing"] /\ CallAll(r)
     \/ ~AllPrepared(r) /\ phase' = [phase EXCEPT ![r] = "failed"] /\ UNCHANGED rpc
  /\ UNCHANGED <<deadline, received, sum, worker, firer, stream, crashes, overlap>>

-----------------------------------------------------------------------------
(* Fire *)

Accepts(r, w) == worker[w].state = "prepared" /\ worker[w].run = r

\* The stream's context is live.
FireLive(r) == deadline[r] = "none"

Fire(r, w) ==
  /\ phase[r] = "firing" /\ rpc[r][w] = "called" /\ FireLive(r)
  /\ Accepts(r, w)
  /\ worker' = [worker EXCEPT ![w].state = "firing"]
  /\ firer' = [firer EXCEPT ![Current(w)][w].at = "running", ![Current(w)][w].by = r]
  /\ SetRpc(r, w, "stream")
  /\ UNCHANGED <<coordinator, stream, crashes, overlap>>

\* The worker is not prepared for the run, cannot be reached or not in time: the
\* goroutine of the stream returns, and nothing looks at the error.
FireRefused(r, w) ==
  /\ phase[r] = "firing" /\ rpc[r][w] = "called"
  /\ SetRpc(r, w, "error")
  /\ UNCHANGED <<coordinator, worker, firer, stream, crashes, overlap>>

Running(q, w) == firer[q][w].at = "running"

\* A bot writes a tick under the context of the stream that fired it.  If it is
\* answered it becomes an event; the error of a send on a dead stream is ignored.
Tick(q, w) ==
  /\ Running(q, w) /\ FireLive(firer[q][w].by) /\ firer[q][w].sent < ShardSize
  /\ \E answered \in {0, 1} :
       /\ firer' = [firer EXCEPT ![q][w].sent = @ + 1, ![q][w].answered = @ + answered]
       /\ LET r == firer[q][w].by IN
          stream' = IF rpc[r][w] = "stream" THEN [stream EXCEPT ![r][w] = @ + answered]
                    ELSE stream
  /\ UNCHANGED <<coordinator, rpc, worker, crashes, overlap>>

\* Bots and correlators have ended, by themselves or with the context.  The
\* handler marks the worker done, whatever it was prepared for meanwhile, and
\* returns, which ends the stream.
FireReturn(q, w) ==
  /\ Running(q, w)
  /\ firer' = [firer EXCEPT ![q][w].at = "done"]
  /\ worker' = [worker EXCEPT ![w].state = "done"]
  /\ LET r == firer[q][w].by IN
     IF rpc[r][w] = "stream" THEN SetRpc(r, w, "eof") ELSE UNCHANGED rpc
  /\ UNCHANGED <<coordinator, stream, crashes, overlap>>

Receive(r, w) ==
  /\ phase[r] = "firing" /\ rpc[r][w] \in {"stream", "eof"} /\ stream[r][w] > 0
  /\ received' = [received EXCEPT ![r] = @ + 1]
  /\ stream' = [stream EXCEPT ![r][w] = @ - 1]
  /\ UNCHANGED <<phase, deadline, sum, rpc, worker, firer, crashes, overlap>>

StreamEnds_Unread(r, w) == rpc[r][w] = "eof"

\* Recv reports the end of the stream after its last event.
StreamEnds(r, w) == rpc[r][w] = "eof" /\ stream[r][w] = 0

\* Recv returns an error: the end of the stream or of its context, which loses
\* what is on its way.
RecvError(r, w) ==
  /\ phase[r] = "firing"
  /\ \/ StreamEnds(r, w) /\ SetRpc(r, w, "ok")
     \/ rpc[r][w] \in {"stream", "eof"} /\ ~FireLive(r) /\ SetRpc(r, w, "error")
  /\ stream' = [stream EXCEPT ![r][w] = 0]
  /\ UNCHANGED <<coordinator, worker, firer, crashes, overlap>>

\* All streams have ended: the fan-in loop leaves telemetryCh.
FireDone(r) ==
  /\ phase[r] = "firing" /\ Answered(r)
  /\ phase' = [phase EXCEPT ![r] = "collecting"]
  /\ CallAll(r)
  /\ UNCHANGED <<deadline, received, sum, worker, firer, stream, crashes, overlap>>

-----------------------------------------------------------------------------
(* Collect *)

\* Metrics waits for f.done.
Collectable(q, w) == firer[q][w].at = "done"

\* The metrics of the worker's current firer, whichever run asks.
Collect(r, w) ==
  /\ phase[r] = "collecting" /\ rpc[r][w] = "called" /\ deadline[r] # "run"
  /\ LET q == Current(w) IN
     IF q = None THEN UNCHANGED sum
     ELSE /\ Collectable(q, w)
          /\ sum' = [sum EXCEPT ![r] = @ + firer[q][w].sent]
  /\ SetRpc(r, w, "ok")
  /\ UNCHANGED <<phase, deadline, received, worker, firer, stream, crashes, overlap>>

GivesUp_NoContext(r, w) == crashes > 0

GivesUp(r, w) == deadline[r] = "run" \/ crashes > 0

\* A call that fails, at the run's deadline or with its worker, counts as zero.
CollectError(r, w) ==
  /\ phase[r] = "collecting" /\ rpc[r][w] = "called"
  /\ GivesUp(r, w)
  /\ SetRpc(r, w, "error")
  /\ UNCHANGED <<coordinator, worker, firer, stream, crashes, overlap>>

\* Run returns merged metrics and no error.
CollectDone(r) ==
  /\ phase[r] = "collecting" /\ Answered(r)
  /\ phase' = [phase EXCEPT ![r] = "done"]
  /\ UNCHANGED <<deadline, received, sum, rpc, worker, firer, stream, crashes, overlap>>

-----------------------------------------------------------------------------
(* Time and failures *)

\* fireCtx ends at its timeout or with its parent; both are over in the end.
Expire(r) ==
  /\ phase[r] \in {"firing", "collecting"} /\ deadline[r] # "run"
  /\ \E d \in {"fire", "run"} :
       /\ d # deadline[r]
       /\ deadline' = [deadline EXCEPT ![r] = d]
  /\ UNCHANGED <<phase, received, sum, rpc, worker, firer, stream, crashes, overlap>>

\* A worker process dies and is restarted: its state, its firers and its
\* streams are gone.
Crash(w) ==
  /\ crashes < MaxCrashes
  /\ crashes' = crashes + 1
  /\ worker' = [worker EXCEPT ![w] = Idle]
  /\ firer' = [r \in Runs |-> [firer[r] EXCEPT ![w].at = IF @ = "none" THEN @ ELSE "lost"]]
  /\ rpc' = [r \in Runs |-> [rpc[r] EXCEPT ![w] = IF @ = "stream" THEN "error" ELSE @]]
  /\ stream' = [r \in Runs |-> [stream[r] EXCEPT ![w] = 0]]
  /\ UNCHANGED <<coordinator, overlap>>

Coordinate(r) ==
  SmokeTest(r) \/ PrepareDone(r) \/ FireDone(r) \/ CollectDone(r) \/ Expire(r)

Call(r, w) ==
  \/ Prepare(r, w) \/ Unreachable(r, w) \/ Fire(r, w) \/ FireRefused(r, w)
  \/ Receive(r, w) \/ RecvError(r, w) \/ Collect(r, w) \/ CollectError(r, w)

Work(q, w) == Tick(q, w) \/ FireReturn(q, w)

Next ==
  \/ \E r \in Runs : Coordinate(r)
  \/ \E r \in Runs, w \in Workers : Call(r, w) \/ Work(r, w)
  \/ \E w \in Workers : Crash(w)

Spec == Init /\ [][Next]_vars

\* Goroutines run on, bots end (module OpenLoop) and contexts time out.
FairSpec ==
  /\ Spec
  /\ \A r \in Runs : WF_vars(Coordinate(r))
  /\ \A r \in Runs, w \in Workers :
       WF_vars(Call(r, w)) /\ WF_vars(FireReturn(r, w))

-----------------------------------------------------------------------------
(* Properties. *)

Phases == {"smoke", "preparing", "firing", "collecting", "done", "failed"}
Answers == {"called", "stream", "eof", "ok", "error"}
Firers == [at : {"none", "new", "running", "done", "lost"}, by : Runs \cup {None},
           sent : 0..ShardSize, answered : 0..ShardSize]

TypeOK ==
  /\ phase \in [Runs -> Phases]
  /\ rpc \in [Runs -> [Workers -> Answers]]
  /\ deadline \in [Runs -> {"none", "fire", "run"}]
  /\ received \in [Runs -> Nat] /\ sum \in [Runs -> Nat]
  /\ worker \in [Workers -> [state : {"idle", "prepared", "firing", "done"},
                             run : Runs \cup {None}]]
  /\ firer \in [Runs -> [Workers -> Firers]]
  /\ stream \in [Runs -> [Workers -> Nat]]
  /\ crashes \in 0..MaxCrashes /\ overlap \subseteq Runs

\* The barrier between Prepare and Fire: a shard is fired only when every worker
\* of the run has been prepared for it, also when runs meet at a worker, replies
\* are lost or a worker has been restarted since.
FiresAfterBarrier ==
  \A r \in Runs, w \in Workers : firer[r][w].by # None =>
    \A v \in Workers : firer[r][v].at # "none"

TotalSent(r) == SumFunctionOnSet([w \in Workers |-> firer[r][w].sent], Workers)
TotalAnswered(r) == SumFunctionOnSet([w \in Workers |-> firer[r][w].answered], Workers)

Undisturbed(r) == crashes = 0 /\ r \notin overlap /\ ~Failed(r)

\* A finished run that had its workers to itself and whose collection succeeded,
\* which takes a firer that was fired at every worker, reports what its bots sent
\* and no more correct answers than ticks, wherever the streams were cut off;
\* unless fireCtx ended them it has counted every answer.
AccountsAgree ==
  \A r \in Runs : phase[r] = "done" /\ Undisturbed(r) =>
    /\ sum[r] = TotalSent(r)
    /\ received[r] <= sum[r]
    /\ deadline[r] = "none" => received[r] = TotalAnswered(r)

\* Every run ends, whatever happens to its workers and whichever runs meet it.
EveryRunEnds == \A r \in Runs : <>Ended(r)

\* A worker goes from idle over prepared and firing to done, and is prepared
\* again only when it is done or was never fired.
StateMachine ==
  [][\A w \in Workers : worker'[w].state # worker[w].state =>
       <<worker[w].state, worker'[w].state>> \in
         {<<"idle", "prepared">>, <<"prepared", "firing">>, <<"firing", "done">>,
          <<"done", "prepared">>}]_worker
=============================================================================
