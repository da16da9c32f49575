-------------------------------- MODULE Jobs --------------------------------
(***************************************************************************)
(* The life of a submission: the API server of cmd/api (upload handlers,   *)
(* webhook, bounded queue, pool of job goroutines), the lambda compiler it *)
(* reaches through a message queue, and the score rows, which the server   *)
(* and the ingester write.                                                 *)
(*                                                                         *)
(* Submissions are those of one team, named by attempt; teams share the    *)
(* queue and the pool only.  What happens inside a benchmark run is the    *)
(* subject of ClosedLoop and Fleet: here it fails or gives a score.        *)
(***************************************************************************)
EXTENDS Integers, SequencesExt

CONSTANTS Handlers,       \* concurrent upload requests
          Pool,           \* job goroutines
          QueueDepth,     \* buffer of jobCh
          MaxSubmissions, \* uploads, over all restarts
          MaxRedeliveries,\* messages the queue delivers again
          MaxRestarts,    \* restarts of the API server
          Nothing         \* an idle handler or job goroutine

ASSUME QueueAssumption == QueueDepth \in Nat \ {0}
ASSUME BoundsAssumption ==
  MaxSubmissions \in Nat /\ MaxRedeliveries \in Nat /\ MaxRestarts \in Nat

\* How far an upload is.
Stages == {"uploading", "stored", "recorded", "refusing"}

ASSUME NothingAssumption == Nothing \notin [at : Stages, job : [id : Nat, run : Nat]]

VARIABLES
  local,    \* localMode: compile in the job, not in the lambda
  attempts, \* the team's attempt counter
  statuses, \* submission -> its state and run id
  teamJobs, \* the team's submissions as recorded
  handler,  \* upload request -> Nothing, or how far it is
  accepted, \* submissions answered with 202 by this process
  jobCh,    \* the job queue
  busy,     \* job goroutine -> Nothing, or its job
  sqs,      \* messages for the lambda
  doubtful, \* submissions whose message was sent although sending it failed
  webhooks, \* its notifications on their way
  heard,    \* submission -> webhooks handled for it by this process
  lost,     \* submissions of which a message or notification was dropped
  scores,   \* run_scores: submission -> its row: the run id, and the run scored
  unscored, \* submissions of which this process left out writing a score
  finished, \* jobs whose run the ingester was told to be complete
  runs,     \* run ids given out
  faults    \* redeliveries and restarts so far

uploads == <<attempts, teamJobs, handler, runs>>
compiler == <<sqs, doubtful, webhooks, heard, lost>>
rows == <<scores, unscored, finished>>

vars == <<local, uploads, statuses, accepted, jobCh, busy, compiler, rows, faults>>

Put(m, k, v) == [x \in DOMAIN m \cup {k} |-> IF x = k THEN v ELSE m[x]]
Delete(m, k) == [x \in DOMAIN m \ {k} |-> m[x]]

Job(id, run) == [id |-> id, run |-> run]

HasRoom == Len(jobCh) < QueueDepth

Init ==
  /\ local \in BOOLEAN
  /\ attempts = 0 /\ statuses = <<>> /\ teamJobs = <<>>
  /\ handler = [h \in Handlers |-> Nothing]
  /\ accepted = {} /\ jobCh = <<>>
  /\ busy = [k \in Pool |-> Nothing]
  /\ sqs = {} /\ doubtful = {} /\ webhooks = {} /\ heard = <<>> /\ lost = {}
  /\ scores = <<>> /\ unscored = {} /\ finished = {} /\ runs = 0
  /\ faults = [redelivered |-> 0, restarted |-> 0]

\* updateStatus does nothing for a submission that is not known.
SetState(id, state) ==
  statuses' = IF id \in DOMAIN statuses
              THEN [statuses EXCEPT ![id].state = state] ELSE statuses

-----------------------------------------------------------------------------
(* handleSubmit *)

NextAttempt_Listed == Len(teamJobs) + 1

NextAttempt == attempts + 1

\* nextSubmissionID, an atomic increment, and a run id from the clock.
Claim(h) ==
  /\ handler[h] = Nothing /\ runs < MaxSubmissions
  /\ attempts' = NextAttempt
  /\ runs' = runs + 1
  /\ handler' = [handler EXCEPT ![h] = [at |-> "uploading", job |-> Job(NextAttempt, runs + 1)]]
  /\ UNCHANGED <<local, statuses, teamJobs, accepted, jobCh, busy, compiler, rows, faults>>

At(h, where) == handler[h] # Nothing /\ handler[h].at = where

Proceed(h, where) == handler' = [handler EXCEPT ![h].at = where]

Respond(h) == handler' = [handler EXCEPT ![h] = Nothing]

\* The source cannot be saved: the attempt is used up.
UploadFails(h) ==
  /\ At(h, "uploading")
  /\ Respond(h)
  /\ UNCHANGED <<local, attempts, statuses, teamJobs, accepted, jobCh, busy, compiler, rows,
                 runs, faults>>

Store(h) ==
  /\ At(h, "uploading")
  /\ statuses' = Put(statuses, handler[h].job.id, [state |-> "queued", run |-> handler[h].job.run])
  /\ Proceed(h, "stored")
  /\ UNCHANGED <<local, attempts, teamJobs, accepted, jobCh, busy, compiler, rows, runs, faults>>

Record(h) ==
  /\ At(h, "stored")
  /\ teamJobs' = Append(teamJobs, handler[h].job.id)
  /\ Proceed(h, "recorded")
  /\ UNCHANGED <<local, attempts, statuses, accepted, jobCh, busy, compiler, rows, runs, faults>>

EnqueueLocal(h) ==
  /\ At(h, "recorded") /\ local /\ HasRoom
  /\ jobCh' = Append(jobCh, handler[h].job)
  /\ accepted' = accepted \cup {handler[h].job.id}
  /\ Respond(h)
  /\ UNCHANGED <<local, attempts, statuses, teamJobs, busy, compiler, rows, runs, faults>>

Send(h) == sqs' = sqs \cup {handler[h].job}

EnqueueRemote(h) ==
  /\ At(h, "recorded") /\ ~local
  /\ Send(h)
  /\ accepted' = accepted \cup {handler[h].job.id}
  /\ Respond(h)
  /\ UNCHANGED <<local, attempts, statuses, teamJobs, jobCh, busy, doubtful, webhooks, heard, lost,
                 rows, runs, faults>>

\* SendMessage returns an error, of a message that the queue may have taken.
SendFails(h) ==
  /\ At(h, "recorded") /\ ~local
  /\ \/ Send(h) /\ doubtful' = doubtful \cup {handler[h].job.id}
     \/ UNCHANGED <<sqs, doubtful>>
  /\ Proceed(h, "refusing")
  /\ UNCHANGED <<local, attempts, statuses, teamJobs, accepted, jobCh, busy, webhooks, heard, lost,
                 rows, runs, faults>>

QueueIsFull(h) ==
  /\ At(h, "recorded") /\ local /\ ~HasRoom
  /\ Proceed(h, "refusing")
  /\ UNCHANGED <<local, attempts, statuses, teamJobs, accepted, jobCh, busy, compiler, rows, runs,
                 faults>>

Refuse(h) ==
  /\ At(h, "refusing")
  /\ statuses' = Delete(statuses, handler[h].job.id)
  /\ Respond(h)
  /\ UNCHANGED <<local, attempts, teamJobs, accepted, jobCh, busy, compiler, rows, runs, faults>>

-----------------------------------------------------------------------------
(* The lambda and handleWebhook *)

\* A message is compiled and the outcome posted, or not: the lambda logs the
\* error and acknowledges the message.  The queue may deliver a message again.
Compile(j) ==
  /\ j \in sqs
  /\ \/ sqs' = sqs \ {j} /\ UNCHANGED faults
     \/ /\ faults.redelivered < MaxRedeliveries
        /\ faults' = [faults EXCEPT !.redelivered = @ + 1]
        /\ UNCHANGED sqs
  /\ \/ \E ok \in BOOLEAN : webhooks' = webhooks \cup {[id |-> j.id, ok |-> ok]}
        /\ UNCHANGED lost
     \/ lost' = lost \cup {j.id} /\ UNCHANGED webhooks
  /\ UNCHANGED <<local, uploads, statuses, accepted, jobCh, busy, doubtful, heard, rows>>

Known(id) == id \in DOMAIN statuses

Heard(id) == IF id \in DOMAIN heard THEN heard[id] ELSE 0

WebhookFailed(n) ==
  /\ Known(n.id) /\ ~n.ok
  /\ SetState(n.id, "failed")
  /\ UNCHANGED <<jobCh, lost>>

\* The job is rebuilt from the status.
WebhookSuccess(n) ==
  /\ Known(n.id) /\ n.ok /\ HasRoom
  /\ jobCh' = Append(jobCh, Job(n.id, statuses[n.id].run))
  /\ UNCHANGED <<statuses, lost>>

\* Answered with 404 or 503, which the lambda does not look at.
WebhookRefused(n) ==
  /\ ~Known(n.id) \/ (n.ok /\ ~HasRoom)
  /\ lost' = lost \cup {n.id}
  /\ UNCHANGED <<statuses, jobCh>>

Webhook(n) ==
  /\ n \in webhooks
  /\ WebhookFailed(n) \/ WebhookSuccess(n) \/ WebhookRefused(n)
  /\ webhooks' = webhooks \ {n}
  /\ heard' = Put(heard, n.id, Heard(n.id) + 1)
  /\ UNCHANGED <<local, uploads, accepted, busy, sqs, doubtful, rows, faults>>

-----------------------------------------------------------------------------
(* runJob *)

Take(k) ==
  /\ busy[k] = Nothing /\ jobCh # <<>>
  /\ LET j == Head(jobCh) IN
     /\ busy' = [busy EXCEPT ![k] = [at |-> "running", job |-> j]]
     /\ SetState(j.id, "running")
  /\ jobCh' = Tail(jobCh)
  /\ UNCHANGED <<local, uploads, accepted, compiler, rows, faults>>

Working(k, where) == busy[k] # Nothing /\ busy[k].at = where

AfterFailure_GoesOn(k) == [busy[k] EXCEPT !.at = "scoring"]

AfterFailure_Exits(k) == [busy[k] EXCEPT !.at = "exited"]

AfterFailure(k) == Nothing

\* Compilation, dial, sandbox or run fails.
RunFails(k) ==
  /\ Working(k, "running")
  /\ SetState(busy[k].job.id, "failed")
  /\ busy' = [busy EXCEPT ![k] = AfterFailure(k)]
  /\ UNCHANGED <<local, uploads, accepted, jobCh, compiler, rows, faults>>

\* The coordinator tells the ingester that the run is complete.
RunSucceeds(k) ==
  /\ Working(k, "running")
  /\ finished' = finished \cup {busy[k].job}
  /\ busy' = [busy EXCEPT ![k].at = "scoring"]
  /\ UNCHANGED <<local, uploads, statuses, accepted, jobCh, compiler, scores, unscored, faults>>

NotScored == 0

Upserted_KeepRow(j) ==
  IF j.id \in DOMAIN scores THEN scores ELSE Put(scores, j.id, [run |-> j.run, score |-> j.run])

\* INSERT .. ON CONFLICT (submission_id) DO UPDATE
Upserted(j) == Put(scores, j.id, [run |-> j.run, score |-> j.run])

Score(k) ==
  /\ Working(k, "scoring")
  /\ scores' = Upserted(busy[k].job)
  /\ busy' = [busy EXCEPT ![k].at = "reporting"]
  /\ UNCHANGED <<local, uploads, statuses, accepted, jobCh, compiler, unscored, finished, faults>>

\* There is no database, or the error of the statement is logged.
ScoreLeftOut(k) ==
  /\ Working(k, "scoring")
  /\ unscored' = unscored \cup {busy[k].job.id}
  /\ busy' = [busy EXCEPT ![k].at = "reporting"]
  /\ UNCHANGED <<local, uploads, statuses, accepted, jobCh, compiler, scores, finished, faults>>

Report(k) ==
  /\ Working(k, "reporting")
  /\ SetState(busy[k].job.id, "done")
  /\ busy' = [busy EXCEPT ![k] = Nothing]
  /\ UNCHANGED <<local, uploads, accepted, jobCh, compiler, rows, faults>>

-----------------------------------------------------------------------------

\* The ingester handles the end of a run, at any time and again after a restart
\* of its own: it writes the run id and leaves the columns of the score alone.
Finalise(j) ==
  /\ j \in finished
  /\ LET score == IF j.id \in DOMAIN scores THEN scores[j.id].score ELSE NotScored IN
     scores' = Put(scores, j.id, [run |-> j.run, score |-> score])
  /\ UNCHANGED <<local, uploads, statuses, accepted, jobCh, busy, compiler, unscored, finished,
                 faults>>

\* All state of the server is in memory; messages and rows survive.
Restart ==
  /\ faults.restarted < MaxRestarts
  /\ faults' = [faults EXCEPT !.restarted = @ + 1]
  /\ attempts' = 0 /\ statuses' = <<>> /\ teamJobs' = <<>> /\ jobCh' = <<>>
  /\ handler' = [h \in Handlers |-> Nothing]
  /\ busy' = [k \in Pool |-> Nothing]
  /\ accepted' = {} /\ heard' = <<>> /\ lost' = {} /\ unscored' = {}
  /\ UNCHANGED <<local, sqs, doubtful, webhooks, scores, finished, runs>>

Enqueue(h) == EnqueueLocal(h) \/ EnqueueRemote(h) \/ SendFails(h) \/ QueueIsFull(h) \/ Refuse(h)
Upload(h) == UploadFails(h) \/ Store(h) \/ Record(h) \/ Enqueue(h)
RunJob(k) ==
  Take(k) \/ RunFails(k) \/ RunSucceeds(k) \/ Score(k) \/ ScoreLeftOut(k) \/ Report(k)

Next ==
  \/ \E h \in Handlers : Claim(h) \/ Upload(h)
  \/ \E j \in sqs : Compile(j)
  \/ \E n \in webhooks : Webhook(n)
  \/ \E k \in Pool : RunJob(k)
  \/ \E j \in finished : Finalise(j)
  \/ Restart

Spec == Init /\ [][Next]_vars

Numbers == 1..MaxSubmissions

\* Goroutines run on, runs end (modules ClosedLoop and Fleet), the queue
\* delivers its messages and posts arrive or fail.
FairSpec ==
  /\ Spec
  /\ \A h \in Handlers : WF_vars(Upload(h))
  /\ \A k \in Pool : WF_vars(RunJob(k))
  /\ \A id \in Numbers, run \in Numbers : WF_vars(Compile(Job(id, run)))
  /\ \A id \in Numbers, ok \in BOOLEAN : WF_vars(Webhook([id |-> id, ok |-> ok]))

-----------------------------------------------------------------------------
(* Properties. *)

JobType == [id : Numbers, run : Numbers]

TypeOK ==
  /\ local \in BOOLEAN
  /\ runs \in 0..MaxSubmissions /\ attempts \in 0..runs
  /\ DOMAIN statuses \subseteq Numbers
  /\ statuses \in [DOMAIN statuses -> [state : {"queued", "running", "done", "failed"},
                                      run : Numbers]]
  /\ teamJobs \in Seq(Numbers) /\ jobCh \in Seq(JobType)
  /\ handler \in [Handlers -> {Nothing} \cup [at : Stages, job : JobType]]
  /\ busy \in [Pool -> {Nothing} \cup [at : {"running", "scoring", "reporting"}, job : JobType]]
  /\ accepted \subseteq Numbers /\ lost \subseteq Numbers
  /\ doubtful \subseteq Numbers /\ unscored \subseteq Numbers /\ finished \subseteq JobType
  /\ sqs \subseteq JobType /\ webhooks \subseteq [id : Numbers, ok : BOOLEAN]
  /\ DOMAIN heard \subseteq Numbers /\ heard \in [DOMAIN heard -> Nat]
  /\ DOMAIN scores \subseteq Numbers
  /\ scores \in [DOMAIN scores -> [run : Numbers, score : Numbers \cup {NotScored}]]
  /\ faults \in [redelivered : 0..MaxRedeliveries, restarted : 0..MaxRestarts]

Ended(id) == Known(id) /\ statuses[id].state \in {"done", "failed"}

\* Concurrent uploads of a team never share a submission id or a place in its
\* list, and no submission is missing from the list once its upload was there.
SubmissionsNamedOnce ==
  /\ \A h, g \in Handlers :
       handler[h] # Nothing /\ handler[g] # Nothing /\ h # g => handler[h].job.id # handler[g].job.id
  /\ IsInjective(teamJobs)
  /\ \A id \in DOMAIN statuses :
       id \in ToSet(teamJobs) \/ \E h \in Handlers : At(h, "stored") /\ handler[h].job.id = id

Queued == ToSet(jobCh) \cup {busy[k].job : k \in {p \in Pool : busy[p] # Nothing}}

\* A queued or running job is that of a known submission and of its current run,
\* so updateStatus always reaches the submission: also with a queue that fills up
\* and late webhooks.  A job outlives its status in two cases: a webhook from
\* before a restart has queued it for an upload that is then refused, or the
\* message of the upload was sent although SendMessage failed, and the compiler is
\* faster than the handler that takes the registration back.
JobsKnown ==
  \A j \in Queued : IF Known(j.id) THEN statuses[j.id].run = j.run
                    ELSE faults.restarted > 0 \/ j.id \in doubtful

\* A submission that is done has its score row, and the score is of its own run,
\* also when the submission id was used before a restart and whenever the
\* ingester writes the row; unless the score was left out, for want of a
\* database or after an error of it, which runJob does not look at.
DoneIsScored ==
  \A id \in DOMAIN statuses : statuses[id].state = "done" =>
    id \in unscored \/ (id \in DOMAIN scores /\ scores[id].score = statuses[id].run)

\* A submission that is done or failed stays so, unless the compiler reported on
\* it a second time.
EndedStays ==
  [][\A id \in DOMAIN statuses :
       (Ended(id) /\ Heard(id)' < 2 /\ id \in DOMAIN statuses') =>
         statuses'[id].state = statuses[id].state]_statuses

\* An accepted submission ends, unless the server is restarted or a message
\* about the submission was dropped between the lambda and the server.
EveryJobEnds ==
  \A id \in Numbers : id \in accepted ~> (id \notin accepted \/ Ended(id) \/ id \in lost)
=============================================================================
