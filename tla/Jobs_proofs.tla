----------------------------- MODULE Jobs_proofs -----------------------------
(***************************************************************************)
(* Submissions keep their names, their run ids and their scores: for any   *)
(* number of uploads, job goroutines, redeliveries and restarts.           *)
(*                                                                         *)
(* The argument: an id is given out once between restarts (NamesFresh), so *)
(* that a status, once it is there, has one run id, and every queued job   *)
(* carries it (JobsCurrent); the status of an upload that may still be     *)
(* refused has no job, unless a notification from before a restart has     *)
(* queued one or its message was sent after all (UploadsAlone); and the    *)
(* row of a job that is about to report is there if it was not left out    *)
(* (RowsWritten).  What has ended stays so because only a second           *)
(* notification of the compiler gives a submission a second job            *)
(* (EndedAlone).                                                           *)
(***************************************************************************)
EXTENDS Jobs, SequenceTheorems, TLAPS

Busy(k) == busy[k] # Nothing
Open(h) == handler[h] # Nothing

Listed(id) == \E i \in DOMAIN teamJobs : teamJobs[i] = id

\* A submission with a status: it is in the list of its team, or about to be.
Named(id) == Listed(id) \/ \E h \in Handlers : At(h, "stored") /\ handler[h].job.id = id

\* A job in the queue or with a job goroutine, as Queued has it.
IsQueued(j) ==
  (\E i \in DOMAIN jobCh : jobCh[i] = j) \/ (\E k \in Pool : Busy(k) /\ busy[k].job = j)

NamesFresh ==
  /\ \A i \in DOMAIN teamJobs : teamJobs[i] <= attempts
  /\ \A h \in Handlers : Open(h) =>
       /\ handler[h].job.id <= attempts
       /\ handler[h].at \in {"uploading", "stored"} <=> ~Listed(handler[h].job.id)
  /\ \A h, g \in Handlers : Open(h) /\ Open(g) /\ h # g => handler[h].job.id # handler[g].job.id
  /\ \A i, j \in DOMAIN teamJobs : teamJobs[i] = teamJobs[j] => i = j
  /\ \A id \in DOMAIN statuses : Named(id)

\* An upload that is not refused yet still has its status.
Registered ==
  \A h \in Handlers : Open(h) /\ handler[h].at # "uploading" =>
    Known(handler[h].job.id) /\ statuses[handler[h].job.id].run = handler[h].job.run

JobsCurrent ==
  \A j \in JobType : IsQueued(j) =>
    /\ Named(j.id)
    /\ Known(j.id) => statuses[j.id].run = j.run
    /\ ~Known(j.id) => faults.restarted > 0 \/ j.id \in doubtful

\* Before the first restart: what is on its way belongs to finished uploads, or
\* to one whose message was sent although sending it failed.
UploadsAlone ==
  faults.restarted = 0 =>
    /\ \A j \in sqs : Named(j.id)
    /\ \A n \in webhooks : Named(n.id)
    /\ \A h \in Handlers : Open(h) /\ handler[h].job.id \notin doubtful =>
         /\ \A j \in sqs : j.id # handler[h].job.id
         /\ \A n \in webhooks : n.id # handler[h].job.id
         /\ \A j \in JobType : IsQueued(j) => j.id # handler[h].job.id

RowsWritten ==
  \A k \in Pool : Working(k, "reporting") /\ Known(busy[k].job.id) =>
    \/ busy[k].job.id \in unscored
    \/ busy[k].job.id \in DOMAIN scores /\ scores[busy[k].job.id].score = busy[k].job.run

IInv ==
  /\ TypeOK /\ NamesFresh /\ Registered /\ JobsCurrent /\ UploadsAlone
  /\ RowsWritten /\ DoneIsScored

-----------------------------------------------------------------------------
(* Maps and sequences. *)

\* What Put does to a map.
LEMMA PutFacts ==
  ASSUME NEW m, NEW k, NEW v
  PROVE  /\ DOMAIN Put(m, k, v) = DOMAIN m \cup {k}
         /\ Put(m, k, v)[k] = v
         /\ \A x \in DOMAIN m : x # k => Put(m, k, v)[x] = m[x]
BY DEF Put

\* A map with one more value of a type.
LEMMA PutType ==
  ASSUME NEW S, NEW T, NEW m \in [S -> T], NEW k, NEW v \in T
  PROVE  Put(m, k, v) \in [S \cup {k} -> T]
BY DEF Put

\* What Delete does to a map.
LEMMA DeleteFacts ==
  ASSUME NEW m, NEW k
  PROVE  /\ DOMAIN Delete(m, k) = DOMAIN m \ {k}
         /\ \A x \in DOMAIN m \ {k} : Delete(m, k)[x] = m[x]
BY DEF Delete

\* A map with a value less.
LEMMA DeleteType ==
  ASSUME NEW S, NEW T, NEW m \in [S -> T], NEW k
  PROVE  Delete(m, k) \in [S \ {k} -> T]
BY DEF Delete

\* What Append does to a sequence.
LEMMA AppendFacts ==
  ASSUME NEW T, NEW s \in Seq(T), NEW x \in T
  PROVE  /\ Append(s, x) \in Seq(T)
         /\ Len(s) \in Nat /\ Len(s) + 1 \notin DOMAIN s
         /\ DOMAIN Append(s, x) = DOMAIN s \cup {Len(s) + 1}
         /\ \A i \in DOMAIN s : Append(s, x)[i] = s[i]
         /\ Append(s, x)[Len(s) + 1] = x
<1>1. Append(s, x) \in Seq(T) /\ Len(Append(s, x)) = Len(s) + 1
  BY AppendProperties
<1>2. DOMAIN s = 1..Len(s) /\ DOMAIN Append(s, x) = 1..(Len(s) + 1) /\ Len(s) \in Nat
  BY <1>1, LenProperties
<1>3. \A i \in 1..Len(s) : Append(s, x)[i] = s[i]
  BY <1>2, AppendProperties
<1>4. Append(s, x)[Len(s) + 1] = x
  BY AppendProperties
<1> QED
  BY <1>1, <1>2, <1>3, <1>4

\* What taking the first element of a sequence leaves.
LEMMA TailFacts ==
  ASSUME NEW T, NEW s \in Seq(T), s # <<>>
  PROVE  /\ Tail(s) \in Seq(T) /\ Head(s) \in T /\ Head(s) = s[1] /\ 1 \in DOMAIN s
         /\ \A i \in DOMAIN Tail(s) : i + 1 \in DOMAIN s /\ i + 1 # 1 /\ Tail(s)[i] = s[i + 1]
         /\ \A i \in DOMAIN Tail(s) : i \in Int
<1>1. /\ Tail(s) \in Seq(T) /\ Head(s) \in T
      /\ Len(Tail(s)) = Len(s) - 1 /\ Len(s) \in Nat
  BY HeadTailProperties, LenProperties
<1>2. Head(s) = s[1] /\ Len(s) # 0
  BY EmptySeq, HeadTailProperties
<1>3. DOMAIN s = 1..Len(s) /\ DOMAIN Tail(s) = 1..Len(s) - 1
  BY <1>1, LenProperties
<1>4. \A i \in 1..Len(s) - 1 : Tail(s)[i] = s[i + 1]
  BY <1>1, HeadTailProperties
<1> QED
  BY <1>1, <1>2, <1>3, <1>4

\* The statuses keep their submissions and run ids when a state is set.
LEMMA SetStateFacts ==
  ASSUME TypeOK, NEW id \in Numbers,
         NEW state \in {"queued", "running", "done", "failed"}, SetState(id, state)
  PROVE  /\ DOMAIN statuses' = DOMAIN statuses
         /\ statuses' \in [DOMAIN statuses -> [state : {"queued", "running", "done", "failed"},
                                               run : Numbers]]
         /\ \A x \in DOMAIN statuses : statuses'[x].run = statuses[x].run
         /\ \A x \in DOMAIN statuses :
              statuses'[x].state = IF x = id THEN state ELSE statuses[x].state
<1> DEFINE Status == [state : {"queued", "running", "done", "failed"}, run : Numbers]
<1>1. statuses \in [DOMAIN statuses -> Status]
  BY DEF TypeOK
<1>2. CASE id \notin DOMAIN statuses
  BY <1>1, <1>2 DEF SetState
<1>3. CASE id \in DOMAIN statuses
  <2> DEFINE new == [statuses[id] EXCEPT !.state = state]
  <2>1. statuses[id] \in Status
    BY <1>1, <1>3
  <2>2. new \in Status
    BY <2>1
  <2>3. new.run = statuses[id].run /\ new.state = state
    BY <2>1
  <2>4. statuses' = [statuses EXCEPT ![id] = new]
    BY <1>3 DEF SetState
  <2> HIDE DEF new, Status
  <2>5. DOMAIN statuses' = DOMAIN statuses /\ statuses' \in [DOMAIN statuses -> Status]
    BY <1>1, <2>2, <2>4
  <2>6. statuses'[id] = new /\ \A x \in DOMAIN statuses \ {id} : statuses'[x] = statuses[x]
    BY <1>1, <1>3, <2>4
  <2> QED
    BY <2>3, <2>5, <2>6 DEF Status
<1> QED
  BY <1>2, <1>3

-----------------------------------------------------------------------------
(* The upload handlers. *)

OpenHandler == [at : Stages, job : JobType]

\* An upload is something.
LEMMA HandlerIsOpen ==
  \A new \in OpenHandler : new # Nothing
<1>1. Numbers \subseteq Nat
  BY DEF Numbers
<1>2. JobType \subseteq [id : Nat, run : Nat]
  BY <1>1 DEF JobType
<1>3. OpenHandler \subseteq [at : Stages, job : [id : Nat, run : Nat]]
  BY <1>2 DEF OpenHandler, Stages
<1> QED
  BY <1>3, NothingAssumption

\* A submission id is given out: it is greater than any before.
LEMMA ClaimStep ==
  ASSUME IInv, NEW h \in Handlers, Claim(h)
  PROVE  IInv'
<1> USE DEF IInv
<1> DEFINE new == [at |-> "uploading", job |-> Job(attempts + 1, runs + 1)]
<1>1. /\ handler[h] = Nothing /\ runs < MaxSubmissions
      /\ attempts' = attempts + 1 /\ runs' = runs + 1 /\ handler' = [handler EXCEPT ![h] = new]
      /\ UNCHANGED <<local, statuses, teamJobs, accepted, jobCh, busy, sqs, webhooks, heard, lost,
                     doubtful, scores, unscored, finished, faults>>
  BY DEF Claim, NextAttempt, compiler, rows
<1>2. attempts \in Nat /\ runs \in Nat /\ attempts <= runs /\ MaxSubmissions \in Nat
  BY BoundsAssumption DEF TypeOK
<1>3. /\ attempts + 1 \in Numbers /\ runs + 1 \in Numbers /\ runs + 1 \in 0..MaxSubmissions
      /\ attempts + 1 \in 0..(runs + 1)
  BY <1>1, <1>2 DEF Numbers
<1>4. new \in OpenHandler /\ new.job.id = attempts + 1 /\ new.at = "uploading"
  BY <1>3 DEF Job, OpenHandler, Stages, JobType
<1> HIDE DEF new
<1>5. /\ handler' \in [Handlers -> {Nothing} \cup OpenHandler] /\ handler'[h] = new
      /\ \A g \in Handlers \ {h} : handler'[g] = handler[g]
  BY <1>1, <1>4 DEF TypeOK, OpenHandler
<1>6. TypeOK'
  BY <1>1, <1>3, <1>5 DEF TypeOK, OpenHandler
<1>7. \A id \in Numbers : Listed(id) => id <= attempts /\ id # attempts + 1
  <2>1. \A id \in Numbers : id \in Nat
    BY DEF Numbers
  <2> QED
    BY <1>2, <2>1 DEF NamesFresh, Listed
<1>8. ~Listed(attempts + 1)
  BY <1>3, <1>7
<1>9. \A g \in Handlers \ {h} : handler'[g] # Nothing =>
        /\ handler[g].job.id \in Nat
        /\ handler[g].job.id <= attempts /\ handler[g].job.id # attempts + 1
  <2>1. \A g \in Handlers : Open(g) => handler[g].job.id \in Nat
    BY DEF TypeOK, Open, JobType, Numbers
  <2> QED
    BY <1>2, <1>5, <2>1 DEF NamesFresh, Open
<1>10. \A id : Named(id)' <=> Named(id)
  <2>1. \A g \in Handlers : At(g, "stored")' <=> At(g, "stored") /\ g # h
    BY <1>1, <1>4, <1>5 DEF At
  <2>2. ~At(h, "stored")
    BY <1>1 DEF At
  <2> QED
    BY <1>1, <1>5, <2>1, <2>2 DEF Named, Listed
<1>11. ~Named(attempts + 1)
  <2>1. \A g \in Handlers : At(g, "stored") => handler[g].job.id # attempts + 1
    BY <1>1, <1>5, <1>9 DEF At
  <2> QED
    BY <1>8, <2>1 DEF Named
<1>12. NamesFresh'
  <2>1. \A i \in DOMAIN teamJobs' : teamJobs'[i] <= attempts'
    <3>1. teamJobs \in Seq(Numbers)
      BY DEF TypeOK
    <3>2. \A i \in DOMAIN teamJobs : teamJobs[i] \in Numbers
      BY <3>1
    <3>3. \A i \in DOMAIN teamJobs : teamJobs[i] \in Nat
      BY <3>2 DEF Numbers
    <3> QED
      BY <1>1, <1>2, <3>3 DEF NamesFresh
  <2>2. ASSUME NEW g \in Handlers, handler'[g] # Nothing
        PROVE  /\ handler'[g].job.id <= attempts'
               /\ handler'[g].at \in {"uploading", "stored"} <=> ~Listed(handler'[g].job.id)
    <3>1. CASE g = h
      BY <1>1, <1>2, <1>4, <1>5, <1>8, <3>1
    <3>2. CASE g # h
      BY <1>1, <1>2, <1>5, <1>9, <2>2, <3>2 DEF NamesFresh, Open
    <3> QED
      BY <3>1, <3>2
  <2>3. ASSUME NEW g \in Handlers, NEW f \in Handlers, handler'[g] # Nothing,
               handler'[f] # Nothing, g # f
        PROVE  handler'[g].job.id # handler'[f].job.id
    <3>1. CASE g # h /\ f # h
      BY <1>5, <2>3, <3>1 DEF NamesFresh, Open
    <3>2. CASE g = h
      BY <1>4, <1>5, <1>9, <2>3, <3>2
    <3>3. CASE f = h
      BY <1>4, <1>5, <1>9, <2>3, <3>3
    <3> QED
      BY <3>1, <3>2, <3>3
  <2>4. \A id \in DOMAIN statuses' : Named(id)'
    BY <1>1, <1>10 DEF NamesFresh
  <2> QED
    BY <1>1, <2>1, <2>2, <2>3, <2>4 DEF NamesFresh, Open, Listed
<1>13. Registered'
  BY <1>1, <1>4, <1>5 DEF Registered, Open, Known
<1>14. JobsCurrent'
  BY <1>1, <1>10 DEF JobsCurrent, IsQueued, Busy, Known
<1>15. UploadsAlone'
  <2>1. SUFFICES ASSUME faults.restarted = 0 PROVE UploadsAlone'
    BY <1>1 DEF UploadsAlone
  <2>2. /\ \A j \in sqs : Named(j.id)
        /\ \A n \in webhooks : Named(n.id)
        /\ \A j \in JobType : IsQueued(j) => Named(j.id)
    BY <2>1 DEF UploadsAlone, JobsCurrent
  <2>3. ASSUME NEW g \in Handlers, handler'[g] # Nothing, handler'[g].job.id \notin doubtful
        PROVE  /\ \A j \in sqs : j.id # handler'[g].job.id
               /\ \A n \in webhooks : n.id # handler'[g].job.id
               /\ \A j \in JobType : IsQueued(j) => j.id # handler'[g].job.id
    <3>1. CASE g = h
      BY <1>4, <1>5, <1>11, <2>2, <3>1
    <3>2. CASE g # h
      BY <1>5, <2>1, <2>3, <3>2 DEF UploadsAlone, Open
    <3> QED
      BY <3>1, <3>2
  <2> QED
    BY <1>1, <1>10, <2>2, <2>3 DEF UploadsAlone, Open, IsQueued, Busy
<1>16. RowsWritten' /\ DoneIsScored'
  BY <1>1 DEF RowsWritten, DoneIsScored, Working, Known
<1> QED
  BY <1>6, <1>12, <1>13, <1>14, <1>15, <1>16

\* An upload that ends takes nothing but its handler along.
LEMMA RespondFacts ==
  ASSUME IInv, NEW h \in Handlers, Respond(h)
  PROVE  /\ handler' \in [Handlers -> {Nothing} \cup OpenHandler]
         /\ handler'[h] = Nothing
         /\ \A g \in Handlers \ {h} : handler'[g] = handler[g]
BY DEF IInv, TypeOK, OpenHandler, Respond

\* Of a queue and a pool that are left alone, the jobs stay.
LEMMA SameJobs ==
  ASSUME UNCHANGED <<jobCh, busy>>
  PROVE  \A j : IsQueued(j)' <=> IsQueued(j)
BY DEF IsQueued, Busy

\* Uploads that are not at the list of the team leave the names as they are.
LEMMA SameNames ==
  ASSUME UNCHANGED teamJobs,
         \A h \in Handlers : At(h, "stored")' <=> At(h, "stored"),
         \A h \in Handlers : At(h, "stored") => handler'[h] = handler[h]
  PROVE  \A id : Named(id)' <=> Named(id)
BY DEF Named, Listed

\* When names are fresh, they still are without some of the handlers and statuses.
LEMMA NamesStayFresh ==
  ASSUME NamesFresh, UNCHANGED <<attempts, teamJobs>>,
         \A h \in Handlers : handler'[h] = handler[h] \/ handler'[h] = Nothing,
         \A h \in Handlers : At(h, "stored") => handler'[h] = handler[h],
         DOMAIN statuses' \subseteq DOMAIN statuses
  PROVE  NamesFresh' /\ \A id : Named(id)' <=> Named(id)
<1>1. \A id : Listed(id)' <=> Listed(id)
  BY DEF Listed
<1>2. \A id : Named(id)' <=> Named(id)
  BY SameNames DEF At
<1>3. \A h \in Handlers : handler'[h] # Nothing => handler[h] # Nothing /\ handler'[h] = handler[h]
  OBVIOUS
<1>4. \A h \in Handlers : Open(h)' =>
        /\ handler'[h].job.id <= attempts'
        /\ handler'[h].at \in {"uploading", "stored"} <=> ~Listed(handler'[h].job.id)
  BY <1>1, <1>3 DEF NamesFresh, Open, Listed
<1>5. \A h, g \in Handlers :
        Open(h)' /\ Open(g)' /\ h # g => handler'[h].job.id # handler'[g].job.id
  BY <1>3 DEF NamesFresh, Open
<1> QED
  BY <1>2, <1>4, <1>5 DEF NamesFresh, Open, Listed

\* The source cannot be saved.
LEMMA UploadFailsStep ==
  ASSUME IInv, NEW h \in Handlers, UploadFails(h)
  PROVE  IInv'
<1> USE DEF IInv
<1>1. /\ Respond(h) /\ handler[h].at # "stored"
      /\ UNCHANGED <<local, attempts, statuses, teamJobs, accepted, jobCh, busy, sqs, webhooks,
                     heard, lost, doubtful, scores, unscored, finished, runs, faults>>
  BY DEF UploadFails, At, compiler, rows
<1>2. /\ handler' \in [Handlers -> {Nothing} \cup OpenHandler]
      /\ handler'[h] = Nothing
      /\ \A g \in Handlers \ {h} : handler'[g] = handler[g]
  BY <1>1, RespondFacts
<1>3. TypeOK'
  BY <1>1, <1>2 DEF TypeOK, OpenHandler
<1>4. NamesFresh' /\ \A id : Named(id)' <=> Named(id)
  BY <1>1, <1>2, NamesStayFresh DEF At
<1>5. Registered' /\ JobsCurrent' /\ UploadsAlone'
  BY <1>1, <1>2, <1>4 DEF Registered, JobsCurrent, UploadsAlone, Open, IsQueued, Busy, Known
<1> QED
  BY <1>1, <1>3, <1>4, <1>5 DEF RowsWritten, DoneIsScored, Working, Known

\* The submission gets its status.
LEMMA StoreStep ==
  ASSUME IInv, NEW h \in Handlers, Store(h)
  PROVE  IInv'
<1> USE DEF IInv
<1> DEFINE j == handler[h].job
           new == [handler[h] EXCEPT !.at = "stored"]
           status == [state |-> "queued", run |-> j.run]
           Status == [state : {"queued", "running", "done", "failed"}, run : Numbers]
<1>1. /\ handler[h] # Nothing /\ handler[h].at = "uploading"
      /\ statuses' = Put(statuses, j.id, status)
      /\ handler' = [handler EXCEPT ![h] = new]
      /\ UNCHANGED <<local, attempts, teamJobs, accepted, jobCh, busy, sqs, webhooks, heard, lost,
                     doubtful, scores, unscored, finished, runs, faults>>
  BY DEF Store, Proceed, At, compiler, rows, TypeOK
<1>2. handler[h] \in OpenHandler
  BY <1>1 DEF TypeOK, OpenHandler
<1>3. j \in JobType /\ j.id \in Numbers /\ j.run \in Numbers
  BY <1>2 DEF OpenHandler, JobType
<1>4. new \in OpenHandler
  BY <1>2 DEF OpenHandler, Stages
<1>5. new.at = "stored" /\ new.job = j
  BY <1>2 DEF OpenHandler, Stages
<1>6. status \in Status /\ status.state = "queued" /\ status.run = j.run
  BY <1>3
<1> HIDE DEF new, status
<1>7. /\ handler' \in [Handlers -> {Nothing} \cup OpenHandler] /\ handler'[h] = new
      /\ \A g \in Handlers \ {h} : handler'[g] = handler[g]
  BY <1>1, <1>4 DEF TypeOK, OpenHandler
<1>8. /\ DOMAIN statuses' = DOMAIN statuses \cup {j.id} /\ statuses'[j.id] = status
      /\ \A x \in DOMAIN statuses : x # j.id => statuses'[x] = statuses[x]
      /\ statuses' \in [DOMAIN statuses \cup {j.id} -> Status]
  <2>1. statuses \in [DOMAIN statuses -> Status]
    BY DEF TypeOK
  <2> HIDE DEF j, Status
  <2>2. Put(statuses, j.id, status) \in [DOMAIN statuses \cup {j.id} -> Status]
    BY <1>6, <2>1, PutType
  <2>3. /\ DOMAIN Put(statuses, j.id, status) = DOMAIN statuses \cup {j.id}
        /\ Put(statuses, j.id, status)[j.id] = status
        /\ \A x \in DOMAIN statuses : x # j.id => Put(statuses, j.id, status)[x] = statuses[x]
    BY DEF Put
  <2> QED
    BY <1>1, <2>2, <2>3
<1>10. TypeOK'
  BY <1>1, <1>3, <1>7, <1>8 DEF TypeOK, OpenHandler
<1>11. ~Listed(j.id) /\ j.id <= attempts
  BY <1>1 DEF NamesFresh, Open
<1>12. \A g \in Handlers \ {h} : handler[g] # Nothing => handler[g].job.id # j.id
  BY <1>1 DEF NamesFresh, Open
<1>13. /\ \A id : Named(id)' <=> Named(id) \/ id = j.id
       /\ ~Named(j.id)
  <2>1. ~At(h, "stored") /\ At(h, "stored")' /\ handler'[h].job.id = j.id
    BY <1>1, <1>4, <1>5, <1>7, HandlerIsOpen DEF At
  <2>2. \A g \in Handlers \ {h} : At(g, "stored")' <=> At(g, "stored")
    BY <1>7 DEF At
  <2>3. \A id : Listed(id)' <=> Listed(id)
    BY <1>1 DEF Listed
  <2>4. ~Named(j.id)
    BY <1>11, <1>12, <2>1 DEF Named, At
  <2> QED
    BY <1>7, <2>1, <2>2, <2>3, <2>4 DEF Named
<1>14. NamesFresh'
  <2>1. ASSUME NEW g \in Handlers, handler'[g] # Nothing
        PROVE  /\ handler'[g].job.id <= attempts'
               /\ handler'[g].at \in {"uploading", "stored"} <=> ~Listed(handler'[g].job.id)
    <3>1. CASE g = h
      BY <1>1, <1>5, <1>7, <1>11, <3>1
    <3>2. CASE g # h
      BY <1>1, <1>7, <2>1, <3>2 DEF NamesFresh, Open
    <3> QED
      BY <3>1, <3>2
  <2>2. \A g, f \in Handlers : handler'[g] # Nothing /\ handler'[f] # Nothing /\ g # f =>
          handler'[g].job.id # handler'[f].job.id
    BY <1>1, <1>5, <1>7, <1>12 DEF NamesFresh, Open
  <2>3. \A id \in DOMAIN statuses' : Named(id)'
    BY <1>8, <1>13 DEF NamesFresh
  <2> QED
    BY <1>1, <2>1, <2>2, <2>3 DEF NamesFresh, Open, Listed
<1>15. Registered'
  <2>1. ASSUME NEW g \in Handlers, handler'[g] # Nothing, handler'[g].at # "uploading"
        PROVE  /\ handler'[g].job.id \in DOMAIN statuses'
               /\ statuses'[handler'[g].job.id].run = handler'[g].job.run
    <3>1. CASE g = h
      BY <1>5, <1>6, <1>7, <1>8, <3>1
    <3>2. CASE g # h
      BY <1>7, <1>8, <1>12, <2>1, <3>2 DEF Registered, Open, Known
    <3> QED
      BY <3>1, <3>2
  <2> QED
    BY <2>1 DEF Registered, Open, Known
<1>16. \A q \in JobType : IsQueued(q) => Named(q.id) /\ q.id # j.id
  BY <1>13 DEF JobsCurrent
<1>17. JobsCurrent'
  BY <1>1, <1>8, <1>13, <1>16 DEF JobsCurrent, IsQueued, Busy, Known
<1>18. UploadsAlone'
  BY <1>1, <1>5, <1>7, <1>13 DEF UploadsAlone, Open, IsQueued, Busy
<1>19. RowsWritten'
  <2>1. ASSUME NEW k \in Pool, Working(k, "reporting")
        PROVE  busy[k].job.id # j.id
    <3>1. busy[k].job \in JobType /\ IsQueued(busy[k].job)
      BY <2>1 DEF Working, TypeOK, IsQueued, Busy
    <3> QED
      BY <1>16, <3>1
  <2> QED
    BY <1>1, <1>8, <2>1 DEF RowsWritten, Working, Known
<1>20. DoneIsScored'
  BY <1>1, <1>6, <1>8 DEF DoneIsScored
<1> QED
  BY <1>10, <1>14, <1>15, <1>17, <1>18, <1>19, <1>20

\* The submission gets its place in the list of its team.
LEMMA RecordStep ==
  ASSUME IInv, NEW h \in Handlers, Record(h)
  PROVE  IInv'
<1> USE DEF IInv
<1> DEFINE j == handler[h].job
           new == [handler[h] EXCEPT !.at = "recorded"]
<1>1. /\ handler[h] # Nothing /\ handler[h].at = "stored"
      /\ teamJobs' = Append(teamJobs, j.id)
      /\ handler' = [handler EXCEPT ![h] = new]
      /\ UNCHANGED <<local, attempts, statuses, accepted, jobCh, busy, sqs, webhooks, heard, lost,
                     doubtful, scores, unscored, finished, runs, faults>>
  BY DEF Record, Proceed, At, compiler, rows, TypeOK
<1>2. handler[h] \in OpenHandler
  BY <1>1 DEF TypeOK, OpenHandler
<1>3. j \in JobType /\ j.id \in Numbers
  BY <1>2 DEF OpenHandler, JobType
<1>4. new \in OpenHandler
  BY <1>2 DEF OpenHandler, Stages
<1>5. new.at = "recorded" /\ new.job = j
  BY <1>2 DEF OpenHandler, Stages
<1> HIDE DEF new
<1>6. /\ handler' \in [Handlers -> {Nothing} \cup OpenHandler] /\ handler'[h] = new
      /\ \A g \in Handlers \ {h} : handler'[g] = handler[g]
  BY <1>1, <1>4 DEF TypeOK, OpenHandler
<1>7. /\ teamJobs' \in Seq(Numbers) /\ Len(teamJobs) + 1 \notin DOMAIN teamJobs
      /\ DOMAIN teamJobs' = DOMAIN teamJobs \cup {Len(teamJobs) + 1}
      /\ \A i \in DOMAIN teamJobs : teamJobs'[i] = teamJobs[i]
      /\ teamJobs'[Len(teamJobs) + 1] = j.id
  BY <1>1, <1>3, AppendFacts DEF TypeOK
<1>8. TypeOK'
  BY <1>1, <1>6, <1>7 DEF TypeOK, OpenHandler
<1>9. ~Listed(j.id) /\ j.id <= attempts
  BY <1>1 DEF NamesFresh, Open
<1>10. \A id : Listed(id)' <=> Listed(id) \/ id = j.id
  BY <1>7 DEF Listed
<1>11. \A g \in Handlers \ {h} : handler[g] # Nothing => handler[g].job.id # j.id
  BY <1>1 DEF NamesFresh, Open
<1>12. \A id : Named(id)' <=> Named(id)
  <2>1. At(h, "stored") /\ ~At(h, "stored")'
    BY <1>1, <1>5, <1>6 DEF At
  <2>2. \A g \in Handlers \ {h} : At(g, "stored")' <=> At(g, "stored")
    BY <1>6 DEF At
  <2> QED
    BY <1>6, <1>10, <2>1, <2>2 DEF Named
<1>13. NamesFresh'
  <2>1. \A i \in DOMAIN teamJobs' : teamJobs'[i] <= attempts'
    BY <1>1, <1>7, <1>9 DEF NamesFresh
  <2>2. ASSUME NEW g \in Handlers, handler'[g] # Nothing
        PROVE  /\ handler'[g].job.id <= attempts'
               /\ handler'[g].at \in {"uploading", "stored"} <=>
                    ~\E i \in DOMAIN teamJobs' : teamJobs'[i] = handler'[g].job.id
    <3>1. CASE g = h
      BY <1>1, <1>5, <1>6, <1>7, <1>9, <3>1
    <3>2. CASE g # h
      BY <1>1, <1>6, <1>7, <1>11, <2>2, <3>2 DEF NamesFresh, Open, Listed
    <3> QED
      BY <3>1, <3>2
  <2>3. \A g, f \in Handlers : handler'[g] # Nothing /\ handler'[f] # Nothing /\ g # f =>
          handler'[g].job.id # handler'[f].job.id
    BY <1>1, <1>5, <1>6, <1>11 DEF NamesFresh, Open
  <2>4. \A i, k \in DOMAIN teamJobs' : teamJobs'[i] = teamJobs'[k] => i = k
    BY <1>7, <1>9 DEF NamesFresh, Listed
  <2>5. \A id \in DOMAIN statuses' : Named(id)'
    BY <1>1, <1>12 DEF NamesFresh
  <2> QED
    BY <2>1, <2>2, <2>3, <2>4, <2>5 DEF NamesFresh, Open, Listed
<1>14. Registered'
  BY <1>1, <1>5, <1>6 DEF Registered, Open, Known
<1>15. JobsCurrent'
  BY <1>1, <1>12 DEF JobsCurrent, IsQueued, Busy, Known
<1>16. UploadsAlone'
  BY <1>1, <1>5, <1>6, <1>12 DEF UploadsAlone, Open, IsQueued, Busy
<1> QED
  BY <1>1, <1>8, <1>13, <1>14, <1>15, <1>16 DEF RowsWritten, DoneIsScored, Working, Known

\* The upload is put in the queue of the server, or its message sent.
LEMMA EnqueueStep ==
  ASSUME IInv, NEW h \in Handlers, EnqueueLocal(h) \/ EnqueueRemote(h)
  PROVE  IInv'
<1> USE DEF IInv
<1> DEFINE j == handler[h].job
<1>1. /\ handler[h] # Nothing /\ handler[h].at = "recorded" /\ Respond(h)
      /\ accepted' = accepted \cup {j.id}
      /\ UNCHANGED <<local, attempts, statuses, teamJobs, busy, webhooks, heard, lost, doubtful,
                     scores, unscored, finished, runs, faults>>
  BY DEF EnqueueLocal, EnqueueRemote, Send, At, compiler, rows
<1>2. \/ jobCh' = Append(jobCh, j) /\ sqs' = sqs
      \/ jobCh' = jobCh /\ sqs' = sqs \cup {j}
  BY DEF EnqueueLocal, EnqueueRemote, Send, compiler, rows
<1>3. handler[h] \in OpenHandler
  BY <1>1 DEF TypeOK, OpenHandler
<1>4. j \in JobType /\ j.id \in Numbers
  BY <1>3 DEF OpenHandler, JobType
<1>5. /\ Known(j.id) /\ statuses[j.id].run = j.run /\ Named(j.id)
      /\ \A g \in Handlers \ {h} : handler[g] # Nothing => handler[g].job.id # j.id
  BY <1>1 DEF Registered, NamesFresh, Open, Known
<1>6. /\ handler' \in [Handlers -> {Nothing} \cup OpenHandler]
      /\ handler'[h] = Nothing
      /\ \A g \in Handlers \ {h} : handler'[g] = handler[g]
  BY <1>1, RespondFacts
<1> HIDE DEF j
<1>7. jobCh' \in Seq(JobType) /\ \A q : IsQueued(q)' => IsQueued(q) \/ q = j
  <2>1. CASE jobCh' = jobCh
    BY <1>1, <2>1 DEF TypeOK, IsQueued, Busy
  <2>2. CASE jobCh' = Append(jobCh, j)
    <3>1. /\ jobCh' \in Seq(JobType)
          /\ DOMAIN jobCh' = DOMAIN jobCh \cup {Len(jobCh) + 1}
          /\ \A i \in DOMAIN jobCh : jobCh'[i] = jobCh[i]
          /\ jobCh'[Len(jobCh) + 1] = j
      BY <1>4, <2>2, AppendFacts DEF TypeOK
    <3> QED
      BY <1>1, <3>1 DEF IsQueued, Busy
  <2> QED
    BY <1>2, <2>1, <2>2
<1>8. sqs' \subseteq JobType /\ \A q \in sqs' : q \in sqs \/ q = j
  BY <1>2, <1>4 DEF TypeOK
<1>9. TypeOK'
  BY <1>1, <1>4, <1>6, <1>7, <1>8 DEF TypeOK, OpenHandler
<1>10. NamesFresh' /\ \A id : Named(id)' <=> Named(id)
  BY <1>1, <1>6, NamesStayFresh DEF At
<1>11. Registered'
  BY <1>1, <1>6 DEF Registered, Open, Known
<1>12. JobsCurrent'
  BY <1>1, <1>5, <1>7, <1>10 DEF JobsCurrent, Known
<1>13. UploadsAlone'
  BY <1>1, <1>5, <1>6, <1>7, <1>8, <1>10 DEF UploadsAlone, Open
<1> QED
  BY <1>1, <1>9, <1>10, <1>11, <1>12, <1>13 DEF RowsWritten, DoneIsScored, Working, Known

\* The queue is full, or sending the message fails: it may have been sent.
LEMMA TurnAwayStep ==
  ASSUME IInv, NEW h \in Handlers, SendFails(h) \/ QueueIsFull(h)
  PROVE  IInv'
<1> USE DEF IInv
<1> DEFINE j == handler[h].job
           new == [handler[h] EXCEPT !.at = "refusing"]
<1>1. /\ handler[h] # Nothing /\ handler[h].at = "recorded"
      /\ handler' = [handler EXCEPT ![h] = new]
      /\ UNCHANGED <<local, attempts, statuses, teamJobs, accepted, jobCh, busy, webhooks, heard,
                     lost, scores, unscored, finished, runs, faults>>
  BY DEF SendFails, QueueIsFull, Proceed, At, compiler, rows, TypeOK
<1>2. \/ sqs' = sqs /\ doubtful' = doubtful
      \/ sqs' = sqs \cup {j} /\ doubtful' = doubtful \cup {j.id}
  BY DEF SendFails, QueueIsFull, Send, compiler
<1>3. handler[h] \in OpenHandler
  BY <1>1 DEF TypeOK, OpenHandler
<1>4. j \in JobType /\ j.id \in Numbers
  BY <1>3 DEF OpenHandler, JobType
<1>5. new \in OpenHandler
  BY <1>3 DEF OpenHandler, Stages
<1>6. new.at = "refusing" /\ new.job = j
  BY <1>3 DEF OpenHandler, Stages
<1>7. /\ Named(j.id)
      /\ \A g \in Handlers \ {h} : handler[g] # Nothing => handler[g].job.id # j.id
  BY <1>1 DEF Registered, NamesFresh, Open, Known
<1> HIDE DEF new, j
<1>8. /\ handler' \in [Handlers -> {Nothing} \cup OpenHandler] /\ handler'[h] = new
      /\ \A g \in Handlers \ {h} : handler'[g] = handler[g]
  BY <1>1, <1>5 DEF TypeOK, OpenHandler
<1>9. /\ sqs' \subseteq JobType /\ doubtful \subseteq doubtful' /\ doubtful' \subseteq Numbers
      /\ \A q \in sqs' : q \in sqs \/ (q = j /\ j.id \in doubtful')
  BY <1>2, <1>4 DEF TypeOK
<1>10. TypeOK'
  BY <1>1, <1>8, <1>9 DEF TypeOK, OpenHandler
<1>11. \A g \in Handlers : handler'[g] = Nothing <=> handler[g] = Nothing
  BY <1>1, <1>5, <1>8, HandlerIsOpen
<1>12. \A g \in Handlers : Open(g) => handler'[g].job = handler[g].job
  BY <1>6, <1>8 DEF Open, j
<1>13. \A id : Named(id)' <=> Named(id)
  <2>1. \A g \in Handlers : At(g, "stored")' <=> At(g, "stored")
    BY <1>1, <1>6, <1>8 DEF At
  <2>2. \A g \in Handlers : At(g, "stored") => handler'[g] = handler[g]
    BY <1>1, <1>8 DEF At
  <2> QED
    BY <1>1, <2>1, <2>2, SameNames
<1>14. NamesFresh'
  <2>1. ASSUME NEW g \in Handlers, handler'[g] # Nothing
        PROVE  /\ handler'[g].job.id <= attempts'
               /\ handler'[g].at \in {"uploading", "stored"} <=> ~Listed(handler'[g].job.id)
    <3>1. CASE g = h
      <4>1. j.id <= attempts /\ Listed(j.id)
        BY <1>1 DEF NamesFresh, Open, j
      <4> QED
        BY <1>1, <1>6, <1>8, <3>1, <4>1
    <3>2. CASE g # h
      BY <1>1, <1>8, <2>1, <3>2 DEF NamesFresh, Open
    <3> QED
      BY <3>1, <3>2
  <2>2. \A g, f \in Handlers : handler'[g] # Nothing /\ handler'[f] # Nothing /\ g # f =>
          handler'[g].job.id # handler'[f].job.id
    BY <1>11, <1>12 DEF NamesFresh, Open
  <2>3. \A id \in DOMAIN statuses' : Named(id)'
    BY <1>1, <1>13 DEF NamesFresh
  <2> QED
    BY <1>1, <2>1, <2>2, <2>3 DEF NamesFresh, Open, Listed
<1>15. Registered'
  <2>1. ASSUME NEW g \in Handlers, handler'[g] # Nothing, handler'[g].at # "uploading"
        PROVE  /\ handler'[g].job.id \in DOMAIN statuses'
               /\ statuses'[handler'[g].job.id].run = handler'[g].job.run
    <3>1. Open(g) /\ handler[g].at # "uploading" /\ handler'[g].job = handler[g].job
      BY <1>1, <1>8, <1>11, <1>12, <2>1 DEF Open
    <3> QED
      BY <1>1, <3>1 DEF Registered, Known
  <2> QED
    BY <2>1 DEF Registered, Open, Known
<1>16. JobsCurrent'
  BY <1>1, <1>9, <1>13, SameJobs DEF JobsCurrent, Known
<1>17. UploadsAlone'
  <2>1. SUFFICES ASSUME faults.restarted = 0 PROVE UploadsAlone'
    BY <1>1 DEF UploadsAlone
  <2>2. /\ \A q \in sqs' : Named(q.id)'
        /\ \A n \in webhooks' : Named(n.id)'
    BY <1>1, <1>7, <1>9, <1>13, <2>1 DEF UploadsAlone
  <2>3. ASSUME NEW g \in Handlers, handler'[g] # Nothing, handler'[g].job.id \notin doubtful'
        PROVE  /\ \A q \in sqs' : q.id # handler'[g].job.id
               /\ \A n \in webhooks : n.id # handler'[g].job.id
               /\ \A q \in JobType : IsQueued(q) => q.id # handler'[g].job.id
    <3>1. Open(g) /\ handler[g].job.id \notin doubtful /\ handler'[g].job = handler[g].job
      BY <1>9, <1>11, <1>12, <2>3 DEF Open
    <3>2. \A q \in sqs' : q \in sqs \/ q.id # handler'[g].job.id
      BY <1>9, <2>3
    <3> QED
      BY <2>1, <3>1, <3>2 DEF UploadsAlone
  <2> QED
    BY <1>1, <2>2, <2>3, SameJobs DEF UploadsAlone, Open
<1> QED
  BY <1>1, <1>10, <1>14, <1>15, <1>16, <1>17 DEF RowsWritten, DoneIsScored, Working, Known

\* A submission that cannot be queued is forgotten.
LEMMA RefuseStep ==
  ASSUME IInv, NEW h \in Handlers, Refuse(h)
  PROVE  IInv'
<1> USE DEF IInv
<1> DEFINE j == handler[h].job
           Status == [state : {"queued", "running", "done", "failed"}, run : Numbers]
<1>1. /\ handler[h] # Nothing /\ handler[h].at = "refusing" /\ Respond(h)
      /\ statuses' = Delete(statuses, j.id)
      /\ UNCHANGED <<local, attempts, teamJobs, accepted, jobCh, busy, sqs, webhooks, heard, lost,
                     doubtful, scores, unscored, finished, runs, faults>>
  BY DEF Refuse, At, compiler, rows
<1>2. handler[h] \in OpenHandler
  BY <1>1 DEF TypeOK, OpenHandler
<1>3. j \in JobType /\ j.id \in Numbers
  BY <1>2 DEF OpenHandler, JobType
<1>4. \A g \in Handlers \ {h} : handler[g] # Nothing => handler[g].job.id # j.id
  BY <1>1 DEF NamesFresh, Open
<1>5. /\ handler' \in [Handlers -> {Nothing} \cup OpenHandler]
      /\ handler'[h] = Nothing
      /\ \A g \in Handlers \ {h} : handler'[g] = handler[g]
  BY <1>1, RespondFacts
<1>6. statuses \in [DOMAIN statuses -> Status]
  BY DEF TypeOK
<1>7. \A q \in JobType :
        IsQueued(q) /\ q.id = j.id => faults.restarted > 0 \/ j.id \in doubtful
  <2>1. faults.restarted \in Nat
    BY BoundsAssumption DEF TypeOK
  <2> QED
    BY <1>1, <2>1 DEF UploadsAlone, Open
<1> HIDE DEF j, Status
<1>8. /\ DOMAIN statuses' = DOMAIN statuses \ {j.id}
      /\ \A x \in DOMAIN statuses \ {j.id} : statuses'[x] = statuses[x]
  BY <1>1 DEF Delete
<1>9. statuses' \in [DOMAIN statuses \ {j.id} -> Status]
  BY <1>1, <1>6, DeleteType
<1>10. TypeOK'
  BY <1>1, <1>5, <1>8, <1>9 DEF TypeOK, OpenHandler, Status
<1>11. NamesFresh' /\ \A id : Named(id)' <=> Named(id)
  BY <1>1, <1>5, <1>8, NamesStayFresh DEF At
<1>12. Registered'
  BY <1>4, <1>5, <1>8 DEF Registered, Open, Known
<1>13. JobsCurrent'
  BY <1>1, <1>7, <1>8, <1>11 DEF JobsCurrent, IsQueued, Busy, Known
<1>14. UploadsAlone'
  BY <1>1, <1>5, <1>11 DEF UploadsAlone, Open, IsQueued, Busy
<1>15. RowsWritten' /\ DoneIsScored'
  BY <1>1, <1>8 DEF RowsWritten, DoneIsScored, Working, Known
<1> QED
  BY <1>10, <1>11, <1>12, <1>13, <1>14, <1>15

-----------------------------------------------------------------------------
(* The lambda and the pool. *)

\* Names and jobs stay as they should be when no upload moves, no status comes or
\* goes, and messages, notifications and jobs only give rise to one another.
LEMMA ServeStep ==
  ASSUME IInv, UNCHANGED <<attempts, teamJobs, handler, doubtful>>,
         faults'.restarted = faults.restarted,
         DOMAIN statuses' = DOMAIN statuses,
         \A x \in DOMAIN statuses : statuses'[x].run = statuses[x].run,
         sqs' \subseteq sqs,
         \A n \in webhooks' : n \in webhooks \/ \E j \in sqs : n.id = j.id,
         \A j \in JobType : IsQueued(j)' =>
           \/ IsQueued(j)
           \/ /\ \E n \in webhooks : n.id = j.id
              /\ Known(j.id) /\ statuses[j.id].run = j.run
  PROVE  NamesFresh' /\ Registered' /\ JobsCurrent' /\ UploadsAlone'
<1> USE DEF IInv
<1>1. NamesFresh' /\ \A id : Named(id)' <=> Named(id)
  BY NamesStayFresh DEF At
<1>2. Registered'
  BY DEF Registered, Open, Known
<1>3. JobsCurrent'
  <2>1. \A id : Known(id) => Named(id)
    BY DEF Known, NamesFresh
  <2> QED
    BY <1>1, <2>1 DEF JobsCurrent, Known
<1>4. UploadsAlone'
  BY <1>1 DEF UploadsAlone, Open
<1> QED
  BY <1>1, <1>2, <1>3, <1>4

\* A message is compiled.
LEMMA CompileStep ==
  ASSUME IInv, NEW j \in sqs, Compile(j)
  PROVE  IInv'
<1> USE DEF IInv
<1>1. UNCHANGED <<local, attempts, teamJobs, handler, runs, statuses, accepted, jobCh, busy, heard,
                  doubtful, scores, unscored, finished>>
  BY DEF Compile, uploads, rows
<1>2. j \in JobType /\ j.id \in Numbers
  BY DEF TypeOK, JobType
<1>3. /\ sqs' \subseteq sqs /\ faults'.restarted = faults.restarted
      /\ faults' \in [redelivered : 0..MaxRedeliveries, restarted : 0..MaxRestarts]
  <2>1. CASE sqs' = sqs \ {j} /\ UNCHANGED faults
    BY <2>1 DEF TypeOK
  <2>2. CASE /\ faults.redelivered < MaxRedeliveries
             /\ faults' = [faults EXCEPT !.redelivered = @ + 1]
             /\ UNCHANGED sqs
    <3>1. faults \in [redelivered : 0..MaxRedeliveries, restarted : 0..MaxRestarts]
      BY DEF TypeOK
    <3> QED
      BY <2>2, <3>1, BoundsAssumption
  <2> QED
    BY <2>1, <2>2 DEF Compile
<1>4. /\ webhooks' \subseteq [id : Numbers, ok : BOOLEAN] /\ lost' \subseteq Numbers
      /\ \A n \in webhooks' : n \in webhooks \/ n.id = j.id
  <2>1. CASE /\ \E ok \in BOOLEAN : webhooks' = webhooks \cup {[id |-> j.id, ok |-> ok]}
             /\ UNCHANGED lost
    BY <1>2, <2>1 DEF TypeOK
  <2>2. CASE lost' = lost \cup {j.id} /\ UNCHANGED webhooks
    BY <1>2, <2>2 DEF TypeOK
  <2> QED
    BY <2>1, <2>2 DEF Compile
<1>5. TypeOK'
  BY <1>1, <1>3, <1>4 DEF TypeOK
<1>6. NamesFresh' /\ Registered' /\ JobsCurrent' /\ UploadsAlone'
  BY <1>1, <1>3, <1>4, SameJobs, ServeStep
<1> QED
  BY <1>1, <1>5, <1>6 DEF RowsWritten, DoneIsScored, Working, Known

\* A notification of the lambda is handled.
LEMMA WebhookStep ==
  ASSUME IInv, NEW n \in webhooks, Webhook(n)
  PROVE  IInv'
<1> USE DEF IInv
<1>1. /\ webhooks' = webhooks \ {n} /\ heard' = Put(heard, n.id, Heard(n.id) + 1)
      /\ UNCHANGED <<local, attempts, teamJobs, handler, runs, accepted, busy, sqs, doubtful,
                     scores, unscored, finished, faults>>
  BY DEF Webhook, uploads, rows
<1>2. n \in [id : Numbers, ok : BOOLEAN] /\ n.id \in Numbers
  BY DEF TypeOK
<1>3. DOMAIN heard' \subseteq Numbers /\ heard' \in [DOMAIN heard' -> Nat]
  <2>1. heard \in [DOMAIN heard -> Nat] /\ DOMAIN heard \subseteq Numbers
    BY DEF TypeOK
  <2>2. Heard(n.id) + 1 \in Nat
    BY <2>1 DEF Heard
  <2>3. DOMAIN heard' = DOMAIN heard \cup {n.id}
    BY <1>1 DEF Put
  <2>4. heard' \in [DOMAIN heard \cup {n.id} -> Nat]
    BY <1>1, <2>1, <2>2, PutType
  <2> QED
    BY <1>2, <2>1, <2>3, <2>4
<1>4. CASE WebhookFailed(n)
  <2>1. SetState(n.id, "failed") /\ UNCHANGED <<jobCh, lost>>
    BY <1>4 DEF WebhookFailed
  <2>2. /\ DOMAIN statuses' = DOMAIN statuses
        /\ statuses' \in [DOMAIN statuses -> [state : {"queued", "running", "done", "failed"},
                                              run : Numbers]]
        /\ \A x \in DOMAIN statuses : statuses'[x].run = statuses[x].run
        /\ \A x \in DOMAIN statuses :
              statuses'[x].state = IF x = n.id THEN "failed" ELSE statuses[x].state
    BY <1>2, <2>1, SetStateFacts
  <2>3. TypeOK'
    BY <1>1, <1>3, <2>1, <2>2 DEF TypeOK
  <2>4. NamesFresh' /\ Registered' /\ JobsCurrent' /\ UploadsAlone'
    BY <1>1, <2>1, <2>2, SameJobs, ServeStep
  <2>5. RowsWritten' /\ DoneIsScored'
    BY <1>1, <2>2 DEF RowsWritten, DoneIsScored, Working, Known
  <2> QED
    BY <2>3, <2>4, <2>5
<1>5. CASE WebhookSuccess(n)
  <2> DEFINE j == Job(n.id, statuses[n.id].run)
  <2>1. /\ Known(n.id) /\ jobCh' = Append(jobCh, j) /\ UNCHANGED <<statuses, lost>>
    BY <1>5 DEF WebhookSuccess
  <2>2. j \in JobType /\ j.id = n.id /\ j.run = statuses[n.id].run
    BY <1>2, <2>1 DEF Job, JobType, TypeOK, Known
  <2> HIDE DEF j
  <2>3. /\ jobCh' \in Seq(JobType)
        /\ DOMAIN jobCh' = DOMAIN jobCh \cup {Len(jobCh) + 1}
        /\ \A i \in DOMAIN jobCh : jobCh'[i] = jobCh[i]
        /\ jobCh'[Len(jobCh) + 1] = j
    BY <2>1, <2>2, AppendFacts DEF TypeOK
  <2>4. \A q : IsQueued(q)' => IsQueued(q) \/ q = j
    BY <1>1, <2>3 DEF IsQueued, Busy
  <2>5. TypeOK'
    BY <1>1, <1>3, <2>1, <2>3 DEF TypeOK
  <2>6. NamesFresh' /\ Registered' /\ JobsCurrent' /\ UploadsAlone'
    BY <1>1, <2>1, <2>2, <2>4, ServeStep
  <2>7. RowsWritten' /\ DoneIsScored'
    BY <1>1, <2>1 DEF RowsWritten, DoneIsScored, Working, Known
  <2> QED
    BY <2>5, <2>6, <2>7
<1>6. CASE WebhookRefused(n)
  <2>1. lost' = lost \cup {n.id} /\ UNCHANGED <<statuses, jobCh>>
    BY <1>6 DEF WebhookRefused
  <2>2. TypeOK'
    BY <1>1, <1>2, <1>3, <2>1 DEF TypeOK
  <2>3. NamesFresh' /\ Registered' /\ JobsCurrent' /\ UploadsAlone'
    BY <1>1, <2>1, SameJobs, ServeStep
  <2>4. RowsWritten' /\ DoneIsScored'
    BY <1>1, <2>1 DEF RowsWritten, DoneIsScored, Working, Known
  <2> QED
    BY <2>2, <2>3, <2>4
<1> QED
  BY <1>4, <1>5, <1>6 DEF Webhook

BusyPool == [at : {"running", "scoring", "reporting"}, job : JobType]

\* A job goroutine takes the first job of the queue.
LEMMA TakeStep ==
  ASSUME IInv, NEW k \in Pool, Take(k)
  PROVE  IInv'
<1> USE DEF IInv
<1> DEFINE j == Head(jobCh)
           new == [at |-> "running", job |-> j]
<1>1. /\ busy[k] = Nothing /\ jobCh # <<>> /\ busy' = [busy EXCEPT ![k] = new]
      /\ SetState(j.id, "running") /\ jobCh' = Tail(jobCh)
      /\ UNCHANGED <<local, attempts, teamJobs, handler, runs, accepted, sqs, webhooks, heard,
                     lost, doubtful, scores, unscored, finished, faults>>
  BY DEF Take, uploads, compiler, rows
<1>2. /\ jobCh' \in Seq(JobType) /\ j \in JobType
      /\ \A i \in DOMAIN jobCh' : i + 1 \in DOMAIN jobCh /\ jobCh'[i] = jobCh[i + 1]
      /\ 1 \in DOMAIN jobCh /\ j = jobCh[1]
  BY <1>1, TailFacts DEF TypeOK
<1>3. j.id \in Numbers
  BY <1>2 DEF JobType
<1>4. new \in BusyPool /\ new.at = "running" /\ new.job = j
  BY <1>2 DEF BusyPool
<1> HIDE DEF j, new
<1>5. /\ busy' \in [Pool -> {Nothing} \cup BusyPool] /\ busy'[k] = new
      /\ \A p \in Pool \ {k} : busy'[p] = busy[p]
  BY <1>1, <1>4 DEF TypeOK, BusyPool
<1>6. /\ DOMAIN statuses' = DOMAIN statuses
      /\ statuses' \in [DOMAIN statuses -> [state : {"queued", "running", "done", "failed"},
                                            run : Numbers]]
      /\ \A x \in DOMAIN statuses : statuses'[x].run = statuses[x].run
      /\ \A x \in DOMAIN statuses :
            statuses'[x].state = IF x = j.id THEN "running" ELSE statuses[x].state
  BY <1>1, <1>3, SetStateFacts
<1>7. \A q : IsQueued(q)' => IsQueued(q)
  BY <1>2, <1>4, <1>5 DEF IsQueued, Busy
<1>8. TypeOK'
  BY <1>1, <1>2, <1>5, <1>6 DEF TypeOK, BusyPool
<1>9. NamesFresh' /\ Registered' /\ JobsCurrent' /\ UploadsAlone'
  BY <1>1, <1>6, <1>7, ServeStep
<1>10. RowsWritten' /\ DoneIsScored'
  BY <1>1, <1>4, <1>5, <1>6 DEF RowsWritten, DoneIsScored, Working, Known
<1> QED
  BY <1>8, <1>9, <1>10

\* A run ends, with a failure or a score.
LEMMA RunEndsStep ==
  ASSUME IInv, NEW k \in Pool, RunFails(k) \/ RunSucceeds(k)
  PROVE  IInv'
<1> USE DEF IInv
<1> DEFINE j == busy[k].job
<1>1. /\ busy[k] # Nothing /\ busy[k].at = "running"
      /\ UNCHANGED <<local, attempts, teamJobs, handler, runs, accepted, jobCh, sqs, webhooks,
                     heard, lost, doubtful, scores, unscored, faults>>
  BY DEF RunFails, RunSucceeds, Working, uploads, compiler, rows
<1>2. busy[k] \in BusyPool
  BY <1>1 DEF TypeOK, BusyPool
<1>3. j.id \in Numbers
  BY <1>2 DEF BusyPool, JobType
<1> HIDE DEF j
<1>4. CASE RunFails(k)
  <2>1. SetState(j.id, "failed") /\ busy' = [busy EXCEPT ![k] = Nothing] /\ UNCHANGED finished
    BY <1>4 DEF RunFails, AfterFailure, rows, j
  <2>2. /\ busy' \in [Pool -> {Nothing} \cup BusyPool] /\ busy'[k] = Nothing
        /\ \A p \in Pool \ {k} : busy'[p] = busy[p]
    BY <2>1 DEF TypeOK, BusyPool
  <2>3. /\ DOMAIN statuses' = DOMAIN statuses
        /\ statuses' \in [DOMAIN statuses -> [state : {"queued", "running", "done", "failed"},
                                              run : Numbers]]
        /\ \A x \in DOMAIN statuses : statuses'[x].run = statuses[x].run
        /\ \A x \in DOMAIN statuses :
              statuses'[x].state = IF x = j.id THEN "failed" ELSE statuses[x].state
    BY <1>3, <2>1, SetStateFacts
  <2>4. \A q : IsQueued(q)' => IsQueued(q)
    BY <1>1, <2>2 DEF IsQueued, Busy
  <2>5. TypeOK'
    BY <1>1, <2>1, <2>2, <2>3 DEF TypeOK, BusyPool
  <2>6. NamesFresh' /\ Registered' /\ JobsCurrent' /\ UploadsAlone'
    BY <1>1, <2>3, <2>4, ServeStep
  <2>7. RowsWritten' /\ DoneIsScored'
    BY <1>1, <2>2, <2>3 DEF RowsWritten, DoneIsScored, Working, Known
  <2> QED
    BY <2>5, <2>6, <2>7
<1>5. CASE RunSucceeds(k)
  <2> DEFINE new == [busy[k] EXCEPT !.at = "scoring"]
  <2>1. /\ UNCHANGED statuses /\ busy' = [busy EXCEPT ![k] = new]
        /\ finished' \subseteq JobType
    BY <1>1, <1>2, <1>5 DEF RunSucceeds, TypeOK, BusyPool
  <2>2. new \in BusyPool
    BY <1>2 DEF BusyPool
  <2>3. new.at = "scoring" /\ new.job = busy[k].job
    BY <1>2 DEF BusyPool
  <2> HIDE DEF new
  <2>4. /\ busy' \in [Pool -> {Nothing} \cup BusyPool] /\ busy'[k] = new
        /\ \A p \in Pool \ {k} : busy'[p] = busy[p]
    BY <2>1, <2>2 DEF TypeOK, BusyPool
  <2>5. \A q : IsQueued(q)' => IsQueued(q)
    BY <1>1, <2>3, <2>4 DEF IsQueued, Busy
  <2>6. TypeOK'
    BY <1>1, <2>1, <2>4 DEF TypeOK, BusyPool
  <2>7. NamesFresh' /\ Registered' /\ JobsCurrent' /\ UploadsAlone'
    BY <1>1, <2>1, <2>5, ServeStep
  <2>8. RowsWritten' /\ DoneIsScored'
    BY <1>1, <2>1, <2>3, <2>4 DEF RowsWritten, DoneIsScored, Working, Known
  <2> QED
    BY <2>6, <2>7, <2>8
<1> QED
  BY <1>4, <1>5

Row == [run : Numbers, score : Numbers \cup {NotScored}]

\* The row of a run is written, over one of an earlier submission of this id.
LEMMA ScoreStep ==
  ASSUME IInv, NEW k \in Pool, Score(k)
  PROVE  IInv'
<1> USE DEF IInv
<1> DEFINE j == busy[k].job
           new == [busy[k] EXCEPT !.at = "reporting"]
           row == [run |-> j.run, score |-> j.run]
<1>1. /\ busy[k] # Nothing /\ scores' = Put(scores, j.id, row)
      /\ busy' = [busy EXCEPT ![k] = new]
      /\ UNCHANGED <<local, attempts, teamJobs, handler, runs, statuses, accepted, jobCh, sqs,
                     webhooks, heard, lost, doubtful, unscored, finished, faults>>
  BY DEF Score, Working, Upserted, uploads, compiler, rows, TypeOK
<1>2. busy[k] \in BusyPool
  BY <1>1 DEF TypeOK, BusyPool
<1>3. j \in JobType /\ j.id \in Numbers /\ j.run \in Numbers
  BY <1>2 DEF BusyPool, JobType
<1>4. new \in BusyPool
  BY <1>2 DEF BusyPool
<1>5. new.at = "reporting" /\ new.job = j
  BY <1>2 DEF BusyPool
<1>6. IsQueued(j)
  BY <1>1 DEF IsQueued, Busy
<1>7. row \in Row /\ row.score = j.run
  BY <1>3 DEF Row
<1> HIDE DEF new, j, row
<1>8. /\ busy' \in [Pool -> {Nothing} \cup BusyPool] /\ busy'[k] = new
      /\ \A p \in Pool \ {k} : busy'[p] = busy[p]
  BY <1>1, <1>4 DEF TypeOK, BusyPool
<1>9. /\ DOMAIN scores' = DOMAIN scores \cup {j.id} /\ scores'[j.id] = row
      /\ \A x \in DOMAIN scores : x # j.id => scores'[x] = scores[x]
  BY <1>1 DEF Put
<1>10. scores' \in [DOMAIN scores \cup {j.id} -> Row]
  <2>1. scores \in [DOMAIN scores -> Row]
    BY DEF TypeOK, Row
  <2> QED
    BY <1>1, <1>7, <2>1, PutType
<1>11. TypeOK'
  BY <1>1, <1>3, <1>8, <1>9, <1>10 DEF TypeOK, BusyPool, Row
<1>12. \A q : IsQueued(q)' => IsQueued(q)
  BY <1>1, <1>5, <1>6, <1>8 DEF IsQueued, Busy
<1>13. NamesFresh' /\ Registered' /\ JobsCurrent' /\ UploadsAlone'
  BY <1>1, <1>12, ServeStep
<1>14. Known(j.id) => statuses[j.id].run = j.run
  BY <1>3, <1>6 DEF JobsCurrent
<1>15. DoneIsScored'
  BY <1>1, <1>9, <1>14, <1>7 DEF DoneIsScored, Known
<1>16. RowsWritten'
  <2>1. ASSUME NEW p \in Pool, busy'[p] # Nothing, busy'[p].at = "reporting",
               Known(busy'[p].job.id)
        PROVE  \/ busy'[p].job.id \in unscored
               \/ /\ busy'[p].job.id \in DOMAIN scores'
                  /\ scores'[busy'[p].job.id].score = busy'[p].job.run
    <3>1. CASE p = k
      BY <1>5, <1>8, <1>9, <1>7, <3>1
    <3>2. CASE p # k /\ busy[p].job.id # j.id
      BY <1>8, <1>9, <2>1, <3>2 DEF RowsWritten, Working
    <3>3. CASE p # k /\ busy[p].job.id = j.id
      <4>1. busy[p].job \in JobType /\ IsQueued(busy[p].job)
        BY <1>8, <2>1, <3>3 DEF TypeOK, IsQueued, Busy
      <4>2. statuses[j.id].run = busy[p].job.run
        BY <1>8, <2>1, <3>3, <4>1 DEF JobsCurrent
      <4> QED
        BY <1>8, <1>9, <1>14, <1>7, <2>1, <3>3, <4>2
    <3> QED
      BY <3>1, <3>2, <3>3
  <2> QED
    BY <1>1, <2>1 DEF RowsWritten, Working, Known
<1> QED
  BY <1>11, <1>13, <1>15, <1>16

\* No row is written: the submission is among those left out.
LEMMA ScoreLeftOutStep ==
  ASSUME IInv, NEW k \in Pool, ScoreLeftOut(k)
  PROVE  IInv'
<1> USE DEF IInv
<1> DEFINE j == busy[k].job
           new == [busy[k] EXCEPT !.at = "reporting"]
<1>1. /\ busy[k] # Nothing /\ unscored' = unscored \cup {j.id}
      /\ busy' = [busy EXCEPT ![k] = new]
      /\ UNCHANGED <<local, attempts, teamJobs, handler, runs, statuses, accepted, jobCh, sqs,
                     webhooks, heard, lost, doubtful, scores, finished, faults>>
  BY DEF ScoreLeftOut, Working, uploads, compiler, TypeOK
<1>2. busy[k] \in BusyPool
  BY <1>1 DEF TypeOK, BusyPool
<1>3. j \in JobType /\ j.id \in Numbers
  BY <1>2 DEF BusyPool, JobType
<1>4. new \in BusyPool
  BY <1>2 DEF BusyPool
<1>5. new.job = j
  BY <1>2 DEF BusyPool
<1> HIDE DEF new
<1>6. /\ busy' \in [Pool -> {Nothing} \cup BusyPool] /\ busy'[k] = new
      /\ \A p \in Pool \ {k} : busy'[p] = busy[p]
  BY <1>1, <1>4 DEF TypeOK, BusyPool
<1>7. TypeOK'
  BY <1>1, <1>3, <1>6 DEF TypeOK, BusyPool
<1>8. \A q : IsQueued(q)' => IsQueued(q)
  BY <1>1, <1>5, <1>6 DEF IsQueued, Busy
<1>9. NamesFresh' /\ Registered' /\ JobsCurrent' /\ UploadsAlone'
  BY <1>1, <1>8, ServeStep
<1>10. RowsWritten'
  <2>1. ASSUME NEW p \in Pool, busy'[p] # Nothing, busy'[p].at = "reporting",
               Known(busy'[p].job.id)
        PROVE  \/ busy'[p].job.id \in unscored'
               \/ /\ busy'[p].job.id \in DOMAIN scores
                  /\ scores[busy'[p].job.id].score = busy'[p].job.run
    <3>1. CASE p = k
      BY <1>1, <1>5, <1>6, <3>1
    <3>2. CASE p # k
      BY <1>1, <1>6, <2>1, <3>2 DEF RowsWritten, Working
    <3> QED
      BY <3>1, <3>2
  <2> QED
    BY <1>1, <2>1 DEF RowsWritten, Working, Known
<1>11. DoneIsScored'
  BY <1>1 DEF DoneIsScored
<1> QED
  BY <1>7, <1>9, <1>10, <1>11

\* The ingester writes a run id, and no score.
LEMMA FinaliseStep ==
  ASSUME IInv, NEW j \in finished, Finalise(j)
  PROVE  IInv'
<1> USE DEF IInv
<1> DEFINE score == IF j.id \in DOMAIN scores THEN scores[j.id].score ELSE NotScored
           row == [run |-> j.run, score |-> score]
<1>1. /\ scores' = Put(scores, j.id, row)
      /\ UNCHANGED <<local, attempts, teamJobs, handler, runs, statuses, accepted, jobCh, busy, sqs,
                     webhooks, heard, lost, doubtful, unscored, finished, faults>>
  BY DEF Finalise, uploads, compiler
<1>2. j.id \in Numbers /\ j.run \in Numbers
  BY DEF TypeOK, JobType
<1>3. scores \in [DOMAIN scores -> Row]
  BY DEF TypeOK, Row
<1>4. score \in Numbers \cup {NotScored}
  BY <1>3 DEF Row
<1>5. row \in Row /\ row.score = score
  BY <1>2, <1>4 DEF Row
<1>6. j.id \in DOMAIN scores => row.score = scores[j.id].score
  BY <1>5
<1> HIDE DEF row, score
<1>7. /\ DOMAIN scores' = DOMAIN scores \cup {j.id} /\ scores'[j.id] = row
      /\ \A x \in DOMAIN scores : x # j.id => scores'[x] = scores[x]
  BY <1>1 DEF Put
<1>8. scores' \in [DOMAIN scores \cup {j.id} -> Row]
  BY <1>1, <1>3, <1>5, PutType
<1>9. \A x \in DOMAIN scores : x \in DOMAIN scores' /\ scores'[x].score = scores[x].score
  BY <1>6, <1>7
<1>10. TypeOK'
  BY <1>1, <1>2, <1>7, <1>8 DEF TypeOK, Row
<1>11. NamesFresh' /\ Registered' /\ JobsCurrent' /\ UploadsAlone'
  BY <1>1, SameJobs, ServeStep
<1>12. RowsWritten' /\ DoneIsScored'
  BY <1>1, <1>9 DEF RowsWritten, DoneIsScored, Working, Known
<1> QED
  BY <1>10, <1>11, <1>12

\* A job is reported done after its row was written or left out.
LEMMA ReportStep ==
  ASSUME IInv, NEW k \in Pool, Report(k)
  PROVE  IInv'
<1> USE DEF IInv
<1> DEFINE j == busy[k].job
<1>1. /\ busy[k] # Nothing /\ busy[k].at = "reporting"
      /\ SetState(j.id, "done") /\ busy' = [busy EXCEPT ![k] = Nothing]
      /\ UNCHANGED <<local, attempts, teamJobs, handler, runs, accepted, jobCh, sqs, webhooks,
                     heard, lost, doubtful, scores, unscored, finished, faults>>
  BY DEF Report, Working, uploads, compiler, rows
<1>2. busy[k] \in BusyPool
  BY <1>1 DEF TypeOK, BusyPool
<1>3. j \in JobType /\ j.id \in Numbers /\ IsQueued(j)
  BY <1>1, <1>2 DEF BusyPool, JobType, IsQueued, Busy
<1>4. Known(j.id) => /\ \/ j.id \in unscored
                        \/ j.id \in DOMAIN scores /\ scores[j.id].score = j.run
                     /\ statuses[j.id].run = j.run
  BY <1>1, <1>3 DEF RowsWritten, Working, JobsCurrent
<1> HIDE DEF j
<1>5. /\ busy' \in [Pool -> {Nothing} \cup BusyPool] /\ busy'[k] = Nothing
      /\ \A p \in Pool \ {k} : busy'[p] = busy[p]
  BY <1>1 DEF TypeOK, BusyPool
<1>6. /\ DOMAIN statuses' = DOMAIN statuses
      /\ statuses' \in [DOMAIN statuses -> [state : {"queued", "running", "done", "failed"},
                                            run : Numbers]]
      /\ \A x \in DOMAIN statuses : statuses'[x].run = statuses[x].run
      /\ \A x \in DOMAIN statuses :
            statuses'[x].state = IF x = j.id THEN "done" ELSE statuses[x].state
  BY <1>1, <1>3, SetStateFacts
<1>7. \A q : IsQueued(q)' => IsQueued(q)
  BY <1>1, <1>5 DEF IsQueued, Busy
<1>8. TypeOK'
  BY <1>1, <1>5, <1>6 DEF TypeOK, BusyPool
<1>9. NamesFresh' /\ Registered' /\ JobsCurrent' /\ UploadsAlone'
  BY <1>1, <1>6, <1>7, ServeStep
<1>10. RowsWritten'
  BY <1>1, <1>5, <1>6 DEF RowsWritten, Working, Known
<1>11. DoneIsScored'
  BY <1>1, <1>4, <1>6 DEF DoneIsScored, Known
<1> QED
  BY <1>8, <1>9, <1>10, <1>11

-----------------------------------------------------------------------------
(* The invariant. *)

\* Nothing was uploaded yet.
LEMMA InitIsIInv == Init => IInv
<1> SUFFICES ASSUME Init PROVE IInv
  OBVIOUS
<1>1. /\ local \in BOOLEAN /\ attempts = 0 /\ statuses = <<>> /\ teamJobs = <<>>
      /\ handler = [h \in Handlers |-> Nothing] /\ accepted = {} /\ jobCh = <<>>
      /\ busy = [k \in Pool |-> Nothing] /\ sqs = {} /\ webhooks = {} /\ heard = <<>>
      /\ lost = {} /\ doubtful = {} /\ scores = <<>> /\ unscored = {} /\ finished = {}
      /\ runs = 0 /\ faults = [redelivered |-> 0, restarted |-> 0]
  BY DEF Init
<1>2. DOMAIN (<<>>) = {}
  OBVIOUS
<1>3. \A T : <<>> \in Seq(T) /\ <<>> \in [{} -> T]
  BY EmptySeq
<1>4. TypeOK
  <2>1. statuses \in [DOMAIN statuses -> [state : {"queued", "running", "done", "failed"},
                                          run : Numbers]]
    BY <1>1, <1>2, <1>3
  <2>2. /\ heard \in [DOMAIN heard -> Nat]
        /\ scores \in [DOMAIN scores -> [run : Numbers, score : Numbers \cup {NotScored}]]
    BY <1>1, <1>2, <1>3
  <2>3. faults \in [redelivered : 0..MaxRedeliveries, restarted : 0..MaxRestarts]
    BY <1>1, BoundsAssumption
  <2>4. teamJobs \in Seq(Numbers) /\ jobCh \in Seq(JobType)
    BY <1>1, <1>3
  <2>5. runs \in 0..MaxSubmissions /\ attempts \in 0..runs
    BY <1>1, BoundsAssumption
  <2>6. /\ DOMAIN statuses \subseteq Numbers /\ DOMAIN heard \subseteq Numbers
        /\ DOMAIN scores \subseteq Numbers
    BY <1>1, <1>2
  <2> QED
    BY <1>1, <2>1, <2>2, <2>3, <2>4, <2>5, <2>6 DEF TypeOK
<1>5. \A k \in Pool : ~Busy(k)
  BY <1>1 DEF Busy
<1>6. \A h \in Handlers : ~Open(h)
  BY <1>1 DEF Open
<1>7. DOMAIN jobCh = {} /\ DOMAIN teamJobs = {} /\ DOMAIN statuses = {}
  BY <1>1, <1>2
<1>8. \A j : ~IsQueued(j)
  BY <1>5, <1>7 DEF IsQueued
<1>9. NamesFresh /\ Registered /\ JobsCurrent
  BY <1>6, <1>7, <1>8 DEF NamesFresh, Registered, JobsCurrent, Open
<1>10. UploadsAlone
  BY <1>1, <1>6 DEF UploadsAlone
<1>11. RowsWritten /\ DoneIsScored
  BY <1>5, <1>7 DEF RowsWritten, DoneIsScored, Working, Busy
<1> QED
  BY <1>4, <1>9, <1>10, <1>11 DEF IInv

\* The server starts again with nothing in memory.
LEMMA RestartStep ==
  ASSUME IInv, Restart
  PROVE  IInv'
<1> USE DEF IInv
<1>1. /\ attempts' = 0 /\ statuses' = <<>> /\ teamJobs' = <<>> /\ jobCh' = <<>>
      /\ handler' = [h \in Handlers |-> Nothing] /\ busy' = [k \in Pool |-> Nothing]
      /\ accepted' = {} /\ heard' = <<>> /\ lost' = {} /\ unscored' = {}
      /\ UNCHANGED <<local, sqs, doubtful, webhooks, scores, finished, runs>>
  BY DEF Restart
<1>2. DOMAIN (<<>>) = {}
  OBVIOUS
<1>3. \A T : <<>> \in Seq(T) /\ <<>> \in [{} -> T]
  BY EmptySeq
<1>4. /\ faults' \in [redelivered : 0..MaxRedeliveries, restarted : 0..MaxRestarts]
      /\ faults'.restarted # 0
  <2>1. faults.restarted < MaxRestarts /\ faults' = [faults EXCEPT !.restarted = @ + 1]
    BY DEF Restart
  <2>2. faults \in [redelivered : 0..MaxRedeliveries, restarted : 0..MaxRestarts]
    BY DEF TypeOK
  <2> QED
    BY <2>1, <2>2, BoundsAssumption
<1>5. TypeOK'
  <2>1. statuses' \in [DOMAIN statuses' -> [state : {"queued", "running", "done", "failed"},
                                            run : Numbers]]
    BY <1>1, <1>2, <1>3
  <2>2. heard' \in [DOMAIN heard' -> Nat]
    BY <1>1, <1>2, <1>3
  <2>3. teamJobs' \in Seq(Numbers) /\ jobCh' \in Seq(JobType)
    BY <1>1, <1>3
  <2>4. runs \in 0..MaxSubmissions /\ attempts' \in 0..runs
    BY <1>1, BoundsAssumption DEF TypeOK
  <2>5. DOMAIN statuses' \subseteq Numbers /\ DOMAIN heard' \subseteq Numbers
    BY <1>1, <1>2
  <2> QED
    BY <1>1, <1>4, <2>1, <2>2, <2>3, <2>4, <2>5 DEF TypeOK
<1>6. \A k \in Pool : busy'[k] = Nothing
  BY <1>1
<1>7. \A h \in Handlers : handler'[h] = Nothing
  BY <1>1
<1>8. DOMAIN jobCh' = {} /\ DOMAIN teamJobs' = {} /\ DOMAIN statuses' = {}
  BY <1>1, <1>2
<1>9. \A j : ~IsQueued(j)'
  BY <1>6, <1>8 DEF IsQueued, Busy
<1>10. NamesFresh' /\ Registered' /\ JobsCurrent'
  BY <1>7, <1>8, <1>9 DEF NamesFresh, Registered, JobsCurrent, Open
<1>11. UploadsAlone'
  BY <1>4 DEF UploadsAlone
<1>12. RowsWritten' /\ DoneIsScored'
  BY <1>6, <1>8 DEF RowsWritten, DoneIsScored, Working
<1> QED
  BY <1>5, <1>10, <1>11, <1>12

\* IInv is inductive.
LEMMA StepKeepsIInv == IInv /\ [Next]_vars => IInv'
<1> SUFFICES ASSUME IInv, [Next]_vars PROVE IInv'
  OBVIOUS
<1>1. CASE Next
  <2>1. ASSUME NEW h \in Handlers, Claim(h) \/ Upload(h) PROVE IInv'
    BY <2>1, ClaimStep, UploadFailsStep, StoreStep, RecordStep, EnqueueStep, TurnAwayStep, RefuseStep
    DEF Upload, Enqueue
  <2>2. ASSUME NEW j \in sqs, Compile(j) PROVE IInv'
    BY <2>2, CompileStep
  <2>3. ASSUME NEW n \in webhooks, Webhook(n) PROVE IInv'
    BY <2>3, WebhookStep
  <2>4. ASSUME NEW k \in Pool, RunJob(k) PROVE IInv'
    BY <2>4, TakeStep, RunEndsStep, ScoreStep, ScoreLeftOutStep, ReportStep DEF RunJob
  <2>5. ASSUME NEW j \in finished, Finalise(j) PROVE IInv'
    BY <2>5, FinaliseStep
  <2> QED
    BY <1>1, <2>1, <2>2, <2>3, <2>4, <2>5, RestartStep DEF Next
<1>2. CASE UNCHANGED vars
  <2> USE <1>2 DEF vars, uploads, compiler, rows
  <2>1. TypeOK'
    BY DEF IInv, TypeOK
  <2>2. NamesFresh' /\ Registered' /\ JobsCurrent' /\ UploadsAlone'
    BY SameJobs, ServeStep DEF IInv
  <2>3. RowsWritten' /\ DoneIsScored'
    BY DEF IInv, RowsWritten, DoneIsScored, Working, Known
  <2> QED
    BY <2>1, <2>2, <2>3 DEF IInv
<1> QED
  BY <1>1, <1>2

LEMMA Inductive == Spec => []IInv
<1> QED
  BY InitIsIInv, StepKeepsIInv, PTL DEF Spec

\* The state of the server keeps its shape.
THEOREM JobsTypeCorrect == Spec => []TypeOK
<1>1. IInv => TypeOK
  BY DEF IInv
<1> QED
  BY <1>1, Inductive, PTL

\* Concurrent uploads of a team never share a submission id or a place in its
\* list, and no submission is missing from the list once its upload was there.
THEOREM NamedOnce == Spec => []SubmissionsNamedOnce
<1>1. IInv => SubmissionsNamedOnce
  BY DEF IInv, NamesFresh, SubmissionsNamedOnce, Open, Named, Listed, IsInjective, ToSet
<1> QED
  BY <1>1, Inductive, PTL

\* A queued or running job is that of a known submission and of its current run,
\* unless the upload was refused although its message was sent or after a restart.
THEOREM QueuedJobsKnown == Spec => []JobsKnown
<1>1. ASSUME IInv PROVE JobsKnown
  <2>1. \A j \in Queued : IsQueued(j)
    BY DEF Queued, IsQueued, Busy, ToSet
  <2>2. \A j : IsQueued(j) => j \in JobType
    BY <1>1 DEF IsQueued, IInv, TypeOK, Busy
  <2> QED
    BY <1>1, <2>1, <2>2 DEF JobsKnown, JobsCurrent, IInv
<1> QED
  BY <1>1, Inductive, PTL

\* A submission that is done has a row with the score of its own run, unless the
\* score was left out.
THEOREM DoneMeansScored == Spec => []DoneIsScored
<1>1. IInv => DoneIsScored
  BY DEF IInv
<1> QED
  BY <1>1, Inductive, PTL

-----------------------------------------------------------------------------
(* Submissions that have ended.                                            *)
(*                                                                         *)
(* A submission the compiler was heard of less than twice has one job at   *)
(* most, and none once it has ended; one that was not queued yet has none  *)
(* and has not ended.  Only a second notification brings a second job.     *)

Waits(i, id) == jobCh[i].id = id

Works(k, id) == Busy(k) /\ busy[k].job.id = id

HasJob(id) == (\E i \in DOMAIN jobCh : Waits(i, id)) \/ (\E k \in Pool : Works(k, id))

OneJob(id) ==
  /\ \A i, j \in DOMAIN jobCh : Waits(i, id) /\ Waits(j, id) => i = j
  /\ \A k, p \in Pool : Works(k, id) /\ Works(p, id) => k = p
  /\ \A i \in DOMAIN jobCh, k \in Pool : ~(Waits(i, id) /\ Works(k, id))

\* An upload that has a status and is not in the queue yet.
Entering(h) == At(h, "stored") \/ At(h, "recorded")

\* Its upload is not finished here, or the compiler has not answered.
Unstarted(id) ==
  \/ ~local /\ Heard(id) = 0
  \/ local /\ \E h \in Handlers : Entering(h) /\ handler[h].job.id = id

StartedOnce(id) ==
  /\ Heard(id) < 2 => OneJob(id) /\ (Ended(id) => ~HasJob(id))
  /\ Unstarted(id) => ~HasJob(id) /\ ~Ended(id)

EndedAlone ==
  /\ local => sqs = {} /\ webhooks = {}
  /\ \A id \in Numbers : StartedOnce(id)

StatesKept ==
  \A id \in DOMAIN statuses :
    (Ended(id) /\ Heard(id)' < 2 /\ id \in DOMAIN statuses') =>
      statuses'[id].state = statuses[id].state

\* Notifications are counted.
LEMMA HeardIsNat ==
  ASSUME TypeOK
  PROVE  \A id : Heard(id) \in Nat
BY DEF TypeOK, Heard

\* What is on its way for a submission gets no more.
LEMMA StartedOnceKept ==
  ASSUME NEW id, StartedOnce(id), local' = local, heard' = heard, Ended(id)' => Ended(id),
         \A h \in Handlers : Entering(h)' /\ handler'[h].job.id = id =>
           Entering(h) /\ handler[h].job.id = id,
         \A i \in DOMAIN jobCh' : Waits(i, id)' => i \in DOMAIN jobCh /\ Waits(i, id),
         \A k \in Pool : Works(k, id)' => Works(k, id)
  PROVE  StartedOnce(id)'
<1>1. Heard(id)' = Heard(id)
  BY DEF Heard
<1>2. HasJob(id)' => HasJob(id)
  BY DEF HasJob
<1>3. OneJob(id) => OneJob(id)'
  BY DEF OneJob
<1>4. Unstarted(id)' => Unstarted(id)
  BY <1>1 DEF Unstarted
<1> QED
  BY <1>1, <1>2, <1>3, <1>4 DEF StartedOnce

\* The steps of an upload but those that register it or put it in the queue, and
\* those of the lambda and of a score, start nothing.
LEMMA QuietStepAlone ==
  ASSUME EndedAlone, local' = local, heard' = heard, jobCh' = jobCh,
         local => sqs' = {} /\ webhooks' = {},
         \A x \in DOMAIN statuses' : x \in DOMAIN statuses /\ statuses'[x] = statuses[x],
         \A h \in Handlers : Entering(h)' =>
           Entering(h) /\ handler'[h].job.id = handler[h].job.id,
         \A k \in Pool : Busy(k)' => Busy(k) /\ busy'[k].job.id = busy[k].job.id
  PROVE  EndedAlone' /\ StatesKept
<1>1. ASSUME NEW id \in Numbers PROVE StartedOnce(id)'
  <2>1. StartedOnce(id)
    BY DEF EndedAlone
  <2>2. Ended(id)' => Ended(id)
    BY DEF Ended, Known
  <2>3. \A i \in DOMAIN jobCh' : Waits(i, id)' => i \in DOMAIN jobCh /\ Waits(i, id)
    BY DEF Waits
  <2>4. \A k \in Pool : Works(k, id)' => Works(k, id)
    BY DEF Works
  <2> QED
    BY <2>1, <2>2, <2>3, <2>4, StartedOnceKept
<1>2. StatesKept
  BY DEF StatesKept
<1> QED
  BY <1>1, <1>2 DEF EndedAlone

LEMMA UploadAlone ==
  ASSUME IInv, EndedAlone, NEW h \in Handlers,
         \/ Claim(h) \/ UploadFails(h) \/ Record(h) \/ EnqueueRemote(h)
         \/ SendFails(h) \/ QueueIsFull(h) \/ Refuse(h)
  PROVE  EndedAlone' /\ StatesKept
<1>1. UNCHANGED <<local, heard, jobCh, busy, webhooks>>
  BY DEF Claim, UploadFails, Record, EnqueueRemote, SendFails, QueueIsFull, Refuse, compiler
<1>2. local => sqs' = {} /\ webhooks' = {}
  BY DEF EndedAlone, Claim, UploadFails, Record, EnqueueRemote, SendFails, QueueIsFull, Refuse,
         compiler
<1>3. \A x \in DOMAIN statuses' : x \in DOMAIN statuses /\ statuses'[x] = statuses[x]
  <2>1. statuses' = statuses \/ statuses' = Delete(statuses, handler[h].job.id)
    BY DEF Claim, UploadFails, Record, EnqueueRemote, SendFails, QueueIsFull, Refuse
  <2> QED
    BY <2>1 DEF Delete
<1>4. \A g \in Handlers : Entering(g)' => Entering(g) /\ handler'[g].job.id = handler[g].job.id
  <2>1. handler = [g \in Handlers |-> handler[g]]
    BY DEF IInv, TypeOK
  <2>2. CASE Claim(h)
    <3> DEFINE new == [at |-> "uploading", job |-> Job(NextAttempt, runs + 1)]
    <3>1. handler' = [handler EXCEPT ![h] = new] /\ new.at = "uploading"
      BY <2>2 DEF Claim
    <3> HIDE DEF new
    <3> QED
      BY <2>1, <3>1 DEF Entering, At
  <2>3. CASE Respond(h)
    BY <2>1, <2>3 DEF Respond, Entering, At
  <2>4. CASE Record(h) \/ SendFails(h) \/ QueueIsFull(h)
    <3>1. /\ handler[h] # Nothing /\ Entering(h)
          /\ \E at \in {"recorded", "refusing"} :
               handler' = [handler EXCEPT ![h] = [handler[h] EXCEPT !.at = at]]
      BY <2>1, <2>4 DEF Record, SendFails, QueueIsFull, Proceed, At, Entering
    <3>2. PICK at \in {"recorded", "refusing"} :
            handler' = [handler EXCEPT ![h] = [handler[h] EXCEPT !.at = at]]
      BY <3>1
    <3> DEFINE new == [handler[h] EXCEPT !.at = at]
    <3>3. new.job = handler[h].job
      BY <3>1 DEF IInv, TypeOK
    <3> HIDE DEF new
    <3>4. \A g \in Handlers : handler'[g] = IF g = h THEN new ELSE handler[g]
      BY <2>1, <3>2 DEF new
    <3> QED
      BY <3>1, <3>3, <3>4 DEF Entering, At
  <2> QED
    BY <2>2, <2>3, <2>4 DEF UploadFails, Refuse, EnqueueRemote
<1>5. \A k \in Pool : Busy(k)' => Busy(k) /\ busy'[k].job.id = busy[k].job.id
  BY <1>1 DEF Busy
<1> QED
  BY <1>1, <1>2, <1>3, <1>4, <1>5, QuietStepAlone

\* No job is there for a submission without a name.
LEMMA JobIsNamed ==
  ASSUME IInv, NEW id, HasJob(id)
  PROVE  Named(id)
<1>1. CASE \E i \in DOMAIN jobCh : Waits(i, id)
  <2>1. PICK i \in DOMAIN jobCh : Waits(i, id)
    BY <1>1
  <2>2. jobCh[i] \in JobType /\ IsQueued(jobCh[i])
    BY DEF IInv, TypeOK, IsQueued
  <2> QED
    BY <2>1, <2>2 DEF IInv, JobsCurrent, Waits
<1>2. CASE \E k \in Pool : Works(k, id)
  <2>1. PICK k \in Pool : Works(k, id)
    BY <1>2
  <2>2. busy[k].job \in JobType /\ IsQueued(busy[k].job)
    BY <2>1 DEF IInv, TypeOK, IsQueued, Works, Busy
  <2> QED
    BY <2>1, <2>2 DEF IInv, JobsCurrent, Works
<1> QED
  BY <1>1, <1>2 DEF HasJob

\* A new submission has neither a job nor an end.
LEMMA StoreAlone ==
  ASSUME IInv, EndedAlone, NEW h \in Handlers, Store(h)
  PROVE  EndedAlone' /\ StatesKept
<1> DEFINE j == handler[h].job
           new == [handler[h] EXCEPT !.at = "stored"]
           status == [state |-> "queued", run |-> j.run]
<1>1. /\ handler[h] # Nothing /\ handler[h].at = "uploading"
      /\ statuses' = Put(statuses, j.id, status)
      /\ handler' = [handler EXCEPT ![h] = new]
      /\ UNCHANGED <<local, jobCh, busy, sqs, webhooks, heard>>
  BY DEF Store, Proceed, At, compiler, IInv, TypeOK
<1>2. handler[h] \in OpenHandler
  BY <1>1 DEF IInv, TypeOK, OpenHandler
<1>3. new.job = j
  BY <1>2 DEF OpenHandler, Stages
<1>4. ~Named(j.id)
  <2>1. ~Listed(j.id) /\ \A g \in Handlers \ {h} : Open(g) => handler[g].job.id # j.id
    BY <1>1 DEF IInv, NamesFresh, Open
  <2> QED
    BY <1>1, <2>1 DEF Named, At, Open
<1>5. ~HasJob(j.id) /\ j.id \notin DOMAIN statuses
  BY <1>4, JobIsNamed DEF IInv, NamesFresh
<1>6. status.state = "queued"
  OBVIOUS
<1>7. \A g \in Handlers : handler'[g] = IF g = h THEN new ELSE handler[g]
  BY <1>1 DEF IInv, TypeOK
<1> HIDE DEF j, new, status
<1>8. /\ DOMAIN statuses' = DOMAIN statuses \cup {j.id} /\ statuses'[j.id] = status
      /\ \A x \in DOMAIN statuses : statuses'[x] = statuses[x]
  BY <1>1, <1>5 DEF Put
<1>9. ASSUME NEW id \in Numbers PROVE StartedOnce(id)'
  <2>1. StartedOnce(id)
    BY DEF EndedAlone
  <2>2. CASE id = j.id
    <3>1. ~HasJob(id)' /\ ~Ended(id)'
      BY <1>1, <1>5, <1>6, <1>8, <2>2 DEF HasJob, Waits, Works, Busy, Ended, Known
    <3>2. OneJob(id)'
      BY <3>1 DEF HasJob, OneJob
    <3> QED
      BY <3>1, <3>2 DEF StartedOnce
  <2>3. CASE id # j.id
    <3>1. Ended(id)' => Ended(id)
      BY <1>8, <2>3 DEF Ended, Known
    <3>2. \A g \in Handlers : Entering(g)' /\ handler'[g].job.id = id =>
            Entering(g) /\ handler[g].job.id = id
      BY <1>3, <1>7, <2>3 DEF Entering, At
    <3>3. \A i \in DOMAIN jobCh' : Waits(i, id)' => i \in DOMAIN jobCh /\ Waits(i, id)
      BY <1>1 DEF Waits
    <3>4. \A k \in Pool : Works(k, id)' => Works(k, id)
      BY <1>1 DEF Works, Busy
    <3> QED
      BY <1>1, <2>1, <3>1, <3>2, <3>3, <3>4, StartedOnceKept
  <2> QED
    BY <2>2, <2>3
<1>10. StatesKept
  BY <1>8 DEF StatesKept
<1> QED
  BY <1>1, <1>9, <1>10 DEF EndedAlone

\* A submission has the job its upload puts in the queue, and no other.
LEMMA EnqueueAlone ==
  ASSUME IInv, EndedAlone, NEW h \in Handlers, EnqueueLocal(h)
  PROVE  EndedAlone' /\ StatesKept
<1> DEFINE j == handler[h].job
<1>1. /\ At(h, "recorded") /\ local /\ Respond(h)
      /\ jobCh' = Append(jobCh, j)
      /\ UNCHANGED <<local, statuses, busy, sqs, webhooks, heard>>
  BY DEF EnqueueLocal, compiler
<1>2. j \in JobType /\ j.id \in Numbers
  BY <1>1 DEF IInv, TypeOK, JobType, At
<1>3. \A g \in Handlers \ {h} : handler[g] # Nothing => handler[g].job.id # j.id
  BY <1>1 DEF IInv, NamesFresh, Open, At
<1>4. StartedOnce(j.id) /\ Unstarted(j.id)
  BY <1>1, <1>2 DEF EndedAlone, Unstarted, Entering
<1>5. ~HasJob(j.id) /\ ~Ended(j.id)
  BY <1>4 DEF StartedOnce
<1>6. handler'[h] = Nothing /\ \A g \in Handlers \ {h} : handler'[g] = handler[g]
  BY <1>1, RespondFacts
<1> HIDE DEF j
<1>7. /\ DOMAIN jobCh' = DOMAIN jobCh \cup {Len(jobCh) + 1}
      /\ \A i \in DOMAIN jobCh : jobCh'[i] = jobCh[i]
      /\ jobCh'[Len(jobCh) + 1] = j
  BY <1>1, <1>2, AppendFacts DEF IInv, TypeOK
<1>8. ASSUME NEW id \in Numbers PROVE StartedOnce(id)'
  <2>1. StartedOnce(id)
    BY DEF EndedAlone
  <2>2. CASE id = j.id
    <3>1. \A k \in Pool : ~Works(k, id)'
      BY <1>1, <1>5, <2>2 DEF HasJob, Works, Busy
    <3>2. \A i \in DOMAIN jobCh' : Waits(i, id)' => i = Len(jobCh) + 1
      BY <1>5, <1>7, <2>2 DEF HasJob, Waits
    <3>3. OneJob(id)'
      BY <3>1, <3>2 DEF OneJob
    <3>4. ~Ended(id)'
      BY <1>1, <1>5, <2>2 DEF Ended, Known
    <3>5. ~Unstarted(id)'
      BY <1>1, <1>3, <1>6, <2>2 DEF Unstarted, Entering, At
    <3> QED
      BY <3>3, <3>4, <3>5 DEF StartedOnce
  <2>3. CASE id # j.id
    <3>1. Ended(id)' => Ended(id)
      BY <1>1 DEF Ended, Known
    <3>2. \A g \in Handlers : Entering(g)' /\ handler'[g].job.id = id =>
            Entering(g) /\ handler[g].job.id = id
      BY <1>6 DEF Entering, At
    <3>3. \A i \in DOMAIN jobCh' : Waits(i, id)' => i \in DOMAIN jobCh /\ Waits(i, id)
      BY <1>7, <2>3 DEF Waits
    <3>4. \A k \in Pool : Works(k, id)' => Works(k, id)
      BY <1>1 DEF Works, Busy
    <3> QED
      BY <1>1, <2>1, <3>1, <3>2, <3>3, <3>4, StartedOnceKept
  <2> QED
    BY <2>2, <2>3
<1>9. StatesKept
  BY <1>1 DEF StatesKept
<1> QED
  BY <1>1, <1>8, <1>9 DEF EndedAlone

\* Messages, runs that go on and scores start nothing.
LEMMA CompileAlone ==
  ASSUME IInv, EndedAlone, NEW j \in sqs, Compile(j)
  PROVE  EndedAlone' /\ StatesKept
<1>1. UNCHANGED <<local, handler, statuses, jobCh, busy, heard>> /\ ~local
  BY DEF Compile, uploads, EndedAlone
<1> QED
  BY <1>1, QuietStepAlone DEF Entering, At, Busy

LEMMA FinaliseAlone ==
  ASSUME IInv, EndedAlone, NEW j \in finished, Finalise(j)
  PROVE  EndedAlone' /\ StatesKept
<1>1. UNCHANGED <<local, handler, statuses, jobCh, busy, heard, sqs, webhooks>>
  BY DEF Finalise, uploads, compiler
<1> QED
  BY <1>1, QuietStepAlone DEF Entering, At, Busy, EndedAlone

LEMMA WorkAlone ==
  ASSUME IInv, EndedAlone, NEW k \in Pool, RunSucceeds(k) \/ Score(k) \/ ScoreLeftOut(k)
  PROVE  EndedAlone' /\ StatesKept
<1>1. busy[k] # Nothing /\ UNCHANGED <<local, handler, statuses, jobCh, heard, sqs, webhooks>>
  BY DEF RunSucceeds, Score, ScoreLeftOut, Working, uploads, compiler
<1>2. busy[k] \in BusyPool
  BY <1>1 DEF IInv, TypeOK, BusyPool
<1>3. \E at \in {"scoring", "reporting"} : busy' = [busy EXCEPT ![k] = [busy[k] EXCEPT !.at = at]]
  BY DEF RunSucceeds, Score, ScoreLeftOut, IInv, TypeOK
<1>4. PICK at \in {"scoring", "reporting"} :
        busy' = [busy EXCEPT ![k] = [busy[k] EXCEPT !.at = at]]
  BY <1>3
<1> DEFINE new == [busy[k] EXCEPT !.at = at]
<1>5. new.job = busy[k].job
  BY <1>2 DEF BusyPool
<1> HIDE DEF new
<1>6. \A p \in Pool : busy'[p] = IF p = k THEN new ELSE busy[p]
  BY <1>4 DEF IInv, TypeOK, new
<1>7. \A p \in Pool : Busy(p)' => Busy(p) /\ busy'[p].job.id = busy[p].job.id
  BY <1>1, <1>5, <1>6 DEF Busy
<1> QED
  BY <1>1, <1>7, QuietStepAlone DEF Entering, At, EndedAlone

\* The first notification for a submission finds it without a job and not ended.
LEMMA WebhookAlone ==
  ASSUME IInv, EndedAlone, NEW n \in webhooks, Webhook(n)
  PROVE  EndedAlone' /\ StatesKept
<1>1. /\ webhooks' = webhooks \ {n} /\ heard' = Put(heard, n.id, Heard(n.id) + 1)
      /\ UNCHANGED <<local, handler, busy, sqs>>
  BY DEF Webhook, uploads
<1>2. ~local
  BY DEF EndedAlone
<1>3. n.id \in Numbers
  BY DEF IInv, TypeOK
<1>4. /\ Heard(n.id) \in Nat /\ Heard(n.id)' = Heard(n.id) + 1
      /\ \A id : id # n.id => Heard(id)' = Heard(id)
  BY <1>1, HeardIsNat DEF Heard, Put, IInv
<1>5. StartedOnce(n.id) /\ (Heard(n.id)' < 2 => Unstarted(n.id))
  BY <1>2, <1>3, <1>4 DEF EndedAlone, Unstarted
<1>6. Heard(n.id)' < 2 => ~HasJob(n.id) /\ ~Ended(n.id)
  BY <1>5 DEF StartedOnce
<1>7. /\ DOMAIN statuses' = DOMAIN statuses
      /\ \A x \in DOMAIN statuses : x # n.id => statuses'[x] = statuses[x]
      /\ ~n.ok \/ statuses' = statuses
  BY DEF Webhook, WebhookFailed, WebhookSuccess, WebhookRefused, SetState, Known
<1>8. \/ jobCh' = jobCh
      \/ /\ n.ok /\ DOMAIN jobCh' = DOMAIN jobCh \cup {Len(jobCh) + 1}
         /\ \A i \in DOMAIN jobCh : jobCh'[i] = jobCh[i]
         /\ jobCh'[Len(jobCh) + 1].id = n.id
  <2>1. CASE WebhookSuccess(n)
    <3> DEFINE j == Job(n.id, statuses[n.id].run)
    <3>1. Known(n.id) /\ n.ok /\ jobCh' = Append(jobCh, j)
      BY <2>1 DEF WebhookSuccess
    <3>2. j \in JobType /\ j.id = n.id
      BY <1>3, <3>1 DEF Job, JobType, IInv, TypeOK, Known
    <3> HIDE DEF j
    <3> QED
      BY <3>1, <3>2, AppendFacts DEF IInv, TypeOK
  <2>2. CASE WebhookFailed(n) \/ WebhookRefused(n)
    BY <2>2 DEF WebhookFailed, WebhookRefused
  <2> QED
    BY <2>1, <2>2 DEF Webhook
<1>9. ASSUME NEW id \in Numbers, id # n.id PROVE StartedOnce(id)'
  <2>1. StartedOnce(id) /\ Heard(id)' = Heard(id)
    BY <1>4, <1>9 DEF EndedAlone
  <2>2. Ended(id)' <=> Ended(id)
    BY <1>7, <1>9 DEF Ended, Known
  <2>3. \A i \in DOMAIN jobCh' : Waits(i, id)' => i \in DOMAIN jobCh /\ Waits(i, id)
    BY <1>8, <1>9 DEF Waits
  <2>4. \A k \in Pool : Works(k, id)' <=> Works(k, id)
    BY <1>1 DEF Works, Busy
  <2>5. (HasJob(id)' => HasJob(id)) /\ (OneJob(id) => OneJob(id)')
    BY <2>3, <2>4 DEF HasJob, OneJob
  <2>6. Unstarted(id)' => Unstarted(id)
    BY <1>1, <1>2, <2>1 DEF Unstarted
  <2> QED
    BY <2>1, <2>2, <2>5, <2>6 DEF StartedOnce
<1>10. StartedOnce(n.id)'
  <2>1. ~Unstarted(n.id)'
    BY <1>1, <1>2, <1>4 DEF Unstarted
  <2>2. ASSUME Heard(n.id)' < 2 PROVE OneJob(n.id)' /\ (Ended(n.id)' => ~HasJob(n.id)')
    <3>1. /\ \A k \in Pool : ~Works(k, n.id)'
          /\ \A i \in DOMAIN jobCh : ~Waits(i, n.id)
      BY <1>1, <1>6, <2>2 DEF HasJob, Works, Busy
    <3>2. \A i \in DOMAIN jobCh' : Waits(i, n.id)' => n.ok /\ i = Len(jobCh) + 1
      BY <1>8, <3>1 DEF Waits
    <3>3. OneJob(n.id)'
      BY <3>1, <3>2 DEF OneJob
    <3>4. n.ok => ~Ended(n.id)'
      BY <1>6, <1>7, <2>2 DEF Ended, Known
    <3>5. HasJob(n.id)' => n.ok
      BY <3>1, <3>2 DEF HasJob
    <3> QED
      BY <3>3, <3>4, <3>5
  <2> QED
    BY <2>1, <2>2 DEF StartedOnce
<1>11. StatesKept
  BY <1>6, <1>7 DEF StatesKept
<1> QED
  BY <1>1, <1>2, <1>9, <1>10, <1>11 DEF EndedAlone

\* The job that is taken was one of a submission that had not ended.
LEMMA TakeAlone ==
  ASSUME IInv, EndedAlone, NEW k \in Pool, Take(k)
  PROVE  EndedAlone' /\ StatesKept
<1> DEFINE j == Head(jobCh)
           new == [at |-> "running", job |-> j]
<1>1. /\ busy[k] = Nothing /\ jobCh # <<>> /\ busy' = [busy EXCEPT ![k] = new]
      /\ SetState(j.id, "running") /\ jobCh' = Tail(jobCh)
      /\ UNCHANGED <<local, handler, sqs, webhooks, heard>>
  BY DEF Take, uploads, compiler
<1>2. /\ j \in JobType /\ 1 \in DOMAIN jobCh /\ j = jobCh[1]
      /\ \A i \in DOMAIN jobCh' :
           i \in Int /\ i + 1 \in DOMAIN jobCh /\ i + 1 # 1 /\ jobCh'[i] = jobCh[i + 1]
  BY <1>1, TailFacts DEF IInv, TypeOK
<1>3. j.id \in Numbers
  BY <1>2 DEF JobType
<1>4. new.job = j
  OBVIOUS
<1> HIDE DEF j, new
<1>5. \A p \in Pool : busy'[p] = IF p = k THEN new ELSE busy[p]
  BY <1>1 DEF IInv, TypeOK
<1>6. /\ DOMAIN statuses' = DOMAIN statuses
      /\ \A x \in DOMAIN statuses :
            statuses'[x].state = IF x = j.id THEN "running" ELSE statuses[x].state
  BY <1>1, <1>3, SetStateFacts DEF IInv
<1>7. \A id : Heard(id)' = Heard(id) /\ (Unstarted(id)' <=> Unstarted(id))
  BY <1>1 DEF Heard, Unstarted, Entering, At
<1>8. \A id : Ended(id)' => Ended(id)
  BY <1>6 DEF Ended, Known
<1>9. ASSUME NEW id PROVE (HasJob(id)' => HasJob(id)) /\ (OneJob(id) => OneJob(id)')
  <2>1. \A i \in DOMAIN jobCh' : Waits(i, id)' => i + 1 \in DOMAIN jobCh /\ Waits(i + 1, id)
    BY <1>2 DEF Waits
  <2>2. \A p \in Pool : Works(p, id)' => IF p = k THEN Waits(1, id) ELSE Works(p, id)
    BY <1>2, <1>4, <1>5 DEF Works, Busy, Waits
  <2>3. HasJob(id)' => HasJob(id)
    BY <1>2, <2>1, <2>2 DEF HasJob
  <2>4. ASSUME OneJob(id) PROVE OneJob(id)'
    <3>1. \A i, l \in DOMAIN jobCh' : Waits(i, id)' /\ Waits(l, id)' => i = l
      <4>1. ASSUME NEW i \in DOMAIN jobCh', NEW l \in DOMAIN jobCh', Waits(i, id)', Waits(l, id)'
            PROVE  i = l
        <5>1. i + 1 = l + 1
          BY <1>2, <2>1, <2>4, <4>1 DEF OneJob
        <5> QED
          BY <1>2, <5>1
      <4> QED
        BY <4>1
    <3>2. \A p, q \in Pool : Works(p, id)' /\ Works(q, id)' => p = q
      BY <1>2, <2>2, <2>4 DEF OneJob
    <3>3. \A i \in DOMAIN jobCh', p \in Pool : ~(Waits(i, id)' /\ Works(p, id)')
      BY <1>2, <2>1, <2>2, <2>4 DEF OneJob
    <3> QED
      BY <3>1, <3>2, <3>3 DEF OneJob
  <2> QED
    BY <2>3, <2>4
<1>10. ASSUME NEW id \in Numbers PROVE StartedOnce(id)'
  <2>1. StartedOnce(id)
    BY DEF EndedAlone
  <2> QED
    BY <1>7, <1>8, <1>9, <2>1 DEF StartedOnce
<1>11. StatesKept
  <2>1. ASSUME NEW id \in DOMAIN statuses, id = j.id PROVE Heard(id)' < 2 => ~Ended(id)
    <3>1. HasJob(id) /\ StartedOnce(id)
      BY <1>2, <1>3, <2>1 DEF HasJob, Waits, EndedAlone
    <3> QED
      BY <1>7, <3>1 DEF StartedOnce
  <2> QED
    BY <1>6, <2>1 DEF StatesKept
<1> QED
  BY <1>1, <1>10, <1>11 DEF EndedAlone

\* A submission ends with the job it has, its only one.
LEMMA RunEndsAlone ==
  ASSUME IInv, EndedAlone, NEW k \in Pool, RunFails(k) \/ Report(k)
  PROVE  EndedAlone' /\ StatesKept
<1> DEFINE j == busy[k].job
<1>1. /\ busy[k] # Nothing /\ busy' = [busy EXCEPT ![k] = Nothing]
      /\ \E state \in {"done", "failed"} : SetState(j.id, state)
      /\ UNCHANGED <<local, handler, jobCh, sqs, webhooks, heard>>
  BY DEF RunFails, Report, Working, AfterFailure, uploads, compiler
<1>2. j.id \in Numbers
  BY <1>1 DEF IInv, TypeOK, JobType
<1> HIDE DEF j
<1>3. \A p \in Pool : busy'[p] = IF p = k THEN Nothing ELSE busy[p]
  BY <1>1 DEF IInv, TypeOK
<1>4. /\ DOMAIN statuses' = DOMAIN statuses
      /\ \A x \in DOMAIN statuses : x # j.id => statuses'[x].state = statuses[x].state
  <2>1. PICK state \in {"done", "failed"} : SetState(j.id, state)
    BY <1>1
  <2> QED
    BY <1>2, <2>1, SetStateFacts DEF IInv
<1>5. \A id : Heard(id)' = Heard(id) /\ (Unstarted(id)' <=> Unstarted(id))
  BY <1>1 DEF Heard, Unstarted, Entering, At
<1>6. \A id : id # j.id => (Ended(id)' <=> Ended(id))
  BY <1>4 DEF Ended, Known
<1>7. ASSUME NEW id PROVE (HasJob(id)' => HasJob(id)) /\ (OneJob(id) => OneJob(id)')
  <2>1. \A i \in DOMAIN jobCh' : Waits(i, id)' <=> i \in DOMAIN jobCh /\ Waits(i, id)
    BY <1>1 DEF Waits
  <2>2. \A p \in Pool : Works(p, id)' => Works(p, id)
    BY <1>3 DEF Works, Busy
  <2> QED
    BY <2>1, <2>2 DEF HasJob, OneJob
<1>8. ASSUME NEW id \in Numbers, id = j.id
      PROVE  /\ HasJob(id) /\ StartedOnce(id)
             /\ Heard(id) < 2 => ~HasJob(id)'
  <2>1. Works(k, id)
    BY <1>1, <1>8 DEF Works, Busy, j
  <2>2. HasJob(id) /\ StartedOnce(id)
    BY <2>1 DEF HasJob, EndedAlone
  <2>3. ASSUME OneJob(id) PROVE ~HasJob(id)'
    <3>1. \A i \in DOMAIN jobCh' : ~Waits(i, id)'
      BY <1>1, <2>1, <2>3 DEF OneJob, Waits
    <3>2. \A p \in Pool : ~Works(p, id)'
      BY <1>3, <2>1, <2>3 DEF OneJob, Works, Busy
    <3> QED
      BY <3>1, <3>2 DEF HasJob
  <2> QED
    BY <2>2, <2>3 DEF StartedOnce
<1>9. ASSUME NEW id \in Numbers PROVE StartedOnce(id)'
  <2>1. CASE id = j.id
    BY <1>5, <1>7, <1>8, <2>1 DEF StartedOnce
  <2>2. CASE id # j.id
    <3>1. StartedOnce(id)
      BY DEF EndedAlone
    <3> QED
      BY <1>5, <1>6, <1>7, <2>2, <3>1 DEF StartedOnce
  <2> QED
    BY <2>1, <2>2
<1>10. StatesKept
  <2>1. ASSUME NEW id \in DOMAIN statuses, id = j.id PROVE Heard(id)' < 2 => ~Ended(id)
    BY <1>2, <1>5, <1>8, <2>1 DEF StartedOnce
  <2> QED
    BY <1>4, <2>1 DEF StatesKept
<1> QED
  BY <1>1, <1>9, <1>10 DEF EndedAlone

\* The server starts again with nothing to do.
LEMMA RestartAlone ==
  ASSUME IInv, EndedAlone, Restart
  PROVE  EndedAlone' /\ StatesKept
<1>1. /\ statuses' = <<>> /\ jobCh' = <<>> /\ busy' = [k \in Pool |-> Nothing]
      /\ UNCHANGED <<local, sqs, webhooks>>
  BY DEF Restart
<1>2. DOMAIN statuses' = {} /\ DOMAIN jobCh' = {} /\ \A k \in Pool : busy'[k] = Nothing
  BY <1>1
<1>3. \A id : ~HasJob(id)' /\ ~Ended(id)' /\ OneJob(id)'
  BY <1>2 DEF HasJob, OneJob, Works, Busy, Ended, Known
<1> QED
  BY <1>1, <1>2, <1>3 DEF EndedAlone, StartedOnce, StatesKept

LEMMA InitIsAlone == Init => EndedAlone
<1> SUFFICES ASSUME Init PROVE EndedAlone
  OBVIOUS
<1>1. /\ statuses = <<>> /\ jobCh = <<>> /\ busy = [k \in Pool |-> Nothing]
      /\ sqs = {} /\ webhooks = {}
  BY DEF Init
<1>2. DOMAIN statuses = {} /\ DOMAIN jobCh = {} /\ \A k \in Pool : busy[k] = Nothing
  BY <1>1
<1>3. \A id : ~HasJob(id) /\ ~Ended(id) /\ OneJob(id)
  BY <1>2 DEF HasJob, OneJob, Works, Busy, Ended, Known
<1> QED
  BY <1>1, <1>3 DEF EndedAlone, StartedOnce

\* EndedAlone is inductive beside IInv, and no step changes an ended state.
LEMMA StepKeepsAlone == IInv /\ EndedAlone /\ [Next]_vars => EndedAlone' /\ [StatesKept]_statuses
<1> SUFFICES ASSUME IInv, EndedAlone, [Next]_vars PROVE EndedAlone' /\ [StatesKept]_statuses
  OBVIOUS
<1>1. CASE Next
  <2>1. ASSUME NEW h \in Handlers, Claim(h) \/ Upload(h) PROVE EndedAlone' /\ StatesKept
    BY <2>1, UploadAlone, StoreAlone, EnqueueAlone DEF Upload, Enqueue
  <2>2. ASSUME NEW j \in sqs, Compile(j) PROVE EndedAlone' /\ StatesKept
    BY <2>2, CompileAlone
  <2>3. ASSUME NEW n \in webhooks, Webhook(n) PROVE EndedAlone' /\ StatesKept
    BY <2>3, WebhookAlone
  <2>4. ASSUME NEW k \in Pool, RunJob(k) PROVE EndedAlone' /\ StatesKept
    BY <2>4, TakeAlone, RunEndsAlone, WorkAlone DEF RunJob
  <2>5. ASSUME NEW j \in finished, Finalise(j) PROVE EndedAlone' /\ StatesKept
    BY <2>5, FinaliseAlone
  <2> QED
    BY <1>1, <2>1, <2>2, <2>3, <2>4, <2>5, RestartAlone DEF Next
<1>2. CASE UNCHANGED vars
  <2>1. UNCHANGED <<local, handler, statuses, jobCh, busy, heard, sqs, webhooks>>
    BY <1>2 DEF vars, uploads, compiler
  <2> QED
    BY <2>1, QuietStepAlone DEF Entering, At, Busy, EndedAlone
<1> QED
  BY <1>1, <1>2

\* A submission that is done or failed stays so, unless the compiler reported on
\* it a second time.
THEOREM EndedStaysEnded == Spec => EndedStays
<1>1. IInv /\ EndedAlone /\ [Next]_vars => EndedAlone' /\ [StatesKept]_statuses
  BY StepKeepsAlone
<1>2. Spec => []EndedAlone
  BY <1>1, InitIsAlone, Inductive, PTL DEF Spec
<1>3. StatesKept <=> \A id \in DOMAIN statuses :
        (Ended(id) /\ Heard(id)' < 2 /\ id \in DOMAIN statuses') =>
          statuses'[id].state = statuses[id].state
  BY DEF StatesKept
<1> QED
  BY <1>1, <1>2, <1>3, Inductive, PTL DEF Spec, EndedStays
=============================================================================
