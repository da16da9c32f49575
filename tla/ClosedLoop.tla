----------------------------- MODULE ClosedLoop -----------------------------
(***************************************************************************)
(* The closed-loop evaluation: runner.Run sends one tick at a time and     *)
(* collects the answer, validator.Consume judges the results, and the      *)
(* caller (coordinator.runSmokeTest or the agent) counts the verdicts.     *)
(* Three goroutines, two bounded channels, a websocket to the contestant.  *)
(*                                                                         *)
(* Ticks are numbers.  What an answer says is the subject of Validator;    *)
(* here a frame is a fill, a terminal response or garbage, and carries the *)
(* tick it answers, which the code cannot see.                             *)
(***************************************************************************)
EXTENDS Integers, Sequences

CONSTANTS Ticks,       \* length of the workload
          ResultsSize, \* buffer of Runner.results
          VerdictsSize,\* buffer of Consume's verdict channel
          Concurrent,  \* the caller drains verdicts while Run runs
          Faults       \* what the contestant may do: "garbage", "extra", "die", "silent"

ASSUME SizesAssumption ==
  Ticks \in Nat /\ ResultsSize \in Nat \ {0} /\ VerdictsSize \in Nat \ {0}
ASSUME CallerAssumption == Concurrent \in BOOLEAN
ASSUME FaultsAssumption == Faults \subseteq {"garbage", "extra", "die", "silent"}

VARIABLES
  run,      \* Run: "next", "reading", "emit", "abort", then "returned" or "failed"
  sent,     \* ticks written to the connection
  got,      \* responses collected for the current tick
  metrics,  \* TicksSent and TimedOut
  expired,  \* the run's context is done
  asked,    \* the contestant's unread ticks
  frames,   \* frames on their way back
  alive,    \* the contestant has not closed the connection
  results,  \* channel of results
  closed,   \* closed channels: "results", "verdicts"
  judging,  \* the result Consume is working on, or <<>>
  verdicts, \* channel of verdicts
  counted,  \* verdicts the caller has received
  strayed   \* the first tick whose answer had a frame too many or one in place
            \* of the terminal response, 0 if there is none

vars == <<run, sent, got, metrics, expired, asked, frames, alive, results, closed,
          judging, verdicts, counted, strayed>>

runner == <<run, sent, got, metrics>>
contestant == <<asked, frames, alive, strayed>>
consumer == <<judging, verdicts>>

Init ==
  /\ run = "next"
  /\ sent = 0
  /\ got = <<>>
  /\ metrics = [sent |-> 0, timedOut |-> FALSE]
  /\ expired = FALSE
  /\ asked = <<>>
  /\ frames = <<>>
  /\ alive = TRUE
  /\ results = <<>>
  /\ closed = {}
  /\ judging = <<>>
  /\ verdicts = <<>>
  /\ counted = <<>>
  /\ strayed = 0

-----------------------------------------------------------------------------
(* The workload: an odd tick has one fill, an even one none. *)

Filled(tick) == tick % 2 = 1

Fill(tick) == [kind |-> "FILL", of |-> tick]
Fills(tick) == IF Filled(tick) THEN <<Fill(tick)>> ELSE <<>>
Terminal(tick) == [kind |-> "ACK", of |-> tick]
Garbage(tick) == [kind |-> "garbage", of |-> tick]
Honest(tick) == Append(Fills(tick), Terminal(tick))

\* verifyAdd looks at the fills only: the one that is owed, and no other.
Right(tick, responses) ==
  LET reported == {j \in DOMAIN responses : responses[j].kind = "FILL"} IN
  /\ Filled(tick) <=> reported # {}
  /\ \A j, k \in reported : j = k /\ responses[j].of = tick

-----------------------------------------------------------------------------
(* runner.Run *)

Returning == run \in {"returned", "failed"}

\* defer close(r.results)
Leave(how) == run' = how /\ closed' = closed \cup {"results"}

Send ==
  /\ run = "next" /\ sent < Ticks
  /\ ~expired /\ alive
  /\ sent' = sent + 1
  /\ asked' = Append(asked, sent + 1)
  /\ got' = <<>>
  /\ run' = "reading"
  /\ UNCHANGED <<metrics, expired, frames, alive, strayed, results, closed, consumer, counted>>

\* WriteTick fails, or is not noticed to have failed, on a closed connection.
SendToTheDead ==
  /\ run = "next" /\ sent < Ticks /\ ~expired /\ ~alive
  /\ sent' = sent + 1
  /\ got' = <<>>
  /\ \/ run' = "reading" /\ UNCHANGED closed
     \/ Leave("failed")
  /\ UNCHANGED <<metrics, expired, contestant, results, consumer, counted>>

TimedOut ==
  /\ run = "next" /\ sent < Ticks /\ expired
  /\ \/ metrics' = [metrics EXCEPT !.timedOut = TRUE]  \* seen by the select
     \/ UNCHANGED metrics                              \* seen by WriteTick
  /\ Leave("failed")
  /\ UNCHANGED <<sent, got, expired, contestant, results, consumer, counted>>

AllSent ==
  /\ run = "next" /\ sent = Ticks
  /\ Leave("returned")
  /\ UNCHANGED <<sent, got, metrics, expired, contestant, results, consumer, counted>>

EndsAnswer_First(frame) == TRUE

\* collectUntilACK ends at the terminal response, and at a frame it cannot parse.
EndsAnswer(frame) == frame.kind # "FILL"

Collected_Last(frame) == <<frame>>

Collected(frame) == IF frame.kind = "garbage" THEN got ELSE Append(got, frame)

Counted == metrics' = [metrics EXCEPT !.sent = @ + 1]

ReadFrame ==
  /\ run = "reading" /\ frames # <<>>
  /\ LET frame == Head(frames) IN
     /\ got' = Collected(frame)
     /\ IF EndsAnswer(frame) THEN Counted /\ run' = "emit" ELSE UNCHANGED <<metrics, run>>
  /\ frames' = Tail(frames)
  /\ UNCHANGED <<sent, expired, asked, alive, strayed, results, closed, consumer, counted>>

ReadError ==
  /\ run = "reading"
  /\ expired \/ (~alive /\ frames = <<>>)
  /\ Counted
  /\ run' = "abort"
  /\ UNCHANGED <<sent, got, expired, contestant, results, closed, consumer, counted>>

Emitted(err) ==
  /\ Len(results) < ResultsSize
  /\ results' = Append(results, [tick |-> sent, responses |-> got, err |-> err])

Emit ==
  /\ run = "emit"
  /\ Emitted(FALSE)
  /\ run' = "next"
  /\ UNCHANGED <<sent, got, metrics, expired, contestant, closed, consumer, counted>>

Abort_NoResult ==
  /\ run = "abort"
  /\ Leave("returned")
  /\ UNCHANGED <<sent, got, metrics, expired, contestant, results, consumer, counted>>

\* The last result carries the error; Run itself returns nil.
Abort ==
  /\ run = "abort"
  /\ Emitted(TRUE)
  /\ Leave("returned")
  /\ UNCHANGED <<sent, got, metrics, expired, contestant, consumer, counted>>

Run == \/ Send \/ SendToTheDead \/ TimedOut \/ AllSent
       \/ ReadFrame \/ ReadError \/ Emit \/ Abort

\* The wall clock.
Expire ==
  /\ ~expired
  /\ expired' = TRUE
  /\ UNCHANGED <<runner, contestant, results, closed, consumer, counted>>

-----------------------------------------------------------------------------
(* The contestant answers what it has read, or one of its faults shows. *)

Replies(reply) ==
  /\ asked # <<>> /\ alive
  /\ asked' = Tail(asked)
  /\ frames' = frames \o reply
  /\ UNCHANGED <<runner, expired, results, closed, consumer, counted>>

Answer == asked # <<>> /\ Replies(Honest(Head(asked))) /\ UNCHANGED <<alive, strayed>>

Orderly == strayed = 0

Strayed(tick) == strayed' = IF Orderly THEN tick ELSE strayed

Garbled ==
  /\ "garbage" \in Faults /\ asked # <<>>
  /\ LET tick == Head(asked) IN
     Replies(Append(Fills(tick), Garbage(tick))) /\ Strayed(tick)
  /\ UNCHANGED alive

\* Frames that may be too many.
Strays(tick) ==
  {frame \in {Garbage(tick), Terminal(tick), Fill(tick)} :
     IF frame.kind = "garbage" THEN "garbage" \in Faults ELSE "extra" \in Faults}

\* An honest answer with a frame ahead of it or behind it.
Extra ==
  /\ asked # <<>>
  /\ LET tick == Head(asked) IN
     /\ \E frame \in Strays(tick) : \/ Replies(<<frame>> \o Honest(tick))
                                   \/ Replies(Append(Honest(tick), frame))
     /\ Strayed(tick)
  /\ UNCHANGED alive

Silence == "silent" \in Faults /\ Replies(<<>>) /\ UNCHANGED <<alive, strayed>>

\* With or without the fills of the answer it was writing.
Die ==
  /\ "die" \in Faults /\ asked # <<>>
  /\ Replies(Fills(Head(asked))) \/ Replies(<<>>)
  /\ alive' = FALSE
  /\ UNCHANGED strayed

Contestant == Answer \/ Garbled \/ Extra \/ Silence \/ Die

-----------------------------------------------------------------------------
(* validator.Consume and the caller. *)

Take ==
  /\ judging = <<>> /\ results # <<>>
  /\ judging' = <<Head(results)>>
  /\ results' = Tail(results)
  /\ UNCHANGED <<runner, expired, contestant, closed, verdicts, counted>>

Judge ==
  /\ judging # <<>>
  /\ Len(verdicts) < VerdictsSize
  /\ LET r == judging[1] IN
     verdicts' = Append(verdicts, [result |-> r, correct |-> Right(r.tick, r.responses)])
  /\ judging' = <<>>
  /\ UNCHANGED <<runner, expired, contestant, results, closed, counted>>

\* results is closed and drained: close(verdicts).
Drained ==
  /\ judging = <<>> /\ results = <<>>
  /\ "results" \in closed /\ "verdicts" \notin closed
  /\ closed' = closed \cup {"verdicts"}
  /\ UNCHANGED <<runner, expired, contestant, results, consumer, counted>>

MayCount_AfterRun == Returning

MayCount == Concurrent \/ Returning

Count ==
  /\ MayCount
  /\ verdicts # <<>>
  /\ counted' = Append(counted, Head(verdicts))
  /\ verdicts' = Tail(verdicts)
  /\ UNCHANGED <<runner, expired, contestant, results, closed, judging>>

GateOpen_ButOne == metrics.sent + 1 >= Ticks

\* What runSmokeTest asks of the metrics after the run.
GateOpen == metrics.sent >= Ticks

Next == Run \/ Expire \/ Contestant \/ Take \/ Judge \/ Drained \/ Count

Spec == Init /\ [][Next]_vars

\* Goroutines run on and the wall clock passes the deadline; the contestant
\* owes nothing.
FairSpec == /\ Spec
            /\ WF_vars(Run) /\ WF_vars(Expire) /\ WF_vars(Take) /\ WF_vars(Judge)
            /\ WF_vars(Drained) /\ WF_vars(Count)

-----------------------------------------------------------------------------
(* Properties. *)

Frame == [kind : {"FILL", "ACK", "garbage"}, of : 1..Ticks]
Result == [tick : 1..Ticks, responses : Seq(Frame), err : BOOLEAN]
Verdict == [result : Result, correct : BOOLEAN]

TypeOK ==
  /\ run \in {"next", "reading", "emit", "abort", "returned", "failed"}
  /\ sent \in 0..Ticks /\ metrics \in [sent : 0..Ticks, timedOut : BOOLEAN]
  /\ expired \in BOOLEAN /\ alive \in BOOLEAN /\ strayed \in 0..Ticks
  /\ asked \in Seq(1..Ticks) /\ got \in Seq(Frame) /\ frames \in Seq(Frame)
  /\ closed \subseteq {"results", "verdicts"}
  /\ results \in Seq(Result) /\ judging \in Seq(Result) /\ Len(judging) <= 1
  /\ verdicts \in Seq(Verdict) /\ counted \in Seq(Verdict)

\* The caller has everything: Run has returned and the verdicts are drained.
Done == Returning /\ "verdicts" \in closed /\ verdicts = <<>>

Accepted == Done /\ run = "returned" /\ GateOpen

\* Every tick that counts as sent is judged exactly once and in the order of
\* the workload, whichever way Run ends, and no verdict is left behind: the
\* correctness rate has one verdict per tick of its denominator.
EverySentTickJudged ==
  /\ \A i \in DOMAIN counted : counted[i].result.tick = i
  /\ Done => Len(counted) = metrics.sent

\* The lockstep of the loop keeps answers apart: a result holds responses to its
\* own tick only, for every tick up to the first in whose answer a frame strayed.
\* The frames themselves do not say which tick they answer: a stray one, parsed or
\* not, is taken for (part of) the next answer, and shifts those that follow.
AnswersMatchTicks ==
  \A i \in DOMAIN results :
    Orderly \/ results[i].tick <= strayed =>
      \A j \in DOMAIN results[i].responses : results[i].responses[j].of = results[i].tick

\* A contestant that answers every tick in time is accepted with every tick
\* correct, whatever the interleaving of the three goroutines.
HonestScoresAll ==
  (Done /\ ~expired /\ alive /\ Orderly) =>
    Accepted /\ \A i \in DOMAIN counted : counted[i].correct

\* An accepted run has an answer to every tick but perhaps the last: the
\* comparison of TicksSent with the workload sees a contestant that died before
\* the last tick, and only then.
AcceptedMeansAnswered ==
  Accepted => \A i \in DOMAIN counted : i < Ticks => ~counted[i].result.err

\* The caller gets its result, at the latest when the deadline has passed: no
\* goroutine of the pipeline is left waiting on another.
RunEnds == <>Done
=============================================================================
