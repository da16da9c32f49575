-------------------------- MODULE ClosedLoop_proofs --------------------------
(***************************************************************************)
(* The closed-loop evaluation judges every tick once, keeps answers apart  *)
(* and gives an honest contestant its full score: for any workload, any    *)
(* sizes of the channels and any interleaving of the goroutines.           *)
(*                                                                         *)
(* The argument: counted verdicts, waiting verdicts, the result under      *)
(* judgement and waiting results, read one after the other, are the ticks  *)
(* of the workload in order (InOrder), as many as TicksSent says, but for  *)
(* the one that Run is about to emit (Tally); and without stray frames the *)
(* answer to the current tick is all there is on the connection (Lockstep),*)
(* up to and with the first tick that has one (Apart).                     *)
(*                                                                         *)
(* The run ends, too: every step leaves fewer to come (StepsLeft), and the *)
(* bounded channels never stop them all (NeverStuck).                      *)
(*                                                                         *)
(* How a tick is judged is the subject of the last part, about Validator.  *)
(***************************************************************************)
EXTENDS ClosedLoop, Validator, SumTheorems, SequenceTheorems

Before == Len(counted) + Len(verdicts)

\* Ticks in the pipeline behind Run, and out of it.
Emitteds == Before + Len(judging) + Len(results)

InOrder ==
  /\ \A i \in DOMAIN counted : counted[i].result.tick = i
  /\ \A i \in DOMAIN verdicts : verdicts[i].result.tick = Len(counted) + i
  /\ judging # <<>> => judging[1].tick = Before + 1
  /\ \A i \in DOMAIN results : results[i].tick = Before + Len(judging) + i

Tally ==
  /\ metrics.sent = IF run \in {"emit", "abort"} THEN Emitteds + 1 ELSE Emitteds
  /\ run \in {"next", "emit", "abort", "returned"} => sent = metrics.sent
  /\ run = "reading" => sent = metrics.sent + 1

Closing ==
  /\ "results" \in closed <=> Returning
  /\ "verdicts" \in closed => Returning /\ judging = <<>> /\ results = <<>>

\* Why Run ended.
Ending ==
  /\ run \in {"abort", "failed"} => expired \/ ~alive
  /\ run = "returned" => sent = Ticks \/ expired \/ ~alive

\* A result with an error is the last.
Last(r) == r.err => run = "returned" /\ r.tick = sent /\ (expired \/ ~alive)

LastErr ==
  /\ \A i \in DOMAIN results : Last(results[i])
  /\ judging # <<>> => Last(judging[1])
  /\ \A i \in DOMAIN verdicts : Last(verdicts[i].result)
  /\ \A i \in DOMAIN counted : Last(counted[i].result)

\* What Run has collected, and what it can still read.
Streams ==
  \/ got = <<>> /\ frames \in {<<>>, Fills(sent), Honest(sent)}
  \/ got = Fills(sent) /\ frames \in {<<>>, <<Terminal(sent)>>}
  \/ got = Honest(sent) /\ frames = <<>>

Lockstep ==
  Orderly =>
    /\ Streams
    /\ asked # <<>> => asked = <<sent>> /\ got = <<>> /\ frames = <<>>
    /\ run \in {"next", "emit"} => asked = <<>> /\ frames = <<>>
    /\ run = "emit" => got = Honest(sent)

\* From the first tick with a stray frame on, what can be read is about that tick
\* until the next one is sent.
Apart ==
  /\ strayed <= sent
  /\ (strayed # 0 /\ strayed = sent) =>
       /\ asked = <<>>
       /\ \A j \in DOMAIN got : got[j].of = sent
       /\ \A j \in DOMAIN frames : frames[j].of = sent

\* Up to the first stray frame, results are about their ticks.
Kept(r) ==
  Orderly \/ r.tick <= strayed => \A j \in DOMAIN r.responses : r.responses[j].of = r.tick

\* Without stray frames, results are right and verdicts say so.
Fair(r) == Kept(r) /\ (Orderly /\ ~r.err => Right(r.tick, r.responses))

RightAnswers ==
  /\ \A i \in DOMAIN results : Fair(results[i])
  /\ judging # <<>> => Fair(judging[1])
  /\ Orderly =>
       /\ \A i \in DOMAIN verdicts : ~verdicts[i].result.err => verdicts[i].correct
       /\ \A i \in DOMAIN counted : ~counted[i].result.err => counted[i].correct

IInv ==
  /\ TypeOK /\ InOrder /\ Tally /\ Closing /\ Ending /\ LastErr /\ Lockstep /\ Apart
  /\ RightAnswers

-----------------------------------------------------------------------------
(* Sequences and answers. *)

\* What Append does to a sequence.
LEMMA AppendFacts ==
  ASSUME NEW T, NEW s \in Seq(T), NEW x \in T
  PROVE  /\ Append(s, x) \in Seq(T)
         /\ Len(s) \in Nat /\ DOMAIN s = 1..Len(s)
         /\ Len(Append(s, x)) = Len(s) + 1 /\ DOMAIN Append(s, x) = 1..(Len(s) + 1)
         /\ \A i \in DOMAIN s : Append(s, x)[i] = s[i]
         /\ Append(s, x)[Len(s) + 1] = x
<1>1. Append(s, x) \in Seq(T) /\ Len(Append(s, x)) = Len(s) + 1
  BY AppendProperties
<1>2. DOMAIN s = 1..Len(s) /\ DOMAIN Append(s, x) = 1..(Len(s) + 1) /\ Len(s) \in Nat
  BY <1>1, LenProperties
<1>3. \A i \in 1..Len(s) : Append(s, x)[i] = s[i]
  BY <1>2, AppendProperties
<1>4. Append(s, x)[Len(s) + 1] = x
  BY AppendProperties
<1> QED
  BY <1>1, <1>2, <1>3, <1>4

\* What taking the first element of a sequence leaves.
LEMMA TailFacts ==
  ASSUME NEW T, NEW s \in Seq(T), s # <<>>
  PROVE  /\ Tail(s) \in Seq(T) /\ Head(s) \in T /\ Head(s) = s[1]
         /\ Len(s) \in Nat /\ Len(s) >= 1 /\ Len(Tail(s)) = Len(s) - 1
         /\ DOMAIN s = 1..Len(s) /\ DOMAIN Tail(s) = 1..(Len(s) - 1)
         /\ \A i \in 1..(Len(s) - 1) : Tail(s)[i] = s[i + 1]
<1>1. /\ Tail(s) \in Seq(T) /\ Head(s) \in T
      /\ Len(Tail(s)) = Len(s) - 1 /\ Len(s) \in Nat
  BY HeadTailProperties, LenProperties
<1>2. Head(s) = s[1] /\ Len(s) # 0
  BY EmptySeq, HeadTailProperties
<1>3. DOMAIN s = 1..Len(s) /\ DOMAIN Tail(s) = 1..Len(s) - 1
  BY <1>1, LenProperties
<1>4. \A i \in 1..Len(s) - 1 : Tail(s)[i] = s[i + 1]
  BY <1>1, HeadTailProperties
<1> QED
  BY <1>1, <1>2, <1>3, <1>4

\* Honest answers, written out.
LEMMA AnswerFacts ==
  ASSUME NEW tick
  PROVE  /\ Filled(tick) => /\ Fills(tick) = <<[kind |-> "FILL", of |-> tick]>>
                            /\ Honest(tick) = <<[kind |-> "FILL", of |-> tick], Terminal(tick)>>
         /\ ~Filled(tick) => Fills(tick) = <<>> /\ Honest(tick) = <<Terminal(tick)>>
         /\ Terminal(tick).kind = "ACK" /\ Terminal(tick).of = tick
<1>1. /\ Filled(tick) => Fills(tick) = <<[kind |-> "FILL", of |-> tick]>>
      /\ ~Filled(tick) => Fills(tick) = <<>>
  BY DEF Fills, Fill
<1>2. ASSUME NEW f, NEW t PROVE Append(<<f>>, t) = <<f, t>> /\ Append(<<>>, t) = <<t>>
  <2>1. <<f>> \in Seq({f, t}) /\ <<>> \in Seq({f, t}) /\ t \in {f, t}
    OBVIOUS
  <2>2. Append(<<f>>, t) = <<f, t>>
    <3>1. /\ Append(<<f>>, t) \in Seq({f, t}) /\ Len(Append(<<f>>, t)) = 2
          /\ Append(<<f>>, t)[1] = f /\ Append(<<f>>, t)[2] = t
      BY <2>1, AppendFacts
    <3>2. <<f, t>> \in Seq({f, t}) /\ Len(<<f, t>>) = 2
      OBVIOUS
    <3>3. \A i \in 1..Len(Append(<<f>>, t)) : Append(<<f>>, t)[i] = <<f, t>>[i]
      BY <3>1
    <3> QED
      BY <3>1, <3>2, <3>3, SeqEqual
  <2>3. Append(<<>>, t) = <<t>>
    BY <2>1
  <2> QED
    BY <2>2, <2>3
<1>3. Terminal(tick).kind = "ACK" /\ Terminal(tick).of = tick
  BY DEF Terminal
<1> QED
  BY <1>1, <1>2, <1>3 DEF Honest

\* The answers are frames.
LEMMA AnswerTypes ==
  ASSUME NEW tick \in 1..Ticks
  PROVE  /\ Fills(tick) \in Seq(Frame) /\ Honest(tick) \in Seq(Frame)
         /\ Terminal(tick) \in Frame /\ Garbage(tick) \in Frame
<1>1. Terminal(tick) \in Frame /\ Garbage(tick) \in Frame
  BY DEF Terminal, Garbage, Frame
<1>2. [kind |-> "FILL", of |-> tick] \in Frame
  BY DEF Frame
<1>3. Fills(tick) \in Seq(Frame)
  BY <1>2 DEF Fills, Fill
<1>4. Honest(tick) \in Seq(Frame)
  BY <1>1, <1>3, AppendFacts DEF Honest
<1> QED
  BY <1>1, <1>3, <1>4

\* An honest answer is right, and all of it is about the tick.
LEMMA HonestIsRight ==
  ASSUME NEW tick
  PROVE  /\ Right(tick, Honest(tick))
         /\ \A j \in DOMAIN Honest(tick) : Honest(tick)[j].of = tick
         /\ \A j \in DOMAIN Fills(tick) : Fills(tick)[j].of = tick
<1>1. CASE Filled(tick)
  <2>1. /\ Fills(tick) = <<[kind |-> "FILL", of |-> tick]>>
        /\ Honest(tick) = <<[kind |-> "FILL", of |-> tick], Terminal(tick)>>
        /\ Terminal(tick).kind = "ACK" /\ Terminal(tick).of = tick
    BY <1>1, AnswerFacts
  <2>2. /\ DOMAIN Honest(tick) = {1, 2} /\ DOMAIN Fills(tick) = {1}
        /\ Honest(tick)[1] = [kind |-> "FILL", of |-> tick] /\ Honest(tick)[2] = Terminal(tick)
        /\ Fills(tick)[1] = [kind |-> "FILL", of |-> tick]
    BY <2>1
  <2>3. {j \in DOMAIN Honest(tick) : Honest(tick)[j].kind = "FILL"} = {1}
    BY <2>1, <2>2
  <2> QED
    BY <1>1, <2>1, <2>2, <2>3 DEF Right
<1>2. CASE ~Filled(tick)
  <2>1. /\ Fills(tick) = <<>> /\ Honest(tick) = <<Terminal(tick)>>
        /\ Terminal(tick).kind = "ACK" /\ Terminal(tick).of = tick
    BY <1>2, AnswerFacts
  <2>2. DOMAIN Honest(tick) = {1} /\ DOMAIN Fills(tick) = {} /\ Honest(tick)[1] = Terminal(tick)
    BY <2>1
  <2>3. {j \in DOMAIN Honest(tick) : Honest(tick)[j].kind = "FILL"} = {}
    BY <2>1, <2>2
  <2> QED
    BY <1>2, <2>1, <2>2, <2>3 DEF Right
<1> QED
  BY <1>1, <1>2

\* Reading the next frame of an honest answer.
LEMMA StreamStep ==
  ASSUME Streams, frames # <<>>
  PROVE  LET frame == Head(frames)
             more == Append(got, frame)
         IN /\ frame.kind \in {"FILL", "ACK"}
            /\ frame.kind = "FILL" => /\ more = Fills(sent)
                                      /\ Tail(frames) \in {<<>>, <<Terminal(sent)>>}
            /\ frame.kind = "ACK" => more = Honest(sent) /\ Tail(frames) = <<>>
<1>1. CASE Filled(sent)
  <2>1. /\ Fills(sent) = <<[kind |-> "FILL", of |-> sent]>>
        /\ Honest(sent) = <<[kind |-> "FILL", of |-> sent], Terminal(sent)>>
        /\ Terminal(sent).kind = "ACK"
    BY <1>1, AnswerFacts
  <2>2. CASE got = <<>> /\ frames = Fills(sent)
    BY <2>1, <2>2
  <2>3. CASE got = <<>> /\ frames = Honest(sent)
    BY <2>1, <2>3
  <2>4. CASE got = Fills(sent) /\ frames = <<Terminal(sent)>>
    <3>1. Head(frames) = Terminal(sent) /\ Tail(frames) = <<>>
      BY <2>4
    <3>2. Append(got, Terminal(sent)) = Honest(sent)
      BY <2>4 DEF Honest
    <3> QED
      BY <2>1, <3>1, <3>2
  <2> QED
    BY <2>2, <2>3, <2>4 DEF Streams
<1>2. CASE ~Filled(sent)
  <2>1. Fills(sent) = <<>> /\ Honest(sent) = <<Terminal(sent)>> /\ Terminal(sent).kind = "ACK"
    BY <1>2, AnswerFacts
  <2>2. got = <<>> /\ frames = <<Terminal(sent)>>
    BY <2>1 DEF Streams
  <2> QED
    BY <2>1, <2>2
<1> QED
  BY <1>1, <1>2

-----------------------------------------------------------------------------
(* Steps that leave the results behind Run alone. *)

pipeline == <<results, judging, verdicts, counted>>

\* What is in the pipeline stays in order, blameless and right.
LEMMA PipelineStays ==
  ASSUME IInv, UNCHANGED pipeline,
         \/ run # "returned"
         \/ run' = run /\ sent' = sent /\ (expired => expired') /\ (alive' => alive),
         Orderly \/ strayed' = strayed
  PROVE  /\ InOrder' /\ LastErr' /\ RightAnswers'
         /\ Emitteds' = Emitteds /\ Emitteds \in Nat
<1> USE DEF IInv, pipeline
<1>1. InOrder'
  BY DEF InOrder, Before
<1>2. LastErr'
  <2>1. \A r : Last(r) => Last(r)'
    BY DEF Last
  <2> QED
    BY <2>1 DEF LastErr
<1>3. RightAnswers'
  <2>1. CASE strayed' = strayed
    <3>1. Orderly' = Orderly /\ \A r : Fair(r)' = Fair(r)
      BY <2>1 DEF Fair, Kept, Orderly
    <3> QED
      BY <3>1 DEF RightAnswers
  <2>2. CASE Orderly /\ ~Orderly'
    <3>1. \A r : Fair(r) => Fair(r)'
      BY <2>2 DEF Fair, Kept
    <3> QED
      BY <2>2, <3>1 DEF RightAnswers
  <2> QED
    BY <2>1, <2>2 DEF Orderly
<1>4. Emitteds' = Emitteds
  BY DEF Emitteds, Before
<1>5. Emitteds \in Nat
  BY LenProperties DEF TypeOK, Emitteds, Before
<1> QED
  BY <1>1, <1>2, <1>3, <1>4, <1>5

\* A tick is sent.
LEMMA SendStep ==
  ASSUME IInv, Send
  PROVE  IInv'
<1> USE DEF IInv
<1>1. /\ run = "next" /\ sent < Ticks /\ sent' = sent + 1 /\ asked' = Append(asked, sent + 1)
      /\ got' = <<>> /\ run' = "reading"
      /\ UNCHANGED <<metrics, expired, frames, alive, strayed, results, closed, judging, verdicts,
                     counted>>
  BY DEF Send, consumer
<1>2. sent \in Nat /\ sent' \in 0..Ticks /\ sent + 1 \in 1..Ticks /\ Ticks \in Nat
  BY <1>1, SizesAssumption DEF TypeOK
<1>3. asked' \in Seq(1..Ticks)
  BY <1>1, <1>2, AppendFacts DEF TypeOK
<1>4. TypeOK'
  BY <1>1, <1>2, <1>3, EmptySeq DEF TypeOK
<1>5. InOrder' /\ LastErr' /\ RightAnswers' /\ Emitteds' = Emitteds /\ Emitteds \in Nat
  BY <1>1, PipelineStays DEF pipeline
<1>6. Tally'
  BY <1>1, <1>5 DEF Tally
<1>7. Closing' /\ Ending'
  BY <1>1 DEF Closing, Ending, Returning
<1>8. Lockstep'
  <2>1. SUFFICES ASSUME Orderly PROVE Lockstep'
    BY <1>1 DEF Lockstep, Orderly
  <2>2. asked' = <<sent'>> /\ frames' = <<>> /\ got' = <<>>
    BY <1>1, <2>1 DEF Lockstep
  <2> QED
    BY <1>1, <2>2 DEF Lockstep, Streams, Orderly
<1>9. Apart'
  BY <1>1, <1>2, SizesAssumption DEF Apart, TypeOK
<1> QED
  BY <1>4, <1>5, <1>6, <1>7, <1>8, <1>9

\* A tick is sent to a contestant that has closed the connection.
LEMMA SendToTheDeadStep ==
  ASSUME IInv, SendToTheDead
  PROVE  IInv'
<1> USE DEF IInv
<1>1. /\ run = "next" /\ sent < Ticks /\ sent' = sent + 1 /\ ~alive
      /\ got' = <<>>
      /\ \/ run' = "reading" /\ closed' = closed
         \/ run' = "failed" /\ closed' = closed \cup {"results"}
      /\ UNCHANGED <<metrics, expired, asked, frames, alive, strayed, results, judging, verdicts,
                     counted>>
  BY DEF SendToTheDead, consumer, contestant, Leave
<1>2. sent \in Nat /\ sent' \in 0..Ticks /\ Ticks \in Nat
  BY <1>1, SizesAssumption DEF TypeOK
<1>3. TypeOK'
  BY <1>1, <1>2, EmptySeq DEF TypeOK
<1>4. InOrder' /\ LastErr' /\ RightAnswers' /\ Emitteds' = Emitteds /\ Emitteds \in Nat
  BY <1>1, PipelineStays DEF pipeline
<1>5. Tally'
  BY <1>1, <1>4 DEF Tally
<1>6. Closing' /\ Ending'
  BY <1>1 DEF Closing, Ending, Returning
<1>7. Lockstep'
  BY <1>1 DEF Lockstep, Streams, Orderly
<1>8. Apart'
  BY <1>1, <1>2, SizesAssumption DEF Apart, TypeOK
<1> QED
  BY <1>3, <1>4, <1>5, <1>6, <1>7, <1>8

\* Run ends between two ticks.
LEMMA LeaveStep ==
  ASSUME IInv, TimedOut \/ AllSent
  PROVE  IInv'
<1> USE DEF IInv
<1>1. /\ run = "next" /\ closed' = closed \cup {"results"}
      /\ \/ run' = "failed" /\ expired
         \/ run' = "returned" /\ sent = Ticks
      /\ metrics'.sent = metrics.sent
      /\ metrics' \in [sent : 0..Ticks, timedOut : BOOLEAN]
      /\ UNCHANGED <<sent, got, expired, asked, frames, alive, strayed, results, judging, verdicts,
                     counted>>
  <2>1. metrics' = metrics \/ metrics' = [metrics EXCEPT !.timedOut = TRUE]
    BY DEF TimedOut, AllSent
  <2>2. metrics' \in [sent : 0..Ticks, timedOut : BOOLEAN] /\ metrics'.sent = metrics.sent
    BY <2>1 DEF TypeOK
  <2> QED
    BY <2>2 DEF TimedOut, AllSent, Leave, contestant, consumer
<1>2. TypeOK'
  BY <1>1 DEF TypeOK
<1>3. InOrder' /\ LastErr' /\ RightAnswers' /\ Emitteds' = Emitteds /\ Emitteds \in Nat
  BY <1>1, PipelineStays DEF pipeline
<1>4. Tally'
  BY <1>1, <1>3 DEF Tally
<1>5. Closing' /\ Ending'
  BY <1>1 DEF Closing, Ending, Returning
<1>6. Lockstep'
  BY <1>1 DEF Lockstep, Streams, Orderly
<1>7. Apart'
  BY <1>1 DEF Apart
<1> QED
  BY <1>2, <1>3, <1>4, <1>5, <1>6, <1>7

\* TicksSent counts the tick in hand.
LEMMA CountedFacts ==
  ASSUME IInv, run = "reading", Counted
  PROVE  /\ metrics' \in [sent : 0..Ticks, timedOut : BOOLEAN]
         /\ metrics'.sent = metrics.sent + 1 /\ metrics'.sent = sent
<1>1. /\ metrics' = [metrics EXCEPT !.sent = @ + 1]
      /\ metrics \in [sent : 0..Ticks, timedOut : BOOLEAN] /\ sent \in 0..Ticks
      /\ sent = metrics.sent + 1
  BY DEF Counted, IInv, TypeOK, Tally
<1> QED
  BY <1>1

\* Run reads a frame.
LEMMA ReadFrameStep ==
  ASSUME IInv, ReadFrame
  PROVE  IInv'
<1> USE DEF IInv
<1> DEFINE frame == Head(frames)
<1>1. /\ run = "reading" /\ frames # <<>> /\ frames' = Tail(frames)
      /\ got' = IF frame.kind = "garbage" THEN got ELSE Append(got, frame)
      /\ IF frame.kind # "FILL" THEN Counted /\ run' = "emit" ELSE metrics' = metrics /\ run' = run
      /\ UNCHANGED <<sent, expired, asked, alive, strayed, results, closed, judging, verdicts,
                     counted>>
  BY DEF ReadFrame, Collected, EndsAnswer, consumer
<1>2. frame \in Frame /\ frames' \in Seq(Frame)
  BY <1>1, TailFacts DEF TypeOK
<1>3. got' \in Seq(Frame)
  BY <1>1, <1>2, AppendFacts DEF TypeOK
<1> HIDE DEF frame
<1>4. TypeOK'
  BY <1>1, <1>2, <1>3, CountedFacts DEF TypeOK
<1>5. InOrder' /\ LastErr' /\ RightAnswers' /\ Emitteds' = Emitteds /\ Emitteds \in Nat
  BY <1>1, PipelineStays DEF pipeline
<1>6. Tally'
  BY <1>1, <1>5, CountedFacts DEF Tally
<1>7. Closing' /\ Ending'
  BY <1>1 DEF Closing, Ending, Returning
<1>8. Lockstep'
  <2>1. SUFFICES ASSUME Orderly PROVE Lockstep'
    BY <1>1 DEF Lockstep, Orderly
  <2>2. /\ frame.kind \in {"FILL", "ACK"}
        /\ frame.kind = "FILL" => /\ Append(got, frame) = Fills(sent)
                                  /\ frames' \in {<<>>, <<Terminal(sent)>>}
        /\ frame.kind = "ACK" => Append(got, frame) = Honest(sent) /\ frames' = <<>>
    BY <1>1, <2>1, StreamStep DEF Lockstep, frame
  <2>3. asked = <<>> /\ asked' = <<>>
    BY <1>1, <2>1 DEF Lockstep
  <2>4. CASE frame.kind = "FILL"
    BY <1>1, <2>2, <2>3, <2>4 DEF Lockstep, Streams, Orderly
  <2>5. CASE frame.kind = "ACK"
    BY <1>1, <2>2, <2>3, <2>5 DEF Lockstep, Streams, Orderly
  <2> QED
    BY <2>2, <2>4, <2>5
<1>9. Apart'
  <2>1. SUFFICES ASSUME strayed # 0, strayed = sent
                 PROVE  /\ asked = <<>>
                        /\ \A j \in DOMAIN got' : got'[j].of = sent
                        /\ \A j \in DOMAIN frames' : frames'[j].of = sent
    BY <1>1 DEF Apart
  <2>2. /\ asked = <<>>
        /\ \A j \in DOMAIN got : got[j].of = sent
        /\ \A j \in DOMAIN frames : frames[j].of = sent
    BY <2>1 DEF Apart
  <2>3. /\ frame = frames[1] /\ Len(frames) \in Nat /\ Len(frames) >= 1
        /\ DOMAIN frames = 1..Len(frames) /\ DOMAIN frames' = 1..(Len(frames) - 1)
        /\ \A i \in 1..(Len(frames) - 1) : frames'[i] = frames[i + 1]
    BY <1>1, TailFacts DEF TypeOK, frame
  <2>4. frame.of = sent
    BY <2>2, <2>3
  <2>5. \A j \in DOMAIN frames' : frames'[j].of = sent
    BY <2>2, <2>3
  <2>6. /\ Len(got) \in Nat /\ DOMAIN got = 1..Len(got)
        /\ DOMAIN Append(got, frame) = 1..(Len(got) + 1)
        /\ \A i \in DOMAIN got : Append(got, frame)[i] = got[i]
        /\ Append(got, frame)[Len(got) + 1] = frame
    BY <1>2, AppendFacts DEF TypeOK
  <2>7. \A j \in DOMAIN Append(got, frame) : Append(got, frame)[j].of = sent
    BY <2>2, <2>4, <2>6
  <2> QED
    BY <1>1, <2>2, <2>5, <2>7
<1> QED
  BY <1>4, <1>5, <1>6, <1>7, <1>8, <1>9

\* Run cannot read on.
LEMMA ReadErrorStep ==
  ASSUME IInv, ReadError
  PROVE  IInv'
<1> USE DEF IInv
<1>1. /\ run = "reading" /\ Counted /\ run' = "abort" /\ (expired \/ ~alive)
      /\ UNCHANGED <<sent, got, expired, asked, frames, alive, strayed, results, closed, judging,
                     verdicts, counted>>
  BY DEF ReadError, contestant, consumer
<1>2. TypeOK'
  BY <1>1, CountedFacts DEF TypeOK
<1>3. InOrder' /\ LastErr' /\ RightAnswers' /\ Emitteds' = Emitteds /\ Emitteds \in Nat
  BY <1>1, PipelineStays DEF pipeline
<1>4. Tally'
  BY <1>1, <1>3, CountedFacts DEF Tally
<1>5. Closing' /\ Ending'
  BY <1>1 DEF Closing, Ending, Returning
<1>6. Lockstep'
  BY <1>1 DEF Lockstep, Streams, Orderly
<1>7. Apart'
  BY <1>1 DEF Apart
<1> QED
  BY <1>2, <1>3, <1>4, <1>5, <1>6, <1>7

\* The deadline passes.
LEMMA ExpireStep ==
  ASSUME IInv, Expire
  PROVE  IInv'
<1> USE DEF IInv
<1>1. /\ expired' = TRUE
      /\ UNCHANGED <<run, sent, got, metrics, asked, frames, alive, strayed, results, closed,
                     judging, verdicts, counted>>
  BY DEF Expire, runner, contestant, consumer
<1>2. TypeOK'
  BY <1>1 DEF TypeOK
<1>3. InOrder' /\ LastErr' /\ RightAnswers' /\ Emitteds' = Emitteds /\ Emitteds \in Nat
  BY <1>1, PipelineStays DEF pipeline
<1>4. Tally' /\ Closing' /\ Ending' /\ Lockstep' /\ Apart'
  BY <1>1, <1>3 DEF Tally, Closing, Ending, Apart, Lockstep, Streams, Orderly, Returning
<1> QED
  BY <1>2, <1>3, <1>4

\* What a contestant may send for a tick is about the tick, and not long.
LEMMA ReplyTypes ==
  ASSUME NEW tick \in 1..Ticks, NEW f \in Frame, f.of = tick, NEW reply,
         reply \in {<<>>, Fills(tick), Honest(tick), Append(Fills(tick), f),
                   <<f>> \o Honest(tick), Append(Honest(tick), f)}
  PROVE  /\ reply \in Seq(Frame) /\ Len(reply) \in 0..3
         /\ \A j \in DOMAIN reply : reply[j].of = tick
<1> DEFINE Own == {x \in Frame : x.of = tick}
<1>1. f \in Own /\ Terminal(tick) \in Own /\ Fill(tick) \in Own
  BY DEF Terminal, Fill, Frame
<1> HIDE DEF Own
<1>2. <<>> \in Seq(Own) /\ Len(<<>>) = 0 /\ <<f>> \in Seq(Own) /\ Len(<<f>>) = 1
  BY <1>1
<1>3. Fills(tick) \in Seq(Own) /\ Len(Fills(tick)) \in 0..1
  BY <1>1 DEF Fills
<1>4. ASSUME NEW x \in Own
      PROVE  Append(Fills(tick), x) \in Seq(Own) /\ Len(Append(Fills(tick), x)) \in 1..2
  <2>1. /\ Append(Fills(tick), x) \in Seq(Own)
        /\ Len(Append(Fills(tick), x)) = Len(Fills(tick)) + 1
    BY <1>3, AppendFacts
  <2>2. \A n, m : n \in 0..1 /\ m = n + 1 => m \in 1..2
    OBVIOUS
  <2> QED
    BY <1>3, <2>1, <2>2, Zenon
<1>5. Honest(tick) \in Seq(Own) /\ Len(Honest(tick)) \in 1..2
  BY <1>1, <1>4 DEF Honest
<1>6. Append(Honest(tick), f) \in Seq(Own) /\ Len(Append(Honest(tick), f)) \in 2..3
  BY <1>1, <1>5, AppendFacts
<1>7. <<f>> \o Honest(tick) \in Seq(Own) /\ Len(<<f>> \o Honest(tick)) = 1 + Len(Honest(tick))
  BY <1>2, <1>5, ConcatProperties
<1>8. Len(<<f>> \o Honest(tick)) \in 2..3
  <2>1. \A n, m : n \in 1..2 /\ m = 1 + n => m \in 2..3
    OBVIOUS
  <2> QED
    BY <1>5, <1>7, <2>1, Zenon
<1>9. reply \in Seq(Own) /\ Len(reply) \in 0..3
  <2>1. \A n : n \in 0..1 \/ n \in 1..2 \/ n \in 2..3 \/ n = 0 => n \in 0..3
    OBVIOUS
  <2>2. CASE reply = <<>>
    BY <1>2, <2>1, <2>2, Zenon
  <2>3. CASE reply = Fills(tick)
    BY <1>3, <2>1, <2>3, Zenon
  <2>4. CASE reply = Honest(tick)
    BY <1>5, <2>1, <2>4, Zenon
  <2>5. CASE reply = Append(Fills(tick), f)
    BY <1>1, <1>4, <2>1, <2>5, Zenon
  <2>6. CASE reply = <<f>> \o Honest(tick)
    BY <1>7, <1>8, <2>1, <2>6, Zenon
  <2>7. CASE reply = Append(Honest(tick), f)
    BY <1>6, <2>1, <2>7, Zenon
  <2> QED
    BY <2>2, <2>3, <2>4, <2>5, <2>6, <2>7
<1>10. \A j \in DOMAIN reply : reply[j] \in Own
  BY <1>9, ElementOfSeq, LenProperties
<1>11. reply \in Seq(Frame)
  <2>1. \A j \in 1..Len(reply) : reply[j] \in Frame
    BY <1>9, <1>10, LenProperties DEF Own
  <2> QED
    BY <1>9, <2>1, LenProperties, SeqDef
<1> QED
  BY <1>9, <1>10, <1>11 DEF Own

\* What a step of the contestant does to the connection.
LEMMA ReplyFacts ==
  ASSUME IInv, Contestant
  PROVE  LET tick == Head(asked) IN
         /\ asked # <<>> /\ asked' = Tail(asked) /\ tick \in 1..Ticks
         /\ UNCHANGED <<runner, expired, results, closed, consumer, counted>>
         /\ alive' \in BOOLEAN /\ (alive' => alive)
         /\ \E reply \in Seq(Frame) :
              /\ frames' = frames \o reply /\ Len(reply) \in 0..3
              /\ \A j \in DOMAIN reply : reply[j].of = tick
              /\ \/ strayed' = strayed /\ reply \in {<<>>, Fills(tick), Honest(tick)}
                 \/ Strayed(tick)
<1> DEFINE tick == Head(asked)
<1>1. asked # <<>> /\ alive
  BY DEF Contestant, Answer, Garbled, Extra, Silence, Die, Replies
<1>2. asked \in Seq(1..Ticks) /\ tick \in 1..Ticks /\ alive \in BOOLEAN
  BY <1>1, TailFacts DEF IInv, TypeOK
<1> DEFINE Sent(f, reply) ==
      /\ f \in {Garbage(tick), Terminal(tick), Fill(tick)}
      /\ reply \in {<<>>, Fills(tick), Honest(tick), Append(Fills(tick), f),
                    <<f>> \o Honest(tick), Append(Honest(tick), f)}
      /\ Replies(reply)
      /\ alive' = alive \/ alive' = FALSE
      /\ \/ strayed' = strayed /\ reply \in {<<>>, Fills(tick), Honest(tick)}
         \/ Strayed(tick)
<1>3. \E f, reply : Sent(f, reply)
  <2>1. CASE Answer
    <3>1. Sent(Garbage(tick), Honest(tick))
      BY <2>1 DEF Answer
    <3> HIDE DEF Sent
    <3> QED
      BY <3>1
  <2>2. CASE Garbled
    <3>1. Sent(Garbage(tick), Append(Fills(tick), Garbage(tick)))
      BY <2>2 DEF Garbled
    <3> HIDE DEF Sent
    <3> QED
      BY <3>1
  <2>3. CASE Extra
    <3>1. PICK f \in Strays(tick) : Replies(<<f>> \o Honest(tick)) \/ Replies(Append(Honest(tick), f))
      BY <2>3 DEF Extra
    <3>2. /\ f \in {Garbage(tick), Terminal(tick), Fill(tick)}
          /\ alive' = alive /\ Strayed(tick)
      BY <2>3, <3>1 DEF Extra, Strays
    <3>3. Sent(f, <<f>> \o Honest(tick)) \/ Sent(f, Append(Honest(tick), f))
      BY <3>1, <3>2
    <3> HIDE DEF Sent
    <3> QED
      BY <3>3
  <2>4. CASE Silence
    <3>1. Sent(Garbage(tick), <<>>)
      BY <2>4 DEF Silence
    <3> HIDE DEF Sent
    <3> QED
      BY <3>1
  <2>5. CASE Die
    <3>1. Sent(Garbage(tick), Fills(tick)) \/ Sent(Garbage(tick), <<>>)
      BY <2>5 DEF Die
    <3> HIDE DEF Sent
    <3> QED
      BY <3>1
  <2> HIDE DEF Sent
  <2> QED
    BY <2>1, <2>2, <2>3, <2>4, <2>5 DEF Contestant
<1> PICK f, reply : Sent(f, reply)
  BY <1>3
<1>4. /\ f \in {Garbage(tick), Terminal(tick), Fill(tick)}
      /\ reply \in {<<>>, Fills(tick), Honest(tick), Append(Fills(tick), f),
                    <<f>> \o Honest(tick), Append(Honest(tick), f)}
      /\ Replies(reply)
      /\ alive' = alive \/ alive' = FALSE
      /\ \/ strayed' = strayed /\ reply \in {<<>>, Fills(tick), Honest(tick)}
         \/ Strayed(tick)
  OBVIOUS
<1> HIDE DEF Sent, tick
<1>5. f \in Frame /\ f.of = tick
  BY <1>2, <1>4 DEF Frame, Garbage, Terminal, Fill
<1>6. /\ reply \in Seq(Frame) /\ Len(reply) \in 0..3
      /\ \A j \in DOMAIN reply : reply[j].of = tick
  <2>1. reply \in {<<>>, Fills(tick), Honest(tick), Append(Fills(tick), f),
                   <<f>> \o Honest(tick), Append(Honest(tick), f)}
    BY <1>4
  <2> QED
    BY <1>2, <1>5, <2>1, ReplyTypes
<1>7. /\ frames' = frames \o reply /\ asked' = Tail(asked)
      /\ UNCHANGED <<runner, expired, results, closed, consumer, counted>>
  BY <1>4 DEF Replies
<1>8. alive' \in BOOLEAN /\ (alive' => alive)
  BY <1>1, <1>2, <1>4
<1>9. \E r \in Seq(Frame) :
        /\ frames' = frames \o r /\ Len(r) \in 0..3
        /\ \A j \in DOMAIN r : r[j].of = tick
        /\ \/ strayed' = strayed /\ r \in {<<>>, Fills(tick), Honest(tick)}
           \/ Strayed(tick)
  BY <1>4, <1>6, <1>7, Zenon
<1> QED
  BY <1>1, <1>2, <1>7, <1>8, <1>9 DEF tick

\* The contestant answers, or one of its faults shows.
LEMMA ContestantStep ==
  ASSUME IInv, Contestant
  PROVE  IInv'
<1> USE DEF IInv
<1> DEFINE tick == Head(asked)
<1>1. /\ asked # <<>> /\ asked' = Tail(asked) /\ tick \in 1..Ticks
      /\ UNCHANGED <<run, sent, got, metrics, expired, results, closed, judging, verdicts, counted>>
      /\ alive' \in BOOLEAN /\ (alive' => alive)
  BY ReplyFacts DEF runner, consumer
<1>2. asked' \in Seq(1..Ticks)
  BY <1>1, TailFacts DEF TypeOK
<1>3. PICK reply \in Seq(Frame) :
        /\ frames' = frames \o reply
        /\ \A j \in DOMAIN reply : reply[j].of = tick
        /\ \/ strayed' = strayed /\ reply \in {<<>>, Fills(tick), Honest(tick)}
           \/ Strayed(tick)
  BY ReplyFacts
<1> HIDE DEF tick
<1>4. /\ frames' \in Seq(Frame) /\ strayed' \in 0..Ticks
      /\ strayed' = strayed \/ (Orderly /\ strayed' = tick)
  BY <1>1, <1>3, ConcatProperties DEF TypeOK, Strayed
<1>5. TypeOK'
  BY <1>1, <1>2, <1>4 DEF TypeOK
<1>6. InOrder' /\ LastErr' /\ RightAnswers' /\ Emitteds' = Emitteds /\ Emitteds \in Nat
  BY <1>1, <1>4, PipelineStays DEF pipeline
<1>7. Tally' /\ Closing' /\ Ending'
  BY <1>1, <1>6 DEF Tally, Closing, Ending, Returning
<1>8. Orderly => /\ asked = <<sent>> /\ got = <<>> /\ frames = <<>> /\ run \notin {"next", "emit"}
                 /\ tick = sent /\ asked' = <<>> /\ frames' = reply
  <2>1. SUFFICES ASSUME Orderly
                 PROVE  /\ asked = <<sent>> /\ got = <<>> /\ frames = <<>>
                        /\ run \notin {"next", "emit"}
                        /\ tick = sent /\ asked' = <<>> /\ frames' = reply
    OBVIOUS
  <2>2. asked = <<sent>> /\ got = <<>> /\ frames = <<>> /\ run \notin {"next", "emit"}
    BY <1>1, <2>1 DEF Lockstep
  <2>3. tick = sent /\ asked' = <<>>
    BY <1>1, <2>2 DEF tick
  <2>4. frames' = reply
    BY <1>3, <2>2, ConcatEmptySeq
  <2> QED
    BY <2>2, <2>3, <2>4
<1>9. Lockstep'
  <2>1. SUFFICES ASSUME Orderly' PROVE Lockstep'
    BY DEF Lockstep
  <2>2. Orderly /\ strayed' = strayed /\ tick # 0
    BY <1>1, <1>4, <2>1 DEF Orderly
  <2>3. reply \in {<<>>, Fills(tick), Honest(tick)}
    BY <1>3, <2>2 DEF Strayed, Orderly
  <2> QED
    BY <1>1, <1>8, <2>2, <2>3 DEF Lockstep, Streams
<1>10. Apart'
  <2>1. CASE Orderly /\ strayed' = tick
    <3>1. /\ sent' = sent /\ strayed' = sent /\ asked' = <<>> /\ got' = <<>> /\ frames' = reply
          /\ \A j \in DOMAIN reply : reply[j].of = sent
      BY <1>1, <1>3, <1>8, <2>1
    <3>2. sent <= sent /\ DOMAIN (<<>>) = {}
      BY DEF TypeOK
    <3> QED
      BY <3>1, <3>2 DEF Apart
  <2>2. CASE strayed' = strayed
    BY <1>1, <2>2 DEF Apart
  <2> QED
    BY <1>4, <2>1, <2>2
<1> QED
  BY <1>5, <1>6, <1>7, <1>9, <1>10

-----------------------------------------------------------------------------
(* Steps of the pipeline. *)

\* A result for the tick in hand joins the others.
LEMMA EmittedFacts ==
  ASSUME IInv, NEW err \in BOOLEAN, Emitted(err), run \in {"emit", "abort"},
         UNCHANGED <<sent, judging, verdicts, counted, expired, alive, strayed>>,
         err => run' = "returned" /\ (expired \/ ~alive),
         ~err => run = "emit"
  PROVE  /\ results' \in Seq(Result) /\ InOrder' /\ LastErr' /\ RightAnswers'
         /\ Emitteds' = Emitteds + 1 /\ Emitteds \in Nat
<1> USE DEF IInv
<1> DEFINE r == [tick |-> sent, responses |-> got, err |-> err]
<1>1. results' = Append(results, r)
  BY DEF Emitted
<1>2. sent = Emitteds + 1 /\ sent \in 1..Ticks
  <2>1. Emitteds \in Nat
    BY LenProperties DEF TypeOK, Emitteds, Before
  <2> QED
    BY <2>1 DEF Tally, TypeOK
<1>3. r \in Result
  BY <1>2 DEF Result, TypeOK
<1>4. r.tick = sent /\ r.responses = got /\ r.err = err
  OBVIOUS
<1> HIDE DEF r
<1>5. /\ results' \in Seq(Result) /\ Len(results) \in Nat /\ DOMAIN results = 1..Len(results)
      /\ Len(results') = Len(results) + 1 /\ DOMAIN results' = 1..(Len(results) + 1)
      /\ \A i \in DOMAIN results : results'[i] = results[i]
      /\ results'[Len(results) + 1] = r
  BY <1>1, <1>3, AppendFacts DEF TypeOK
<1>6. /\ Len(counted) \in Nat /\ Len(verdicts) \in Nat /\ Len(judging) \in Nat
  BY LenProperties DEF TypeOK
<1>7. Emitteds' = Emitteds + 1 /\ Emitteds \in Nat
  BY <1>5, <1>6 DEF Emitteds, Before
<1>8. InOrder'
  <2>1. ASSUME NEW i \in DOMAIN results'
        PROVE  results'[i].tick = Before + Len(judging) + i
    <3>1. CASE i \in DOMAIN results
      BY <1>5, <3>1 DEF InOrder
    <3>2. CASE i = Len(results) + 1
      BY <1>2, <1>4, <1>5, <1>6, <3>2 DEF Emitteds, Before
    <3> QED
      BY <1>5, <3>1, <3>2
  <2> QED
    BY <2>1 DEF InOrder, Before
<1>9. LastErr'
  <2>1. \A q : ~q.err => Last(q)'
    BY DEF Last
  <2>2. \A i \in DOMAIN results : ~results[i].err
    BY DEF LastErr, Last
  <2>3. judging # <<>> => ~judging[1].err
    BY DEF LastErr, Last
  <2>4. /\ \A i \in DOMAIN verdicts : ~verdicts[i].result.err
        /\ \A i \in DOMAIN counted : ~counted[i].result.err
    BY DEF LastErr, Last
  <2>5. r.err => run' = "returned" /\ r.tick = sent' /\ (expired' \/ ~alive')
    BY <1>4
  <2>6. \A i \in DOMAIN results' :
          results'[i].err => run' = "returned" /\ results'[i].tick = sent' /\ (expired' \/ ~alive')
    BY <1>5, <2>2, <2>5
  <2> QED
    BY <2>3, <2>4, <2>6 DEF LastErr, Last
<1>10. RightAnswers'
  <2>1. Orderly => got \in {<<>>, Fills(sent), Honest(sent)} /\ (run = "emit" => got = Honest(sent))
    BY DEF Lockstep, Streams
  <2>2. DOMAIN (<<>>) = {}
    OBVIOUS
  <2>3. Orderly => \A j \in DOMAIN got : got[j].of = sent
    BY <2>1, <2>2, HonestIsRight
  <2>4. Orderly /\ ~err => Right(sent, got)
    BY <2>1, HonestIsRight
  <2>5. ~Orderly /\ sent <= strayed => \A j \in DOMAIN got : got[j].of = sent
    BY <1>2 DEF Apart, Orderly, TypeOK
  <2>6. Kept(r)
    BY <1>4, <2>3, <2>5 DEF Kept
  <2>7. Fair(r)
    BY <1>4, <2>4, <2>6 DEF Fair
  <2>8. \A i \in DOMAIN results : Fair(results[i])
    BY DEF RightAnswers
  <2>9. \A i \in DOMAIN results' : Fair(results'[i])
    BY <1>5, <2>7, <2>8
  <2>10. Orderly' = Orderly /\ \A q : Fair(q) => Fair(q)'
    BY DEF Fair, Kept, Orderly
  <2> QED
    BY <2>9, <2>10 DEF RightAnswers
<1> QED
  BY <1>5, <1>7, <1>8, <1>9, <1>10

\* Run hands a result over, with the error that ends it or without.
LEMMA EmitStep ==
  ASSUME IInv, Emit \/ Abort
  PROVE  IInv'
<1> USE DEF IInv
<1>1. CASE Emit
  <2>1. /\ run = "emit" /\ Emitted(FALSE) /\ run' = "next"
        /\ UNCHANGED <<sent, got, metrics, expired, asked, frames, alive, strayed, closed, judging,
                       verdicts, counted>>
    BY <1>1 DEF Emit, contestant, consumer
  <2>2. /\ results' \in Seq(Result) /\ InOrder' /\ LastErr' /\ RightAnswers'
        /\ Emitteds' = Emitteds + 1 /\ Emitteds \in Nat
    BY <2>1, EmittedFacts
  <2>3. TypeOK'
    BY <2>1, <2>2 DEF TypeOK
  <2>4. Tally'
    BY <2>1, <2>2 DEF Tally
  <2>5. Closing' /\ Ending' /\ Lockstep' /\ Apart'
    BY <2>1 DEF Apart, Closing, Ending, Lockstep, Streams, Orderly, Returning
  <2> QED
    BY <2>2, <2>3, <2>4, <2>5
<1>2. CASE Abort
  <2>1. /\ run = "abort" /\ Emitted(TRUE) /\ run' = "returned" /\ closed' = closed \cup {"results"}
        /\ (expired \/ ~alive)
        /\ UNCHANGED <<sent, got, metrics, expired, asked, frames, alive, strayed, judging,
                       verdicts, counted>>
    BY <1>2 DEF Abort, Leave, contestant, consumer, Ending
  <2>2. /\ results' \in Seq(Result) /\ InOrder' /\ LastErr' /\ RightAnswers'
        /\ Emitteds' = Emitteds + 1 /\ Emitteds \in Nat
    BY <2>1, EmittedFacts
  <2>3. TypeOK'
    BY <2>1, <2>2 DEF TypeOK
  <2>4. Tally'
    BY <2>1, <2>2 DEF Tally
  <2>5. "verdicts" \notin closed
    BY <2>1 DEF Closing, Returning
  <2>6. Closing' /\ Ending' /\ Lockstep' /\ Apart'
    BY <2>1, <2>5 DEF Apart, Closing, Ending, Lockstep, Streams, Orderly, Returning
  <2> QED
    BY <2>2, <2>3, <2>4, <2>6
<1> QED
  BY <1>1, <1>2

\* The lengths of the pipeline's parts.
LEMMA Lengths ==
  ASSUME IInv
  PROVE  /\ Len(counted) \in Nat /\ Len(verdicts) \in Nat /\ Len(results) \in Nat
         /\ Len(judging) \in {0, 1} /\ (judging # <<>> <=> Len(judging) = 1)
         /\ DOMAIN counted = 1..Len(counted) /\ DOMAIN verdicts = 1..Len(verdicts)
         /\ DOMAIN results = 1..Len(results)
<1>1. judging \in Seq(Result) /\ Len(judging) \in Nat /\ Len(judging) <= 1
  BY LenProperties DEF IInv, TypeOK
<1>2. judging = <<>> <=> Len(judging) = 0
  BY <1>1, EmptySeq
<1>3. /\ counted \in Seq(Verdict) /\ verdicts \in Seq(Verdict) /\ results \in Seq(Result)
  BY DEF IInv, TypeOK
<1>4. Len(judging) \in {0, 1} /\ (judging # <<>> <=> Len(judging) = 1)
  BY <1>1, <1>2
<1> QED
  BY <1>3, <1>4, LenProperties

\* Without a step of Run or of the contestant, their parts of the invariant stay.
LEMMA RunStays ==
  ASSUME IInv, UNCHANGED <<runner, expired, contestant>>, Emitteds' = Emitteds
  PROVE  /\ Tally' /\ Ending' /\ Lockstep' /\ Apart' /\ Orderly' = Orderly
         /\ \A r : (Last(r) => Last(r)') /\ (Fair(r) => Fair(r)')
<1>1. Tally' /\ Ending' /\ Lockstep' /\ Orderly' = Orderly /\ \A r : Last(r) => Last(r)'
  BY DEF IInv, runner, contestant, Tally, Ending, Lockstep, Streams, Orderly, Last
<1>2. Apart'
  BY DEF IInv, runner, contestant, Apart
<1>3. \A r : Fair(r) => Fair(r)'
  BY DEF contestant, Fair, Kept, Orderly
<1> QED
  BY <1>1, <1>2, <1>3

\* Consume takes a result.
LEMMA TakeStep ==
  ASSUME IInv, Take
  PROVE  IInv'
<1> USE DEF IInv
<1> DEFINE r == Head(results)
<1>1. /\ judging = <<>> /\ results # <<>> /\ judging' = <<r>> /\ results' = Tail(results)
      /\ UNCHANGED <<runner, expired, contestant, closed, verdicts, counted>>
  BY DEF Take
<1>2. /\ results' \in Seq(Result) /\ r \in Result /\ r = results[1]
      /\ Len(results) \in Nat /\ Len(results) >= 1 /\ Len(results') = Len(results) - 1
      /\ DOMAIN results = 1..Len(results) /\ DOMAIN results' = 1..(Len(results) - 1)
      /\ \A i \in 1..(Len(results) - 1) : results'[i] = results[i + 1]
  BY <1>1, TailFacts DEF TypeOK
<1> HIDE DEF r
<1>3. judging' \in Seq(Result) /\ Len(judging') = 1 /\ judging'[1] = r /\ judging' # <<>>
  BY <1>1, <1>2
<1>4. TypeOK'
  BY <1>1, <1>2, <1>3 DEF TypeOK, runner, contestant
<1>5. Len(judging) = 0 /\ Before \in Nat
  BY <1>1, Lengths DEF Before
<1>6. Before' = Before
  BY <1>1 DEF Before
<1>7. Emitteds' = Emitteds
  BY <1>2, <1>3, <1>5, <1>6 DEF Emitteds
<1>8. /\ Tally' /\ Ending' /\ Lockstep' /\ Apart' /\ Orderly' = Orderly
      /\ \A q : Fair(q) => Fair(q)'
  BY <1>1, <1>7, RunStays
<1>9. Closing'
  BY <1>1 DEF Closing, Returning, runner
<1>10. 1 \in DOMAIN results /\ \A i \in DOMAIN results' : i + 1 \in DOMAIN results /\ i \in Int
  BY <1>2
<1>11. InOrder'
  <2>1. \A i \in DOMAIN results : results[i].tick = Before + i
    BY <1>2, <1>5 DEF InOrder
  <2>2. r.tick = Before + 1
    BY <1>2, <1>10, <2>1
  <2>3. \A i \in DOMAIN results' : results'[i].tick = Before + 1 + i
    BY <1>2, <1>5, <1>10, <2>1
  <2> QED
    BY <1>1, <1>3, <1>5, <1>6, <2>2, <2>3 DEF InOrder
<1>12. LastErr'
  <2>1. /\ Last(r) /\ \A i \in DOMAIN results' : Last(results'[i])
        /\ \A i \in DOMAIN verdicts : Last(verdicts[i].result)
        /\ \A i \in DOMAIN counted : Last(counted[i].result)
    BY <1>2, <1>10 DEF LastErr
  <2>2. run' = run /\ sent' = sent /\ expired' = expired /\ alive' = alive
    BY <1>1 DEF runner, contestant
  <2> QED
    BY <1>1, <1>3, <2>1, <2>2 DEF LastErr, Last
<1>13. RightAnswers'
  <2>1. Fair(r) /\ \A i \in DOMAIN results' : Fair(results'[i])
    BY <1>2, <1>10 DEF RightAnswers
  <2> QED
    BY <1>1, <1>3, <1>8, <2>1 DEF RightAnswers
<1> QED
  BY <1>4, <1>8, <1>9, <1>11, <1>12, <1>13

\* Consume hands over its verdict.
LEMMA JudgeStep ==
  ASSUME IInv, Judge
  PROVE  IInv'
<1> USE DEF IInv
<1> DEFINE r == judging[1]
           v == [result |-> r, correct |-> Right(r.tick, r.responses)]
<1>1. /\ judging # <<>> /\ verdicts' = Append(verdicts, v) /\ judging' = <<>>
      /\ UNCHANGED <<runner, expired, contestant, results, closed, counted>>
  BY DEF Judge
<1>2. r \in Result
  BY <1>1, Lengths, ElementOfSeq DEF TypeOK
<1>3. v \in Verdict
  BY <1>2 DEF Verdict, Right
<1>4. v.result = r /\ v.correct = Right(r.tick, r.responses)
  OBVIOUS
<1>5. r = judging[1]
  OBVIOUS
<1> HIDE DEF v, r
<1>6. /\ verdicts' \in Seq(Verdict) /\ Len(verdicts) \in Nat /\ DOMAIN verdicts = 1..Len(verdicts)
      /\ Len(verdicts') = Len(verdicts) + 1 /\ DOMAIN verdicts' = 1..(Len(verdicts) + 1)
      /\ \A i \in DOMAIN verdicts : verdicts'[i] = verdicts[i]
      /\ verdicts'[Len(verdicts) + 1] = v
  BY <1>1, <1>3, AppendFacts DEF TypeOK
<1>7. judging' \in Seq(Result) /\ Len(judging') = 0
  BY <1>1, EmptySeq
<1>8. TypeOK'
  BY <1>1, <1>6, <1>7 DEF TypeOK, runner, contestant
<1>9. /\ Len(judging) = 1 /\ Len(counted) \in Nat /\ Len(results) \in Nat
      /\ Before' = Before + 1 /\ Before = Len(counted) + Len(verdicts)
  BY <1>1, <1>6, Lengths DEF Before
<1>10. Emitteds' = Emitteds
  BY <1>1, <1>6, <1>7, <1>9 DEF Emitteds
<1>11. /\ Tally' /\ Ending' /\ Lockstep' /\ Apart' /\ Orderly' = Orderly
      /\ \A q : Fair(q) => Fair(q)'
  BY <1>1, <1>10, RunStays
<1>12. Closing'
  BY <1>1 DEF Closing, Returning, runner
<1>13. InOrder'
  <2>1. v.result.tick = Len(counted) + Len(verdicts) + 1
    BY <1>1, <1>4, <1>5, <1>9 DEF InOrder
  <2>2. \A i \in DOMAIN verdicts' : verdicts'[i].result.tick = Len(counted) + i
    <3>1. \A i \in DOMAIN verdicts : verdicts'[i].result.tick = Len(counted) + i
      BY <1>6 DEF InOrder
    <3> QED
      BY <1>6, <1>9, <2>1, <3>1
  <2>3. \A i \in DOMAIN results : results[i].tick = Before + 1 + i
    BY <1>9 DEF InOrder
  <2>4. \A i \in DOMAIN results : results[i].tick = Before' + Len(judging') + i
    BY <1>6, <1>7, <1>9, <2>3
  <2> QED
    BY <1>1, <2>2, <2>4 DEF InOrder
<1>14. LastErr'
  <2>1. /\ Last(r) /\ \A i \in DOMAIN results : Last(results[i])
        /\ \A i \in DOMAIN verdicts : Last(verdicts[i].result)
        /\ \A i \in DOMAIN counted : Last(counted[i].result)
    BY <1>1, <1>5 DEF LastErr
  <2>2. \A i \in DOMAIN verdicts' : Last(verdicts'[i].result)
    BY <1>4, <1>6, <2>1
  <2>3. run' = run /\ sent' = sent /\ expired' = expired /\ alive' = alive
    BY <1>1 DEF runner, contestant
  <2> QED
    BY <1>1, <2>1, <2>2, <2>3 DEF LastErr, Last
<1>15. RightAnswers'
  <2>1. Orderly /\ ~v.result.err => v.correct
    BY <1>1, <1>4, <1>5 DEF RightAnswers, Fair
  <2>2. Orderly => \A i \in DOMAIN verdicts' : ~verdicts'[i].result.err => verdicts'[i].correct
    BY <1>6, <2>1 DEF RightAnswers
  <2> QED
    BY <1>1, <1>11, <2>2 DEF RightAnswers
<1> QED
  BY <1>8, <1>11, <1>12, <1>13, <1>14, <1>15

\* Every result is judged: the verdicts end.
LEMMA DrainedStep ==
  ASSUME IInv, Drained
  PROVE  IInv'
<1> USE DEF IInv
<1>1. /\ judging = <<>> /\ results = <<>> /\ "results" \in closed
      /\ closed' = closed \cup {"verdicts"}
      /\ UNCHANGED <<run, sent, got, metrics, expired, asked, frames, alive, strayed, results,
                     judging, verdicts, counted>>
  BY DEF Drained, runner, contestant, consumer
<1>2. TypeOK'
  BY <1>1 DEF TypeOK
<1>3. InOrder' /\ LastErr' /\ RightAnswers' /\ Emitteds' = Emitteds
  BY <1>1, PipelineStays DEF pipeline
<1>4. Tally' /\ Ending' /\ Lockstep' /\ Apart'
  BY <1>1, <1>3, RunStays DEF runner, contestant
<1>5. Closing'
  BY <1>1 DEF Closing, Returning
<1> QED
  BY <1>2, <1>3, <1>4, <1>5

\* The caller counts a verdict.
LEMMA CountStep ==
  ASSUME IInv, Count
  PROVE  IInv'
<1> USE DEF IInv
<1> DEFINE v == Head(verdicts)
<1>1. /\ verdicts # <<>> /\ counted' = Append(counted, v) /\ verdicts' = Tail(verdicts)
      /\ UNCHANGED <<runner, expired, contestant, results, closed, judging>>
  BY DEF Count
<1>2. /\ verdicts' \in Seq(Verdict) /\ v \in Verdict /\ v = verdicts[1]
      /\ Len(verdicts) \in Nat /\ Len(verdicts) >= 1 /\ Len(verdicts') = Len(verdicts) - 1
      /\ DOMAIN verdicts = 1..Len(verdicts) /\ DOMAIN verdicts' = 1..(Len(verdicts) - 1)
      /\ \A i \in 1..(Len(verdicts) - 1) : verdicts'[i] = verdicts[i + 1]
  BY <1>1, TailFacts DEF TypeOK
<1> HIDE DEF v
<1>3. /\ counted' \in Seq(Verdict) /\ Len(counted) \in Nat /\ DOMAIN counted = 1..Len(counted)
      /\ Len(counted') = Len(counted) + 1 /\ DOMAIN counted' = 1..(Len(counted) + 1)
      /\ \A i \in DOMAIN counted : counted'[i] = counted[i]
      /\ counted'[Len(counted) + 1] = v
  BY <1>1, <1>2, AppendFacts DEF TypeOK
<1>4. TypeOK'
  BY <1>1, <1>2, <1>3 DEF TypeOK, runner, contestant
<1>5. Before' = Before
  BY <1>2, <1>3 DEF Before
<1>6. Emitteds' = Emitteds
  BY <1>1, <1>5 DEF Emitteds
<1>7. /\ Tally' /\ Ending' /\ Lockstep' /\ Apart' /\ Orderly' = Orderly
      /\ \A q : Fair(q) => Fair(q)'
  BY <1>1, <1>6, RunStays
<1>8. Closing'
  BY <1>1 DEF Closing, Returning, runner
<1>9. 1 \in DOMAIN verdicts /\ \A i \in DOMAIN verdicts' : i + 1 \in DOMAIN verdicts /\ i \in Int
  BY <1>2
<1>10. InOrder'
  <2>1. v.result.tick = Len(counted) + 1
    BY <1>2, <1>9 DEF InOrder
  <2>2. \A i \in DOMAIN counted' : counted'[i].result.tick = i
    <3>1. \A i \in DOMAIN counted : counted'[i].result.tick = i
      BY <1>3 DEF InOrder
    <3> QED
      BY <1>3, <2>1, <3>1
  <2>3. \A i \in DOMAIN verdicts' : verdicts'[i].result.tick = Len(counted) + (i + 1)
    BY <1>2, <1>9 DEF InOrder
  <2>4. \A i \in DOMAIN verdicts' : verdicts'[i].result.tick = Len(counted') + i
    BY <1>3, <1>9, <2>3
  <2> QED
    BY <1>1, <1>5, <2>2, <2>4 DEF InOrder
<1>11. LastErr'
  <2>1. /\ \A i \in DOMAIN verdicts' : Last(verdicts'[i].result)
        /\ \A i \in DOMAIN counted' : Last(counted'[i].result)
    <3>1. Last(v.result)
      BY <1>2, <1>9 DEF LastErr
    <3>2. \A i \in DOMAIN counted : Last(counted'[i].result)
      BY <1>3 DEF LastErr
    <3>3. \A i \in DOMAIN verdicts' : Last(verdicts'[i].result)
      BY <1>2, <1>9 DEF LastErr
    <3> QED
      BY <1>3, <3>1, <3>2, <3>3
  <2>2. run' = run /\ sent' = sent /\ expired' = expired /\ alive' = alive
    BY <1>1 DEF runner, contestant
  <2> QED
    BY <1>1, <2>1, <2>2 DEF LastErr, Last
<1>12. RightAnswers'
  <2>1. Orderly /\ ~v.result.err => v.correct
    BY <1>2, <1>9 DEF RightAnswers
  <2>2. Orderly => \A i \in DOMAIN counted' : ~counted'[i].result.err => counted'[i].correct
    BY <1>3, <2>1 DEF RightAnswers
  <2>3. Orderly => \A i \in DOMAIN verdicts' : ~verdicts'[i].result.err => verdicts'[i].correct
    BY <1>2, <1>9 DEF RightAnswers
  <2> QED
    BY <1>1, <1>7, <2>2, <2>3 DEF RightAnswers
<1> QED
  BY <1>4, <1>7, <1>8, <1>10, <1>11, <1>12

-----------------------------------------------------------------------------
(* The invariant and what follows from it. *)

\* Nothing was sent yet.
LEMMA InitIsIInv == Init => IInv
<1> SUFFICES ASSUME Init PROVE IInv
  OBVIOUS
<1>1. /\ run = "next" /\ sent = 0 /\ got = <<>> /\ metrics = [sent |-> 0, timedOut |-> FALSE]
      /\ expired = FALSE /\ asked = <<>> /\ frames = <<>> /\ alive = TRUE /\ results = <<>>
      /\ closed = {} /\ judging = <<>> /\ verdicts = <<>> /\ counted = <<>> /\ strayed = 0
  BY DEF Init
<1>2. TypeOK
  <2>1. sent \in 0..Ticks /\ strayed \in 0..Ticks /\ metrics \in [sent : 0..Ticks, timedOut : BOOLEAN]
    BY <1>1, SizesAssumption
  <2>2. /\ asked \in Seq(1..Ticks) /\ got \in Seq(Frame) /\ frames \in Seq(Frame)
        /\ results \in Seq(Result) /\ judging \in Seq(Result) /\ Len(judging) = 0
        /\ verdicts \in Seq(Verdict) /\ counted \in Seq(Verdict)
    BY <1>1, EmptySeq
  <2>3. /\ run \in {"next", "reading", "emit", "abort", "returned", "failed"}
        /\ expired \in BOOLEAN /\ alive \in BOOLEAN
        /\ closed \subseteq {"results", "verdicts"}
    BY <1>1
  <2>4. Len(judging) <= 1
    BY <2>2
  <2> QED
    BY <2>1, <2>2, <2>3, <2>4 DEF TypeOK
<1>3. Len(<<>>) = 0 /\ DOMAIN (<<>>) = {}
  OBVIOUS
<1>4. Emitteds = 0
  BY <1>1, <1>3 DEF Emitteds, Before
<1>5. InOrder /\ LastErr /\ RightAnswers
  BY <1>1, <1>3 DEF InOrder, LastErr, RightAnswers
<1>6. Tally /\ Closing /\ Ending /\ Lockstep /\ Apart
  BY <1>1, <1>4 DEF Apart, Tally, Closing, Ending, Lockstep, Streams, Orderly, Returning
<1> QED
  BY <1>2, <1>5, <1>6 DEF IInv

\* IInv is inductive.
LEMMA StepKeepsIInv == IInv /\ [Next]_vars => IInv'
<1> SUFFICES ASSUME IInv, [Next]_vars PROVE IInv'
  OBVIOUS
<1>1. CASE Next
  BY <1>1, SendStep, SendToTheDeadStep, LeaveStep, ReadFrameStep, ReadErrorStep, EmitStep,
     ExpireStep, ContestantStep, TakeStep, JudgeStep, DrainedStep, CountStep DEF Next, Run
<1>2. CASE UNCHANGED vars
  <2> USE <1>2 DEF vars, IInv
  <2>1. TypeOK'
    BY DEF TypeOK
  <2>2. InOrder' /\ LastErr' /\ RightAnswers' /\ Emitteds' = Emitteds
    BY PipelineStays DEF pipeline
  <2>3. Tally' /\ Ending' /\ Lockstep' /\ Apart'
    BY <2>2, RunStays DEF runner, contestant
  <2>4. Closing'
    BY DEF Closing, Returning
  <2> QED
    BY <2>1, <2>2, <2>3, <2>4
<1> QED
  BY <1>1, <1>2

LEMMA Inductive == Spec => []IInv
<1> QED
  BY InitIsIInv, StepKeepsIInv, PTL DEF Spec

\* Everything keeps its shape.
THEOREM ClosedLoopTypeCorrect == Spec => []TypeOK
<1>1. IInv => TypeOK
  BY DEF IInv
<1> QED
  BY <1>1, Inductive, PTL

\* Every tick that counts as sent is judged exactly once and in the order of the
\* workload, whichever way Run ends.
THEOREM EveryTickJudged == Spec => []EverySentTickJudged
<1>1. ASSUME IInv PROVE EverySentTickJudged
  <2>1. \A i \in DOMAIN counted : counted[i].result.tick = i
    BY <1>1 DEF IInv, InOrder
  <2>2. ASSUME Done PROVE Len(counted) = metrics.sent
    <3>1. judging = <<>> /\ results = <<>> /\ verdicts = <<>> /\ run \in {"returned", "failed"}
      BY <1>1, <2>2 DEF Done, Returning, IInv, Closing
    <3>2. Emitteds = Len(counted)
      BY <1>1, <3>1, Lengths DEF Emitteds, Before
    <3> QED
      BY <1>1, <3>1, <3>2 DEF IInv, Tally
  <2> QED
    BY <2>1, <2>2 DEF EverySentTickJudged
<1> QED
  BY <1>1, Inductive, PTL

\* Up to the first tick in whose answer a frame strayed, a result holds responses to
\* its own tick only.
THEOREM AnswersStayApart == Spec => []AnswersMatchTicks
<1>1. IInv => AnswersMatchTicks
  BY DEF IInv, RightAnswers, Fair, Kept, AnswersMatchTicks
<1> QED
  BY <1>1, Inductive, PTL

\* A contestant that answers every tick in time is accepted with every tick correct.
THEOREM HonestIsAccepted == Spec => []HonestScoresAll
<1>1. ASSUME IInv PROVE HonestScoresAll
  <2>1. SUFFICES ASSUME Done, ~expired, alive, Orderly
                 PROVE  Accepted /\ \A i \in DOMAIN counted : counted[i].correct
    BY DEF HonestScoresAll
  <2>2. run = "returned" /\ sent = Ticks
    BY <1>1, <2>1 DEF IInv, Ending, Done, Returning
  <2>3. metrics.sent = Ticks
    BY <1>1, <2>2 DEF IInv, Tally
  <2>4. Accepted
    BY <2>1, <2>2, <2>3, SizesAssumption DEF Accepted, GateOpen
  <2>5. \A i \in DOMAIN counted : ~counted[i].result.err
    BY <1>1, <2>1 DEF IInv, LastErr, Last
  <2>6. \A i \in DOMAIN counted : counted[i].correct
    BY <1>1, <2>1, <2>5 DEF IInv, RightAnswers
  <2> QED
    BY <2>4, <2>6
<1> QED
  BY <1>1, Inductive, PTL

\* An accepted run has an answer to every tick but perhaps the last.
THEOREM AcceptedIsAnswered == Spec => []AcceptedMeansAnswered
<1>1. ASSUME IInv PROVE AcceptedMeansAnswered
  <2>1. SUFFICES ASSUME Accepted, NEW i \in DOMAIN counted, i < Ticks, counted[i].result.err
                 PROVE  FALSE
    BY DEF AcceptedMeansAnswered
  <2>2. run = "returned" /\ metrics.sent >= Ticks /\ sent = metrics.sent
    BY <1>1, <2>1 DEF Accepted, GateOpen, IInv, Tally
  <2>3. counted[i].result.tick = sent /\ counted[i].result.tick = i
    BY <1>1, <2>1 DEF IInv, LastErr, Last, InOrder
  <2>4. i \in Nat /\ Ticks \in Nat
    BY <1>1, Lengths, SizesAssumption
  <2> QED
    BY <2>1, <2>2, <2>3, <2>4
<1> QED
  BY <1>1, Inductive, PTL

-----------------------------------------------------------------------------
(* The loop ends.                                                          *)
(*                                                                         *)
(* Every step, whoever takes it, brings the end of the run closer          *)
(* (StepsLeft), so a run has no more than 10 * Ticks + 3 of them; and      *)
(* until the caller has its result somebody can take one (Moves), when the *)
(* caller drains the verdicts or the channels hold the workload.           *)

Stage ==
  CASE run = "reading" -> 6 [] run = "emit" -> 5 [] run = "abort" -> 4 [] run = "next" -> 1
    [] OTHER -> 0

\* A tick that is not sent, one with the contestant, a frame, a result...
Weight(ticks, stage, questions, answers, waiting, taken, judged) ==
  10 * ticks + stage + 4 * questions + answers + 3 * waiting + 2 * taken + judged

Endings ==
  (IF "verdicts" \in closed THEN 0 ELSE 1) + (IF expired THEN 0 ELSE 1)

StepsLeft ==
  Endings + Weight(Ticks - sent, Stage, Len(asked), Len(frames), Len(results), Len(judging),
                   Len(verdicts))

\* A goroutine can go on: Run, Consume, or the caller.
Moves ==
  \/ run = "next" \/ (run = "reading" /\ expired)
  \/ run \in {"emit", "abort"} /\ Len(results) < ResultsSize
  \/ judging = <<>> /\ results # <<>>
  \/ judging # <<>> /\ Len(verdicts) < VerdictsSize
  \/ judging = <<>> /\ results = <<>> /\ "results" \in closed /\ "verdicts" \notin closed
  \/ MayCount /\ verdicts # <<>>

\* The deadline has passed, and yet nobody can go on.
Stuck == expired /\ ~Done /\ ~Moves

\* The caller drains while Run runs, or need not.
DrainedOrFits == Concurrent \/ Ticks <= ResultsSize + VerdictsSize + 1

NeverStuck == DrainedOrFits => ~Stuck

\* What StepsLeft adds up, before a step or after it.
Numbers ==
  /\ Ticks - sent \in Nat /\ Stage \in Nat /\ Len(asked) \in Nat /\ Len(frames) \in Nat
  /\ Len(results) \in Nat /\ Len(judging) \in Nat /\ Len(verdicts) \in Nat
  /\ Endings \in Nat

LEMMA NumbersAreNat == IInv => Numbers
<1> SUFFICES ASSUME IInv PROVE Numbers
  OBVIOUS
<1>1. /\ Len(results) \in Nat /\ Len(judging) \in Nat /\ Len(verdicts) \in Nat
  BY Lengths
<1>2. Len(asked) \in Nat /\ Len(frames) \in Nat
  BY LenProperties DEF IInv, TypeOK
<1>3. Ticks - sent \in Nat
  BY SizesAssumption DEF IInv, TypeOK
<1>4. Stage \in Nat
  BY DEF Stage
<1>5. Endings \in Nat
  BY DEF Endings
<1> QED
  BY <1>1, <1>2, <1>3, <1>4, <1>5 DEF Numbers

LEMMA StepsLeftType == Numbers => StepsLeft \in Nat
<1> SUFFICES ASSUME Numbers PROVE StepsLeft \in Nat
  OBVIOUS
<1> DEFINE t == Ticks - sent  a == Len(asked)  f == Len(frames)  r == Len(results)
           j == Len(judging)  v == Len(verdicts)
<1>1. /\ t \in Nat /\ Stage \in Nat /\ a \in Nat /\ f \in Nat /\ r \in Nat /\ j \in Nat /\ v \in Nat
      /\ Endings \in Nat
  BY DEF Numbers
<1>2. StepsLeft = Endings + Weight(t, Stage, a, f, r, j, v)
  BY DEF StepsLeft
<1> HIDE DEF t, a, f, r, j, v
<1> QED
  BY <1>1, <1>2 DEF Weight

\* A step that ends nothing anew, and changes the parts like this.
Shift(dt, ds, da, df, dr, dj, dv) ==
  /\ Ticks - sent' = Ticks - sent + dt /\ Stage' = Stage + ds
  /\ Len(asked') = Len(asked) + da /\ Len(frames') = Len(frames) + df
  /\ Len(results') = Len(results) + dr /\ Len(judging') = Len(judging) + dj
  /\ Len(verdicts') = Len(verdicts) + dv

LEMMA ShiftEnds ==
  ASSUME Numbers, NEW dt \in Int, NEW ds \in Int, NEW da \in Int, NEW df \in Int,
         NEW dr \in Int, NEW dj \in Int, NEW dv \in Int, NEW de \in Int,
         Shift(dt, ds, da, df, dr, dj, dv), Endings' = Endings + de,
         de + Weight(dt, ds, da, df, dr, dj, dv) < 0
  PROVE  StepsLeft' < StepsLeft
<1> DEFINE t == Ticks - sent  a == Len(asked)  f == Len(frames)  r == Len(results)
           j == Len(judging)  v == Len(verdicts)
<1>1. /\ t \in Nat /\ Stage \in Nat /\ a \in Nat /\ f \in Nat /\ r \in Nat /\ j \in Nat /\ v \in Nat
      /\ Endings \in Nat
  BY DEF Numbers
<1>2. StepsLeft = Endings + Weight(t, Stage, a, f, r, j, v)
  BY DEF StepsLeft
<1>3. StepsLeft' = Endings + de + Weight(t + dt, Stage + ds, a + da, f + df, r + dr, j + dj, v + dv)
  BY DEF StepsLeft, Shift
<1> HIDE DEF t, a, f, r, j, v
<1> QED
  BY <1>1, <1>2, <1>3 DEF Weight

\* A step of Run.
LEMMA RunStepEnds ==
  ASSUME IInv, Run
  PROVE  StepsLeft' < StepsLeft
<1>1. Numbers
  BY NumbersAreNat
<1> DEFINE Moved(dt, ds, da, df, dr) ==
      /\ Ticks - sent' = Ticks - sent + dt /\ Stage' = Stage + ds
      /\ Len(asked') = Len(asked) + da /\ Len(frames') = Len(frames) + df
      /\ Len(results') = Len(results) + dr
<1>2. /\ asked \in Seq(1..Ticks) /\ frames \in Seq(Frame) /\ results \in Seq(Result)
      /\ sent \in Int /\ Ticks \in Int
  BY SizesAssumption DEF IInv, TypeOK
<1>4. UNCHANGED <<expired, judging, verdicts>>
  BY DEF Run, Send, SendToTheDead, TimedOut, AllSent, ReadFrame, ReadError, Emit, Abort,
         consumer
<1>5. Len(judging') = Len(judging) + 0 /\ Len(verdicts') = Len(verdicts) + 0 /\ Endings' = Endings + 0
  <2>1. closed' = closed \/ closed' = closed \cup {"results"}
    BY DEF Run, Send, SendToTheDead, TimedOut, AllSent, ReadFrame, ReadError, Emit, Abort, Leave
  <2>2. "verdicts" \in closed' <=> "verdicts" \in closed
    BY <2>1
  <2> QED
    BY <1>1, <1>4, <2>2 DEF Numbers, Endings
<1>6. \A dt, ds, da, df, dr \in Int :
        Moved(dt, ds, da, df, dr) /\ 10 * dt + ds + 4 * da + df + 3 * dr < 0
          => StepsLeft' < StepsLeft
  <2>1. SUFFICES ASSUME NEW dt \in Int, NEW ds \in Int, NEW da \in Int, NEW df \in Int,
                        NEW dr \in Int, Moved(dt, ds, da, df, dr),
                        10 * dt + ds + 4 * da + df + 3 * dr < 0
                 PROVE  StepsLeft' < StepsLeft
    OBVIOUS
  <2>2. Shift(dt, ds, da, df, dr, 0, 0)
    BY <1>5, <2>1 DEF Shift
  <2>3. 0 + Weight(dt, ds, da, df, dr, 0, 0) < 0
    BY <2>1 DEF Weight
  <2>4. 0 \in Int
    OBVIOUS
  <2> QED
    BY <1>1, <1>5, <2>1, <2>2, <2>3, <2>4, ShiftEnds, Zenon
<1>7. -4 \in Int /\ -2 \in Int /\ -1 \in Int /\ 0 \in Int /\ 1 \in Int /\ 5 \in Int
  OBVIOUS
<1> HIDE DEF Moved
<1>8. CASE Send
  <2>1. /\ run = "next" /\ sent' = sent + 1 /\ run' = "reading"
        /\ asked' = Append(asked, sent + 1) /\ frames' = frames /\ results' = results
    BY <1>8 DEF Send
  <2>2. asked' \in Seq(Int) /\ Len(asked') = Len(asked) + 1
    BY <1>2, <2>1
  <2>3. Stage = 1 /\ Stage' = 6
    BY <2>1 DEF Stage
  <2>4. Moved(-1, 5, 1, 0, 0)
    BY <1>1, <1>2, <2>1, <2>2, <2>3 DEF Moved, Numbers
  <2>5. 10 * (-1) + 5 + 4 * 1 + 0 + 3 * 0 < 0
    OBVIOUS
  <2> QED
    BY <1>6, <1>7, <2>4, <2>5, Zenon
<1>9. CASE SendToTheDead
  <2>1. /\ run = "next" /\ sent' = sent + 1 /\ run' \in {"reading", "failed"}
        /\ asked' = asked /\ frames' = frames /\ results' = results
    BY <1>9 DEF SendToTheDead, Leave, contestant
  <2>2. Stage = 1 /\ Stage' \in {0, 6}
    BY <2>1 DEF Stage
  <2>3. Moved(-1, 5, 0, 0, 0) \/ Moved(-1, -1, 0, 0, 0)
    BY <1>1, <1>2, <2>1, <2>2 DEF Moved, Numbers
  <2>4. 10 * (-1) + 5 + 4 * 0 + 0 + 3 * 0 < 0 /\ 10 * (-1) + (-1) + 4 * 0 + 0 + 3 * 0 < 0
    OBVIOUS
  <2> QED
    BY <1>6, <1>7, <2>3, <2>4, Zenon
<1>10. CASE TimedOut \/ AllSent
  <2>1. /\ run = "next" /\ sent' = sent /\ run' \in {"returned", "failed"}
        /\ asked' = asked /\ frames' = frames /\ results' = results
    BY <1>10 DEF TimedOut, AllSent, Leave, contestant
  <2>2. Stage = 1 /\ Stage' = 0
    BY <2>1 DEF Stage
  <2>3. Moved(0, -1, 0, 0, 0)
    BY <1>1, <1>2, <2>1, <2>2 DEF Moved, Numbers
  <2>4. 10 * 0 + (-1) + 4 * 0 + 0 + 3 * 0 < 0
    OBVIOUS
  <2> QED
    BY <1>6, <1>7, <2>3, <2>4, Zenon
<1>11. CASE ReadFrame
  <2>1. /\ run = "reading" /\ sent' = sent /\ run' \in {"reading", "emit"}
        /\ asked' = asked /\ frames # <<>> /\ frames' = Tail(frames) /\ results' = results
    BY <1>11 DEF ReadFrame
  <2>2. Len(frames') = Len(frames) - 1
    BY <1>2, <2>1, TailFacts
  <2>3. Stage = 6 /\ Stage' \in {5, 6}
    BY <2>1 DEF Stage
  <2>4. Moved(0, 0, 0, -1, 0) \/ Moved(0, -1, 0, -1, 0)
    BY <1>1, <1>2, <2>1, <2>2, <2>3 DEF Moved, Numbers
  <2>5. 10 * 0 + 0 + 4 * 0 + (-1) + 3 * 0 < 0 /\ 10 * 0 + (-1) + 4 * 0 + (-1) + 3 * 0 < 0
    OBVIOUS
  <2> QED
    BY <1>6, <1>7, <2>4, <2>5, Zenon
<1>12. CASE ReadError
  <2>1. /\ run = "reading" /\ sent' = sent /\ run' = "abort"
        /\ asked' = asked /\ frames' = frames /\ results' = results
    BY <1>12 DEF ReadError, contestant
  <2>2. Stage = 6 /\ Stage' = 4
    BY <2>1 DEF Stage
  <2>3. Moved(0, -2, 0, 0, 0)
    BY <1>1, <1>2, <2>1, <2>2 DEF Moved, Numbers
  <2>4. 10 * 0 + (-2) + 4 * 0 + 0 + 3 * 0 < 0
    OBVIOUS
  <2> QED
    BY <1>6, <1>7, <2>3, <2>4, Zenon
<1>13. CASE Emit \/ Abort
  <2>1. /\ (run = "emit" /\ run' = "next") \/ (run = "abort" /\ run' = "returned")
        /\ sent' = sent /\ asked' = asked /\ frames' = frames
    BY <1>13 DEF Emit, Abort, Leave, contestant
  <2>2. PICK x : results' = Append(results, x)
    BY <1>13 DEF Emit, Abort, Emitted
  <2>3. Len(results') = Len(results) + 1
    BY <1>2, <2>2
  <2>4. (Stage = 5 /\ Stage' = 1) \/ (Stage = 4 /\ Stage' = 0)
    <3>1. CASE run = "emit" /\ run' = "next"
      BY <3>1 DEF Stage
    <3>2. CASE run = "abort" /\ run' = "returned"
      BY <3>2 DEF Stage
    <3> QED
      BY <2>1, <3>1, <3>2
  <2>5. Moved(0, -4, 0, 0, 1)
    BY <1>1, <1>2, <2>1, <2>3, <2>4 DEF Moved, Numbers
  <2>6. 10 * 0 + (-4) + 4 * 0 + 0 + 3 * 1 < 0
    OBVIOUS
  <2> QED
    BY <1>6, <1>7, <2>5, <2>6, Zenon
<1> QED
  BY <1>8, <1>9, <1>10, <1>11, <1>12, <1>13 DEF Run

\* A step of the contestant: a tick less to answer, at most three frames more.
LEMMA ContestantStepEnds ==
  ASSUME IInv, Contestant
  PROVE  StepsLeft' < StepsLeft
<1>1. Numbers
  BY NumbersAreNat
<1>2. asked \in Seq(1..Ticks) /\ frames \in Seq(Frame)
  BY DEF IInv, TypeOK
<1>3. PICK reply : /\ reply \in Seq(Frame) /\ Len(reply) \in 0..3
                   /\ asked # <<>> /\ asked' = Tail(asked) /\ frames' = frames \o reply
                   /\ UNCHANGED <<runner, expired, results, closed, consumer>>
  BY ReplyFacts
<1>4. /\ Len(asked') = Len(asked) - 1 /\ Len(frames') = Len(frames) + Len(reply)
      /\ Len(reply) \in Int
  BY <1>2, <1>3, TailFacts, ConcatProperties
<1>5. /\ sent' = sent /\ Stage' = Stage /\ Endings' = Endings
      /\ Len(results') = Len(results) /\ Len(judging') = Len(judging)
      /\ Len(verdicts') = Len(verdicts)
  BY <1>3 DEF runner, consumer, Stage, Endings
<1>6. Shift(0, 0, -1, Len(reply), 0, 0, 0) /\ Endings' = Endings + 0
  BY <1>1, <1>4, <1>5 DEF Shift, Numbers
<1>7. 0 + Weight(0, 0, -1, Len(reply), 0, 0, 0) < 0 /\ 0 \in Int /\ -1 \in Int
  BY <1>3, <1>4 DEF Weight
<1> QED
  BY <1>1, <1>4, <1>6, <1>7, ShiftEnds, Zenon

\* A step of Consume, of the caller, or the deadline.
LEMMA OtherStepEnds ==
  ASSUME IInv, Expire \/ Take \/ Judge \/ Drained \/ Count
  PROVE  StepsLeft' < StepsLeft
<1>1. Numbers
  BY NumbersAreNat
<1>2. /\ results \in Seq(Result) /\ verdicts \in Seq(Verdict) /\ sent' = sent /\ Stage' = Stage
      /\ asked' = asked /\ frames' = frames
  BY DEF IInv, TypeOK, Expire, Take, Judge, Drained, Count, runner, contestant, Stage
<1> DEFINE Moved(dr, dj, dv, de) ==
      /\ Len(results') = Len(results) + dr /\ Len(judging') = Len(judging) + dj
      /\ Len(verdicts') = Len(verdicts) + dv /\ Endings' = Endings + de
<1>3. \A dr, dj, dv, de \in Int :
        Moved(dr, dj, dv, de) /\ 3 * dr + 2 * dj + dv + de < 0 => StepsLeft' < StepsLeft
  <2>1. SUFFICES ASSUME NEW dr \in Int, NEW dj \in Int, NEW dv \in Int, NEW de \in Int,
                        Moved(dr, dj, dv, de), 3 * dr + 2 * dj + dv + de < 0
                 PROVE  StepsLeft' < StepsLeft
    OBVIOUS
  <2>2. Shift(0, 0, 0, 0, dr, dj, dv)
    BY <1>1, <1>2, <2>1 DEF Shift, Numbers
  <2>3. de + Weight(0, 0, 0, 0, dr, dj, dv) < 0
    BY <2>1 DEF Weight
  <2>4. 0 \in Int
    OBVIOUS
  <2> QED
    BY <1>1, <2>1, <2>2, <2>3, <2>4, ShiftEnds, Zenon
<1>4. -1 \in Int /\ 0 \in Int /\ 1 \in Int
  OBVIOUS
<1>5. /\ Len(<<>>) = 0
      /\ \A x : Len(<<x>>) = 1
  OBVIOUS
<1> HIDE DEF Moved
<1>6. CASE Expire
  <2>1. /\ ~expired /\ expired' /\ results' = results /\ judging' = judging
        /\ verdicts' = verdicts /\ closed' = closed
    BY <1>6 DEF Expire, consumer
  <2>2. Moved(0, 0, 0, -1)
    BY <1>1, <2>1 DEF Moved, Numbers, Endings
  <2>3. 3 * 0 + 2 * 0 + 0 + (-1) < 0
    OBVIOUS
  <2> QED
    BY <1>3, <1>4, <2>2, <2>3, Zenon
<1>7. CASE Take
  <2>1. /\ judging = <<>> /\ results # <<>> /\ judging' = <<Head(results)>>
        /\ results' = Tail(results) /\ verdicts' = verdicts /\ closed' = closed
        /\ expired' = expired
    BY <1>7 DEF Take
  <2>2. Len(results') = Len(results) - 1 /\ Len(judging) = 0 /\ Len(judging') = 1
    BY <1>2, <1>5, <2>1, TailFacts
  <2>3. Endings' = Endings
    BY <2>1 DEF Endings
  <2>4. Moved(-1, 1, 0, 0)
    BY <1>1, <2>1, <2>2, <2>3 DEF Moved, Numbers
  <2>5. 3 * (-1) + 2 * 1 + 0 + 0 < 0
    OBVIOUS
  <2> QED
    BY <1>3, <1>4, <2>4, <2>5, Zenon
<1>8. CASE Judge
  <2>1. /\ judging # <<>> /\ judging' = <<>> /\ results' = results /\ closed' = closed
        /\ expired' = expired
    BY <1>8 DEF Judge
  <2>2. PICK x : verdicts' = Append(verdicts, x)
    BY <1>8 DEF Judge
  <2>3. Len(verdicts') = Len(verdicts) + 1
    BY <1>2, <2>2
  <2>4. Len(judging) = 1 /\ Len(judging') = 0
    BY <1>5, <2>1, Lengths
  <2>5. Endings' = Endings
    BY <2>1 DEF Endings
  <2>6. Moved(0, -1, 1, 0)
    BY <1>1, <2>1, <2>3, <2>4, <2>5 DEF Moved, Numbers
  <2>7. 3 * 0 + 2 * (-1) + 1 + 0 < 0
    OBVIOUS
  <2> QED
    BY <1>3, <1>4, <2>6, <2>7, Zenon
<1>9. CASE Drained
  <2>1. /\ "verdicts" \notin closed /\ "verdicts" \in closed' /\ results' = results
        /\ judging' = judging /\ verdicts' = verdicts /\ expired' = expired
    BY <1>9 DEF Drained, consumer
  <2>2. Moved(0, 0, 0, -1)
    BY <1>1, <2>1 DEF Moved, Numbers, Endings
  <2>3. 3 * 0 + 2 * 0 + 0 + (-1) < 0
    OBVIOUS
  <2> QED
    BY <1>3, <1>4, <2>2, <2>3, Zenon
<1>10. CASE Count
  <2>1. /\ verdicts # <<>> /\ verdicts' = Tail(verdicts) /\ results' = results
        /\ judging' = judging /\ closed' = closed /\ expired' = expired
    BY <1>10 DEF Count
  <2>2. Len(verdicts') = Len(verdicts) - 1
    BY <1>2, <2>1, TailFacts
  <2>3. Endings' = Endings
    BY <2>1 DEF Endings
  <2>4. Moved(0, 0, -1, 0)
    BY <1>1, <2>1, <2>2, <2>3 DEF Moved, Numbers
  <2>5. 3 * 0 + 2 * 0 + (-1) + 0 < 0
    OBVIOUS
  <2> QED
    BY <1>3, <1>4, <2>4, <2>5, Zenon
<1> QED
  BY <1>6, <1>7, <1>8, <1>9, <1>10

\* Each step of the loop leaves fewer to come: Run sends a tick once and waits for
\* one answer, a contestant has at most three frames for a tick, and a result is
\* judged and counted once.  A run is over after at most 10 * Ticks + 3 steps, so
\* no retry, busy wait or endless exchange hides in the goroutines of Run, Consume
\* and the caller.
THEOREM LoopRunsOut ==
  Spec => /\ StepsLeft = 10 * Ticks + 3
          /\ [](StepsLeft \in Nat)
          /\ [][StepsLeft' < StepsLeft]_vars
<1>1. IInv => StepsLeft \in Nat
  BY NumbersAreNat, StepsLeftType
<1>2. IInv /\ [Next]_vars => [StepsLeft' < StepsLeft]_vars
  BY RunStepEnds, ContestantStepEnds, OtherStepEnds DEF Next
<1>3. Init => StepsLeft = 10 * Ticks + 3
  <2>1. SUFFICES ASSUME Init PROVE StepsLeft = 10 * Ticks + 3
    OBVIOUS
  <2>2. /\ Ticks - sent = Ticks /\ Stage = 1 /\ Len(asked) = 0 /\ Len(frames) = 0
        /\ Len(results) = 0 /\ Len(judging) = 0 /\ Len(verdicts) = 0 /\ Endings = 2
    <3>1. /\ run = "next" /\ sent = 0 /\ asked = <<>> /\ frames = <<>> /\ results = <<>>
          /\ judging = <<>> /\ verdicts = <<>> /\ closed = {} /\ expired = FALSE
      BY <2>1 DEF Init
    <3>2. Stage = 1 /\ Endings = 2
      BY <3>1 DEF Stage, Endings
    <3>3. Ticks - sent = Ticks
      BY <3>1, SizesAssumption
    <3>4. Len(<<>>) = 0
      OBVIOUS
    <3> QED
      BY <3>1, <3>2, <3>3, <3>4
  <2> QED
    BY <2>2, SizesAssumption DEF StepsLeft, Weight
<1> QED
  BY <1>1, <1>2, <1>3, Inductive, PTL DEF Spec

\* The caller receives nothing before it may.
CountedLater == counted # <<>> => MayCount

LEMMA CountedLaterStep ==
  ASSUME IInv, CountedLater, [Next]_vars
  PROVE  CountedLater'
<1>1. CASE Run
  <2>1. counted' = counted
    BY <1>1 DEF Run, Send, SendToTheDead, TimedOut, AllSent, ReadFrame, ReadError, Emit, Abort
  <2>2. Returning => Returning'
    BY <1>1 DEF Run, Send, SendToTheDead, TimedOut, AllSent, ReadFrame, ReadError, Emit, Abort,
       Returning
  <2> QED
    BY <2>1, <2>2 DEF CountedLater, MayCount
<1>2. CASE Expire \/ Contestant \/ Take \/ Judge \/ Drained
  <2>1. counted' = counted /\ run' = run
    BY <1>2 DEF Expire, Contestant, Answer, Garbled, Extra, Silence, Die, Replies, Take, Judge, Drained,
       runner
  <2> QED
    BY <2>1 DEF CountedLater, MayCount, Returning
<1>3. CASE Count
  BY <1>3 DEF Count, runner, CountedLater, MayCount, Returning
<1>4. CASE UNCHANGED vars
  BY <1>4 DEF vars, CountedLater, MayCount, Returning
<1> QED
  BY <1>1, <1>2, <1>3, <1>4 DEF Next

LEMMA SomebodyMoves ==
  ASSUME IInv, CountedLater, DrainedOrFits, expired, ~Done
  PROVE  Moves
<1> SUFFICES ASSUME ~Moves PROVE FALSE
  OBVIOUS
<1>1. /\ Len(verdicts) \in Nat /\ Len(results) \in Nat /\ Len(counted) \in Nat
      /\ judging # <<>> <=> Len(judging) = 1
  BY Lengths
<1>2. ResultsSize \in Nat \ {0} /\ VerdictsSize \in Nat \ {0} /\ Ticks \in Nat
  BY SizesAssumption
<1>3. Len(<<>>) = 0
  OBVIOUS
<1>4. run \in {"emit", "abort"} \/ Returning
  BY DEF IInv, TypeOK, Moves, Returning
<1>5. CASE run \in {"emit", "abort"}
  <2>1. Len(results) >= ResultsSize /\ results # <<>>
    BY <1>1, <1>2, <1>3, <1>5 DEF Moves
  <2>2. judging # <<>> /\ Len(judging) = 1
    BY <1>1, <2>1 DEF Moves
  <2>3. Len(verdicts) >= VerdictsSize /\ verdicts # <<>>
    BY <1>1, <1>2, <1>3, <2>2 DEF Moves
  <2>4. ~MayCount /\ counted = <<>>
    BY <2>3 DEF Moves, CountedLater
  <2>5. metrics.sent = Len(counted) + Len(verdicts) + Len(judging) + Len(results) + 1
    BY <1>5 DEF IInv, Tally, Emitteds, Before
  <2>6. metrics.sent <= Ticks
    BY <1>2 DEF IInv, TypeOK
  <2>7. Ticks <= ResultsSize + VerdictsSize + 1
    BY <2>4 DEF DrainedOrFits, MayCount
  <2>8. Len(counted) = 0
    BY <1>3, <2>4
  <2> QED
    BY <1>1, <1>2, <2>1, <2>2, <2>3, <2>5, <2>6, <2>7, <2>8
<1>6. CASE Returning
  <2>1. verdicts = <<>> /\ Len(verdicts) < VerdictsSize
    BY <1>1, <1>2, <1>3, <1>6 DEF Moves, MayCount
  <2>2. judging = <<>> /\ results = <<>>
    BY <2>1 DEF Moves
  <2>3. "results" \in closed
    BY <1>6 DEF IInv, Closing
  <2>4. "verdicts" \in closed
    BY <2>2, <2>3 DEF Moves
  <2> QED
    BY <1>6, <2>1, <2>4 DEF Done
<1> QED
  BY <1>4, <1>5, <1>6

\* The bounded channels of Runner.results and of Consume cannot stop the loop for good:
\* once the deadline has passed, some goroutine can go on until the caller has every
\* verdict, if the caller drains while Run runs (runSmokeTest) or the workload is no longer
\* than the two buffers and the result in Consume's hands.  With LoopRunsOut: if those who
\* can go on do, the run ends.
THEOREM LoopNeverStuck == Spec => []NeverStuck
<1>1. Init => CountedLater
  BY DEF Init, CountedLater
<1>2. IInv /\ CountedLater /\ [Next]_vars => CountedLater'
  BY CountedLaterStep
<1>3. IInv /\ CountedLater => NeverStuck
  BY SomebodyMoves DEF NeverStuck, Stuck
<1> QED
  BY <1>1, <1>2, <1>3, Inductive, PTL DEF Spec

-----------------------------------------------------------------------------
(* The validator, for any workload and any answers.                        *)
(*                                                                         *)
(* The argument: while it works an order, the reference engine has taken   *)
(* from the resting orders and from the order what its fills say           *)
(* (Halfway), so that fills equal to those of the reference describe the   *)
(* book that the reference has; and no order is both resting and cancelled *)
(* (ValidatorInv), so that a fill that is owed is never a zombie fill.     *)

RestingOrder == [side : {Buy, Sell}, price : Nat \ {0}, qty : Nat \ {0}]

RefFill == [maker : 1..idx, taker : {idx + 1}, price : Nat \ {0}, qty : Nat \ {0}]

\* No order is both resting and cancelled.
ValidatorInv ==
  /\ idx \in Nat /\ flawless \in BOOLEAN
  /\ book \in [DOMAIN book -> RestingOrder] /\ DOMAIN book \subseteq 1..idx
  /\ cancelled \subseteq 1..idx /\ cancelled \cap DOMAIN book = {}
  /\ DOMAIN reported \subseteq 1..idx
  /\ CorrectMeansSameBook

\* What the reference engine has done of order o: the fills so far take from the
\* resting orders and from o what is missing.
Halfway(acc, o) ==
  /\ acc = [book |-> acc.book, left |-> acc.left, fills |-> acc.fills]
  /\ acc.fills \in Seq(RefFill) /\ acc.left \in Nat
  /\ acc.left = o.qty - Taken(acc.fills, o.id)
  /\ acc.book \in [DOMAIN book -> [side : {Buy, Sell}, price : Nat \ {0}, qty : Nat]]
  /\ \A i \in DOMAIN book : acc.book[i] = [book[i] EXCEPT !.qty = @ - Taken(acc.fills, i)]
  /\ \A i \in DOMAIN acc.fills : acc.fills[i].maker \in DOMAIN book

\* Orders of a workload.
LEMMA OrderFacts ==
  ASSUME ValidatorInv, NEW o \in Orders
  PROVE  /\ o.id = idx + 1 /\ o.qty \in Nat \ {0} /\ o.side \in {Buy, Sell}
         /\ o.type = Limit => o.price \in Nat \ {0}
         /\ o.id \notin DOMAIN book /\ o.id \in Nat
BY WorkloadAssumption DEF Orders, ValidatorInv, Limit, Market

\* Among orders of one side, one is ahead of the others.
LEMMA BestExists ==
  ASSUME NEW b, NEW S, IsFiniteSet(S), S \subseteq Nat, S # {},
         \A i \in S : b[i].side \in {Buy, Sell} /\ b[i].price \in Nat,
         \A i, j \in S : b[i].side = b[j].side
  PROVE  Best(b, S) \in S
<1> DEFINE Good == {A \in SUBSET S : A # {} => \E i \in A : \A j \in A \ {i} : Ahead(b, i, j)}
<1>1. ASSUME NEW A \in SUBSET S, \A B \in SUBSET A : B # A => B \in Good PROVE A \in Good
  <2> SUFFICES ASSUME A # {} PROVE \E i \in A : \A j \in A \ {i} : Ahead(b, i, j)
    OBVIOUS
  <2>1. PICK x \in A : TRUE
    OBVIOUS
  <2>2. CASE A = {x}
    BY <2>2
  <2>3. CASE A # {x}
    <3>1. A \ {x} \in Good /\ A \ {x} # {}
      BY <1>1, <2>1, <2>3
    <3>2. PICK y \in A \ {x} : \A j \in (A \ {x}) \ {y} : Ahead(b, y, j)
      BY <3>1
    <3>3. Ahead(b, x, y) \/ Ahead(b, y, x)
      BY <2>1 DEF Ahead, Buy, Sell
    <3>4. CASE Ahead(b, y, x)
      BY <3>2, <3>4
    <3>5. CASE Ahead(b, x, y)
      <4>1. ASSUME NEW j \in A, Ahead(b, y, j) PROVE Ahead(b, x, j)
        BY <2>1, <3>5, <4>1 DEF Ahead, Buy, Sell
      <4> QED
        BY <2>1, <3>2, <3>5, <4>1
    <3> QED
      BY <3>3, <3>4, <3>5
  <2> QED
    BY <2>2, <2>3
<1>2. S \in Good
  <2> HIDE DEF Good
  <2> QED
    BY <1>1, SubsetInductionOnSet
<1> QED
  BY <1>2 DEF Best

\* A fill more is taken from its two orders.
LEMMA TakenOfAppend ==
  ASSUME NEW T, NEW fills \in Seq(T), NEW f \in T, \A x \in T : x.qty \in Nat
  PROVE  /\ \A id : Taken(fills, id) \in Int
         /\ \A id : Taken(Append(fills, f), id) =
              Taken(fills, id) + (IF id \in {f.maker, f.taker} THEN f.qty ELSE 0)
<1> DEFINE Share(s, id) == [i \in DOMAIN s |-> IF id \in {s[i].maker, s[i].taker}
                                               THEN s[i].qty ELSE 0]
           D == DOMAIN fills
           e == Len(fills) + 1
           more == Append(fills, f)
<1>1. /\ more \in Seq(T) /\ Len(fills) \in Nat /\ e \notin D /\ DOMAIN more = D \cup {e}
      /\ \A i \in D : more[i] = fills[i]
      /\ more[e] = f
  <2>1. more \in Seq(T) /\ Len(more) = Len(fills) + 1
    BY AppendProperties
  <2>2. D = 1..Len(fills) /\ DOMAIN more = 1..Len(fills) + 1 /\ Len(fills) \in Nat
    BY <2>1, LenProperties
  <2>3. \A i \in 1..Len(fills) : more[i] = fills[i]
    BY <2>2, AppendProperties
  <2>4. more[e] = f
    BY AppendProperties
  <2> QED
    BY <2>1, <2>2, <2>3, <2>4
<1>2. IsFiniteSet(D)
  BY <1>1, LenProperties, FS_Interval
<1>3. \A id : Taken(fills, id) = SumFunctionOnSet(Share(fills, id), D)
  BY DEF Taken
<1>4. \A id : Taken(more, id) = SumFunctionOnSet(Share(more, id), D \cup {e})
  BY <1>1 DEF Taken
<1> HIDE DEF more, e
<1> SUFFICES ASSUME NEW id
             PROVE  /\ Taken(fills, id) \in Int
                    /\ Taken(more, id) =
                         Taken(fills, id) + (IF id \in {f.maker, f.taker} THEN f.qty ELSE 0)
  BY DEF more
<1>5. \A i \in D : fills[i] \in T /\ fills[i].qty \in Nat
  BY <1>1
<1>6. /\ \A i \in D : Share(fills, id)[i] \in Int /\ Share(more, id)[i] = Share(fills, id)[i]
      /\ \A i \in D \cup {e} : Share(more, id)[i] \in Int
      /\ Share(more, id)[e] = IF id \in {f.maker, f.taker} THEN f.qty ELSE 0
  BY <1>1, <1>5
<1> HIDE DEF Share, D
<1>7. SumFunctionOnSet(Share(fills, id), D) \in Int
  BY <1>2, <1>6, SumIsInt
<1>8. SumFunctionOnSet(Share(more, id), D) = SumFunctionOnSet(Share(fills, id), D)
  BY <1>2, <1>6, SumOfEquals
<1>9. SumFunctionOnSet(Share(more, id), D \cup {e}) =
        SumFunctionOnSet(Share(more, id), D) + Share(more, id)[e]
  BY <1>1, <1>2, <1>6, SumWithElement
<1> QED
  BY <1>3, <1>4, <1>6, <1>7, <1>8, <1>9

\* A command starts with the whole order and the book as it is.
LEMMA HalfwayStart ==
  ASSUME ValidatorInv, NEW o \in Orders
  PROVE  Halfway([book |-> book, left |-> o.qty, fills |-> <<>>], o)
<1>1. \A id : Taken(<<>>, id) = 0
  <2>1. DOMAIN (<<>>) = {}
    OBVIOUS
  <2> QED
    BY <2>1, SumOfNothing DEF Taken
<1>2. <<>> \in Seq(RefFill) /\ DOMAIN (<<>>) = {}
  BY EmptySeq
<1>3. o.qty \in Nat
  BY OrderFacts
<1>4. /\ book \in [DOMAIN book -> RestingOrder]
      /\ \A i \in DOMAIN book : book[i] \in RestingOrder
  BY DEF ValidatorInv
<1>5. book \in [DOMAIN book -> [side : {Buy, Sell}, price : Nat \ {0}, qty : Nat]]
  BY <1>4 DEF RestingOrder
<1>6. \A i \in DOMAIN book : book[i] = [book[i] EXCEPT !.qty = @ - Taken(<<>>, i)]
  BY <1>1, <1>4 DEF RestingOrder
<1> QED
  BY <1>1, <1>2, <1>3, <1>5, <1>6 DEF Halfway

\* A trade is with an order that the command accepts.
LEMMA BestEligible ==
  ASSUME ValidatorInv, NEW o \in Orders, NEW acc, Halfway(acc, o), Eligible(acc.book, o) # {}
  PROVE  Best(acc.book, Eligible(acc.book, o)) \in Eligible(acc.book, o)
<1> DEFINE es == Eligible(acc.book, o)
<1>1. /\ acc.book \in [DOMAIN book -> [side : {Buy, Sell}, price : Nat \ {0}, qty : Nat]]
      /\ DOMAIN book \subseteq 1..idx /\ idx \in Int
  BY DEF Halfway, ValidatorInv
<1>2. es \subseteq DOMAIN book /\ es \subseteq 1..idx
  BY <1>1 DEF Eligible
<1>3. IsFiniteSet(1..idx)
  BY <1>1, FS_Interval
<1>4. IsFiniteSet(es) /\ es \subseteq Nat
  <2> HIDE DEF es
  <2>1. es \in SUBSET (1..idx) /\ es \subseteq Nat
    BY <1>1, <1>2
  <2> QED
    BY <1>3, <2>1, FS_Subset
<1>5. \A x \in es : acc.book[x].side \in {Buy, Sell} /\ acc.book[x].price \in Nat
  BY <1>1, <1>2
<1>6. \A x, y \in es : acc.book[x].side = acc.book[y].side
  BY <1>5, OrderFacts DEF Eligible, Buy, Sell
<1> HIDE DEF es
<1>7. es # {}
  BY DEF es
<1>8. Best(acc.book, es) \in es
  BY <1>4, <1>5, <1>6, <1>7, BestExists
<1> QED
  BY <1>8 DEF es

\* A trade takes as much from its two orders as its fill says.
LEMMA HalfwayStep ==
  ASSUME ValidatorInv, NEW o \in Orders, NEW acc, Halfway(acc, o)
  PROVE  Halfway(Matched(acc, o), o)
<1> DEFINE es == Eligible(acc.book, o)
           i == Best(acc.book, es)
           m == acc.book[i]
           q == IF m.qty < acc.left THEN m.qty ELSE acc.left
           f == [maker |-> i, taker |-> o.id, price |-> m.price, qty |-> q]
           Open == [side : {Buy, Sell}, price : Nat \ {0}, qty : Nat]
           new == [acc.book EXCEPT ![i].qty = @ - q]
<1>1. CASE acc.left = 0 \/ es = {}
  BY <1>1 DEF Matched
<1>2. CASE acc.left # 0 /\ es # {}
  <2>1. Matched(acc, o) = [book |-> new, left |-> acc.left - q, fills |-> Append(acc.fills, f)]
    BY <1>2 DEF Matched, Trade
  <2>2. /\ acc.book \in [DOMAIN book -> Open] /\ acc.left \in Nat \ {0}
        /\ acc.fills \in Seq(RefFill) /\ DOMAIN book \subseteq 1..idx /\ idx \in Nat
    BY <1>2 DEF Halfway, ValidatorInv
  <2>3. i \in es
    BY <1>2, BestEligible
  <2>4. i \in DOMAIN book /\ m \in Open /\ m.qty > 0
    BY <2>2, <2>3 DEF Eligible
  <2>5. o.id = idx + 1 /\ o.id \notin DOMAIN book /\ i # o.id
    BY <2>4, OrderFacts
  <2>6. /\ q \in Nat \ {0} /\ q <= m.qty /\ q <= acc.left
        /\ acc.left - q \in Nat /\ m.qty - q \in Nat
    BY <2>2, <2>4
  <2>7. f \in RefFill /\ f.maker = i /\ f.taker = o.id /\ f.qty = q
    BY <2>2, <2>4, <2>5, <2>6 DEF RefFill
  <2>8. m = [book[i] EXCEPT !.qty = @ - Taken(acc.fills, i)] /\ book[i] \in RestingOrder
    BY <2>4 DEF Halfway, ValidatorInv
  <2>9. /\ new \in [DOMAIN book -> Open]
        /\ new[i] = [m EXCEPT !.qty = @ - q]
        /\ \A x \in DOMAIN book \ {i} : new[x] = acc.book[x]
    BY <2>2, <2>4, <2>6
  <2> HIDE DEF es, i, m, q, f, new
  <2>10. /\ \A id : Taken(acc.fills, id) \in Int
         /\ \A id : Taken(Append(acc.fills, f), id) =
              Taken(acc.fills, id) + (IF id \in {f.maker, f.taker} THEN f.qty ELSE 0)
    <3>1. \A x \in RefFill : x.qty \in Nat
      BY DEF RefFill
    <3> QED
      BY <2>2, <2>7, <3>1, TakenOfAppend
  <2>11. /\ Append(acc.fills, f) \in Seq(RefFill)
         /\ \A k \in DOMAIN Append(acc.fills, f) : Append(acc.fills, f)[k].maker \in DOMAIN book
    <3>1. \A k \in DOMAIN acc.fills : acc.fills[k].maker \in DOMAIN book
      BY DEF Halfway
    <3>2. /\ Append(acc.fills, f) \in Seq(RefFill)
          /\ Len(Append(acc.fills, f)) = Len(acc.fills) + 1 /\ Len(acc.fills) \in Nat
      BY <2>2, <2>7, AppendProperties, LenProperties
    <3>3. /\ DOMAIN acc.fills = 1..Len(acc.fills)
          /\ DOMAIN Append(acc.fills, f) = 1..Len(acc.fills) + 1
      BY <2>2, <3>2, LenProperties
    <3>4. /\ \A k \in 1..Len(acc.fills) : Append(acc.fills, f)[k] = acc.fills[k]
          /\ Append(acc.fills, f)[Len(acc.fills) + 1] = f
      BY <2>2, <2>7, AppendProperties
    <3> QED
      BY <2>4, <2>7, <3>1, <3>2, <3>3, <3>4
  <2>12. acc.left - q = o.qty - Taken(Append(acc.fills, f), o.id)
    <3>1. acc.left = o.qty - Taken(acc.fills, o.id) /\ o.qty \in Nat
      BY OrderFacts DEF Halfway
    <3> QED
      BY <2>6, <2>7, <2>10, <3>1
  <2>13. ASSUME NEW x \in DOMAIN book
         PROVE  new[x] = [book[x] EXCEPT !.qty = @ - Taken(Append(acc.fills, f), x)]
    <3>1. CASE x = i
      <4>1. Taken(Append(acc.fills, f), i) = Taken(acc.fills, i) + q
        BY <2>7, <2>10
      <4>2. /\ m.qty = book[i].qty - Taken(acc.fills, i)
            /\ m = [book[i] EXCEPT !.qty = m.qty]
        BY <2>8 DEF RestingOrder
      <4>3. m.qty - q = book[i].qty - Taken(Append(acc.fills, f), i)
        BY <2>6, <2>8, <2>10, <4>1, <4>2 DEF RestingOrder
      <4>4. [m EXCEPT !.qty = @ - q] = [book[i] EXCEPT !.qty = m.qty - q]
        BY <2>8, <4>2 DEF RestingOrder
      <4> QED
        BY <2>9, <3>1, <4>3, <4>4
    <3>2. CASE x # i
      <4>1. Taken(Append(acc.fills, f), x) = Taken(acc.fills, x)
        BY <2>5, <2>7, <2>10, <3>2
      <4>2. new[x] = acc.book[x]
        BY <2>9, <3>2
      <4> QED
        BY <4>1, <4>2 DEF Halfway
    <3> QED
      BY <3>1, <3>2
  <2> DEFINE next == Matched(acc, o)
  <2>14. /\ next.book = new /\ next.left = acc.left - q /\ next.fills = Append(acc.fills, f)
         /\ next = [book |-> next.book, left |-> next.left, fills |-> next.fills]
    BY <2>1
  <2> HIDE DEF next
  <2>15. Halfway(next, o)
    BY <2>6, <2>9, <2>11, <2>12, <2>13, <2>14 DEF Halfway
  <2> QED
    BY <2>15 DEF next
<1> QED
  BY <1>1, <1>2

\* The trades follow one another: there is such a function of their number.
LEMMA TradesExist ==
  ASSUME NEW start, NEW o, NEW N \in Nat
  PROVE  \E w : w = [n \in 0..N |-> IF n = 0 THEN start ELSE Matched(w[n - 1], o)]
<1> DEFINE Trades(w, k) == w = [n \in 0..k |-> IF n = 0 THEN start ELSE Matched(w[n - 1], o)]
           Good == {k \in Nat : \E w : Trades(w, k)}
<1>1. 0 \in Good
  <2> DEFINE w == [n \in 0..0 |-> start]
  <2>1. Trades(w, 0)
    OBVIOUS
  <2> QED
    BY <2>1
<1>2. ASSUME NEW k \in Nat, k \in Good PROVE k + 1 \in Good
  <2>1. PICK w : Trades(w, k)
    BY <1>2
  <2> DEFINE more == [n \in 0..k + 1 |-> IF n = k + 1 THEN Matched(w[k], o) ELSE w[n]]
  <2>2. \A n \in 0..k : w[n] = IF n = 0 THEN start ELSE Matched(w[n - 1], o)
    BY <2>1
  <2>3. ASSUME NEW n \in 0..k + 1
        PROVE  more[n] = IF n = 0 THEN start ELSE Matched(more[n - 1], o)
    <3>1. CASE n = k + 1
      <4>1. n # 0 /\ n - 1 = k /\ k \in 0..k + 1 /\ k # k + 1
        BY <3>1
      <4> QED
        BY <3>1, <4>1
    <3>2. CASE n # k + 1
      <4>1. n \in 0..k /\ more[n] = w[n]
        BY <3>2
      <4>2. n # 0 => n - 1 \in 0..k + 1 /\ n - 1 # k + 1 /\ more[n - 1] = w[n - 1]
        BY <4>1
      <4> QED
        BY <2>2, <4>1, <4>2
    <3> QED
      BY <3>1, <3>2
  <2>4. DOMAIN more = 0..k + 1 /\ more = [n \in 0..k + 1 |-> more[n]]
    OBVIOUS
  <2> HIDE DEF more
  <2>5. Trades(more, k + 1)
    BY <2>3, <2>4
  <2> QED
    BY <2>5
<1>3. N \in Good
  <2> HIDE DEF Good
  <2> QED
    BY <1>1, <1>2, NatInductionOnSet
<1> QED
  BY <1>3

\* The trades that work an order.
LEMMA TradesOfWorked ==
  ASSUME ValidatorInv, NEW o \in Orders
  PROVE  \E w : /\ Worked(o) = w[idx]
                /\ \A n \in 0..idx : Halfway(w[n], o)
                /\ \A n \in 0..idx : n # 0 => w[n] = Matched(w[n - 1], o)
<1> DEFINE start == [book |-> book, left |-> o.qty, fills |-> <<>>]
           w == CHOOSE w : w = [n \in 0..idx |-> IF n = 0 THEN start ELSE Matched(w[n - 1], o)]
           Good == {n \in Nat : n \in 0..idx => Halfway(w[n], o)}
<1>1. idx \in Nat
  BY DEF ValidatorInv
<1>2. w = [n \in 0..idx |-> IF n = 0 THEN start ELSE Matched(w[n - 1], o)]
  <2> HIDE DEF start
  <2> QED
    BY <1>1, TradesExist
<1>3. Worked(o) = w[idx]
  BY DEF Worked
<1> HIDE DEF w
<1>4. w[0] = start /\ \A n \in 0..idx : n # 0 => w[n] = Matched(w[n - 1], o)
  BY <1>1, <1>2
<1>5. 0 \in Good
  BY <1>4, HalfwayStart
<1>6. ASSUME NEW n \in Nat, n \in Good PROVE n + 1 \in Good
  <2>1. SUFFICES ASSUME n + 1 \in 0..idx PROVE Halfway(w[n + 1], o)
    OBVIOUS
  <2>2. Halfway(w[n], o) /\ (n + 1) - 1 = n /\ n + 1 # 0
    BY <1>1, <1>6, <2>1
  <2>3. w[n + 1] = Matched(w[n], o)
    BY <1>4, <2>1, <2>2
  <2> QED
    BY <2>2, <2>3, HalfwayStep
<1>7. \A n \in Nat : n \in Good
  <2> HIDE DEF Good
  <2> QED
    BY <1>5, <1>6, NatInductionOnSet
<1>8. \A n \in 0..idx : Halfway(w[n], o)
  BY <1>1, <1>7
<1> QED
  BY <1>3, <1>4, <1>8

\* The reference engine has worked an order.
LEMMA WorkedIsHalfway ==
  ASSUME ValidatorInv, NEW o \in Orders
  PROVE  Halfway(Worked(o), o)
<1>1. idx \in 0..idx
  BY DEF ValidatorInv
<1> QED
  BY <1>1, TradesOfWorked

\* Every trade fills a maker or the order: after as many trades as there are orders
\* in the book, or before, the order is worked out.
FilledMakers(acc) == {i \in DOMAIN book : acc.book[i].qty = 0}

\* A trade fills a maker, or nothing is left of the order.
LEMMA TradeFills ==
  ASSUME ValidatorInv, NEW o \in Orders, NEW acc, Halfway(acc, o), ~WorkedOut(acc, o)
  PROVE  \/ WorkedOut(Matched(acc, o), o)
         \/ \E i \in DOMAIN book \ FilledMakers(acc) :
              FilledMakers(acc) \cup {i} \subseteq FilledMakers(Matched(acc, o))
<1> DEFINE es == Eligible(acc.book, o)
           i == Best(acc.book, es)
           m == acc.book[i]
           q == IF m.qty < acc.left THEN m.qty ELSE acc.left
           next == Matched(acc, o)
           Open == [side : {Buy, Sell}, price : Nat \ {0}, qty : Nat]
<1>1. acc.book \in [DOMAIN book -> Open] /\ acc.left \in Nat
  BY DEF Halfway
<1>2. i \in es
  BY BestEligible DEF WorkedOut
<1>3. i \in DOMAIN book /\ m \in Open /\ m.qty > 0
  BY <1>1, <1>2 DEF Eligible
<1>4. next.book = [acc.book EXCEPT ![i].qty = @ - q] /\ next.left = acc.left - q
  BY DEF Matched, Trade, WorkedOut
<1> HIDE DEF next, i, es, q
<1>5. next.book[i].qty = m.qty - q /\ \A x \in DOMAIN book \ {i} : next.book[x] = acc.book[x]
  BY <1>1, <1>3, <1>4
<1>6. CASE q = acc.left
  <2>1. next.left = 0
    BY <1>1, <1>4, <1>6
  <2> QED
    BY <2>1 DEF WorkedOut, next
<1>7. CASE q = m.qty
  <2>1. i \in FilledMakers(next) /\ FilledMakers(acc) \subseteq FilledMakers(next)
    BY <1>1, <1>3, <1>5, <1>7 DEF FilledMakers
  <2>2. i \notin FilledMakers(acc)
    BY <1>3 DEF FilledMakers
  <2> QED
    BY <1>3, <2>1, <2>2 DEF next
<1> QED
  BY <1>6, <1>7 DEF q

\* The reference engine does not stop before its order is worked out.
LEMMA WorkedIsDone ==
  ASSUME ValidatorInv, NEW o \in Orders
  PROVE  WorkedOut(Worked(o), o)
<1> DEFINE Good(w) == {n \in Nat : n \in 0..idx =>
                        \/ WorkedOut(w[n], o)
                        \/ Cardinality(FilledMakers(w[n])) >= n}
<1>1. idx \in Nat /\ DOMAIN book \subseteq 1..idx
  BY DEF ValidatorInv
<1>2. PICK w : /\ Worked(o) = w[idx]
               /\ \A n \in 0..idx : Halfway(w[n], o)
               /\ \A n \in 0..idx : n # 0 => w[n] = Matched(w[n - 1], o)
  BY TradesOfWorked
<1>3. IsFiniteSet(DOMAIN book) /\ Cardinality(DOMAIN book) \in Nat /\ Cardinality(DOMAIN book) <= idx
  <2>1. IsFiniteSet(1..idx) /\ Cardinality(1..idx) = idx
    BY <1>1, FS_Interval
  <2> QED
    BY <1>1, <2>1, FS_Subset, FS_CardinalityType
<1>4. \A n \in 0..idx : /\ FilledMakers(w[n]) \subseteq DOMAIN book
                        /\ IsFiniteSet(FilledMakers(w[n]))
                        /\ Cardinality(FilledMakers(w[n])) \in Nat
  <2>1. \A n : FilledMakers(w[n]) \in SUBSET DOMAIN book
    BY DEF FilledMakers
  <2> QED
    BY <1>3, <2>1, FS_Subset, FS_CardinalityType
<1>5. 0 \in Good(w)
  BY <1>1, <1>4
<1>6. ASSUME NEW n \in Nat, n \in Good(w) PROVE n + 1 \in Good(w)
  <2>1. SUFFICES ASSUME n + 1 \in 0..idx
                 PROVE  WorkedOut(w[n + 1], o) \/ Cardinality(FilledMakers(w[n + 1])) >= n + 1
    OBVIOUS
  <2>2. n \in 0..idx /\ n + 1 # 0 /\ (n + 1) - 1 = n
    BY <1>1, <2>1
  <2>3. w[n + 1] = Matched(w[n], o) /\ Halfway(w[n], o)
    BY <1>2, <2>1, <2>2
  <2>4. CASE WorkedOut(w[n], o)
    BY <2>3, <2>4 DEF WorkedOut, Matched
  <2>5. CASE ~WorkedOut(w[n], o) /\ Cardinality(FilledMakers(w[n])) >= n
    <3>1. CASE WorkedOut(w[n + 1], o)
      BY <3>1
    <3>2. CASE \E i \in DOMAIN book \ FilledMakers(w[n]) :
                 FilledMakers(w[n]) \cup {i} \subseteq FilledMakers(w[n + 1])
      <4>1. PICK i \in DOMAIN book \ FilledMakers(w[n]) :
                   FilledMakers(w[n]) \cup {i} \subseteq FilledMakers(w[n + 1])
        BY <3>2
      <4>2. Cardinality(FilledMakers(w[n]) \cup {i}) = Cardinality(FilledMakers(w[n])) + 1
        BY <1>4, <2>2, <4>1, FS_AddElement
      <4>3. Cardinality(FilledMakers(w[n]) \cup {i}) <= Cardinality(FilledMakers(w[n + 1]))
        BY <1>4, <2>1, <4>1, FS_Subset
      <4> QED
        BY <1>4, <2>1, <2>2, <2>5, <4>2, <4>3
    <3> QED
      BY <2>3, <2>5, <3>1, <3>2, TradeFills
  <2> QED
    BY <1>6, <2>2, <2>4, <2>5
<1>7. idx \in Good(w)
  <2> HIDE DEF Good
  <2> QED
    BY <1>1, <1>5, <1>6, NatInductionOnSet
<1>8. ASSUME Cardinality(FilledMakers(w[idx])) >= idx PROVE Eligible(w[idx].book, o) = {}
  <2>1. idx \in 0..idx
    BY <1>1
  <2>2. FilledMakers(w[idx]) = DOMAIN book
    <3>1. /\ FilledMakers(w[idx]) \in SUBSET DOMAIN book
          /\ Cardinality(FilledMakers(w[idx])) \in Nat
          /\ Cardinality(FilledMakers(w[idx])) <= Cardinality(DOMAIN book)
      BY <1>3, <1>4, <2>1, FS_Subset
    <3>2. Cardinality(FilledMakers(w[idx])) = Cardinality(DOMAIN book)
      BY <1>1, <1>3, <1>8, <3>1
    <3> QED
      BY <1>3, <3>1, <3>2, FS_Subset
  <2>3. Halfway(w[idx], o)
    BY <1>2, <2>1
  <2> QED
    BY <2>2, <2>3 DEF Halfway, FilledMakers, Eligible
<1> QED
  BY <1>1, <1>2, <1>7, <1>8 DEF WorkedOut

\* Equal fills are the only ones judged correct, and they are.
LEMMA CorrectMeansEqual ==
  ASSUME ValidatorInv, NEW o \in Orders, NEW answer \in Answers(MaxFills),
         verifyAdd(Worked(o).fills, answer) = Correct
  PROVE  answer = Worked(o).fills
<1> DEFINE ref == Worked(o).fills
           wrong == {i \in DOMAIN ref : ViolationOf(answer[i], ref[i]) # Correct}
<1>1. ref \in Seq(RefFill) /\ idx \in Nat
  BY WorkedIsHalfway DEF Halfway, ValidatorInv
<1> HIDE DEF ref
<1>2. /\ Len(ref) \in Nat /\ DOMAIN ref = 1..Len(ref)
      /\ \A i \in DOMAIN ref : ref[i] \in RefFill
  BY <1>1, LenProperties, ElementOfSeq
<1>3. PICK n \in 0..MaxFills : answer \in [1..n -> ReportedFills]
  BY DEF Answers
<1>4. n \in Nat /\ answer \in Seq(ReportedFills)
  BY <1>3, BoundsAssumption
<1>5. Len(answer) \in Nat /\ DOMAIN answer = 1..Len(answer)
  BY <1>4, LenProperties
<1>6. Len(answer) = Len(ref) /\ Compared(answer, ref) = Correct
  BY <1>2, <1>5 DEF verifyAdd, Correct, ref
<1>7. wrong = {}
  <2>1. SUFFICES ASSUME wrong # {} PROVE FALSE
    OBVIOUS
  <2> DEFINE first == CHOOSE i \in wrong : \A j \in wrong : i <= j
  <2>2. wrong \subseteq Nat
    BY <1>2
  <2>3. first \in wrong
    <3> HIDE DEF wrong
    <3> QED
      BY <2>1, <2>2, LeastExists
  <2>4. Compared(answer, ref) = ViolationOf(answer[first], ref[first])
    BY <2>1 DEF Compared
  <2>5. ViolationOf(answer[first], ref[first]) # Correct
    BY <2>3
  <2> QED
    BY <1>6, <2>4, <2>5
<1>8. ASSUME NEW i \in DOMAIN answer PROVE answer[i] = ref[i]
  <2>1. ViolationOf(answer[i], ref[i]) = Correct /\ ref[i] \in RefFill /\ answer[i] \in ReportedFills
    BY <1>2, <1>3, <1>5, <1>6, <1>7
  <2>2. /\ answer[i].maker = ref[i].maker /\ answer[i].taker = ref[i].taker
        /\ answer[i].price = ref[i].price
        /\ ~(answer[i].qty > ref[i].qty) /\ ~(answer[i].qty < ref[i].qty)
    BY <2>1 DEF ViolationOf, Correct
  <2>3. answer[i].qty \in Nat /\ ref[i].qty \in Nat
    BY <2>1, WorkloadAssumption DEF ReportedFills, RefFill
  <2>4. answer[i].qty = ref[i].qty
    BY <2>2, <2>3
  <2> QED
    BY <2>1, <2>2, <2>4 DEF ReportedFills, RefFill
<1>9. answer \in [1..Len(answer) -> ReportedFills] /\ ref \in [1..Len(answer) -> RefFill]
  BY <1>1, <1>4, <1>6, LenProperties
<1>10. answer = ref
  BY <1>5, <1>8, <1>9
<1> QED
  BY <1>10 DEF ref

LEMMA EqualIsCorrect ==
  ASSUME ValidatorInv, NEW o \in Orders
  PROVE  verifyAdd(Worked(o).fills, Worked(o).fills) = Correct
<1> DEFINE ref == Worked(o).fills
<1>1. ref \in Seq(RefFill) /\ \A i \in DOMAIN ref : ref[i].maker \in DOMAIN book
  BY WorkedIsHalfway DEF Halfway
<1> HIDE DEF ref
<1>2. Len(ref) \in Nat /\ \A i \in DOMAIN ref : ref[i].qty \in Nat
  <2>1. Len(ref) \in Nat /\ \A i \in DOMAIN ref : ref[i] \in RefFill
    BY <1>1, LenProperties, ElementOfSeq
  <2> QED
    BY <2>1 DEF RefFill
<1>3. ~Zombie(ref)
  BY <1>1 DEF Zombie, ValidatorInv
<1>4. \A i \in DOMAIN ref : ViolationOf(ref[i], ref[i]) = Correct
  BY <1>2 DEF ViolationOf
<1>5. Compared(ref, ref) = Correct
  BY <1>4 DEF Compared
<1> QED
  BY <1>2, <1>3, <1>5 DEF verifyAdd, ref

\* The order joins the book with what is left of it, and makers that are filled leave.
LEMMA SettledIsBook ==
  ASSUME ValidatorInv, NEW o \in Orders
  PROVE  LET b == Settled(Worked(o).book, o, Worked(o).left) IN
         b \in [DOMAIN b -> RestingOrder] /\ DOMAIN b \subseteq DOMAIN book \cup {o.id}
<1> DEFINE w == Worked(o)
           open == OpenOrders(w.book)
           rests == IF o.type = Limit /\ w.left > 0 THEN {o.id} ELSE {}
           rest == [side |-> o.side, price |-> o.price, qty |-> w.left]
           b == [i \in open \cup rests |-> IF i \in open THEN w.book[i] ELSE rest]
<1>1. /\ w.book \in [DOMAIN book -> [side : {Buy, Sell}, price : Nat \ {0}, qty : Nat]]
      /\ w.left \in Nat
  BY WorkedIsHalfway DEF Halfway
<1>2. Settled(w.book, o, w.left) = b
  BY DEF Settled
<1> HIDE DEF w
<1>3. \A i \in open : i \in DOMAIN book /\ w.book[i] \in RestingOrder
  BY <1>1 DEF OpenOrders, RestingOrder
<1>4. rests \subseteq {o.id} /\ (rests # {} => rest \in RestingOrder)
  BY <1>1, OrderFacts DEF RestingOrder
<1> HIDE DEF open, rests, rest
<1>5. b \in [DOMAIN b -> RestingOrder] /\ DOMAIN b \subseteq DOMAIN book \cup {o.id}
  BY <1>3, <1>4
<1> QED
  BY <1>2, <1>5 DEF w

\* An order agrees in both books: it is in both, the same, or in neither.
Agrees(id, b, c) == (id \in DOMAIN b <=> id \in DOMAIN c) /\ (id \in DOMAIN c => b[id] = c[id])

\* Of an order in the reported book and in the reference book, the same fills
\* leave the same.
LEMMA LessenedAgrees ==
  ASSUME ValidatorInv, NEW o \in Orders, NEW id \in 1..idx, Agrees(id, reported, book)
  PROVE  LET w == Worked(o)
             b == Lessened(w.fills)
         IN /\ id \in OpenOrders(b) <=> id \in OpenOrders(w.book)
            /\ id \in OpenOrders(w.book) => b[id] = w.book[id]
<1> DEFINE w == Worked(o)
           b == Lessened(w.fills)
<1>1. /\ DOMAIN w.book = DOMAIN book
      /\ \A i \in DOMAIN book : w.book[i] = [book[i] EXCEPT !.qty = @ - Taken(w.fills, i)]
  BY WorkedIsHalfway DEF Halfway
<1> HIDE DEF w
<1>2. /\ DOMAIN b = DOMAIN reported
      /\ \A i \in DOMAIN reported : b[i] = [reported[i] EXCEPT !.qty = @ - Taken(w.fills, i)]
  BY DEF Lessened
<1> HIDE DEF b
<1>3. CASE id \in DOMAIN book
  <2>1. b[id] = w.book[id] /\ id \in DOMAIN b /\ id \in DOMAIN w.book
    BY <1>1, <1>2, <1>3 DEF Agrees
  <2> QED
    BY <2>1 DEF OpenOrders, w, b
<1>4. CASE id \notin DOMAIN book
  <2>1. id \notin DOMAIN b /\ id \notin DOMAIN w.book
    BY <1>1, <1>2, <1>4 DEF Agrees
  <2> QED
    BY <2>1 DEF OpenOrders, w, b
<1> QED
  BY <1>3, <1>4 DEF w, b

\* An order added is judged, and the book moves on with the reported book.
LEMMA JudgeAddStep ==
  ASSUME ValidatorInv, NEW o \in Orders, NEW answer \in Answers(MaxFills), NEW terminal,
         JudgeAdd(o, Worked(o), answer, terminal)
  PROVE  ValidatorInv'
<1> DEFINE w == Worked(o)
           v == verifyAdd(w.fills, answer)
           r == AddReported(o, answer, terminal)
           ids == IF terminal = "ACK" THEN {} ELSE {o.id}
           given == IF terminal = "ACK" THEN o.qty - Taken(answer, o.id) ELSE 0
<1>1. /\ flawless' = (flawless /\ v = Correct) /\ idx' = idx + 1
      /\ book' = Settled(w.book, o, w.left) /\ Tracked(v, r, ids)
      /\ cancelled' = cancelled
  BY DEF JudgeAdd, Judged
<1>2. /\ idx \in Nat /\ flawless \in BOOLEAN /\ DOMAIN book \subseteq 1..idx
      /\ cancelled \subseteq 1..idx /\ cancelled \cap DOMAIN book = {}
      /\ DOMAIN reported \subseteq 1..idx
  BY DEF ValidatorInv
<1>3. o.id = idx + 1
  BY OrderFacts
<1>4. book' \in [DOMAIN book' -> RestingOrder] /\ DOMAIN book' \subseteq DOMAIN book \cup {o.id}
  BY <1>1, SettledIsBook
<1>5. Halfway(w, o)
  BY WorkedIsHalfway
<1>6. v = Correct => answer = w.fills
  BY CorrectMeansEqual
<1>7. r = Settled(Lessened(answer), o, given)
  BY DEF AddReported
<1>8. terminal = "ACK" => given = o.qty - Taken(answer, o.id)
  OBVIOUS
<1>9. o.id \notin ids => terminal = "ACK"
  OBVIOUS
<1>10. w.left = o.qty - Taken(w.fills, o.id) /\ DOMAIN w.book = DOMAIN book
  BY <1>5 DEF Halfway
<1>11. \A id \in 1..idx : Agrees(id, reported, book) =>
         /\ id \in OpenOrders(Lessened(w.fills)) <=> id \in OpenOrders(w.book)
         /\ id \in OpenOrders(w.book) => Lessened(w.fills)[id] = w.book[id]
  BY LessenedAgrees
<1> HIDE DEF w, v, r, ids, given
<1>12. flawless' \in BOOLEAN /\ (flawless' => flawless /\ v = Correct)
  BY <1>1, <1>2
<1>13. OpenOrders(Lessened(answer)) \subseteq 1..idx /\ OpenOrders(w.book) \subseteq 1..idx
  BY <1>2, <1>10 DEF OpenOrders, Lessened
<1> DEFINE rests == IF o.type = Limit /\ given > 0 THEN {o.id} ELSE {}
           left == IF o.type = Limit /\ w.left > 0 THEN {o.id} ELSE {}
           rest(n) == [side |-> o.side, price |-> o.price, qty |-> n]
           c == Lessened(answer)
<1>14. r = [i \in OpenOrders(c) \cup rests |-> IF i \in OpenOrders(c) THEN c[i] ELSE rest(given)]
  BY <1>7 DEF Settled
<1>15. book' = [i \in OpenOrders(w.book) \cup left |->
                  IF i \in OpenOrders(w.book) THEN w.book[i] ELSE rest(w.left)]
  BY <1>1 DEF Settled
<1>16. rests \subseteq {o.id} /\ left \subseteq {o.id} /\ (given = w.left => rests = left)
  OBVIOUS
<1> HIDE DEF rests, left, rest, c
<1>17. DOMAIN reported' \subseteq 1..idx'
  <2>1. DOMAIN r \subseteq 1..idx + 1
    BY <1>2, <1>3, <1>13, <1>14, <1>16 DEF c
  <2>2. DOMAIN (<<>>) = {}
    OBVIOUS
  <2> QED
    BY <1>1, <2>1, <2>2 DEF Tracked
<1>18. ASSUME flawless', NEW id \in 1..idx' \ overlooked'
       PROVE  Agrees(id, reported', book')
  <2>1. /\ reported' = r /\ overlooked' = (overlooked \cup ids) \cap (DOMAIN book' \cup DOMAIN r)
        /\ answer = w.fills
        /\ \A i \in 1..idx \ overlooked : Agrees(i, reported, book)
    BY <1>1, <1>6, <1>12, <1>18 DEF ValidatorInv, CorrectMeansSameBook, Tracked, Agrees
  <2>2. CASE id \in overlooked \cup ids
    BY <1>18, <2>1, <2>2 DEF Agrees
  <2>3. CASE id = o.id /\ id \notin ids
    <3>1. given = w.left /\ rests = left
      BY <1>8, <1>9, <1>10, <1>16, <2>1, <2>3
    <3>2. o.id \notin OpenOrders(c) /\ o.id \notin OpenOrders(w.book)
      BY <1>2, <1>3, <1>13 DEF c
    <3> QED
      BY <1>14, <1>15, <2>1, <2>3, <3>1, <3>2 DEF Agrees
  <2>4. CASE id # o.id /\ id \notin overlooked \cup ids
    <3>1. id \in 1..idx /\ Agrees(id, reported, book)
      BY <1>1, <1>2, <1>3, <1>18, <2>1, <2>4
    <3>2. /\ id \in OpenOrders(c) <=> id \in OpenOrders(w.book)
          /\ id \in OpenOrders(w.book) => c[id] = w.book[id]
      BY <1>11, <2>1, <3>1 DEF c
    <3>3. id \notin rests /\ id \notin left
      BY <1>16, <2>4
    <3> QED
      BY <1>14, <1>15, <2>1, <3>2, <3>3 DEF Agrees
  <2> QED
    BY <2>2, <2>3, <2>4
<1>19. CorrectMeansSameBook'
  BY <1>18 DEF CorrectMeansSameBook, Agrees
<1>20. /\ idx' \in Nat /\ DOMAIN book' \subseteq 1..idx' /\ cancelled' \subseteq 1..idx'
       /\ cancelled' \cap DOMAIN book' = {}
  BY <1>1, <1>2, <1>3, <1>4
<1> QED
  BY <1>4, <1>12, <1>17, <1>19, <1>20 DEF ValidatorInv, RestingOrder

\* From an order that no fill names, nothing is taken.
LEMMA NothingTaken ==
  ASSUME NEW n \in Nat, NEW T, NEW answer \in [1..n -> T], NEW id,
         \A i \in 1..n : id # answer[i].maker /\ id # answer[i].taker
  PROVE  Taken(answer, id) = 0
<1> DEFINE share == [i \in DOMAIN answer |-> IF id \in {answer[i].maker, answer[i].taker}
                                             THEN answer[i].qty ELSE 0]
<1>1. DOMAIN answer = 1..n /\ IsFiniteSet(1..n)
  BY FS_Interval
<1>2. share = [i \in 1..n |-> 0]
  BY <1>1
<1>3. Taken(answer, id) = SumFunctionOnSet(share, 1..n)
  BY <1>1 DEF Taken
<1> QED
  BY <1>1, <1>2, <1>3, SumOfZeros

\* A cancel judged correct takes the order from both books or from neither, and
\* fills in its answer change no order but those they name.
LEMMA JudgeCancelStep ==
  ASSUME ValidatorInv, NEW id \in 1..idx, NEW answer \in Answers(MaxStray), NEW terminal,
         JudgeCancel(id, answer, terminal)
  PROVE  ValidatorInv'
<1> DEFINE v == verifyCancel(id, terminal)
           b == Lessened(answer)
           gone == IF terminal = "ACK" THEN {id} ELSE {}
           r == CancelReported(id, answer, terminal)
           ids == UNION {{answer[i].maker, answer[i].taker} : i \in DOMAIN answer}
<1>1. /\ flawless' = (flawless /\ v = Correct) /\ idx' = idx + 1
      /\ book' = Without(book, id) /\ cancelled' = Cancelled(id)
      /\ Tracked(v, r, ids)
  BY DEF JudgeCancel, Judged
<1>2. /\ idx \in Nat /\ flawless \in BOOLEAN /\ DOMAIN book \subseteq 1..idx
      /\ book \in [DOMAIN book -> RestingOrder]
      /\ cancelled \subseteq 1..idx /\ cancelled \cap DOMAIN book = {}
      /\ DOMAIN reported \subseteq 1..idx
  BY DEF ValidatorInv
<1>3. /\ DOMAIN book' = DOMAIN book \ {id}
      /\ book' \in [DOMAIN book' -> RestingOrder]
      /\ \A i \in DOMAIN book \ {id} : book'[i] = book[i]
  BY <1>1, <1>2 DEF Without, Restrict
<1>4. cancelled' \subseteq 1..idx /\ cancelled' \cap DOMAIN book' = {}
  BY <1>1, <1>2, <1>3 DEF Cancelled
<1>5. v = Correct => (id \in DOMAIN book <=> terminal = "ACK")
  BY DEF verifyCancel, Correct
<1>6. DOMAIN b = DOMAIN reported
      /\ \A i \in DOMAIN reported : b[i] = [reported[i] EXCEPT !.qty = @ - Taken(answer, i)]
  BY DEF Lessened
<1>7. /\ DOMAIN r = OpenOrders(b) \ gone
      /\ \A i \in OpenOrders(b) \ gone : r[i] = b[i]
  BY DEF CancelReported, Restrict
<1>8. \A i : i \notin ids => Taken(answer, i) = 0
  <2>1. PICK n \in 0..MaxStray : answer \in [1..n -> ReportedFills]
    BY DEF Answers
  <2>2. n \in Nat /\ DOMAIN answer = 1..n
    BY <2>1, BoundsAssumption
  <2>3. SUFFICES ASSUME NEW i, i \notin ids PROVE Taken(answer, i) = 0
    OBVIOUS
  <2>4. \A k \in 1..n : i # answer[k].maker /\ i # answer[k].taker
    BY <2>2, <2>3
  <2> QED
    BY <2>1, <2>2, <2>4, NothingTaken
<1>9. \A i : i \in gone <=> i = id /\ terminal = "ACK"
  OBVIOUS
<1> HIDE DEF v, b, r, ids, gone
<1>10. OpenOrders(b) \subseteq DOMAIN reported
  BY <1>6 DEF OpenOrders
<1>11. flawless' \in BOOLEAN /\ (flawless' => flawless /\ v = Correct)
  BY <1>1, <1>2
<1>12. DOMAIN reported' \subseteq 1..idx'
  <2>1. DOMAIN r \subseteq 1..idx + 1
    BY <1>2, <1>7, <1>10
  <2>2. DOMAIN (<<>>) = {}
    OBVIOUS
  <2> QED
    BY <1>1, <2>1, <2>2 DEF Tracked
<1>13. ASSUME flawless', NEW i \in 1..idx' \ overlooked'
       PROVE  Agrees(i, reported', book')
  <2>1. /\ reported' = r /\ overlooked' = (overlooked \cup ids) \cap (DOMAIN book' \cup DOMAIN r)
        /\ id \in DOMAIN book <=> terminal = "ACK"
        /\ \A k \in 1..idx \ overlooked : Agrees(k, reported, book)
    BY <1>1, <1>5, <1>11, <1>13 DEF ValidatorInv, CorrectMeansSameBook, Tracked, Agrees
  <2>2. CASE i \in overlooked \cup ids
    BY <1>13, <2>1, <2>2 DEF Agrees
  <2>3. CASE i \notin 1..idx
    BY <1>2, <1>3, <1>7, <1>10, <2>1, <2>3 DEF Agrees
  <2>4. CASE i \in 1..idx /\ i \notin overlooked \cup ids
    <3>1. Agrees(i, reported, book) /\ Taken(answer, i) = 0
      BY <1>8, <2>1, <2>4
    <3>2. CASE i \notin DOMAIN book
      BY <1>3, <1>7, <1>10, <2>1, <3>1, <3>2 DEF Agrees
    <3>3. CASE i \in DOMAIN book
      <4>1. i \in DOMAIN reported /\ reported[i] = book[i] /\ book[i] \in RestingOrder
        BY <1>2, <3>1, <3>3 DEF Agrees
      <4>2. b[i] = [book[i] EXCEPT !.qty = @ - 0]
        BY <1>6, <3>1, <4>1
      <4>3. b[i] = book[i] /\ book[i].qty > 0
        BY <4>1, <4>2 DEF RestingOrder
      <4>4. i \in OpenOrders(b)
        BY <1>6, <4>1, <4>3 DEF OpenOrders
      <4>5. i \in gone <=> i = id
        BY <1>9, <2>1, <3>3
      <4> QED
        BY <1>3, <1>7, <2>1, <3>3, <4>3, <4>4, <4>5 DEF Agrees
    <3> QED
      BY <3>2, <3>3
  <2> QED
    BY <2>2, <2>3, <2>4
<1>14. CorrectMeansSameBook'
  BY <1>13 DEF CorrectMeansSameBook, Agrees
<1>15. idx' \in Nat /\ DOMAIN book' \subseteq 1..idx' /\ cancelled' \subseteq 1..idx'
  BY <1>1, <1>2, <1>3, <1>4
<1> QED
  BY <1>3, <1>4, <1>11, <1>12, <1>14, <1>15 DEF ValidatorInv, RestingOrder

\* ValidatorInv is inductive.
LEMMA ValidatorInductive == ValidatorSpec => []ValidatorInv
<1>1. ValidatorInit => ValidatorInv
  <2> SUFFICES ASSUME ValidatorInit PROVE ValidatorInv
    OBVIOUS
  <2>1. idx = 0 /\ book = <<>> /\ cancelled = {} /\ reported = <<>> /\ flawless = TRUE
    BY DEF ValidatorInit
  <2>2. /\ DOMAIN book = {} /\ book \in [{} -> RestingOrder]
        /\ DOMAIN reported = {} /\ 1..0 = {}
    BY <2>1, EmptySeq
  <2> QED
    BY <2>1, <2>2 DEF ValidatorInv, CorrectMeansSameBook
<1>2. ValidatorInv /\ [ValidatorNext]_validatorVars => ValidatorInv'
  <2> SUFFICES ASSUME ValidatorInv, [ValidatorNext]_validatorVars PROVE ValidatorInv'
    OBVIOUS
  <2>1. CASE ValidatorNext
    BY <2>1, JudgeAddStep, JudgeCancelStep DEF ValidatorNext
  <2>2. CASE UNCHANGED validatorVars
    BY <2>2 DEF validatorVars, ValidatorInv, RestingOrder, CorrectMeansSameBook
  <2> QED
    BY <2>1, <2>2
<1> QED
  BY <1>1, <1>2, PTL DEF ValidatorSpec

\* As long as no tick is judged wrong, the answers describe the reference book but
\* for the orders named where no verdict looks.
THEOREM CorrectRunsAgree == ValidatorSpec => []CorrectMeansSameBook
<1>1. ValidatorInv => CorrectMeansSameBook
  BY DEF ValidatorInv
<1> QED
  BY <1>1, ValidatorInductive, PTL

\* A contestant that matches as the reference does is never marked wrong.
THEOREM HonestNeverWrong == ValidatorSpec => []HonestIsCorrect
<1>1. ValidatorInv => HonestIsCorrect
  <2> SUFFICES ASSUME ValidatorInv PROVE HonestIsCorrect
    OBVIOUS
  <2>1. \A o \in Orders : verifyAdd(Worked(o).fills, Worked(o).fills) = Correct
    BY EqualIsCorrect
  <2>2. ASSUME NEW id \in 1..idx
        PROVE  verifyCancel(id, IF id \in DOMAIN book THEN "ACK" ELSE "REJ") = Correct
    BY DEF verifyCancel
  <2> QED
    BY <2>1, <2>2 DEF HonestIsCorrect
<1> QED
  BY <1>1, ValidatorInductive, PTL

\* An order rests only when nobody in the book accepts it.
LEMMA AddKeepsUncrossed ==
  ASSUME ValidatorInv, BookNotCrossed, NEW o \in Orders,
         book' = Settled(Worked(o).book, o, Worked(o).left)
  PROVE  BookNotCrossed'
<1> DEFINE w == Worked(o)
           open == OpenOrders(w.book)
           rests == IF o.type = Limit /\ w.left > 0 THEN {o.id} ELSE {}
           rest == [side |-> o.side, price |-> o.price, qty |-> w.left]
<1>1. /\ w.book \in [DOMAIN book -> [side : {Buy, Sell}, price : Nat \ {0}, qty : Nat]]
      /\ \A i \in DOMAIN book : w.book[i] = [book[i] EXCEPT !.qty = @ - Taken(w.fills, i)]
      /\ \A i \in DOMAIN book : book[i] \in RestingOrder
  BY WorkedIsHalfway DEF Halfway, ValidatorInv
<1>2. \A i \in DOMAIN book : w.book[i].side = book[i].side /\ w.book[i].price = book[i].price
  BY <1>1 DEF RestingOrder
<1>3. w.left = 0 \/ Eligible(w.book, o) = {}
  BY WorkedIsDone DEF WorkedOut
<1>4. book' = [i \in open \cup rests |-> IF i \in open THEN w.book[i] ELSE rest]
  BY DEF Settled
<1> HIDE DEF w
<1>5. \A i \in open : i \in DOMAIN book /\ w.book[i].qty > 0
  BY <1>1 DEF OpenOrders
<1>6. /\ o.side \in {Buy, Sell} /\ Limit # Market
      /\ o.type = Limit => o.price \in Nat \ {0}
  BY OrderFacts DEF Limit, Market
<1>7. rests # {} =>
        \A i \in open : /\ o.side = Buy /\ book[i].side = Sell => o.price < book[i].price
                        /\ o.side = Sell /\ book[i].side = Buy => book[i].price < o.price
  <2>1. SUFFICES ASSUME rests # {}, NEW i \in open
                 PROVE  /\ o.side = Buy /\ book[i].side = Sell => o.price < book[i].price
                        /\ o.side = Sell /\ book[i].side = Buy => book[i].price < o.price
    OBVIOUS
  <2>2. o.type = Limit /\ i \notin Eligible(w.book, o)
    BY <1>3, <2>1
  <2>3. w.book[i].price \in Nat /\ o.price \in Nat /\ i \in DOMAIN w.book /\ w.book[i].qty > 0
    BY <1>1, <1>5, <1>6, <2>2
  <2> QED
    BY <1>2, <1>5, <1>6, <2>2, <2>3 DEF Eligible, Buy, Sell
<1>8. rest.side = o.side /\ rest.price = o.price
  OBVIOUS
<1> HIDE DEF open, rests, rest
<1>9. ASSUME NEW i \in DOMAIN book', NEW j \in DOMAIN book', book'[i].side = Buy, book'[j].side = Sell
      PROVE  book'[i].price < book'[j].price
  <2>1. CASE i \in open /\ j \in open
    BY <1>2, <1>4, <1>5, <1>9, <2>1 DEF BookNotCrossed
  <2>2. CASE i \in open /\ j \notin open
    BY <1>2, <1>4, <1>5, <1>7, <1>8, <1>9, <2>2
  <2>3. CASE i \notin open /\ j \in open
    BY <1>2, <1>4, <1>5, <1>7, <1>8, <1>9, <2>3
  <2>4. CASE i \notin open /\ j \notin open
    BY <1>4, <1>9, <2>4 DEF Buy, Sell
  <2> QED
    BY <2>1, <2>2, <2>3, <2>4
<1> QED
  BY <1>9 DEF BookNotCrossed

\* The reference engine works every order to its end, and its book is never crossed:
\* done in one step, it is what the order book promises in many.
THEOREM ReferenceIsABook == ValidatorSpec => []ReferenceWorksOrders
<1>1. ValidatorInit => BookNotCrossed
  BY DEF ValidatorInit, BookNotCrossed
<1>2. ValidatorInv /\ BookNotCrossed /\ [ValidatorNext]_validatorVars => BookNotCrossed'
  <2> SUFFICES ASSUME ValidatorInv, BookNotCrossed, [ValidatorNext]_validatorVars
               PROVE  BookNotCrossed'
    OBVIOUS
  <2>1. ASSUME NEW o \in Orders, NEW answer, NEW terminal, JudgeAdd(o, Worked(o), answer, terminal)
        PROVE  BookNotCrossed'
    BY <2>1, AddKeepsUncrossed DEF JudgeAdd
  <2>2. ASSUME NEW id \in 1..idx, NEW answer, NEW terminal, JudgeCancel(id, answer, terminal)
        PROVE  BookNotCrossed'
    BY <2>2 DEF JudgeCancel, BookNotCrossed, Without, Restrict
  <2>3. CASE UNCHANGED validatorVars
    BY <2>3 DEF validatorVars, BookNotCrossed
  <2> QED
    BY <2>1, <2>2, <2>3 DEF ValidatorNext
<1>3. ValidatorInv /\ BookNotCrossed => ReferenceWorksOrders
  BY WorkedIsDone DEF ReferenceWorksOrders
<1> QED
  BY <1>1, <1>2, <1>3, ValidatorInductive, PTL DEF ValidatorSpec
=============================================================================
