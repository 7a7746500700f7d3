------------------------- MODULE ProofTransportProofs -------------------------
(***************************************************************************)
(* What runCommand does with an operation that asks for proofs in rounds   *)
(* (ProofTransport), for every transaction, batch size, number of workers  *)
(* and behaviour of the caller and of other hosts: it is a truthful host,  *)
(* so proving through it is proving (ProofRounds, ProvingOrder); its       *)
(* results fit the round they were made for; no request of a batch is      *)
(* sent after it was stopped, and nothing is left running at the end.      *)
(*                                                                         *)
(* The argument: the step a client holds was true when it was answered,    *)
(* and it is of the open round as long as the round has its number; the    *)
(* workers of a batch take its requests in order, so when none awaits and  *)
(* nothing failed every request has its result.                            *)
(***************************************************************************)
EXTENDS ProofTransport, ProofRoundsProofs

USE RequestAssumption, TransportAssumption

\* the ids of the open round are all handed out, and it is no larger than a batch
OpenIsAdvertised ==
  /\ Len(pending) <= MaxBatch
  /\ \A i \in DOMAIN pending : <<EffectId(seq, i, Len(pending)), pending[i]>> \in advertised

RoundInv == Inv /\ OpenIsAdvertised

\* the step a client last received was true when it was answered, and of its round it still is
StepHeld ==
  /\ step \in [done : BOOLEAN, seq : Nat \ {0}, bodies : Seq(Keys)]
  /\ Size <= MaxBatch
  /\ step.seq <= seq /\ (step.seq = seq => step.bodies = pending)
  /\ \A i \in 1..Size : <<EffectId(step.seq, i, Size), step.bodies[i]>> \in advertised
  /\ step.done => status = "complete"
  /\ ~step.done => Size >= 1

Places == {"none", "loop", "notify", "single", "native", "batch", "resume", "cancel", "done"}

\* where a round is under way, and where its last step is still to be answered
InRound == {"single", "native", "batch", "resume"}

ClientTyped ==
  /\ pc \in Places /\ aborted \in BOOLEAN /\ cap \in Nat \ {0} /\ count \in Nat
  /\ nextIndex \in Nat \ {0} /\ stop \in BOOLEAN /\ failed \in BOOLEAN
  /\ worker \in [Workers -> Nat]

\* no round is begun, and no step shown to the caller, once the cap is reached
RoundsWithinCap == count <= cap /\ (pc \in InRound \cup {"notify"} => count < cap)

Rounds ==
  /\ pc \in InRound => ~step.done
  /\ pc = "single" => Size = 1
  /\ RoundsWithinCap

\* what a result for the i-th request of the step may be
Reply(i) ==
  [id : {EffectId(step.seq, i, Size)}, outcome : {"accepted"}, body : {step.bodies[i], NoAnswer, Garbage}]
  \cup [id : {EffectId(step.seq, i, Size)}, outcome : {"rejected"}, body : {NoAnswer}]

Replies == (UNION {Reply(i) : i \in 1..Size}) \cup {NoResult}

\* requests are taken in order; one that was taken and has no result is awaited by a worker or
\* has failed, and a worker without one found none to take, or has been stopped
Crew ==
  /\ results \in [1..Size -> Replies]
  /\ \A i \in 1..Size : results[i] \in Reply(i) \cup {NoResult}
  /\ \A w \in Workers : worker[w] <= Size
  /\ \A w \in Workers : worker[w] = 0 => stop \/ nextIndex > Size
  /\ stop => aborted \/ failed
  /\ failed => stop
  /\ ~failed => \A i \in 1..Size : i < nextIndex /\ results[i] = NoResult => i \in InFlight

Filled == results \in [1..Size -> Replies] /\ \A i \in 1..Size : results[i] \in Reply(i)

ClientInv ==
  /\ StepHeld /\ ClientTyped /\ Rounds
  /\ pc = "batch" => Crew
  /\ pc = "resume" => Filled
  /\ pc # "batch" => \A w \in Workers : worker[w] = 0
  /\ pc = "done" => status # "pending"

-----------------------------------------------------------------------------
(* What the native side does under any host *)

LEMMA BatchLength ==
  ASSUME NEW resp, NEW b \in BatchesOf(Captured(resp))
  PROVE  Len(b) <= MaxBatch
  <1> DEFINE n == Least(Cardinality(Captured(resp)), MaxBatch)
  <1>1. Cardinality(Captured(resp)) \in Nat
    BY CapturedKeys, FS_CardinalityType
  <1>2. n \in Nat /\ n <= MaxBatch
    BY <1>1 DEF Least
  <1>3. b \in [1..n -> Captured(resp)]
    BY DEF BatchesOf
  <1>4. Len(b) = n
    BY <1>2, <1>3
  <1> QED
    BY <1>2, <1>4

LEMMA RoundInit == Init => RoundInv
  <1> SUFFICES ASSUME Init PROVE OpenIsAdvertised
    BY InitInv DEF RoundInv
  <1>1. CASE status = "pending"
    <2>1. /\ pending \in BatchesOf(Captured(Unanswered)) /\ advertised = Advertised(1, pending)
          /\ seq = 1
      BY <1>1 DEF Init
    <2> QED
      BY <2>1, BatchLength DEF OpenIsAdvertised, Advertised
  <1>2. CASE status # "pending"
    BY <1>2 DEF Init, OpenIsAdvertised
  <1> QED
    BY <1>1, <1>2

\* what any step leaves true of a round and of the ids that were handed out
LEMMA RoundMoves ==
  ASSUME RoundInv, [Next]_vars
  PROVE  /\ RoundInv'
         /\ seq <= seq' /\ (seq' = seq => pending' = pending)
         /\ advertised \subseteq advertised'
         /\ status # "pending" => status' = status
  <1>1. Inv /\ Inv'
    BY InvStep DEF RoundInv
  <1>2. seq \in Nat \ {0}
    BY <1>1 DEF Inv, TypeOK
  <1>3. CASE UNCHANGED vars
    BY <1>1, <1>2, <1>3 DEF vars, RoundInv, OpenIsAdvertised
  <1>4. ASSUME status = "pending", NEW how \in {"failed", "cancelled"}, Retire(how)
        PROVE  OpenIsAdvertised' /\ seq' = seq /\ pending' = pending /\ advertised' = advertised
    BY <1>4 DEF Retire, RoundInv, OpenIsAdvertised
  <1>5. ASSUME status = "pending", NEW rs \in ResultLists, Advance(rs)
        PROVE  /\ OpenIsAdvertised'
               /\ seq <= seq' /\ (seq' = seq => pending' = pending)
               /\ advertised \subseteq advertised'
    <2>1. CASE status' = "pending"
      <3>1. PICK b \in BatchesOf(Captured(responses')) :
              /\ pending' = b /\ seq' = seq + 1
              /\ advertised' = advertised \cup Advertised(seq + 1, b)
        BY <1>5, <2>1 DEF Advance, NextRound
      <3>2. OpenIsAdvertised'
        BY <3>1, BatchLength DEF OpenIsAdvertised, Advertised
      <3> QED
        BY <1>2, <3>1, <3>2
    <2>2. CASE status' # "pending"
      <3>1. UNCHANGED <<seq, pending, advertised>>
        BY <1>5, <2>2 DEF Advance
      <3> QED
        BY <1>2, <3>1 DEF RoundInv, OpenIsAdvertised
    <2> QED
      BY <2>1, <2>2
  <1> QED
    BY <1>1, <1>2, <1>3, <1>4, <1>5, Steps DEF RoundInv

-----------------------------------------------------------------------------
(* runCommand is a truthful host *)

\* what is said under an advertised id may be delivered
LEMMA AdvertisedIsDeliverable ==
  ASSUME NEW id, NEW k, <<id, k>> \in advertised, NEW r,
         \/ r \in [id : {id}, outcome : {"accepted"}, body : {k, NoAnswer, Garbage}]
         \/ r \in [id : {id}, outcome : Outcomes, body : {NoAnswer}]
  PROVE  r \in Deliverable
  <1> DEFINE a == <<id, k>>
  <1>1. a[1] = id /\ a[2] = k
    OBVIOUS
  <1>2. r \in     [id : {a[1]}, outcome : {"accepted"}, body : {a[2], NoAnswer, Garbage}]
             \cup [id : {a[1]}, outcome : Outcomes, body : {NoAnswer}]
    BY <1>1
  <1> QED
    BY <1>2 DEF Deliverable

LEMMA ReplyIsDeliverable ==
  ASSUME StepHeld, NEW i \in 1..Size, NEW r \in Reply(i)
  PROVE  r \in Deliverable
  <1>1. <<EffectId(step.seq, i, Size), step.bodies[i]>> \in advertised
    BY DEF StepHeld
  <1>2. \/ r \in [id : {EffectId(step.seq, i, Size)}, outcome : {"accepted"},
                  body : {step.bodies[i], NoAnswer, Garbage}]
        \/ r \in [id : {EffectId(step.seq, i, Size)}, outcome : Outcomes, body : {NoAnswer}]
    BY DEF Reply, Outcomes
  <1> HIDE DEF Size
  <1> QED
    BY <1>1, <1>2, AdvertisedIsDeliverable

\* any resume with a list of deliverable results is a host's, or changes nothing
LEMMA ResumeIsHosts ==
  ASSUME RoundInv, NEW n \in Nat, NEW rs \in [1..n -> Deliverable], Resume(rs)
  PROVE  [Next]_vars
  <1>1. CASE IsRefused(rs)
    BY <1>1 DEF Resume, Advance
  <1>2. CASE ~IsRefused(rs)
    <2>1. status = "pending" /\ SetMatches(rs)
      BY <1>2 DEF IsRefused, Verdict
    <2>2. rs \in Seq(Deliverable) /\ Len(rs) = n
      OBVIOUS
    <2>3. rs \in ResultLists
      BY <2>1, <2>2 DEF SetMatches, ResultLists
    <2> QED
      BY <1>2, <2>1, <2>3 DEF HostResume, Next
  <1> QED
    BY <1>1, <1>2

LEMMA SameRoundIsDeliverable ==
  ASSUME RoundInv, NEW o \in Outcomes
  PROVE  Len(pending) \in Nat /\ SameRound(o) \in [1..Len(pending) -> Deliverable]
  <1>1. pending \in Seq(Keys)
    BY DEF RoundInv, Inv, TypeOK
  <1>2. Len(pending) \in Nat /\ DOMAIN pending = 1..Len(pending)
    BY <1>1
  <1>3. ASSUME NEW i \in DOMAIN pending
        PROVE  [id |-> EffectId(seq, i, Len(pending)), outcome |-> o,
                body |-> IF o = "accepted" THEN pending[i] ELSE NoAnswer] \in Deliverable
    <2>1. <<EffectId(seq, i, Len(pending)), pending[i]>> \in advertised
      BY DEF RoundInv, OpenIsAdvertised
    <2> DEFINE e == EffectId(seq, i, Len(pending))
               r == [id |-> e, outcome |-> o,
                     body |-> IF o = "accepted" THEN pending[i] ELSE NoAnswer]
    <2>2. \/ r \in [id : {e}, outcome : {"accepted"}, body : {pending[i], NoAnswer, Garbage}]
          \/ r \in [id : {e}, outcome : Outcomes, body : {NoAnswer}]
      OBVIOUS
    <2> HIDE DEF e, r
    <2>3. r \in Deliverable
      BY <2>1, <2>2, AdvertisedIsDeliverable DEF e
    <2> QED
      BY <2>3 DEF e, r
  <1> QED
    BY <1>2, <1>3 DEF SameRound

LEMMA FilledIsDeliverable ==
  ASSUME StepHeld, Filled
  PROVE  Size \in Nat /\ results \in [1..Size -> Deliverable]
  <1>1. Size \in Nat
    BY DEF StepHeld, Size
  <1>2. \A i \in 1..Size : results[i] \in Deliverable
    BY ReplyIsDeliverable DEF Filled
  <1> QED
    BY <1>1, <1>2 DEF Filled

\* a step of the transport is a step of a host of ProofRounds, or none of the operation
LEMMA TransportIsHost ==
  ASSUME RoundInv, ClientInv, [TransportNext]_allVars
  PROVE  [Next]_vars
  <1>1. ASSUME NativeResume PROVE [Next]_vars
    <2>1. pc = "resume" /\ Resume(results)
      BY <1>1 DEF NativeResume
    <2>2. Size \in Nat /\ results \in [1..Size -> Deliverable]
      BY <2>1, FilledIsDeliverable DEF ClientInv
    <2> HIDE DEF Size
    <2> QED
      BY <2>1, <2>2, ResumeIsHosts
  <1>2. ASSUME NativeCancel PROVE [Next]_vars
    BY <1>2 DEF NativeCancel, Next
  <1>3. ASSUME Others PROVE [Next]_vars
    <2>1. ASSUME NEW o \in Outcomes, Resume(SameRound(o)) PROVE [Next]_vars
      BY <2>1, SameRoundIsDeliverable, ResumeIsHosts
    <2> QED
      BY <1>3, <2>1 DEF Others, OtherResume, Next
  <1>4. ASSUME Run, ~NativeResume, ~NativeCancel PROVE UNCHANGED vars
    BY <1>4 DEF Run, LoopHead, StepRefused, Return, StopAborted, StartSingle, StartNative, StartBatch,
             Settle, SettleFails, BatchEnds, RoundAnswered, RoundFails, vars
  <1>5. Abort \/ UNCHANGED allVars => UNCHANGED vars
    BY DEF Abort, allVars
  <1> QED
    BY <1>1, <1>2, <1>3, <1>4, <1>5 DEF TransportNext

-----------------------------------------------------------------------------
(* The step that a client holds *)

\* a step that was just answered, when the operation has not failed
LEMMA FreshStep ==
  RoundInv /\ status \in {"pending", "complete"} /\ step = StepNow => StepHeld
  <1> SUFFICES ASSUME RoundInv, status \in {"pending", "complete"}, step = StepNow
               PROVE  StepHeld
    OBVIOUS
  <1>1. /\ step.done = (status = "complete") /\ step.seq = seq /\ step.bodies = pending
        /\ step.done \in BOOLEAN
    BY DEF StepNow
  <1>2. seq \in Nat \ {0} /\ pending \in Seq(Keys)
    BY DEF RoundInv, Inv, TypeOK
  <1>3. step \in [done : BOOLEAN, seq : Nat \ {0}, bodies : Seq(Keys)]
    BY <1>2 DEF StepNow
  <1>4. Size = Len(pending)
    BY <1>1 DEF Size
  <1>5. DOMAIN pending = 1..Len(pending) /\ Len(pending) \in Nat
    BY <1>2
  <1>6. ~step.done => Size >= 1
    <2>1. ~step.done => DOMAIN pending # {}
      BY <1>1 DEF RoundInv, Inv, OpenIsCaptured
    <2> QED
      BY <1>4, <1>5, <2>1
  <1>7. \A i \in 1..Size : <<EffectId(step.seq, i, Size), step.bodies[i]>> \in advertised
    BY <1>1, <1>4, <1>5 DEF RoundInv, OpenIsAdvertised
  <1>8. Size <= MaxBatch
    BY <1>4 DEF RoundInv, OpenIsAdvertised
  <1> QED
    BY <1>1, <1>2, <1>3, <1>6, <1>7, <1>8 DEF StepHeld

\* a step that is kept stays true, whatever a host does to the operation
LEMMA KeptStep ==
  ASSUME RoundInv, StepHeld, [Next]_vars, step' = step
  PROVE  StepHeld'
  <1>1. /\ seq \in Nat \ {0} /\ seq' \in Nat \ {0}
        /\ seq <= seq' /\ (seq' = seq => pending' = pending)
        /\ advertised \subseteq advertised'
        /\ status # "pending" => status' = status
    BY RoundMoves DEF RoundInv, Inv, TypeOK
  <1>2. Size' = Size
    BY DEF Size
  <1>3. step.seq \in Nat \ {0} /\ step.seq <= seq
    BY DEF StepHeld
  <1>4. step.seq = seq' => step.seq = seq
    BY <1>1, <1>3
  <1>5. \A i \in 1..Size : <<EffectId(step.seq, i, Size), step.bodies[i]>> \in advertised'
    BY <1>1 DEF StepHeld
  <1>6. step.seq <= seq'
    BY <1>1, <1>3
  <1> HIDE DEF Size
  <1> QED
    BY <1>1, <1>2, <1>4, <1>5, <1>6 DEF StepHeld

LEMMA AnsweredStep ==
  ASSUME RoundInv', status' \in {"pending", "complete"}, step' = StepNext
  PROVE  StepHeld'
  <1>1. (status \in {"pending", "complete"})' /\ (step = StepNow)'
    BY DEF StepNow, StepNext
  <1> QED
    BY <1>1, FreshStep, PTL

LEMMA StepHeldStep ==
  ASSUME RoundInv, ClientInv, [TransportNext]_allVars
  PROVE  StepHeld'
  <1>1. [Next]_vars /\ RoundInv'
    BY TransportIsHost, RoundMoves
  <1>2. CASE NativeResume /\ step' # step
    <2>1. Resume(results) /\ ~IsRefused(results) /\ status' # "failed" /\ step' = StepNext
      BY <1>2 DEF NativeResume
    <2>2. status' \in {"pending", "complete"}
      <3>1. ~Retire("failed")
        BY <2>1 DEF Retire
      <3> QED
        BY <2>1, <3>1, StatusOf DEF Resume, Advance
    <2> QED
      BY <1>1, <2>1, <2>2, AnsweredStep
  <1>3. CASE step' = step
    BY <1>1, <1>3, KeptStep DEF ClientInv
  <1>4. NativeResume \/ step' = step
    BY DEF TransportNext, Run, LoopHead, StepRefused, Return, StopAborted, StartSingle, StartNative,
         StartBatch, Settle, SettleFails, BatchEnds, RoundAnswered, RoundFails, NativeCancel,
         Abort, Others, client, allVars
  <1> QED
    BY <1>2, <1>3, <1>4

-----------------------------------------------------------------------------
(* The client's own state *)

\* a request is taken only by a worker that goes on
LEMMA TakesNextTyped ==
  ASSUME ClientTyped, NEW w \in Workers, NEW s \in BOOLEAN, TakesNext(w, s)
  PROVE  nextIndex' \in Nat \ {0} /\ stop' \in BOOLEAN /\ worker' \in [Workers -> Nat]
  BY DEF ClientTyped, TakesNext

LEMMA TypedStep ==
  ASSUME ClientInv, [TransportNext]_allVars
  PROVE  ClientTyped'
  <1>1. ClientTyped /\ Size \in Nat /\ Workers \subseteq Nat
    BY DEF ClientInv, StepHeld, Size, Workers
  <1> HIDE DEF Size, Workers
  <1>2. CASE LoopHead \/ StepRefused \/ Return \/ StopAborted \/ StartSingle \/ StartNative
    BY <1>1, <1>2 DEF LoopHead, StepRefused, Return, StopAborted, StartSingle, StartNative, Throw, batch,
         ClientTyped, Places
  <1>3. CASE StartBatch
    <2>1. Least(Limit, Size) + 1 \in Nat \ {0}
      BY <1>1 DEF Least
    <2> QED
      BY <1>1, <1>3, <2>1 DEF StartBatch, ClientTyped, Places
  <1>4. ASSUME NEW w \in Workers, Settle(w) \/ SettleFails(w) PROVE ClientTyped'
    <2>1. stop \in BOOLEAN /\ (TakesNext(w, stop) \/ TakesNext(w, TRUE))
      BY <1>1, <1>4 DEF Settle, SettleFails, ClientTyped
    <2>2. nextIndex' \in Nat \ {0} /\ stop' \in BOOLEAN /\ worker' \in [Workers -> Nat]
      BY <1>1, <2>1, TakesNextTyped
    <2> QED
      BY <1>1, <1>4, <2>2 DEF Settle, SettleFails, ClientTyped, Places
  <1>5. CASE BatchEnds \/ RoundAnswered \/ RoundFails
    BY <1>1, <1>5 DEF BatchEnds, RoundAnswered, RoundFails, Throw, batch, ClientTyped, Places
  <1>6. CASE NativeResume
    BY <1>1, <1>6 DEF NativeResume, Throw, ClientTyped, Places
  <1>7. CASE NativeCancel \/ Abort \/ Others \/ UNCHANGED allVars
    BY <1>1, <1>7 DEF NativeCancel, Abort, Others, client, allVars, batch, ClientTyped, Places
  <1> QED
    BY <1>2, <1>3, <1>4, <1>5, <1>6, <1>7 DEF TransportNext, Run

LEMMA RoundsStep ==
  ASSUME ClientInv, [TransportNext]_allVars
  PROVE  Rounds'
  <1>1. Rounds /\ count \in Nat /\ cap \in Nat /\ pc \in Places
    BY DEF ClientInv, ClientTyped
  <1> USE DEF Rounds, RoundsWithinCap, InRound
  <1> HIDE DEF Size
  <1>2. CASE LoopHead \/ StepRefused \/ Return \/ StopAborted
    BY <1>1, <1>2 DEF LoopHead, StepRefused, Return, StopAborted, Throw, Size
  <1>3. CASE StartSingle \/ StartNative \/ StartBatch
    BY <1>1, <1>3 DEF StartSingle, StartNative, StartBatch, Starts, Size
  <1>4. ASSUME NEW w \in Workers, Settle(w) \/ SettleFails(w) PROVE Rounds'
    BY <1>1, <1>4 DEF Settle, SettleFails, Size
  <1>5. CASE BatchEnds \/ RoundAnswered \/ RoundFails
    BY <1>1, <1>5 DEF BatchEnds, RoundAnswered, RoundFails, Throw, Size
  <1>6. CASE NativeResume
    BY <1>1, <1>6 DEF NativeResume, Throw
  <1>7. CASE NativeCancel \/ Abort \/ Others \/ UNCHANGED allVars
    BY <1>1, <1>7 DEF NativeCancel, Abort, Others, client, allVars, Size
  <1> QED
    BY <1>2, <1>3, <1>4, <1>5, <1>6, <1>7 DEF TransportNext, Run

-----------------------------------------------------------------------------
(* The workers of a batch *)

LEMMA AnswerIsReply ==
  ASSUME NEW i \in 1..Size, NEW q \in {"proof", "garbage", "empty", "rejected"}
  PROVE  Answer(i, q) \in Reply(i) /\ Answer(i, q) # NoResult
  BY DEF Answer, Labelled, Reply, NoResult

LEMMA ReplyIsResult ==
  ASSUME NEW i \in 1..Size, NEW r \in Reply(i) PROVE r # NoResult
  BY DEF Reply, NoResult

LEMMA CrewStarts ==
  ASSUME ClientInv, StartBatch
  PROVE  Crew'
  <1>1. Size \in Nat /\ Limit \in Nat \ {0} /\ Workers = 1..Limit
    BY DEF ClientInv, StepHeld, Size, Workers
  <1>2. /\ worker' = [w \in Workers |-> IF w <= Size THEN w ELSE 0]
        /\ nextIndex' = Least(Limit, Size) + 1 /\ stop' = FALSE /\ failed' = FALSE
        /\ results' = [i \in 1..Size |-> NoResult]
        /\ Size' = Size /\ Replies' = Replies /\ \A i \in 1..Size : Reply(i)' = Reply(i)
    BY DEF StartBatch, Size, Replies, Reply
  <1> HIDE DEF Size
  <1>3. results' \in [1..Size -> Replies]
    BY <1>2 DEF Replies
  <1>4. ASSUME NEW w \in Workers, worker'[w] = 0 PROVE nextIndex' > Size
    BY <1>1, <1>2, <1>4 DEF Least
  <1>5. ASSUME NEW i \in 1..Size, i < nextIndex' PROVE i \in InFlight'
    <2>1. i \in Workers /\ worker'[i] = i
      BY <1>1, <1>2, <1>5 DEF Least
    <2> QED
      BY <1>1, <2>1 DEF InFlight
  <1>6. \A w \in Workers : worker'[w] <= Size
    BY <1>1, <1>2
  <1> QED
    BY <1>2, <1>3, <1>4, <1>5, <1>6 DEF Crew

LEMMA CrewSettles ==
  ASSUME ClientInv, NEW w \in Workers, Settle(w)
  PROVE  Crew'
  <1> DEFINE k == worker[w]
  <1>1. /\ Crew /\ pc = "batch" /\ ClientTyped
        /\ Size \in Nat /\ Workers \subseteq Nat
    BY DEF Settle, ClientInv, StepHeld, Size, Workers
  <1>2. /\ Size' = Size /\ Replies' = Replies /\ (\A i \in 1..Size : Reply(i)' = Reply(i))
        /\ aborted' = aborted /\ failed' = failed
    BY DEF Settle, Size, Replies, Reply
  <1> HIDE DEF Size, Workers
  <1>3. k \in 1..Size
    BY <1>1 DEF Settle, Crew, ClientTyped
  <1>4. PICK q \in {"proof", "garbage", "empty", "rejected"} :
          results' = [results EXCEPT ![k] = Answer(k, q)]
    BY DEF Settle, Qualities
  <1>5. Answer(k, q) \in Reply(k) /\ Answer(k, q) \in Replies /\ Answer(k, q) # NoResult
    BY <1>3, AnswerIsReply DEF Replies
  <1>6. /\ results' \in [1..Size -> Replies]
        /\ \A i \in 1..Size : results'[i] = IF i = k THEN Answer(k, q) ELSE results[i]
    BY <1>1, <1>3, <1>4, <1>5 DEF Crew
  <1>7. stop' = (stop \/ aborted) /\ (failed' => stop') /\ (stop' => aborted' \/ failed')
    <2>1. stop' = (stop \/ aborted)
      BY DEF Settle, TakesNext
    <2>2. (stop => aborted \/ failed) /\ (failed => stop)
      BY <1>1 DEF Crew
    <2> QED
      BY <1>2, <2>1, <2>2, Zenon
  <1>8. \A i \in 1..Size : results'[i] \in Reply(i) \cup {NoResult}
    BY <1>1, <1>5, <1>6 DEF Crew
  <1>9. CASE stop \/ aborted \/ nextIndex > Size
    <2>1. worker' = [worker EXCEPT ![w] = 0] /\ nextIndex' = nextIndex
      BY <1>9 DEF Settle, TakesNext
    <2>2. /\ worker \in [Workers -> Nat] /\ worker' \in [Workers -> Nat]
          /\ \A u \in Workers : worker'[u] = IF u = w THEN 0 ELSE worker[u]
      BY <1>1, <2>1 DEF ClientTyped
    <2>3. \A u \in Workers : worker'[u] <= Size
      BY <1>1, <2>2 DEF Crew
    <2>4. \A u \in Workers : worker'[u] = 0 => stop' \/ nextIndex' > Size
      BY <1>1, <1>7, <1>9, <2>1, <2>2 DEF Crew
    <2>5. ASSUME ~failed, NEW i \in 1..Size, i < nextIndex, results'[i] = NoResult
          PROVE  i \in InFlight'
      <3>1. i # k /\ results[i] = NoResult
        BY <1>5, <1>6, <2>5
      <3>2. PICK u \in Workers : worker[u] = i
        BY <1>1, <2>5, <3>1 DEF Crew, InFlight
      <3>3. u # w /\ worker'[u] = i
        BY <2>2, <3>1, <3>2
      <3> QED
        BY <3>3 DEF InFlight
    <2> HIDE DEF k
    <2> QED
      BY <1>2, <1>6, <1>7, <1>8, <2>1, <2>3, <2>4, <2>5 DEF Crew
  <1>10. CASE ~(stop \/ aborted \/ nextIndex > Size)
    <2>1. worker' = [worker EXCEPT ![w] = nextIndex] /\ nextIndex' = nextIndex + 1
      BY <1>10 DEF Settle, TakesNext
    <2>2. /\ worker \in [Workers -> Nat] /\ nextIndex \in Nat \ {0} /\ nextIndex <= Size
          /\ \A u \in Workers : worker'[u] = IF u = w THEN nextIndex ELSE worker[u]
      BY <1>1, <1>10, <2>1 DEF ClientTyped
    <2>3. \A u \in Workers : worker'[u] <= Size
      BY <1>1, <2>2 DEF Crew
    <2>4. \A u \in Workers : worker'[u] # 0
      BY <1>1, <1>10, <2>2 DEF Crew
    <2>5. ASSUME ~failed, NEW i \in 1..Size, i < nextIndex', results'[i] = NoResult
          PROVE  i \in InFlight'
      <3>1. i # k /\ results[i] = NoResult
        BY <1>5, <1>6, <2>5
      <3>2. CASE i = nextIndex
        <4>1. worker'[w] = i
          BY <2>2, <3>2
        <4> QED
          BY <4>1 DEF InFlight
      <3>3. CASE i # nextIndex
        <4>1. i < nextIndex
          BY <2>1, <2>2, <2>5, <3>3
        <4>2. PICK u \in Workers : worker[u] = i
          BY <1>1, <2>5, <3>1, <4>1 DEF Crew, InFlight
        <4>3. u # w /\ worker'[u] = i
          BY <2>2, <3>1, <4>2
        <4> QED
          BY <4>3 DEF InFlight
      <3> QED
        BY <3>2, <3>3
    <2> HIDE DEF k
    <2> QED
      BY <1>2, <1>6, <1>7, <1>8, <2>3, <2>4, <2>5 DEF Crew
  <1> QED
    BY <1>9, <1>10

LEMMA CrewFails ==
  ASSUME ClientInv, NEW w \in Workers, SettleFails(w)
  PROVE  Crew'
  <1>1. /\ Crew /\ pc = "batch" /\ ClientTyped
        /\ Size \in Nat /\ Workers \subseteq Nat
    BY DEF SettleFails, ClientInv, StepHeld, Size, Workers
  <1>2. /\ Size' = Size /\ Replies' = Replies /\ (\A i \in 1..Size : Reply(i)' = Reply(i))
        /\ results' = results /\ failed' /\ stop' /\ worker' = [worker EXCEPT ![w] = 0]
    BY DEF SettleFails, TakesNext, Size, Replies, Reply
  <1> HIDE DEF Size, Workers
  <1>3. \A u \in Workers : worker'[u] <= Size
    BY <1>1, <1>2 DEF Crew, ClientTyped
  <1> QED
    BY <1>1, <1>2, <1>3 DEF Crew

\* the state of a batch that nothing of the batch changes; the caller may abort
LEMMA CrewKept ==
  ASSUME Crew, UNCHANGED <<step, batch>>, aborted => aborted'
  PROVE  Crew'
  <1>1. /\ Size' = Size /\ Replies' = Replies /\ (\A i \in 1..Size : Reply(i)' = Reply(i))
        /\ results' = results /\ failed' = failed /\ stop' = stop /\ worker' = worker
        /\ nextIndex' = nextIndex /\ InFlight' = InFlight
    BY DEF Size, Replies, Reply, batch, InFlight
  <1> HIDE DEF Size
  <1> QED
    BY <1>1 DEF Crew

LEMMA CrewStep ==
  ASSUME ClientInv, [TransportNext]_allVars
  PROVE  pc' = "batch" => Crew'
  <1>1. CASE StartBatch
    BY <1>1, CrewStarts
  <1>2. ASSUME NEW w \in Workers, Settle(w) \/ SettleFails(w) PROVE Crew'
    BY <1>2, CrewSettles, CrewFails
  <1>3. CASE Abort \/ Others \/ UNCHANGED allVars
    <2>1. pc' = pc /\ UNCHANGED <<step, batch>> /\ (aborted => aborted')
      BY <1>3 DEF Abort, Others, client, allVars
    <2> QED
      BY <2>1, CrewKept DEF ClientInv
  <1>4. Run => StartBatch \/ (\E w \in Workers : Settle(w) \/ SettleFails(w)) \/ pc' # "batch"
    BY DEF Run, LoopHead, StepRefused, Return, StopAborted, StartSingle, StartNative, BatchEnds,
         RoundAnswered, RoundFails, NativeResume, NativeCancel, Throw
  <1> QED
    BY <1>1, <1>2, <1>3, <1>4 DEF TransportNext

-----------------------------------------------------------------------------
(* How a round ends *)

LEMMA BatchFills ==
  ASSUME ClientInv, BatchEnds, pc' = "resume"
  PROVE  Filled'
  <1>1. /\ pc = "batch" /\ InFlight = {} /\ ~aborted /\ ~failed
        /\ UNCHANGED <<step, results>>
    BY DEF BatchEnds, Throw, batch
  <1>2. Crew /\ ~stop /\ Size \in Nat
    BY <1>1 DEF ClientInv, Crew, StepHeld, Size
  <1>3. Size' = Size /\ Replies' = Replies /\ \A i \in 1..Size : Reply(i)' = Reply(i)
    BY <1>1 DEF Size, Replies, Reply
  <1> HIDE DEF Size
  <1>4. nextIndex > Size /\ nextIndex \in Nat
    <2>1. 1 \in Workers /\ worker[1] = 0
      BY <1>1 DEF InFlight, Workers
    <2> QED
      BY <1>2, <2>1 DEF Crew, ClientInv, ClientTyped
  <1>5. ASSUME NEW i \in 1..Size PROVE results[i] \in Reply(i)
    <2>1. i < nextIndex
      BY <1>2, <1>4
    <2> QED
      BY <1>1, <1>2, <2>1 DEF Crew
  <1> QED
    BY <1>1, <1>2, <1>3, <1>5 DEF Filled, Crew

LEMMA AnswerFills ==
  ASSUME ClientInv, RoundAnswered
  PROVE  Filled'
  <1>1. UNCHANGED step
    BY DEF RoundAnswered
  <1>2. PICK q \in [1..Size -> {"proof", "garbage", "empty", "rejected"}] :
          results' = [i \in 1..Size |-> Answer(i, q[i])]
    <2> DEFINE Q == IF pc = "single" THEN Qualities ELSE {"proof", "garbage"}
    <2>1. PICK q \in [1..Size -> Q] : results' = [i \in 1..Size |-> Answer(i, q[i])]
      BY DEF RoundAnswered
    <2>2. Q \subseteq {"proof", "garbage", "empty", "rejected"}
      BY DEF Qualities
    <2> HIDE DEF Q, Size
    <2>3. q \in [1..Size -> {"proof", "garbage", "empty", "rejected"}]
      BY <2>1, <2>2
    <2> QED
      BY <2>1, <2>3
  <1>3. Size' = Size /\ Replies' = Replies /\ \A i \in 1..Size : Reply(i)' = Reply(i)
    BY <1>1 DEF Size, Replies, Reply
  <1>4. \A i \in 1..Size : results'[i] \in Reply(i)
    BY <1>2, AnswerIsReply
  <1> HIDE DEF Size
  <1>5. \A i \in 1..Size : results'[i] \in Replies
    BY <1>4 DEF Replies
  <1> QED
    BY <1>2, <1>3, <1>4, <1>5 DEF Filled

LEMMA FilledStep ==
  ASSUME ClientInv, [TransportNext]_allVars
  PROVE  pc' = "resume" => Filled'
  <1>1. BatchEnds \/ RoundAnswered => (pc' = "resume" => Filled')
    BY BatchFills, AnswerFills
  <1>2. CASE Abort \/ Others \/ UNCHANGED allVars
    <2>1. pc' = pc /\ UNCHANGED <<step, results>>
      BY <1>2 DEF Abort, Others, client, allVars, batch
    <2>2. Size' = Size /\ Replies' = Replies /\ \A i \in 1..Size : Reply(i)' = Reply(i)
      BY <2>1 DEF Size, Replies, Reply
    <2> HIDE DEF Size
    <2> QED
      BY <2>1, <2>2 DEF Filled, ClientInv
  <1>3. Run => BatchEnds \/ RoundAnswered \/ pc' # "resume"
    BY DEF Run, LoopHead, StepRefused, Return, StopAborted, StartSingle, StartNative, StartBatch,
         Settle, SettleFails, RoundFails, NativeResume, NativeCancel, Throw
  <1> QED
    BY <1>1, <1>2, <1>3 DEF TransportNext

LEMMA IdleStep ==
  ASSUME ClientInv, [TransportNext]_allVars
  PROVE  pc' # "batch" => \A w \in Workers : worker'[w] = 0
  <1>1. CASE worker' = worker
    <2>1. CASE pc = "batch"
      <3>1. pc' # "batch" => BatchEnds
        BY <1>1, <2>1 DEF TransportNext, Run, LoopHead, StepRefused, Return, StopAborted, Starts,
             StartSingle, StartNative, StartBatch, Settle, SettleFails, RoundAnswered, RoundFails,
             NativeResume, NativeCancel, Abort, Others, client, allVars
      <3>2. BatchEnds => InFlight = {}
        BY DEF BatchEnds
      <3> QED
        BY <1>1, <3>1, <3>2 DEF InFlight
    <2>2. CASE pc # "batch"
      BY <1>1, <2>2 DEF ClientInv
    <2> QED
      BY <2>1, <2>2
  <1>2. worker' # worker => pc' = "batch"
    BY DEF TransportNext, Run, LoopHead, StepRefused, Return, StopAborted, StartSingle, StartNative,
         StartBatch, Settle, SettleFails, BatchEnds, RoundAnswered, RoundFails, NativeResume,
         NativeCancel, Abort, Others, client, allVars, batch
  <1> QED
    BY <1>1, <1>2

LEMMA DoneStep ==
  ASSUME RoundInv, ClientInv, [TransportNext]_allVars
  PROVE  pc' = "done" => status' # "pending"
  <1>1. status # "pending" => status' # "pending"
    BY TransportIsHost, RoundMoves
  <1>2. CASE pc = "done"
    BY <1>1, <1>2 DEF ClientInv
  <1>3. CASE Return
    BY <1>1, <1>3 DEF Return, ClientInv, StepHeld
  <1>4. CASE NativeCancel
    BY <1>1, <1>4 DEF NativeCancel, Cancel, Retire
  <1>5. pc' = "done" => pc = "done" \/ Return \/ NativeCancel
    BY DEF TransportNext, Run, LoopHead, StepRefused, StopAborted, StartSingle, StartNative,
         StartBatch, Settle, SettleFails, BatchEnds, RoundAnswered, RoundFails, NativeResume,
         Abort, Others, client, allVars, Throw
  <1> QED
    BY <1>2, <1>3, <1>4, <1>5

-----------------------------------------------------------------------------
(* The invariant *)

TransportInv == RoundInv /\ ClientInv

LEMMA TransportInit == ClientInit => TransportInv
  <1> SUFFICES ASSUME ClientInit PROVE TransportInv
    OBVIOUS
  <1>1. RoundInv
    BY RoundInit DEF ClientInit
  <1>2. StepHeld
    <2>1. status \in {"pending", "complete"}
      BY StatusOf DEF ClientInit, Init
    <2> QED
      BY <1>1, <2>1, FreshStep DEF ClientInit
  <1>3. ClientTyped
    <2>1. pc \in Places /\ aborted \in BOOLEAN /\ stop \in BOOLEAN /\ failed \in BOOLEAN
      BY Zenon DEF ClientInit, Places
    <2>2. worker \in [Workers -> Nat] /\ cap \in Nat \ {0} /\ count \in Nat /\ nextIndex \in Nat \ {0}
      BY DEF ClientInit
    <2> QED
      BY <2>1, <2>2 DEF ClientTyped
  <1>4. Rounds
    BY DEF ClientInit, Rounds, RoundsWithinCap, InRound
  <1> QED
    BY <1>1, <1>2, <1>3, <1>4 DEF ClientInit, ClientInv, TransportInv

LEMMA TransportStep == TransportInv /\ [TransportNext]_allVars => TransportInv'
  <1> SUFFICES ASSUME RoundInv, ClientInv, [TransportNext]_allVars PROVE RoundInv' /\ ClientInv'
    BY DEF TransportInv
  <1>1. RoundInv'
    BY TransportIsHost, RoundMoves
  <1> QED
    BY <1>1, StepHeldStep, TypedStep, RoundsStep, CrewStep, FilledStep, IdleStep, DoneStep DEF ClientInv

-----------------------------------------------------------------------------
(* A result fits its round *)

LEMMA FilledFits ==
  ASSUME RoundInv, StepHeld, Filled, ~step.done, status = "pending", step.seq = seq
  PROVE  ~IsRefused(results)
  <1> DEFINE n == Len(pending)
  <1>1. /\ step.bodies = pending /\ pending \in Seq(Keys) /\ n \in Nat \ {0} /\ n <= MaxBatch
        /\ Size = n
    BY DEF StepHeld, RoundInv, Inv, TypeOK, Size
  <1>2. DOMAIN pending = 1..n /\ DOMAIN results = 1..n
    BY <1>1 DEF Filled
  <1>3. results \in Seq(Replies) /\ Len(results) = n
    BY <1>1 DEF Filled
  <1>4. ASSUME NEW i \in 1..n
        PROVE  /\ results[i].id = EffectId(seq, i, n)
               /\ results[i].outcome \in {"accepted", "rejected"}
    <2>1. results[i] \in Reply(i)
      BY <1>1 DEF Filled
    <2> HIDE DEF n, Size
    <2> QED
      BY <1>1, <2>1 DEF Reply
  <1> HIDE DEF n
  <1>5. Addressed(results)
    <2>1. n = 1 => results[1].id = <<seq>>
      BY <1>1, <1>4 DEF EffectId
    <2> QED
      BY <1>1, <1>3, <2>1 DEF Addressed, n
  <1>6. SetMatches(results)
    BY <1>1, <1>2, <1>3, <1>4, EffectIdUnique DEF SetMatches, n
  <1>7. ASSUME NEW i \in 1..n PROVE Decoded(results, i) # "invalid"
    <2>1. i \in For(results, i)
      BY <1>2, <1>4 DEF For, n
    <2>2. (CHOOSE j \in For(results, i) : TRUE) \in 1..n
      BY <1>2, <2>1 DEF For
    <2> QED
      BY <1>4, <2>1, <2>2 DEF Decoded
  <1>8. Verdict(results) # "invalid"
    <2> DEFINE bad == {i \in DOMAIN pending : Decoded(results, i) # "ok"}
               f == CHOOSE i \in bad : \A j \in bad : i <= j
    <2>1. CASE bad # {}
      <3>1. bad \subseteq Nat
        BY <1>1, <1>2
      <3>2. f \in bad
        BY <2>1, <3>1, LeastOfNat
      <3>3. Verdict(results) = Decoded(results, f)
        BY <1>6, <2>1 DEF Verdict
      <3> QED
        BY <1>2, <1>7, <3>2, <3>3
    <2>2. CASE bad = {}
      BY <1>6, <2>2 DEF Verdict
    <2> QED
      BY <2>1, <2>2
  <1> QED
    BY <1>5, <1>8 DEF IsRefused

-----------------------------------------------------------------------------
(* What runCommand promises *)

\* transport.ts, transport-batch.ts: seen from the native side a runCommand, its aborts and the
\* hosts beside it are together a host of ProofRounds: all it resumes with is labelled
\* truthfully, and it never moves the operation in another way
THEOREM TransportIsARoundsHost == TransportSpec => Spec
  <1>1. ClientInit => Init
    BY DEF ClientInit
  <1>2. TransportInv /\ [TransportNext]_allVars => [Next]_vars
    BY TransportIsHost DEF TransportInv
  <1> QED
    BY <1>1, <1>2, TransportInit, TransportStep, PTL DEF TransportSpec, Spec

\* proving through the transport is proving each request once, with its own answer, in a
\* possible order, whatever the number of workers, the failures and the aborts
THEOREM TransportImplementsProving == TransportSpec => ImplementsProving
  BY TransportIsARoundsHost, RoundsImplementProving, PTL

\* transport-batch.ts:321-326, transport.ts:203: nothing is in flight when a round is resumed
\* or given up, and no ended runCommand leaves an operation that waits for it
THEOREM TransportLeavesNothing == TransportSpec => []NothingLeftRunning
  <1>1. TransportInv => NothingLeftRunning
    BY DEF TransportInv, ClientInv, NothingLeftRunning, InFlight
  <1> QED
    BY <1>1, TransportInit, TransportStep, PTL DEF TransportSpec

\* transport-batch.ts:317, resume/transaction.rs: the results of a round are taken by the native
\* side, if the round is still open and nobody else moved it
THEOREM ResultsFitTheirRound == TransportSpec => []RoundsFit
  <1>1. TransportInv => RoundsFit
    BY FilledFits DEF TransportInv, ClientInv, Rounds, InRound, RoundsFit
  <1> QED
    BY <1>1, TransportInit, TransportStep, PTL DEF TransportSpec

\* transport-batch.ts:322 ("Once it fires, no new work is admitted"), for any number of workers
THEOREM StoppedBatchAdmitsNothing == TransportSpec => NothingStartsAfterStop
  <1>1. ASSUME [TransportNext]_allVars, pc = "batch", pc' = "batch", aborted \/ stop
        PROVE  nextIndex' = nextIndex
    BY <1>1 DEF TransportNext, Run, LoopHead, StepRefused, Return, StopAborted, Starts, StartSingle,
         StartNative, StartBatch, Settle, SettleFails, TakesNext, BatchEnds, RoundAnswered,
         RoundFails, NativeResume, NativeCancel, Abort, Others, client, allVars, batch
  <1>2. [TransportNext]_allVars
          => [pc = "batch" /\ pc' = "batch" /\ (aborted \/ stop) => nextIndex' = nextIndex]_allVars
    BY <1>1
  <1> QED
    BY <1>2, PTL DEF TransportSpec, NothingStartsAfterStop

\* transport.ts, the head of the loop: a runCommand resumes an operation no more often than
\* maximumEffectSteps, and begins no round after the last one
THEOREM RoundsAreCounted == TransportSpec => []RoundsWithinCap
  <1>1. TransportInv => RoundsWithinCap
    BY DEF TransportInv, ClientInv, Rounds
  <1> QED
    BY <1>1, TransportInit, TransportStep, PTL DEF TransportSpec

=============================================================================
