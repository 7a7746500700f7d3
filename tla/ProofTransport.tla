---------------------------- MODULE ProofTransport ----------------------------
(***************************************************************************)
(* runCommand of the transport (transport.ts, transport-batch.ts) over an  *)
(* operation that asks for proofs in rounds: ProofRounds, whose actions    *)
(* are the native side here.  A round goes to the network or the local     *)
(* prover one request at a time, as a batch over a few workers, or as one  *)
(* native call, and its results resume the operation.                      *)
(*                                                                         *)
(* JavaScript runs to its next await, so all that a worker does between    *)
(* two awaits is one step: taking the next request and sending it with     *)
(* the settling of the one before, and the first requests of all workers   *)
(* with the start of the batch.  The caller may abort between any two      *)
(* steps, and another host may resume or cancel the same operation.        *)
(***************************************************************************)
EXTENDS ProofRounds

CONSTANTS
  Limit,      \* maximumConcurrentProofs
  Caps,       \* the values that maximumEffectSteps may have
  Adapters    \* what proves: subset of {"none", "single", "batch"}

ASSUME TransportAssumption == Limit \in Nat \ {0} /\ Caps \subseteq Nat \ {0}

VARIABLES
  pc,          \* where runCommand stands, or "none"
  aborted,     \* the caller's signal
  adapter,     \* "none": fetch, "single": a local prover, "batch": one with executeProveBatch
  cap,         \* maximumEffectSteps
  count,       \* rounds done
  step,        \* the step last received: its status, the ids of its effects and their bodies
  nextIndex,   \* shared by the workers of a batch
  stop,        \* stopAdmission
  failed,      \* firstError is set
  worker,      \* the effect each worker awaits, or 0
  results,     \* of the effects that have settled
  outcome      \* "running", or how runCommand ended: "result", "error", "cancelled"

batch == <<nextIndex, stop, failed, worker, results>>
client == <<pc, aborted, adapter, cap, count, step, batch, outcome>>
allVars == <<vars, client>>

Workers == 1..Limit
Size    == Len(step.bodies)
NoResult == [id |-> <<>>, outcome |-> "other", body |-> NoAnswer]

\* the step that begin or resume answers: pendingProofStep, or the result
StepNow == [done |-> status = "complete", seq |-> seq, bodies |-> pending]
StepNext == [done |-> status' = "complete", seq |-> seq', bodies |-> pending']

InFlight == {worker[w] : w \in Workers} \ {0}

-----------------------------------------------------------------------------
(* runCommand *)

\* beginCommand has answered; it has not failed.  Or a host speaks to the native side by
\* itself, and there is no runCommand.
ClientInit ==
  /\ Init /\ status # "failed"
  /\ pc \in {"loop", "none"} /\ aborted = FALSE /\ adapter \in Adapters /\ cap \in Caps /\ count = 0
  /\ step = StepNow /\ outcome = "running"
  /\ nextIndex = 1 /\ stop = FALSE /\ failed = FALSE
  /\ worker = [w \in Workers |-> 0] /\ results = <<>>

\* the catch clause: the operation is cancelled before the error is thrown
Throw(how) == pc' = "cancel" /\ outcome' = how

\* the head of the loop, up to the await of onStep
LoopHead ==
  /\ pc = "loop"
  /\ IF count >= cap THEN Throw("error")
     ELSE IF aborted THEN Throw("cancelled")
     ELSE (pc' = "notify" /\ UNCHANGED outcome)
  /\ UNCHANGED <<vars, aborted, adapter, cap, count, step, batch>>

\* onStep of the caller has thrown
StepRefused ==
  /\ pc = "notify" /\ Throw("error")
  /\ UNCHANGED <<vars, aborted, adapter, cap, count, step, batch>>

\* after onStep: the result is returned
Return ==
  /\ pc = "notify" /\ ~aborted /\ step.done
  /\ pc' = "done" /\ outcome' = "result"
  /\ UNCHANGED <<vars, aborted, adapter, cap, count, step, batch>>

StopAborted ==
  /\ pc = "notify" /\ aborted /\ Throw("cancelled")
  /\ UNCHANGED <<vars, aborted, adapter, cap, count, step, batch>>

-----------------------------------------------------------------------------
(* One round *)

Starts == pc = "notify" /\ ~aborted /\ ~step.done

AllProve == \A i \in 1..Size : Kind[step.bodies[i]] = "prove"

\* executeNetwork of a step without effects
StartSingle ==
  /\ Starts /\ Size = 1
  /\ pc' = "single"
  /\ UNCHANGED <<vars, aborted, adapter, cap, count, step, batch, outcome>>

\* executeProveOnlyBatch
StartNative ==
  /\ Starts /\ Size > 1 /\ adapter = "batch" /\ AllProve
  /\ pc' = "native"
  /\ UNCHANGED <<vars, aborted, adapter, cap, count, step, batch, outcome>>

\* executeConcurrencyLimited: each worker takes a request before the first one awaits
StartBatch ==
  /\ Starts /\ Size > 1 /\ ~(adapter = "batch" /\ AllProve)
  /\ pc' = "batch"
  /\ worker' = [w \in Workers |-> IF w <= Size THEN w ELSE 0]
  /\ nextIndex' = Least(Limit, Size) + 1 /\ stop' = FALSE /\ failed' = FALSE
  /\ results' = [i \in 1..Size |-> NoResult]
  /\ UNCHANGED <<vars, aborted, adapter, cap, count, step, outcome>>

\* faulty: a result carries the id of the step in place of its effect's
LabelledByStep(i, o, b) == [id |-> EffectId(step.seq, i, 1), outcome |-> o, body |-> b]

Labelled(i, o, b) == [id |-> EffectId(step.seq, i, Size), outcome |-> o, body |-> b]

\* responseOutcome, acceptedResult: how a proof server or a local prover answers; an answer
\* with an empty body is accepted without one
Answer(i, q) ==
  CASE q = "proof"    -> Labelled(i, "accepted", step.bodies[i])
    [] q = "garbage"  -> Labelled(i, "accepted", Garbage)
    [] q = "empty"    -> Labelled(i, "accepted", NoAnswer)
    [] q = "rejected" -> Labelled(i, "rejected", NoAnswer)

Qualities == {"proof", "garbage", "empty"} \cup IF adapter = "none" THEN {"rejected"} ELSE {}

\* faulty: a worker does not look at the signal and the flag before it goes on
TakesNextAlways(w, s) ==
  /\ stop' = s
  /\ IF nextIndex > Size
     THEN worker' = [worker EXCEPT ![w] = 0] /\ UNCHANGED nextIndex
     ELSE worker' = [worker EXCEPT ![w] = nextIndex] /\ nextIndex' = nextIndex + 1

\* a worker goes on with the next request, or returns
TakesNext(w, s) ==
  LET stops == s \/ aborted
  IN  /\ stop' = stops
      /\ IF stops \/ nextIndex > Size
         THEN worker' = [worker EXCEPT ![w] = 0] /\ UNCHANGED nextIndex
         ELSE worker' = [worker EXCEPT ![w] = nextIndex] /\ nextIndex' = nextIndex + 1

Settle(w) ==
  /\ pc = "batch" /\ worker[w] # 0
  /\ \E q \in Qualities : results' = [results EXCEPT ![worker[w]] = Answer(worker[w], q)]
  /\ TakesNext(w, stop)
  /\ UNCHANGED <<vars, pc, aborted, adapter, cap, count, step, failed, outcome>>

\* a request fails: refused, timed out, HTTP 5xx, or ended by the caller's signal
SettleFails(w) ==
  /\ pc = "batch" /\ worker[w] # 0
  /\ failed' = TRUE
  /\ TakesNext(w, TRUE)
  /\ UNCHANGED <<vars, pc, aborted, adapter, cap, count, step, results, outcome>>

\* faulty: the batch does not wait for requests in flight once it has failed
BatchEndsEarly ==
  /\ pc = "batch" /\ (InFlight = {} \/ aborted \/ failed)
  /\ IF aborted THEN Throw("cancelled")
     ELSE IF failed THEN Throw("error")
     ELSE (pc' = "resume" /\ UNCHANGED outcome)
  /\ UNCHANGED <<vars, aborted, adapter, cap, count, step, batch>>

\* faulty: the batch waits for every result
BatchEndsWhenFull ==
  /\ pc = "batch" /\ InFlight = {} /\ \A i \in 1..Size : results[i] # NoResult
  /\ IF aborted THEN Throw("cancelled")
     ELSE IF failed THEN Throw("error")
     ELSE (pc' = "resume" /\ UNCHANGED outcome)
  /\ UNCHANGED <<vars, aborted, adapter, cap, count, step, batch>>

\* Promise.all over the workers has settled
BatchEnds ==
  /\ pc = "batch" /\ InFlight = {}
  /\ IF aborted THEN Throw("cancelled")
     ELSE IF failed THEN Throw("error")
     ELSE (pc' = "resume" /\ UNCHANGED outcome)
  /\ UNCHANGED <<vars, aborted, adapter, cap, count, step, batch>>

\* the one request, or the one native call, has answered: the signal is not looked at
RoundAnswered ==
  /\ pc \in {"single", "native"}
  /\ \E q \in [1..Size -> IF pc = "single" THEN Qualities ELSE {"proof", "garbage"}] :
       results' = [i \in 1..Size |-> Answer(i, q[i])]
  /\ pc' = "resume"
  /\ UNCHANGED <<vars, aborted, adapter, cap, count, step, nextIndex, stop, failed, worker, outcome>>

\* it failed, or the native call answered with too few proofs or an empty one
RoundFails ==
  /\ pc \in {"single", "native"}
  /\ IF aborted THEN Throw("cancelled") ELSE Throw("error")
  /\ UNCHANGED <<vars, aborted, adapter, cap, count, step, batch>>

\* api.resumeOperation: an error that it answers is thrown
NativeResume ==
  /\ pc = "resume" /\ Resume(results)
  /\ IF IsRefused(results) \/ status' = "failed"
     THEN Throw("error") /\ UNCHANGED <<count, step>>
     ELSE pc' = "loop" /\ count' = count + 1 /\ step' = StepNext /\ UNCHANGED outcome
  /\ results' = <<>>
  /\ UNCHANGED <<aborted, adapter, cap, nextIndex, stop, failed, worker>>

\* api.cancelOperation of the catch clause, whose own error is swallowed
NativeCancel ==
  /\ pc = "cancel" /\ pc' = "done"
  /\ \/ Cancel
     \/ status # "pending" /\ UNCHANGED vars
  /\ UNCHANGED <<aborted, adapter, cap, count, step, batch, outcome>>

-----------------------------------------------------------------------------
(* The caller, and other hosts *)

Abort ==
  /\ pc \notin {"none", "done"} /\ ~aborted /\ aborted' = TRUE
  /\ UNCHANGED <<vars, pc, adapter, cap, count, step, batch, outcome>>

\* beside a runCommand, somebody else resumes the operation with a round's results: another
\* client, or an earlier call of this one
SameRound(o) ==
  [i \in DOMAIN pending |->
     [id |-> EffectId(seq, i, Len(pending)), outcome |-> o,
      body |-> IF o = "accepted" THEN pending[i] ELSE NoAnswer]]

OtherResume == \E o \in Outcomes : Resume(SameRound(o))

\* or cancels it: the controller's pause, the close of the session
Others ==
  /\ \/ pc = "none" /\ HostResume
     \/ pc \notin {"none", "done"} /\ OtherResume
     \/ pc # "done" /\ Cancel
  /\ UNCHANGED client

Run ==
  \/ LoopHead \/ StepRefused \/ Return \/ StopAborted
  \/ StartSingle \/ StartNative \/ StartBatch
  \/ (\E w \in Workers : Settle(w) \/ SettleFails(w))
  \/ BatchEnds \/ RoundAnswered \/ RoundFails
  \/ NativeResume \/ NativeCancel

TransportNext == Run \/ Abort \/ Others
TransportSpec == ClientInit /\ [][TransportNext]_allVars

\* JavaScript goes on, native calls return, and a request settles: it is answered or its
\* timeout ends it (transport-batch.ts:165)
FairSpec == TransportSpec /\ WF_allVars(Run)

-----------------------------------------------------------------------------
(* Properties *)

\* transport-batch.ts:321-326 ("nothing is left dangling") and transport.ts:203: when
\* runCommand has ended or is about to, no request is in flight, and no operation is left
\* in the registry that nobody would resume
NothingLeftRunning ==
  /\ pc \in {"resume", "cancel", "done"} => InFlight = {}
  /\ pc = "done" => status # "pending"

\* transport-batch.ts:322 ("Once it fires, no new work is admitted"): after the signal or
\* the first error of a batch no other request of it is sent, by any worker
NothingStartsAfterStop ==
  [][pc = "batch" /\ pc' = "batch" /\ (aborted \/ stop) => nextIndex' = nextIndex]_allVars

\* transport-batch.ts:317: a result goes to the request that asked for it, so a round that
\* the prover answered is not refused by the native side unless somebody else took it
RoundsFit ==
  pc = "resume" /\ status = "pending" /\ step.seq = seq => ~IsRefused(results)

\* every runCommand ends
RunEnds == (pc = "loop") ~> (pc = "done" /\ outcome # "running")

===============================================================================
