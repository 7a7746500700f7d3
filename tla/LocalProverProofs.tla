-------------------------- MODULE LocalProverProofs --------------------------
(***************************************************************************)
(* Proofs about LocalProver, for any number of threads, any limits and     *)
(* hosts that overlap their calls as they like.                            *)
(***************************************************************************)
EXTENDS LocalProver, TLAPS, FiniteSetTheorems

USE LimitAssumption

(***************************************************************************)
(* The inductive invariant.  A call is where its kind can be; a proof that *)
(* succeeded used the registry its handle stands for; the workers of one   *)
(* batch hold one handle.                                                  *)
(***************************************************************************)
CallsRight ==
  \A t \in Threads :
    /\ pc[t] \in {"loaded", "proving"} => Proves(t)
    /\ pc[t] \in {"lock", "asleep", "woken", "timedOut", "admitted", "release"}
         => Proves(t) \/ SetsUp(t)
    /\ pc[t] \in {"batch", "worker", "joined"} => call[t].kind = "worker"

\* a registry is known by its generation: both are counted in the same step
SlotRight == generation = builds /\ registry \in {NoRegistry, builds}

UsedRight ==
  \A t \in Threads :
    pc[t] = "proving" \/ (Proves(t) /\ call[t].result = "ok") => call[t].used = call[t].handle

BatchesRight ==
  \A t \in Threads : call[t].kind = "worker" =>
    /\ t \in call[t].batch /\ pc[t] # "idle"
    /\ \A u \in call[t].batch :
         /\ u \in Threads /\ call[u].kind = "worker"
         /\ call[u].batch = call[t].batch /\ call[u].handle = call[t].handle

ProverInv == /\ TypeOK /\ GateSafe /\ ProvesWithItsRegistry
             /\ CallsRight /\ SlotRight /\ UsedRight /\ BatchesRight

-----------------------------------------------------------------------------
(* The values that the actions build                                       *)

LEMMA ConstantsTyped ==
  /\ Ceiling \in Nat /\ MaxGeneration \in Nat
  /\ 0 \in 0..MaxGeneration /\ 0 \in 0..Ceiling /\ 1..Ceiling \subseteq 0..Ceiling
  /\ DefaultLimit \in 1..Ceiling /\ \A limit \in Limits : limit \in 1..Ceiling
OBVIOUS

LEMMA NoCallTyped ==
  NoCall \in Call /\ NoCall.kind = "none" /\ NoCall.result = "none" /\ NoCall.batch = {}
<1>1. NoCall.kind = "none" /\ NoCall.result = "none" /\ NoCall.batch = {}
  BY DEF NoCall
<1>2. NoCall \in Call
  BY ConstantsTyped DEF NoCall, Call, Results, NoRegistry
<1> QED BY <1>1, <1>2

LEMMA StartedTyped ==
  ASSUME NEW kind \in Provers \cup Setups, NEW h \in 0..MaxGeneration
  PROVE  /\ [NoCall EXCEPT !.kind = kind, !.handle = h] \in Call
         /\ [NoCall EXCEPT !.kind = kind, !.handle = h].kind = kind
         /\ [NoCall EXCEPT !.kind = kind, !.handle = h].result = "none"
BY ConstantsTyped DEF NoCall, Call, Results, NoRegistry

LEMMA WorkerTyped ==
  ASSUME NEW h \in 0..MaxGeneration, NEW B \in SUBSET Threads
  PROVE  /\ [NoCall EXCEPT !.kind = "worker", !.handle = h, !.batch = B] \in Call
         /\ [NoCall EXCEPT !.kind = "worker", !.handle = h, !.batch = B].kind = "worker"
         /\ [NoCall EXCEPT !.kind = "worker", !.handle = h, !.batch = B].handle = h
         /\ [NoCall EXCEPT !.kind = "worker", !.handle = h, !.batch = B].batch = B
         /\ [NoCall EXCEPT !.kind = "worker", !.handle = h, !.batch = B].result = "none"
BY ConstantsTyped DEF NoCall, Call, Results, NoRegistry, Provers

\* a call changes one or two of its fields at a time
LEMMA ResultChanged ==
  ASSUME NEW c \in Call, NEW r \in Results, NEW h \in 0..MaxGeneration
  PROVE  /\ [c EXCEPT !.result = r] \in Call
         /\ [c EXCEPT !.result = r, !.handle = h] \in Call
BY DEF Call

LEMMA NumbersChanged ==
  ASSUME NEW c \in Call, NEW n \in Nat
  PROVE  [c EXCEPT !.epoch = n] \in Call /\ [c EXCEPT !.used = n] \in Call
BY DEF Call

LEMMA LimitChanged ==
  ASSUME NEW c \in Call, NEW limit \in 1..Ceiling
  PROVE  [c EXCEPT !.limit = limit] \in Call /\ [c EXCEPT !.kind = "limit"] \in Call
<1>1. limit \in 0..Ceiling
  BY ConstantsTyped
<1> QED BY <1>1 DEF Call

LEMMA CallTyped ==
  ASSUME NEW c \in Call
  PROVE  /\ c.kind \in Provers \cup Setups \cup {"limit", "none"}
         /\ c.handle \in 0..MaxGeneration /\ c.epoch \in Nat /\ c.limit \in 0..Ceiling
         /\ c.used \in Nat /\ c.batch \in SUBSET Threads /\ c.result \in Results
BY DEF Call

LEMMA GotoTyped ==
  ASSUME TypeOK, NEW t \in Threads, NEW next \in PCs, Goto(t, next)
  PROVE  /\ pc' \in [Threads -> PCs] /\ pc'[t] = next
         /\ \A u \in Threads \ {t} : pc'[u] = pc[u]
BY DEF TypeOK, Goto

LEMMA ResultTyped ==
  ASSUME TypeOK, NEW t \in Threads, NEW r \in Results, Result(t, r)
  PROVE  call' \in [Threads -> Call]
<1>1. call \in [Threads -> Call]
  BY DEF TypeOK
<1>2. call[t] \in Call /\ call[t].handle \in 0..MaxGeneration
  BY <1>1, CallTyped
<1>3. [call[t] EXCEPT !.result = r] \in Call
  BY <1>2, ResultChanged
<1> QED BY <1>1, <1>3 DEF Result

\* what stays of the calls when the fields of one are written
LEMMA ResultKept ==
  ASSUME call \in [Threads -> Call], NEW t \in Threads, NEW r, Result(t, r), NEW u \in Threads
  PROVE  /\ call'[u].kind = call[u].kind /\ call'[u].handle = call[u].handle
         /\ call'[u].used = call[u].used /\ call'[u].batch = call[u].batch
         /\ call'[u].result = IF u = t THEN r ELSE call[u].result
<1>1. CASE u = t BY <1>1 DEF Call, Result
<1>2. CASE u # t BY <1>2 DEF Call, Result
<1> QED BY <1>1, <1>2

LEMMA UsedKept ==
  ASSUME call \in [Threads -> Call], NEW t \in Threads, NEW n, NEW u \in Threads,
         call' = [call EXCEPT ![t].used = n]
  PROVE  /\ call'[u].kind = call[u].kind /\ call'[u].handle = call[u].handle
         /\ call'[u].result = call[u].result /\ call'[u].batch = call[u].batch
         /\ call'[u].used = IF u = t THEN n ELSE call[u].used
<1>1. CASE u = t BY <1>1 DEF Call
<1>2. CASE u # t BY <1>2 DEF Call
<1> QED BY <1>1, <1>2

LEMMA HandleKept ==
  ASSUME call \in [Threads -> Call], NEW t \in Threads, NEW r, NEW h, NEW u \in Threads,
         call' = [call EXCEPT ![t].result = r, ![t].handle = h]
  PROVE  /\ call'[u].kind = call[u].kind /\ call'[u].used = call[u].used
         /\ call'[u].batch = call[u].batch
         /\ call'[u].handle = IF u = t THEN h ELSE call[u].handle
         /\ call'[u].result = IF u = t THEN r ELSE call[u].result
<1>1. CASE u = t BY <1>1 DEF Call
<1>2. CASE u # t BY <1>2 DEF Call
<1> QED BY <1>1, <1>2

LEMMA EndTyped ==
  ASSUME TypeOK, NEW t \in Threads, End(t)
  PROVE  /\ pc' \in [Threads -> PCs] /\ call' \in [Threads -> Call]
         /\ pc'[t] \in {"joined", "idle"}
         /\ \A u \in Threads \ {t} : pc'[u] = pc[u] /\ call'[u] = call[u]
<1>1. pc \in [Threads -> PCs] /\ call \in [Threads -> Call] /\ NoCall \in Call
  BY NoCallTyped DEF TypeOK
<1>2. CASE call[t].kind = "worker"
  BY <1>1, <1>2 DEF End, Goto, PCs
<1>3. CASE call[t].kind # "worker"
  BY <1>1, <1>3 DEF End, Goto, PCs
<1> QED BY <1>2, <1>3

-----------------------------------------------------------------------------
(* Types                                                                   *)

\* the part of TypeOK that does not depend on the counts of the gate
Typed ==
  /\ bridge \in 0..MaxGeneration /\ generation \in 0..MaxGeneration
  /\ writerActive \in BOOLEAN /\ maxConcurrent \in 1..Ceiling
  /\ registry \in Nat /\ builds \in Nat /\ cancelEpoch \in Nat
  /\ pc \in [Threads -> PCs]
  /\ call \in [Threads -> Call]

LEMMA StepTyped == TypeOK /\ [Next]_vars => Typed'
<1> SUFFICES ASSUME TypeOK, [Next]_vars PROVE Typed'
  OBVIOUS
<1> USE DEF gate, slot, settings
<1>1. ASSUME NEW t \in Threads, NEW kind \in {"prove"} \cup Setups, StartCall(t, kind)
      PROVE  Typed'
  <2>1. [NoCall EXCEPT !.kind = kind, !.handle = bridge] \in Call
    BY StartedTyped DEF TypeOK, Provers
  <2> QED BY <1>1, <2>1 DEF StartCall, Goto, TypeOK, Typed, PCs
<1>2. ASSUME NEW t \in Threads, NEW limit \in Limits, StoreLimit(t, limit) PROVE Typed'
  <2>1. [call[t] EXCEPT !.kind = "limit"] \in Call
    BY LimitChanged, ConstantsTyped, call[t] \in Call DEF TypeOK
  <2> QED BY <1>2, <2>1, ConstantsTyped DEF StoreLimit, Goto, TypeOK, Typed, PCs
<1>3. ASSUME NEW t \in Threads, LoadLimit(t) PROVE Typed'
  <2>1. [call[t] EXCEPT !.limit = maxConcurrent] \in Call
    BY LimitChanged, call[t] \in Call DEF TypeOK
  <2> QED BY <1>3, <2>1 DEF LoadLimit, Goto, TypeOK, Typed, PCs
<1>4. ASSUME NEW t \in Threads, EnterExclusive(t) \/ RetryExclusive(t) PROVE Typed'
  BY <1>4 DEF EnterExclusive, RetryExclusive, Goto, TypeOK, Typed, PCs
<1>5. ASSUME NEW t \in Threads, GiveUp(t) PROVE Typed'
  <2>1. pc' \in [Threads -> PCs] /\ call' \in [Threads -> Call]
    BY <1>5, GotoTyped, ResultTyped, EndTyped DEF GiveUp, PCs, Results
  <2> QED BY <1>5, <2>1 DEF GiveUp, TypeOK, Typed
<1>6. ASSUME NEW t \in Threads, Release(t) PROVE Typed'
  BY <1>6 DEF Release, Goto, TypeOK, Typed, PCs
<1>7. ASSUME NEW t \in Threads, WorkerChecks(t) PROVE Typed'
  <2>1. pc' \in [Threads -> PCs] /\ call' \in [Threads -> Call]
    BY <1>7, GotoTyped, ResultTyped DEF WorkerChecks, PCs, Results, TypeOK
  <2> QED BY <1>7, <2>1 DEF WorkerChecks, TypeOK, Typed
<1>8. ASSUME NEW t \in Threads, AdmitShared(t) \/ WaitShared(t) PROVE Typed'
  BY <1>8 DEF AdmitShared, WaitShared, Goto, TypeOK, Typed, PCs
<1>9. ASSUME NEW t \in Threads, TakeRegistry(t) PROVE Typed'
  <2>1. [call[t] EXCEPT !.used = registry] \in Call
    BY NumbersChanged, call[t] \in Call DEF TypeOK
  <2>2. call' \in [Threads -> Call] /\ pc' \in [Threads -> PCs]
    BY <1>9, <2>1, ResultTyped, GotoTyped DEF TakeRegistry, TypeOK, Results, PCs
  <2> QED BY <1>9, <2>2 DEF TakeRegistry, TypeOK, Typed
<1>10. ASSUME NEW t \in Threads, Prove(t) PROVE Typed'
  <2>1. call' \in [Threads -> Call]
    BY <1>10, ResultTyped DEF Prove, Results
  <2> QED BY <1>10, <2>1 DEF Prove, Goto, TypeOK, Typed, PCs
<1>11. ASSUME NEW t \in Threads, Configure(t) PROVE Typed'
  <2>1. CASE Result(t, "failed") /\ UNCHANGED slot
    <3>1. call' \in [Threads -> Call]
      BY <2>1, ResultTyped DEF Results
    <3> QED BY <1>11, <2>1, <3>1 DEF Configure, Goto, TypeOK, Typed, PCs
  <2>2. CASE /\ NextGenerationFits
             /\ generation' = generation + 1
             /\ builds' = builds + 1 /\ registry' = builds + 1
             /\ call' = [call EXCEPT ![t].result = "ok", ![t].handle = generation + 1]
    <3>1. generation + 1 \in 0..MaxGeneration
      BY <2>2 DEF NextGenerationFits, TypeOK
    <3>2. [call[t] EXCEPT !.result = "ok", !.handle = generation + 1] \in Call
      BY <3>1, ResultChanged, call[t] \in Call DEF TypeOK, Results
    <3>3. call' = [call EXCEPT ![t] = [call[t] EXCEPT !.result = "ok", !.handle = generation + 1]]
      BY <2>2 DEF TypeOK
    <3>4. call' \in [Threads -> Call]
      BY <3>2, <3>3 DEF TypeOK
    <3> QED BY <1>11, <2>2, <3>1, <3>4 DEF Configure, Goto, TypeOK, Typed, PCs
  <2> QED BY <1>11, <2>1, <2>2 DEF Configure
<1>12. ASSUME NEW t \in Threads, CloseRegistry(t) PROVE Typed'
  <2>1. call' \in [Threads -> Call]
    BY <1>12, ResultTyped DEF CloseRegistry, Results
  <2>2. registry' \in Nat
    BY <1>12 DEF CloseRegistry, NoRegistry, TypeOK
  <2> QED BY <1>12, <2>1, <2>2 DEF CloseRegistry, Goto, TypeOK, Typed, PCs, NoRegistry
<1>13. ASSUME NEW t \in Threads, NotifyAll(t) PROVE Typed'
  <2>1. call' \in [Threads -> Call]
    BY <1>13, NoCallTyped DEF NotifyAll, TypeOK
  <2>2. pc' \in [Threads -> PCs]
    BY <1>13 DEF NotifyAll, TypeOK, PCs
  <2> QED BY <1>13, <2>1, <2>2 DEF NotifyAll, TypeOK, Typed
<1>14. ASSUME NEW t \in Threads, RecordConfigured(t) \/ ForgetClosed(t) PROVE Typed'
  <2>1. pc' \in [Threads -> PCs] /\ call' \in [Threads -> Call]
    BY <1>14, EndTyped DEF RecordConfigured, ForgetClosed
  <2>2. bridge' \in 0..MaxGeneration
    BY <1>14, CallTyped DEF RecordConfigured, ForgetClosed, TypeOK
  <2> QED BY <1>14, <2>1, <2>2 DEF RecordConfigured, ForgetClosed, TypeOK, Typed
<1>15. ASSUME NEW t \in Threads, WakeUp(t) \/ TimeOut(t) PROVE Typed'
  BY <1>15 DEF WakeUp, TimeOut, Goto, TypeOK, Typed, PCs
<1>16. ASSUME NEW workers \in SUBSET Threads, StartBatch(workers) PROVE Typed'
  <2>1. [NoCall EXCEPT !.kind = "worker", !.handle = bridge, !.batch = workers] \in Call
    BY WorkerTyped DEF TypeOK
  <2> QED BY <1>16, <2>1 DEF StartBatch, TypeOK, Typed, PCs
<1>17. ASSUME NEW workers, RunBatch(workers) PROVE Typed'
  <2>1. \A t \in Threads : [call[t] EXCEPT !.epoch = cancelEpoch] \in Call
    BY NumbersChanged DEF TypeOK
  <2> QED BY <1>17, <2>1 DEF RunBatch, TypeOK, Typed, PCs
<1>18. ASSUME NEW workers, FinishBatch(workers) PROVE Typed'
  BY <1>18, NoCallTyped DEF FinishBatch, TypeOK, Typed, PCs
<1>19. CASE CancelAll
  BY <1>19 DEF CancelAll, TypeOK, Typed
<1>20. CASE UNCHANGED vars
  BY <1>20 DEF vars, TypeOK, Typed
<1> QED BY <1>1, <1>2, <1>3, <1>4, <1>5, <1>6, <1>7, <1>8, <1>9, <1>10, <1>11, <1>12, <1>13,
           <1>14, <1>15, <1>16, <1>17, <1>18, <1>19, <1>20 DEF Next, Lock, Run

-----------------------------------------------------------------------------
(* The gate                                                                *)

\* whether u is counted among the readers, owns the gate, or queues for it
Shares(u) == Proves(u) /\ Holding(u)
Owns(u)   == SetsUp(u) /\ Holding(u)
Queues(u) == SetsUp(u) /\ Waiting(u)

Same(u) == (Shares(u)' <=> Shares(u)) /\ (Owns(u)' <=> Owns(u)) /\ (Queues(u)' <=> Queues(u))

\* a step that leaves the gate and everybody's relation to it alone
Quiet == UNCHANGED gate /\ \A u \in Threads : Same(u)

LEMMA CountsFinite ==
  /\ IsFiniteSet(Sharing) /\ IsFiniteSet(Owning) /\ IsFiniteSet(Queued)
  /\ Cardinality(Sharing) \in Nat /\ Cardinality(Queued) \in Nat
<1>1. Sharing \subseteq Threads /\ Owning \subseteq Threads /\ Queued \subseteq Threads
  BY DEF Sharing, Owning, Queued
<1>2. IsFiniteSet(Sharing) /\ IsFiniteSet(Owning) /\ IsFiniteSet(Queued)
  BY <1>1, FS_Subset, ThreadAssumption
<1> QED BY <1>2, FS_CardinalityType

LEMMA QuietIsSafe ==
  ASSUME ProverInv, Quiet
  PROVE  GateSafe' /\ readers' \in Nat /\ writersWaiting' \in Nat
<1>1. Sharing' = Sharing /\ Owning' = Owning /\ Queued' = Queued
  BY DEF Quiet, Same, Shares, Owns, Queues, Sharing, Owning, Queued
<1>2. readers' = readers /\ writersWaiting' = writersWaiting /\ writerActive' = writerActive
  BY DEF Quiet, gate
<1>3. TypeOK /\ GateSafe
  BY DEF ProverInv
<1> QED BY <1>1, <1>2, <1>3 DEF TypeOK, GateSafe, CountsRight, Exclusion, AtMostCeiling

\* one thread moves, the gate stays
LEMMA QuietMove ==
  ASSUME TypeOK, UNCHANGED gate, NEW t \in Threads, Same(t),
         \A u \in Threads \ {t} : pc'[u] = pc[u] /\ call'[u].kind = call[u].kind
  PROVE  Quiet
BY DEF Quiet, Same, Shares, Owns, Queues, Proves, SetsUp, Holding, Waiting

LEMMA QuietSteps ==
  ASSUME ProverInv, [Next]_vars,
         \A t \in Threads : ~AdmitShared(t) /\ ~EnterExclusive(t) /\ ~RetryExclusive(t)
                            /\ ~GiveUp(t) /\ ~Release(t)
  PROVE  Quiet
<1> USE DEF gate, slot, settings
<1>0. TypeOK /\ CallsRight /\ pc \in [Threads -> PCs] /\ call \in [Threads -> Call]
  BY DEF ProverInv, TypeOK
<1> USE <1>0
<1> USE DEF Same, Shares, Owns, Queues, Holding, Waiting
<1>1. ASSUME NEW t \in Threads, NEW kind \in {"prove"} \cup Setups, StartCall(t, kind)
      PROVE  Quiet
  BY <1>1, QuietMove DEF StartCall, Goto
<1>2. ASSUME NEW t \in Threads, NEW limit \in Limits, StoreLimit(t, limit) PROVE Quiet
  <2>1. \A u \in Threads \ {t} : pc'[u] = pc[u] /\ call'[u].kind = call[u].kind
    BY <1>2 DEF StoreLimit, Goto
  <2> QED BY <1>2, <2>1, QuietMove DEF StoreLimit, Goto
<1>3. ASSUME NEW t \in Threads, LoadLimit(t) PROVE Quiet
  BY <1>3, QuietMove DEF LoadLimit, Goto, Proves, SetsUp, Provers, Setups
<1>4. ASSUME NEW t \in Threads, WorkerChecks(t) PROVE Quiet
  BY <1>4, QuietMove DEF WorkerChecks, Goto, Result
<1>5. ASSUME NEW t \in Threads, WaitShared(t) PROVE Quiet
  BY <1>5, QuietMove DEF WaitShared, Goto, Proves, SetsUp, Provers, Setups, CallsRight
<1>6. ASSUME NEW t \in Threads, TakeRegistry(t) PROVE Quiet
  <2>1. pc[t] = "admitted" /\ pc'[t] \in {"proving", "release"}
    BY <1>6 DEF TakeRegistry, Goto
  <2>2. \A u \in Threads \ {t} : pc'[u] = pc[u]
    BY <1>6 DEF TakeRegistry, Goto
  <2>3. \A u \in Threads : call'[u].kind = call[u].kind
    BY <1>6, UsedKept, ResultKept DEF TakeRegistry
  <2>4. Same(t)
    BY <2>1, <2>3 DEF Proves, SetsUp
  <2> QED BY <1>6, <2>2, <2>3, <2>4, QuietMove DEF TakeRegistry
<1>7. ASSUME NEW t \in Threads, Prove(t) PROVE Quiet
  BY <1>7, QuietMove DEF Prove, Goto, Result, Proves, SetsUp
<1>8. ASSUME NEW t \in Threads, Configure(t) PROVE Quiet
  <2>1. pc[t] = "admitted" /\ pc'[t] \in {"proving", "release"}
    BY <1>8 DEF Configure, Goto
  <2>2. \A u \in Threads \ {t} : pc'[u] = pc[u]
    BY <1>8 DEF Configure, Goto
  <2>3. \A u \in Threads : call'[u].kind = call[u].kind
    BY <1>8, HandleKept, ResultKept DEF Configure
  <2>4. Same(t)
    BY <2>1, <2>3 DEF Proves, SetsUp
  <2> QED BY <1>8, <2>2, <2>3, <2>4, QuietMove DEF Configure
<1>9. ASSUME NEW t \in Threads, CloseRegistry(t) PROVE Quiet
  <2>1. pc[t] = "admitted" /\ pc'[t] \in {"proving", "release"}
    BY <1>9 DEF CloseRegistry, Goto
  <2>2. \A u \in Threads \ {t} : pc'[u] = pc[u]
    BY <1>9 DEF CloseRegistry, Goto
  <2>3. \A u \in Threads : call'[u].kind = call[u].kind
    BY <1>9, ResultKept DEF CloseRegistry
  <2>4. Same(t)
    BY <2>1, <2>3 DEF Proves, SetsUp
  <2> QED BY <1>9, <2>2, <2>3, <2>4, QuietMove DEF CloseRegistry
<1>10. ASSUME NEW t \in Threads, NotifyAll(t) PROVE Quiet
  <2>1. \A u \in Threads \ {t} : call'[u] = call[u]
    BY <1>10 DEF NotifyAll
  <2>2. \A u \in Threads \ {t} : pc'[u] = IF pc[u] = "asleep" THEN "woken" ELSE pc[u]
    BY <1>10 DEF NotifyAll
  <2>3. pc[t] = "notify" /\ pc'[t] \in {"record", "joined", "idle"}
    BY <1>10 DEF NotifyAll
  <2> QED BY <1>10, <2>1, <2>2, <2>3 DEF NotifyAll, Quiet, Proves, SetsUp
<1>11. ASSUME NEW t \in Threads, RecordConfigured(t) \/ ForgetClosed(t) PROVE Quiet
  BY <1>11, EndTyped, QuietMove DEF RecordConfigured, ForgetClosed
<1>12. ASSUME NEW t \in Threads, WakeUp(t) \/ TimeOut(t) PROVE Quiet
  BY <1>12, QuietMove DEF WakeUp, TimeOut, Goto, Proves, SetsUp
<1>13. ASSUME NEW workers \in SUBSET Threads, StartBatch(workers) PROVE Quiet
  BY <1>13 DEF StartBatch, Quiet, Proves, SetsUp
<1>14. ASSUME NEW workers, RunBatch(workers) PROVE Quiet
  BY <1>14 DEF RunBatch, Quiet, Proves, SetsUp
<1>15. ASSUME NEW workers, FinishBatch(workers) PROVE Quiet
  BY <1>15 DEF FinishBatch, Quiet, Proves, SetsUp
<1>16. CASE CancelAll
  BY <1>16 DEF CancelAll, Quiet, Proves, SetsUp
<1>17. CASE UNCHANGED vars
  BY <1>17 DEF vars, Quiet, Proves, SetsUp
<1> QED BY ONLY [Next]_vars, <1>1, <1>2, <1>3, <1>4, <1>5, <1>6, <1>7, <1>8, <1>9, <1>10, <1>11,
                <1>12, <1>13, <1>14, <1>15, <1>16, <1>17,
                \A t \in Threads : ~AdmitShared(t) /\ ~EnterExclusive(t) /\ ~RetryExclusive(t)
                                   /\ ~GiveUp(t) /\ ~Release(t)
         DEF Next, Lock, Run

\* one thread moves in, out or about
LEMMA MovesSets ==
  ASSUME NEW t \in Threads,
         \A u \in Threads \ {t} : pc'[u] = pc[u] /\ call'[u].kind = call[u].kind
  PROVE  /\ Sharing' = IF Shares(t)' THEN Sharing \cup {t} ELSE Sharing \ {t}
         /\ Owning' = IF Owns(t)' THEN Owning \cup {t} ELSE Owning \ {t}
         /\ Queued' = IF Queues(t)' THEN Queued \cup {t} ELSE Queued \ {t}
<1>1. \A u \in Threads \ {t} : Same(u)
  BY DEF Same, Shares, Owns, Queues, Proves, SetsUp, Holding, Waiting
<1>2. \A u \in Threads : /\ u \in Sharing <=> Shares(u)
                         /\ u \in Owning <=> Owns(u)
                         /\ u \in Queued <=> Queues(u)
  BY DEF Sharing, Owning, Queued, Shares, Owns, Queues
<1>3. \A u \in Threads : /\ u \in Sharing' <=> Shares(u)'
                         /\ u \in Owning' <=> Owns(u)'
                         /\ u \in Queued' <=> Queues(u)'
  BY DEF Sharing, Owning, Queued, Shares, Owns, Queues
<1>4. Sharing \subseteq Threads /\ Owning \subseteq Threads /\ Queued \subseteq Threads
  BY DEF Sharing, Owning, Queued
<1>5. Sharing' \subseteq Threads /\ Owning' \subseteq Threads /\ Queued' \subseteq Threads
  BY DEF Sharing, Owning, Queued
<1> QED BY <1>1, <1>2, <1>3, <1>4, <1>5 DEF Same

\* a permit is there when nobody who could spoil it is
LEMMA FreeGate ==
  ASSUME ProverInv
  PROVE  /\ CanOwn => Sharing = {} /\ Owning = {}
         /\ ~writerActive => Owning = {}
         /\ writersWaiting = 0 => Queued = {}
<1>1. CountsRight
  BY DEF ProverInv, GateSafe
<1> QED BY <1>1, CountsFinite, FS_EmptySet DEF CountsRight, CanOwn

LEMMA CountsMove ==
  ASSUME NEW S, IsFiniteSet(S), NEW t
  PROVE  /\ Cardinality(S \cup {t}) = IF t \in S THEN Cardinality(S) ELSE Cardinality(S) + 1
         /\ Cardinality(S \ {t}) = IF t \in S THEN Cardinality(S) - 1 ELSE Cardinality(S)
         /\ Cardinality(S \ {t}) \in Nat /\ Cardinality(S \cup {t}) \in Nat
<1>1. CASE t \in S
  <2>1. S \cup {t} = S
    BY <1>1
  <2> QED BY <1>1, <2>1, FS_RemoveElement, FS_CardinalityType
<1>2. CASE t \notin S
  <2>1. S \ {t} = S
    BY <1>2
  <2> QED BY <1>2, <2>1, FS_AddElement, FS_CardinalityType
<1> QED BY <1>1, <1>2

LEMMA QueueMoves ==
  ASSUME ProverInv, NEW t
  PROVE  /\ Queued' = Queued \cup {t} =>
              Cardinality(Queued') = IF t \in Queued THEN writersWaiting ELSE writersWaiting + 1
         /\ Queued' = Queued \ {t} =>
              /\ Cardinality(Queued') = IF t \in Queued THEN writersWaiting - 1 ELSE writersWaiting
              /\ Cardinality(Queued') \in Nat
<1>1. writersWaiting = Cardinality(Queued) /\ IsFiniteSet(Queued)
  BY CountsFinite DEF ProverInv, GateSafe, CountsRight
<1>2. /\ Cardinality(Queued \cup {t}) =
            IF t \in Queued THEN Cardinality(Queued) ELSE Cardinality(Queued) + 1
      /\ Cardinality(Queued \ {t}) =
            IF t \in Queued THEN Cardinality(Queued) - 1 ELSE Cardinality(Queued)
      /\ Cardinality(Queued \ {t}) \in Nat
  BY ONLY <1>1, CountsMove
<1> QED BY ONLY <1>1, <1>2

LEMMA GateStep ==
  ASSUME ProverInv, [Next]_vars
  PROVE  GateSafe' /\ readers' \in Nat /\ writersWaiting' \in Nat
<1>0. /\ TypeOK /\ CallsRight /\ GateSafe /\ CountsRight /\ Exclusion /\ AtMostCeiling
      /\ pc \in [Threads -> PCs] /\ call \in [Threads -> Call]
      /\ readers \in Nat /\ writersWaiting \in Nat
  BY DEF ProverInv, TypeOK, GateSafe
<1>00. \A t \in Threads : ~(Proves(t) /\ SetsUp(t))
  BY DEF Proves, SetsUp, Provers, Setups
<1> USE <1>0, <1>00
<1> USE DEF Shares, Owns, Queues, Holding, Waiting
<1>1. ASSUME NEW t \in Threads, AdmitShared(t)
      PROVE  GateSafe' /\ readers' \in Nat /\ writersWaiting' \in Nat
  <2>1. /\ Proves(t) /\ ~writerActive /\ readers < call[t].limit /\ readers' = readers + 1
        /\ pc[t] = "loaded" /\ pc'[t] = "admitted" /\ call' = call
        /\ UNCHANGED <<writerActive, writersWaiting>>
        /\ \A u \in Threads \ {t} : pc'[u] = pc[u]
    BY <1>1 DEF AdmitShared, CanShare, CallsRight, Goto
  <2>2. Proves(t)' /\ ~SetsUp(t)'
    BY <2>1 DEF Proves, SetsUp, Provers, Setups
  <2>3. Sharing' = Sharing \cup {t} /\ Owning' = Owning \ {t} /\ Queued' = Queued \ {t}
    BY <2>1, <2>2, MovesSets
  <2>4. Owning = {} /\ t \notin Sharing /\ t \notin Queued
    BY <2>1, FreeGate DEF Sharing, Queued
  <2>5. readers' = Cardinality(Sharing')
    BY <2>1, <2>3, <2>4, CountsMove, CountsFinite DEF CountsRight
  <2>6. readers' <= Ceiling
    BY <2>1, CallTyped, ConstantsTyped
  <2>7. writersWaiting' = Cardinality(Queued') /\ Owning' = {} /\ ~writerActive'
    BY <2>1, <2>3, <2>4, Queued \ {t} = Queued DEF CountsRight
  <2> QED BY <2>1, <2>5, <2>6, <2>7 DEF GateSafe, CountsRight, Exclusion, AtMostCeiling
<1>2. ASSUME NEW t \in Threads, Release(t)
      PROVE  GateSafe' /\ readers' \in Nat /\ writersWaiting' \in Nat
  <2>1. /\ pc[t] = "release" /\ pc'[t] = "notify" /\ call' = call /\ UNCHANGED writersWaiting
        /\ \A u \in Threads \ {t} : pc'[u] = pc[u]
    BY <1>2 DEF Release, Goto
  <2>2. Sharing' = Sharing \ {t} /\ Owning' = Owning \ {t} /\ Queued' = Queued \ {t}
    BY <2>1, MovesSets
  <2>3. t \notin Queued
    BY <2>1 DEF Queued
  <2>4. CASE Proves(t)
    <3>1. t \in Sharing /\ t \notin Owning
      BY <2>1, <2>4 DEF Sharing, Owning
    <3>2. readers' = readers - 1 /\ UNCHANGED writerActive
      BY <1>2, <2>4 DEF Release
    <3>3. readers' = Cardinality(Sharing') /\ readers' \in Nat
      BY <2>2, <3>1, <3>2, CountsMove, CountsFinite DEF CountsRight
    <3>4. writersWaiting' = Cardinality(Queued') /\ Owning' = Owning
      BY <2>1, <2>2, <2>3, <3>1, Queued \ {t} = Queued, Owning \ {t} = Owning DEF CountsRight
    <3> QED BY <2>1, <2>2, <3>2, <3>3, <3>4 DEF GateSafe, CountsRight, Exclusion, AtMostCeiling
  <2>5. CASE ~Proves(t)
    <3>1. SetsUp(t)
      BY <2>1, <2>5 DEF CallsRight
    <3>2. t \in Owning /\ t \notin Sharing
      BY <2>1, <2>5, <3>1 DEF Sharing, Owning
    <3>3. Owning' = {}
      BY <2>2, <3>2 DEF Exclusion
    <3>4. ~writerActive' /\ UNCHANGED readers
      BY <1>2, <2>5 DEF Release
    <3> QED BY <2>1, <2>2, <2>3, <3>2, <3>3, <3>4 DEF GateSafe, CountsRight, Exclusion, AtMostCeiling
  <2> QED BY <2>4, <2>5
<1>3. ASSUME NEW t \in Threads, EnterExclusive(t) \/ RetryExclusive(t)
      PROVE  GateSafe' /\ readers' \in Nat /\ writersWaiting' \in Nat
  <2>1. /\ pc[t] \in {"lock", "woken"} /\ call' = call /\ UNCHANGED readers
        /\ SetsUp(t) /\ ~Proves(t)
        /\ \A u \in Threads \ {t} : pc'[u] = pc[u]
    BY <1>3 DEF EnterExclusive, RetryExclusive, Goto
  <2>2. SetsUp(t)' /\ ~Proves(t)'
    BY <2>1 DEF Proves, SetsUp
  <2>3. t \notin Sharing /\ t \notin Owning /\ (t \in Queued <=> pc[t] = "woken")
    BY <2>1 DEF Sharing, Owning, Queued
  <2>4. CASE CanOwn
    <3>1. pc'[t] = "admitted" /\ writerActive' = TRUE
      BY <1>3, <2>4 DEF EnterExclusive, RetryExclusive, Goto
    <3>2. Sharing' = Sharing \ {t} /\ Owning' = Owning \cup {t} /\ Queued' = Queued \ {t}
      BY <2>1, <2>2, <3>1, MovesSets
    <3>3. Sharing = {} /\ Owning = {}
      BY <2>4, FreeGate
    <3>4. writersWaiting' = IF pc[t] = "woken" THEN writersWaiting - 1 ELSE writersWaiting
      BY <1>3, <2>4 DEF EnterExclusive, RetryExclusive
    <3>5. writersWaiting' = Cardinality(Queued') /\ writersWaiting' \in Nat
      BY ONLY <1>0, <2>1, <2>3, <3>2, <3>4, QueueMoves, ProverInv
    <3> QED BY <2>1, <2>3, <3>1, <3>2, <3>3, <3>5 DEF GateSafe, CountsRight, Exclusion, AtMostCeiling
  <2>5. CASE ~CanOwn
    <3>1. pc'[t] = "asleep" /\ UNCHANGED writerActive
      BY <1>3, <2>5 DEF EnterExclusive, RetryExclusive, Goto
    <3>2. Sharing' = Sharing \ {t} /\ Owning' = Owning \ {t} /\ Queued' = Queued \cup {t}
      BY <2>1, <2>2, <3>1, MovesSets
    <3>3. writersWaiting' = IF pc[t] = "woken" THEN writersWaiting ELSE writersWaiting + 1
      BY <1>3, <2>5 DEF EnterExclusive, RetryExclusive
    <3>4. writersWaiting' = IF t \in Queued THEN writersWaiting ELSE writersWaiting + 1
      BY ONLY <2>3, <3>3
    <3>5. Cardinality(Queued') = IF t \in Queued THEN writersWaiting ELSE writersWaiting + 1
      BY ONLY <3>2, QueueMoves, ProverInv
    <3>6. writersWaiting' = Cardinality(Queued') /\ writersWaiting' \in Nat
      BY ONLY <1>0, <3>4, <3>5
    <3>7. Sharing' = Sharing /\ Owning' = Owning
      BY ONLY <2>3, <3>2
    <3>8. CountsRight'
      BY ONLY <1>0, <2>1, <3>1, <3>6, <3>7 DEF CountsRight
    <3>9. Exclusion' /\ AtMostCeiling'
      BY ONLY <1>0, <2>1, <3>7 DEF Exclusion, AtMostCeiling
    <3> QED BY ONLY <1>0, <2>1, <3>6, <3>8, <3>9 DEF GateSafe
  <2> QED BY <2>4, <2>5
<1>4. ASSUME NEW t \in Threads, GiveUp(t)
      PROVE  GateSafe' /\ readers' \in Nat /\ writersWaiting' \in Nat
  <2>1. /\ pc[t] = "timedOut" /\ pc'[t] \in {"notify", "joined", "idle"}
        /\ UNCHANGED <<readers, writerActive>>
    BY <1>4, EndTyped DEF GiveUp, Goto
  <2>2. \A u \in Threads \ {t} : pc'[u] = pc[u] /\ call'[u].kind = call[u].kind
    BY <1>4, EndTyped DEF GiveUp, Goto, Result
  <2>3. Sharing' = Sharing \ {t} /\ Owning' = Owning \ {t} /\ Queued' = Queued \ {t}
    BY <2>1, <2>2, MovesSets
  <2>4. t \notin Sharing /\ t \notin Owning /\ (t \in Queued <=> SetsUp(t))
    BY <2>1 DEF Sharing, Owning, Queued
  <2>5. writersWaiting' = IF SetsUp(t) THEN writersWaiting - 1 ELSE writersWaiting
    BY <1>4 DEF GiveUp
  <2>6. writersWaiting' = Cardinality(Queued') /\ writersWaiting' \in Nat
    BY ONLY <1>0, <2>3, <2>4, <2>5, QueueMoves, ProverInv
  <2>7. Sharing' = Sharing /\ Owning' = Owning
    BY ONLY <2>3, <2>4
  <2>8. CountsRight'
    BY ONLY <1>0, <2>1, <2>6, <2>7 DEF CountsRight
  <2>9. Exclusion' /\ AtMostCeiling'
    BY ONLY <1>0, <2>1, <2>7 DEF Exclusion, AtMostCeiling
  <2> QED BY ONLY <1>0, <2>1, <2>6, <2>8, <2>9 DEF GateSafe
<1> QED BY ONLY ProverInv, [Next]_vars, <1>1, <1>2, <1>3, <1>4, QuietSteps, QuietIsSafe

-----------------------------------------------------------------------------
(* Where the calls are                                                     *)

LEMMA CallsStep == ProverInv /\ [Next]_vars => CallsRight'
<1> SUFFICES ASSUME ProverInv, [Next]_vars PROVE CallsRight'
  OBVIOUS
<1>0. TypeOK /\ CallsRight /\ pc \in [Threads -> PCs] /\ call \in [Threads -> Call]
  BY DEF ProverInv, TypeOK
<1> USE <1>0 DEF CallsRight, Proves, SetsUp
<1>1. ASSUME NEW t \in Threads, NEW kind \in {"prove"} \cup Setups, StartCall(t, kind)
      PROVE  CallsRight'
  <2>1. [NoCall EXCEPT !.kind = kind, !.handle = bridge].kind = kind
    BY StartedTyped DEF TypeOK, Provers
  <2> QED BY <1>1, <2>1 DEF StartCall, Goto, Provers
<1>2. ASSUME NEW t \in Threads, NEW limit \in Limits, StoreLimit(t, limit) PROVE CallsRight'
  BY <1>2 DEF StoreLimit, Goto
<1>3. ASSUME NEW t \in Threads, LoadLimit(t) PROVE CallsRight'
  BY <1>3 DEF LoadLimit, Goto
<1>4. ASSUME NEW t \in Threads, WorkerChecks(t) PROVE CallsRight'
  <2>1. \A u \in Threads : call'[u].kind = call[u].kind
    BY <1>4, ResultKept DEF WorkerChecks
  <2> QED BY <1>4, <2>1 DEF WorkerChecks, Goto, Provers
<1>5. ASSUME NEW t \in Threads, AdmitShared(t) \/ WaitShared(t) PROVE CallsRight'
  BY <1>5 DEF AdmitShared, WaitShared, Goto
<1>6. ASSUME NEW t \in Threads, EnterExclusive(t) \/ RetryExclusive(t) PROVE CallsRight'
  BY <1>6 DEF EnterExclusive, RetryExclusive, Goto
<1>7. ASSUME NEW t \in Threads, GiveUp(t) PROVE CallsRight'
  <2>1. pc'[t] \in {"notify", "idle"} \/ (pc'[t] = "joined" /\ call'[t].kind = "worker")
    BY <1>7, ResultKept DEF GiveUp, Goto, End
  <2>2. \A u \in Threads \ {t} : pc'[u] = pc[u] /\ call'[u].kind = call[u].kind
    BY <1>7, EndTyped DEF GiveUp, Goto, Result
  <2> QED BY <2>1, <2>2
<1>8. ASSUME NEW t \in Threads, TakeRegistry(t) \/ Prove(t) \/ Configure(t) \/ CloseRegistry(t)
      PROVE  CallsRight'
  <2>1. \A u \in Threads : call'[u].kind = call[u].kind
    <3>1. CASE TakeRegistry(t) \/ Prove(t)
      BY <3>1, UsedKept, ResultKept DEF TakeRegistry, Prove
    <3>2. CASE Configure(t) \/ CloseRegistry(t)
      BY <3>2, HandleKept, ResultKept DEF Configure, CloseRegistry
    <3> QED BY ONLY <1>8, <3>1, <3>2
  <2>2. pc'[t] = "release" \/ (pc'[t] = "proving" /\ Proves(t))
    BY <1>8 DEF TakeRegistry, Prove, Configure, CloseRegistry, Goto
  <2>3. \A u \in Threads \ {t} : pc'[u] = pc[u]
    BY <1>8 DEF TakeRegistry, Prove, Configure, CloseRegistry, Goto
  <2>4. Proves(t) \/ SetsUp(t)
    BY <1>8 DEF TakeRegistry, Prove, Configure, CloseRegistry, Setups
  <2> QED BY <2>1, <2>2, <2>3, <2>4
<1>9. ASSUME NEW t \in Threads, Release(t) PROVE CallsRight'
  BY <1>9 DEF Release, Goto
<1>10. ASSUME NEW t \in Threads, NotifyAll(t) PROVE CallsRight'
  <2>1. \A u \in Threads \ {t} : /\ call'[u] = call[u]
                                 /\ pc'[u] = IF pc[u] = "asleep" THEN "woken" ELSE pc[u]
    BY <1>10 DEF NotifyAll
  <2>2. pc'[t] \in {"record", "idle"} \/ (pc'[t] = "joined" /\ call'[t].kind = "worker")
    BY <1>10 DEF NotifyAll
  <2> QED BY <2>1, <2>2
<1>11. ASSUME NEW t \in Threads, RecordConfigured(t) \/ ForgetClosed(t) PROVE CallsRight'
  <2>1. pc'[t] = "idle" \/ (pc'[t] = "joined" /\ call'[t].kind = "worker")
    BY <1>11 DEF RecordConfigured, ForgetClosed, End, Goto
  <2> QED BY <1>11, <2>1, EndTyped DEF RecordConfigured, ForgetClosed
<1>12. ASSUME NEW t \in Threads, WakeUp(t) \/ TimeOut(t) PROVE CallsRight'
  BY <1>12 DEF WakeUp, TimeOut, Goto
<1>13. ASSUME NEW workers \in SUBSET Threads, StartBatch(workers) PROVE CallsRight'
  <2>0. [NoCall EXCEPT !.kind = "worker", !.handle = bridge, !.batch = workers].kind = "worker"
    BY DEF NoCall
  <2>1. \A t \in workers : call'[t].kind = "worker" /\ pc'[t] = "batch"
    BY <1>13, <2>0 DEF StartBatch
  <2>2. \A t \in Threads \ workers : call'[t] = call[t] /\ pc'[t] = pc[t]
    BY <1>13 DEF StartBatch
  <2> QED BY <2>1, <2>2
<1>14. ASSUME NEW workers, RunBatch(workers) PROVE CallsRight'
  <2>1. \A t \in Threads : call'[t].kind = call[t].kind
    BY <1>14 DEF RunBatch, Call
  <2> QED BY <1>14, <2>1 DEF RunBatch
<1>15. ASSUME NEW workers, FinishBatch(workers) PROVE CallsRight'
  BY <1>15 DEF FinishBatch
<1>16. CASE CancelAll
  BY <1>16 DEF CancelAll
<1>17. CASE UNCHANGED vars
  BY <1>17 DEF vars
<1> QED BY ONLY [Next]_vars, <1>1, <1>2, <1>3, <1>4, <1>5, <1>6, <1>7, <1>8, <1>9, <1>10, <1>11,
                <1>12, <1>13, <1>14, <1>15, <1>16, <1>17
         DEF Next, Lock, Run

\* the registry changes only in the hands of the gate's owner
LEMMA SlotStep ==
  ASSUME ProverInv, [Next]_vars
  PROVE  /\ SlotRight'
         /\ UNCHANGED slot \/ \E t \in Threads : pc[t] = "admitted" /\ SetsUp(t)
                                                 /\ (Configure(t) \/ CloseRegistry(t))
<1> USE DEF gate, slot, settings
<1>1. SlotRight /\ builds \in Nat
  BY DEF ProverInv, TypeOK
<1>2. ASSUME NEW t \in Threads, Configure(t)
      PROVE  SlotRight' /\ pc[t] = "admitted" /\ SetsUp(t)
  BY <1>1, <1>2 DEF Configure, SlotRight, SetsUp, Setups
<1>3. ASSUME NEW t \in Threads, CloseRegistry(t)
      PROVE  SlotRight' /\ pc[t] = "admitted" /\ SetsUp(t)
  BY <1>1, <1>3 DEF CloseRegistry, SlotRight, SetsUp, Setups
<1>4. CASE \A t \in Threads : ~Configure(t) /\ ~CloseRegistry(t)
  <2>1. UNCHANGED slot
    BY <1>4 DEF Next, Lock, Run, vars, StartCall, StoreLimit, LoadLimit, EnterExclusive,
                RetryExclusive, GiveUp, Release, WorkerChecks, AdmitShared, WaitShared,
                TakeRegistry, Prove, NotifyAll, RecordConfigured, ForgetClosed, WakeUp,
                TimeOut, FinishBatch, RunBatch, StartBatch, CancelAll
  <2> QED BY <1>1, <2>1 DEF SlotRight
<1> QED BY <1>2, <1>3, <1>4

-----------------------------------------------------------------------------
(* Which registry a proof uses                                             *)

\* what a step may do to one call: hardly anything, ...
Stays(u) ==
  /\ call'[u].kind = call[u].kind /\ call'[u].handle = call[u].handle
  /\ call'[u].used = call[u].used /\ call'[u].batch = call[u].batch
  /\ pc'[u] = "proving" => pc[u] = "proving"
  /\ call'[u].result = "ok" => call[u].result = "ok" \/ pc[u] = "proving" \/ ~Proves(u)
  /\ pc'[u] = "idle" => pc[u] = "idle" \/ call[u].kind # "worker"
\* ... something that is no proof of a batch's, ...
Apart(u) ==
  /\ call[u].kind # "worker" /\ call'[u].kind # "worker" /\ pc'[u] # "proving"
  /\ Proves(u)' => call'[u].result # "ok"
\* ... or the registry its handle stands for is taken
Takes(u) ==
  /\ registry # NoRegistry /\ call[u].handle = generation
  /\ call'[u].kind = call[u].kind /\ call'[u].handle = call[u].handle
  /\ call'[u].batch = call[u].batch
  /\ call'[u].used = registry /\ pc'[u] = "proving" /\ UNCHANGED slot

LEMMA EndApart ==
  ASSUME ProverInv, NEW t \in Threads, End(t), pc[t] # "proving"
  PROVE  Stays(t) \/ Apart(t)
<1>1. pc \in [Threads -> PCs] /\ call \in [Threads -> Call]
  BY DEF ProverInv, TypeOK
<1>2. CASE call[t].kind = "worker"
  BY <1>1, <1>2 DEF End, Goto, Stays
<1>3. CASE call[t].kind # "worker"
  BY <1>1, <1>3, NoCallTyped DEF End, Goto, Apart
<1> QED BY <1>2, <1>3

LEMMA CallEffects ==
  ASSUME ProverInv, [Next]_vars,
         \A workers \in SUBSET Threads : ~StartBatch(workers),
         \A t \in Threads : ~FinishBatch(call[t].batch)
  PROVE  \A u \in Threads : Stays(u) \/ Apart(u) \/ Takes(u)
<1>0. /\ TypeOK /\ CallsRight /\ pc \in [Threads -> PCs] /\ call \in [Threads -> Call]
      /\ \A t \in Threads : pc[t] = "idle" => call[t].kind # "worker"
  BY DEF ProverInv, TypeOK, BatchesRight
<1>00. \A u \in Threads : pc'[u] = pc[u] /\ call'[u] = call[u] => Stays(u)
  BY DEF Stays
<1> USE <1>0
<1>1. ASSUME NEW t \in Threads, NEW kind \in {"prove"} \cup Setups, StartCall(t, kind),
             NEW u \in Threads
      PROVE  Stays(u) \/ Apart(u)
  <2>1. /\ [NoCall EXCEPT !.kind = kind, !.handle = bridge].kind = kind
        /\ [NoCall EXCEPT !.kind = kind, !.handle = bridge].result = "none"
    BY StartedTyped DEF TypeOK, Provers
  <2> QED BY <1>00, <1>1, <2>1 DEF StartCall, Goto, Apart, Setups
<1>2. ASSUME NEW t \in Threads, NEW limit \in Limits, StoreLimit(t, limit), NEW u \in Threads
      PROVE  Stays(u) \/ Apart(u)
  <2>1. u = t => call'[u].kind = "limit" /\ pc'[u] = "notify" /\ pc[u] = "idle"
    BY <1>2 DEF StoreLimit, Goto, Call
  <2>2. u # t => call'[u] = call[u] /\ pc'[u] = pc[u]
    BY <1>2 DEF StoreLimit, Goto
  <2> QED BY <1>00, <2>1, <2>2 DEF Apart, Proves, Provers
<1>3. ASSUME NEW t \in Threads, LoadLimit(t), NEW u \in Threads
      PROVE  Stays(u)
  <2>1. u = t => Stays(u)
    BY <1>3 DEF LoadLimit, Goto, Call, Stays
  <2>2. u # t => call'[u] = call[u] /\ pc'[u] = pc[u]
    BY <1>3 DEF LoadLimit, Goto
  <2> QED BY <1>00, <2>1, <2>2
<1>4. ASSUME NEW t \in Threads, WorkerChecks(t), NEW u \in Threads
      PROVE  Stays(u)
  BY <1>4, ResultKept DEF WorkerChecks, Goto, Stays
<1>5. ASSUME NEW t \in Threads, NEW u \in Threads,
             \/ AdmitShared(t) \/ WaitShared(t) \/ EnterExclusive(t) \/ RetryExclusive(t)
             \/ Release(t) \/ WakeUp(t) \/ TimeOut(t)
      PROVE  Stays(u)
  <2>1. call' = call /\ (pc'[u] \notin {"proving", "idle"} \/ pc'[u] = pc[u])
    BY <1>5 DEF AdmitShared, WaitShared, EnterExclusive, RetryExclusive, Release, WakeUp,
                TimeOut, Goto
  <2>2. call' = call
    BY <1>5 DEF AdmitShared, WaitShared, EnterExclusive, RetryExclusive, Release, WakeUp, TimeOut
  <2> QED BY <2>1, <2>2 DEF Stays
<1>6. ASSUME NEW t \in Threads, GiveUp(t), NEW u \in Threads
      PROVE  Stays(u) \/ Apart(u)
  <2>1. CASE End(t)
    BY <1>00, <1>6, <2>1, EndTyped, EndApart DEF GiveUp
  <2>2. CASE Result(t, "busy") /\ (Goto(t, "notify") \/ Goto(t, "joined"))
    BY <2>2, ResultKept DEF Goto, Stays
  <2> QED BY <1>6, <2>1, <2>2 DEF GiveUp
<1>7. ASSUME NEW t \in Threads, TakeRegistry(t), NEW u \in Threads
      PROVE  Stays(u) \/ Takes(u)
  <2>1. CASE Goto(t, "release") /\ Result(t, "stale")
    BY <2>1, ResultKept DEF Goto, Stays
  <2>2. CASE /\ registry # NoRegistry /\ call[t].handle = generation
             /\ Goto(t, "proving") /\ call' = [call EXCEPT ![t].used = registry]
    <3>1. u = t => Takes(u)
      BY <1>7, <2>2, UsedKept DEF Goto, Takes, TakeRegistry
    <3>2. u # t => call'[u] = call[u] /\ pc'[u] = pc[u]
      BY <2>2 DEF Goto
    <3> QED BY <1>00, <3>1, <3>2
  <2> QED BY <1>7, <2>1, <2>2 DEF TakeRegistry
<1>8. ASSUME NEW t \in Threads, Prove(t) \/ CloseRegistry(t), NEW u \in Threads
      PROVE  Stays(u)
  <2>1. call[t].kind = "close" => ~Proves(t)
    BY DEF Proves, Provers
  <2> QED BY <1>8, <2>1, ResultKept DEF Prove, CloseRegistry, Goto, Stays
<1>9. ASSUME NEW t \in Threads, Configure(t), NEW u \in Threads
      PROVE  Stays(u) \/ Apart(u)
  <2>1. call[t].kind = "configure" /\ pc' = [pc EXCEPT ![t] = "release"]
    BY <1>9 DEF Configure, Goto
  <2>2. \A v \in Threads : call'[v].kind = call[v].kind
    BY ONLY <1>0, <1>9, ResultKept, HandleKept DEF Configure
  <2>3. u # t => call'[u] = call[u]
    BY <1>9 DEF Configure, Result
  <2>4. u = t => Apart(u)
    BY <2>1, <2>2 DEF Apart, Proves, Provers
  <2> QED BY <1>00, <2>1, <2>3, <2>4
<1>10. ASSUME NEW t \in Threads, NotifyAll(t), NEW u \in Threads
      PROVE  Stays(u) \/ Apart(u)
  <2>1. u # t => call'[u] = call[u] /\ (pc'[u] = pc[u] \/ pc'[u] = "woken")
    BY <1>10 DEF NotifyAll
  <2>2. u = t => \/ call'[u] = call[u] /\ pc'[u] \in {"record", "joined"}
                 \/ call'[u] = NoCall /\ pc'[u] = "idle" /\ call[u].kind # "worker"
    BY <1>10 DEF NotifyAll
  <2> QED BY <2>1, <2>2, NoCallTyped DEF Stays, Apart
<1>11. ASSUME NEW t \in Threads, RecordConfigured(t) \/ ForgetClosed(t), NEW u \in Threads
      PROVE  Stays(u) \/ Apart(u)
  BY <1>00, <1>11, EndTyped, EndApart DEF RecordConfigured, ForgetClosed
<1>12. ASSUME NEW workers, RunBatch(workers), NEW u \in Threads
      PROVE  Stays(u)
  <2>1. /\ call'[u].kind = call[u].kind /\ call'[u].handle = call[u].handle
        /\ call'[u].used = call[u].used /\ call'[u].batch = call[u].batch
        /\ call'[u].result = call[u].result
    BY <1>12 DEF RunBatch, Call
  <2>2. pc'[u] \in {"worker", pc[u]}
    BY <1>12 DEF RunBatch
  <2> QED BY <2>1, <2>2 DEF Stays
<1>13. CASE CancelAll \/ UNCHANGED vars
  BY <1>00, <1>13 DEF CancelAll, vars
<1> QED BY ONLY [Next]_vars, <1>1, <1>2, <1>3, <1>4, <1>5, <1>6, <1>7, <1>8, <1>9, <1>10, <1>11,
                <1>12, <1>13, \A workers \in SUBSET Threads : ~StartBatch(workers),
                \A t \in Threads : ~FinishBatch(call[t].batch)
         DEF Next, Lock, Run

LEMMA UsedStep == ProverInv /\ [Next]_vars => UsedRight'
<1> SUFFICES ASSUME ProverInv, [Next]_vars PROVE UsedRight'
  OBVIOUS
<1>0. /\ TypeOK /\ UsedRight /\ SlotRight /\ ProvesWithItsRegistry
      /\ pc \in [Threads -> PCs] /\ call \in [Threads -> Call]
  BY DEF ProverInv, TypeOK
<1>1. CASE \A u \in Threads : Stays(u) \/ Apart(u) \/ Takes(u)
  <2>1. ASSUME NEW u \in Threads, pc'[u] = "proving" \/ (Proves(u)' /\ call'[u].result = "ok")
        PROVE  call'[u].used = call'[u].handle
    <3>1. CASE Stays(u)
      BY <1>0, <2>1, <3>1 DEF Stays, UsedRight, Proves
    <3>2. CASE Apart(u)
      BY <2>1, <3>2 DEF Apart
    <3>3. CASE Takes(u)
      BY <1>0, <3>3 DEF Takes, SlotRight
    <3> QED BY <1>1, <3>1, <3>2, <3>3
  <2> QED BY <2>1 DEF UsedRight
<1>2. ASSUME NEW workers \in SUBSET Threads, StartBatch(workers) PROVE UsedRight'
  <2>1. \A t \in workers : pc'[t] = "batch" /\ call'[t].result = "none"
    <3>1. [NoCall EXCEPT !.kind = "worker", !.handle = bridge, !.batch = workers].result = "none"
      BY DEF NoCall
    <3> QED BY <1>2, <3>1 DEF StartBatch
  <2>2. \A t \in Threads \ workers : call'[t] = call[t] /\ pc'[t] = pc[t]
    BY <1>2 DEF StartBatch
  <2> QED BY <1>0, <2>1, <2>2 DEF UsedRight, Proves
<1>3. ASSUME NEW workers, FinishBatch(workers) PROVE UsedRight'
  BY <1>0, <1>3, NoCallTyped DEF FinishBatch, UsedRight, Proves, Provers
<1> QED BY <1>1, <1>2, <1>3, CallEffects

LEMMA BatchesStep == ProverInv /\ [Next]_vars => BatchesRight'
<1> SUFFICES ASSUME ProverInv, [Next]_vars PROVE BatchesRight'
  OBVIOUS
<1>0. /\ TypeOK /\ BatchesRight
      /\ pc \in [Threads -> PCs] /\ call \in [Threads -> Call]
  BY DEF ProverInv, TypeOK
<1>1. CASE \A u \in Threads : Stays(u) \/ Apart(u) \/ Takes(u)
  <2>1. \A u \in Threads :
          /\ call'[u].kind = "worker" => call[u].kind = "worker"
          /\ call[u].kind = "worker" =>
               /\ call'[u].kind = "worker" /\ call'[u].handle = call[u].handle
               /\ call'[u].batch = call[u].batch /\ (pc[u] # "idle" => pc'[u] # "idle")
    BY <1>1 DEF Stays, Apart, Takes
  <2> QED BY <1>0, <2>1 DEF BatchesRight
<1>2. ASSUME NEW workers \in SUBSET Threads, StartBatch(workers) PROVE BatchesRight'
  <2>1. \A t \in workers : /\ pc'[t] = "batch" /\ call'[t].kind = "worker"
                           /\ call'[t].batch = workers /\ call'[t].handle = bridge
    <3>1. LET c == [NoCall EXCEPT !.kind = "worker", !.handle = bridge, !.batch = workers]
          IN  c.kind = "worker" /\ c.batch = workers /\ c.handle = bridge
      BY DEF NoCall
    <3> QED BY <1>2, <3>1 DEF StartBatch
  <2>2. \A t \in Threads \ workers : call'[t] = call[t] /\ pc'[t] = pc[t]
    BY <1>2 DEF StartBatch
  <2>3. \A t \in workers : pc[t] = "idle"
    BY <1>2 DEF StartBatch
  <2> QED BY <1>0, <2>1, <2>2, <2>3 DEF BatchesRight
<1>3. ASSUME NEW w \in Threads, FinishBatch(call[w].batch) PROVE BatchesRight'
  <2> DEFINE workers == call[w].batch
  <2>1. \A t \in workers \cap Threads : call'[t].kind # "worker" /\ call[t].batch = workers
    BY <1>3, NoCallTyped DEF FinishBatch
  <2>2. \A t \in Threads \ workers : call'[t] = call[t] /\ pc'[t] = pc[t]
    BY <1>3 DEF FinishBatch
  <2>3. ASSUME NEW t \in Threads \ workers, call[t].kind = "worker", NEW u \in call[t].batch
        PROVE  u \in Threads \ workers
    BY <1>0, <2>1, <2>3 DEF BatchesRight
  <2> HIDE DEF workers
  <2> QED BY <1>0, <2>1, <2>2, <2>3 DEF BatchesRight
<1> QED BY <1>1, <1>2, <1>3, CallEffects

\* the registry of a running proof stays: whoever changes it owns the gate
LEMMA RegistryStep == ProverInv /\ [Next]_vars => ProvesWithItsRegistry'
<1> SUFFICES ASSUME ProverInv, [Next]_vars PROVE ProvesWithItsRegistry'
  OBVIOUS
<1>0. /\ TypeOK /\ ProvesWithItsRegistry /\ CallsRight /\ Exclusion
      /\ pc \in [Threads -> PCs] /\ call \in [Threads -> Call]
  BY DEF ProverInv, TypeOK, GateSafe
<1>1. ASSUME NEW t \in Threads, pc[t] = "admitted", SetsUp(t), Configure(t) \/ CloseRegistry(t)
      PROVE  ProvesWithItsRegistry'
  <2>1. Sharing = {}
    BY <1>0, <1>1 DEF Exclusion, Owning, Holding
  <2>2. \A u \in Threads : pc[u] # "proving"
    BY <1>0, <2>1 DEF CallsRight, Sharing, Holding
  <2>3. \A u \in Threads : pc'[u] # "proving"
    BY <1>0, <1>1, <2>2 DEF Configure, CloseRegistry, Goto
  <2> QED BY <2>3 DEF ProvesWithItsRegistry
<1>2. CASE UNCHANGED slot /\ \A u \in Threads : Stays(u) \/ Apart(u) \/ Takes(u)
  <2>1. registry' = registry /\ generation' = generation
    BY <1>2 DEF slot
  <2>2. ASSUME NEW u \in Threads, pc'[u] = "proving"
        PROVE  call'[u].used = registry /\ registry # NoRegistry /\ call'[u].handle = generation
    BY <1>0, <1>2, <2>2 DEF Stays, Apart, Takes, ProvesWithItsRegistry
  <2> QED BY <2>1, <2>2 DEF ProvesWithItsRegistry
<1>3. ASSUME NEW workers, StartBatch(workers) \/ FinishBatch(workers)
      PROVE  ProvesWithItsRegistry'
  <2>1. \A u \in Threads : pc'[u] = "proving" => pc[u] = "proving" /\ call'[u] = call[u]
    BY <1>3, <1>0 DEF StartBatch, FinishBatch
  <2>2. registry' = registry /\ generation' = generation
    BY <1>3 DEF StartBatch, FinishBatch, slot
  <2> QED BY <1>0, <2>1, <2>2 DEF ProvesWithItsRegistry
<1> QED BY <1>1, <1>2, <1>3, CallEffects, SlotStep

-----------------------------------------------------------------------------
(* The results                                                             *)

LEMMA InitProverInv == Init => ProverInv
<1> SUFFICES ASSUME Init PROVE ProverInv
  OBVIOUS
<1>1. TypeOK
  BY NoCallTyped, ConstantsTyped DEF Init, TypeOK, PCs, NoRegistry
<1>2. Sharing = {} /\ Owning = {} /\ Queued = {}
  BY DEF Init, Sharing, Owning, Queued, Holding, Waiting
<1>3. GateSafe
  BY <1>2, FS_EmptySet, ConstantsTyped
     DEF Init, GateSafe, CountsRight, Exclusion, AtMostCeiling
<1>4. ProvesWithItsRegistry /\ CallsRight /\ SlotRight /\ UsedRight /\ BatchesRight
  BY NoCallTyped DEF Init, ProvesWithItsRegistry, CallsRight, SlotRight, UsedRight,
     BatchesRight, Proves, Provers
<1> QED BY <1>1, <1>3, <1>4 DEF ProverInv

LEMMA ProverInvStep == ProverInv /\ [Next]_vars => ProverInv'
<1> SUFFICES ASSUME ProverInv, [Next]_vars PROVE ProverInv'
  OBVIOUS
<1>1. TypeOK'
  BY StepTyped, GateStep DEF ProverInv, TypeOK, Typed
<1> QED BY <1>1, GateStep, RegistryStep, CallsStep, SlotStep, UsedStep, BatchesStep DEF ProverInv

THEOREM ProverInvariant == Spec => []ProverInv
BY InitProverInv, ProverInvStep, PTL DEF Spec

\* Every variable has its type in every reachable state; the registry's generation
\* never leaves a u64.
THEOREM TypeCorrect == Spec => []TypeOK
<1>1. ProverInv => TypeOK
  BY DEF ProverInv
<1> QED BY <1>1, ProverInvariant, PTL

\* The counters of the gate are right, configure and close run alone, and at most
\* Ceiling proofs run at once, whatever times out, is cancelled or panics.
THEOREM GateIsSafe == Spec => []GateSafe
<1>1. ProverInv => GateSafe
  BY DEF ProverInv
<1> QED BY <1>1, ProverInvariant, PTL

\* No proof has its registry replaced or closed under it, and none uses a registry its
\* caller did not name.
THEOREM ProofsKeepTheirRegistry == Spec => []ProvesWithItsRegistry
<1>1. ProverInv => ProvesWithItsRegistry
  BY DEF ProverInv
<1> QED BY <1>1, ProverInvariant, PTL

\* The proofs of a batch that succeed were made with one registry, although each worker
\* takes its own permit.
THEOREM BatchesUseOneRegistry == Spec => []BatchOneRegistry
<1>1. ProverInv => BatchOneRegistry
  <2> SUFFICES ASSUME ProverInv, NEW t \in Threads, NEW u \in Threads,
                      pc[t] = "joined", pc[u] = "joined", call[t].batch = call[u].batch,
                      call[t].result = "ok", call[u].result = "ok"
               PROVE  call[t].used = call[u].used
    BY DEF BatchOneRegistry
  <2>1. call[t].kind = "worker" /\ call[u].kind = "worker"
    BY DEF ProverInv, CallsRight
  <2>2. call[t].used = call[t].handle /\ call[u].used = call[u].handle
    BY <2>1 DEF ProverInv, UsedRight, Proves, Provers
  <2>3. u \in call[t].batch
    BY <2>1 DEF ProverInv, BatchesRight
  <2>4. call[u].handle = call[t].handle
    BY <2>1, <2>3 DEF ProverInv, BatchesRight
  <2> QED BY <2>2, <2>4
<1> QED BY <1>1, ProverInvariant, PTL

\* No proof is admitted while a configure or close waits, in any step.
THEOREM WritersAreNotOvertaken == Spec => NoOvertaking
<1>1. ProverInv /\ [Next]_vars =>
        [\A t, u \in Threads :
           (SetsUp(u) /\ Waiting(u) /\ Proves(t) /\ pc[t] # "admitted")
             => pc'[t] # "admitted"]_vars
  <2> SUFFICES ASSUME ProverInv, [Next]_vars, NEW t \in Threads, NEW u \in Threads,
                      SetsUp(u), Waiting(u), Proves(t), pc[t] # "admitted"
               PROVE  pc'[t] # "admitted"
    OBVIOUS
  <2>0. pc \in [Threads -> PCs] /\ call \in [Threads -> Call] /\ TypeOK
    BY DEF ProverInv, TypeOK
  <2>1. writersWaiting # 0
    BY FreeGate DEF Queued
  <2>2. \A v \in Threads : ~AdmitShared(v)
    BY <2>1 DEF AdmitShared, CanShare
  <2>3. ~SetsUp(t)
    BY DEF Proves, SetsUp, Provers, Setups
  <2> USE <2>0
  <2>4. ASSUME NEW v \in Threads, EnterExclusive(v) \/ RetryExclusive(v)
        PROVE  pc'[t] # "admitted"
    BY <2>3, <2>4 DEF EnterExclusive, RetryExclusive, Goto
  <2>5. ASSUME NEW v \in Threads, \/ LoadLimit(v) \/ Release(v) \/ WaitShared(v)
                                   \/ TakeRegistry(v) \/ Prove(v) \/ Configure(v)
                                   \/ CloseRegistry(v) \/ WakeUp(v) \/ TimeOut(v)
                                   \/ WorkerChecks(v)
        PROVE  pc'[t] # "admitted"
    BY <2>5 DEF LoadLimit, Release, WaitShared, TakeRegistry, Prove, Configure, CloseRegistry,
                WakeUp, TimeOut, WorkerChecks, Goto
  <2>6. ASSUME NEW v \in Threads, GiveUp(v) \/ RecordConfigured(v) \/ ForgetClosed(v)
        PROVE  pc'[t] # "admitted"
    BY <2>6, EndTyped DEF GiveUp, RecordConfigured, ForgetClosed, Goto
  <2>7. ASSUME NEW v \in Threads, NotifyAll(v) PROVE pc'[t] # "admitted"
    BY <2>7 DEF NotifyAll
  <2>8. ASSUME NEW v \in Threads, \/ \E kind \in {"prove"} \cup Setups : StartCall(v, kind)
                                   \/ \E limit \in Limits : StoreLimit(v, limit)
        PROVE  pc'[t] # "admitted"
    BY <2>8 DEF StartCall, StoreLimit, Goto
  <2>9. ASSUME NEW workers, StartBatch(workers) \/ RunBatch(workers) \/ FinishBatch(workers)
        PROVE  pc'[t] # "admitted"
    BY <2>9 DEF StartBatch, RunBatch, FinishBatch
  <2>10. CASE CancelAll \/ UNCHANGED vars
    BY <2>10 DEF CancelAll, vars
  <2> QED BY ONLY [Next]_vars, <2>2, <2>4, <2>5, <2>6, <2>7, <2>8, <2>9, <2>10 DEF Next, Lock, Run
<1> QED BY <1>1, ProverInvariant, PTL DEF Spec, NoOvertaking
-----------------------------------------------------------------------------
(* Sleepers are woken                                                      *)

\* a sleeper that could go on
Awaited(t) ==
  \/ Proves(t) /\ ~writerActive /\ writersWaiting = 0 /\ readers < maxConcurrent
  \/ SetsUp(t) /\ CanOwn

\* a limit that was read and is not yet acted on is no lower than the limit now
LoadedRight == \A t \in Threads : pc[t] = "loaded" => call[t].limit >= maxConcurrent

LimitNeverRises == maxConcurrent' <= maxConcurrent

WakeInv == LoadedRight /\ NoLostWakeup

LEMMA LoadedStep ==
  ASSUME ProverInv, LoadedRight, [Next]_vars, LimitNeverRises
  PROVE  LoadedRight'
<1>0. /\ pc \in [Threads -> PCs] /\ call \in [Threads -> Call] /\ maxConcurrent \in Nat
      /\ maxConcurrent' \in Nat
  BY StepTyped, ConstantsTyped DEF ProverInv, TypeOK, Typed
<1>1. SUFFICES ASSUME NEW u \in Threads, pc'[u] = "loaded" PROVE call'[u].limit >= maxConcurrent'
  BY DEF LoadedRight
<1>2. call[u].limit \in Nat
  BY <1>0, CallTyped, ConstantsTyped
<1>3. CASE \E t \in Threads : LoadLimit(t)
  <2>1. PICK t \in Threads : LoadLimit(t)
    BY <1>3
  <2>2. maxConcurrent' = maxConcurrent /\ pc' = [pc EXCEPT ![t] = "loaded"]
        /\ call' = [call EXCEPT ![t].limit = maxConcurrent]
    BY <2>1 DEF LoadLimit, Goto, settings
  <2>3. CASE u = t
    <3>1. call'[u].limit = maxConcurrent
      BY <1>0, <2>2, <2>3 DEF Call
    <3> QED BY <1>0, <2>2, <3>1
  <2>4. CASE u # t
    BY <1>0, <1>1, <1>2, <2>2, <2>4 DEF LoadedRight
  <2> QED BY <2>3, <2>4
<1>4. CASE pc[u] = "loaded" /\ call'[u].limit = call[u].limit
  BY <1>0, <1>2, <1>4 DEF LoadedRight, LimitNeverRises
<1> USE <1>0, <1>1
<1>5. ASSUME NEW t \in Threads, \/ \E kind \in {"prove"} \cup Setups : StartCall(t, kind)
                                 \/ \E limit \in Limits : StoreLimit(t, limit)
      PROVE  pc[u] = "loaded" /\ call'[u].limit = call[u].limit
  <2>1. u # t
    BY <1>5 DEF StartCall, StoreLimit, Goto
  <2> QED BY <1>5, <2>1 DEF StartCall, StoreLimit, Goto
<1>6. ASSUME NEW t \in Threads, \/ EnterExclusive(t) \/ RetryExclusive(t) \/ Release(t)
                                 \/ AdmitShared(t) \/ WaitShared(t) \/ WakeUp(t) \/ TimeOut(t)
      PROVE  pc[u] = "loaded" /\ call'[u].limit = call[u].limit
  BY <1>6 DEF EnterExclusive, RetryExclusive, Release, AdmitShared, WaitShared, WakeUp, TimeOut, Goto
<1>7. ASSUME NEW t \in Threads, \/ WorkerChecks(t) \/ TakeRegistry(t) \/ Prove(t) \/ Configure(t)
                                 \/ CloseRegistry(t)
      PROVE  pc[u] = "loaded" /\ call'[u].limit = call[u].limit
  <2>1. u # t
    BY <1>7 DEF WorkerChecks, TakeRegistry, Prove, Configure, CloseRegistry, Goto
  <2> QED BY <1>7, <2>1 DEF WorkerChecks, TakeRegistry, Prove, Configure, CloseRegistry, Goto, Result
<1>8. ASSUME NEW t \in Threads, GiveUp(t) \/ RecordConfigured(t) \/ ForgetClosed(t)
      PROVE  pc[u] = "loaded" /\ call'[u].limit = call[u].limit
  <2>1. TypeOK
    BY DEF ProverInv
  <2>2. u # t
    BY <1>8, <2>1, EndTyped DEF GiveUp, RecordConfigured, ForgetClosed, Goto
  <2> QED BY <1>8, <2>1, <2>2, EndTyped DEF GiveUp, RecordConfigured, ForgetClosed, Goto, Result
<1>9. ASSUME NEW t \in Threads, NotifyAll(t)
      PROVE  pc[u] = "loaded" /\ call'[u].limit = call[u].limit
  <2>1. u # t
    BY <1>9 DEF NotifyAll
  <2> QED BY <1>9, <2>1 DEF NotifyAll
<1>10. ASSUME NEW workers, StartBatch(workers) \/ RunBatch(workers) \/ FinishBatch(workers)
      PROVE  pc[u] = "loaded" /\ call'[u].limit = call[u].limit
  BY <1>10 DEF StartBatch, RunBatch, FinishBatch
<1>11. CASE CancelAll \/ UNCHANGED vars
  BY <1>4, <1>11 DEF CancelAll, vars
<1> QED BY ONLY [Next]_vars, <1>3, <1>4, <1>5, <1>6, <1>7, <1>8, <1>9, <1>10, <1>11 DEF Next, Lock, Run

\* somebody is about to notify, or who sleeps slept before, and what it waits for is as it was
Stirs == \E u \in Threads : pc'[u] = "notify"
SleepsOn(u) == pc'[u] = "asleep" => pc[u] = "asleep" /\ (Awaited(u)' => Awaited(u))

\* who is to notify stays so until it has
NotifiersKept == \A u \in Threads : pc[u] = "notify" => pc'[u] = "notify"

LEMMA WakeSteps ==
  ASSUME ProverInv, LoadedRight, LimitNeverRises, NoLostWakeup, NotifiersKept,
         \A u \in Threads : pc'[u] = "asleep" => SleepsOn(u) \/ ~Awaited(u)'
  PROVE  NoLostWakeup'
BY DEF NotifiersKept, SleepsOn, NoLostWakeup, Awaited

LEMMA NotifyWakes ==
  ASSUME \/ Stirs
         \/ \A u \in Threads : pc'[u] # "asleep"
  PROVE  NoLostWakeup'
BY DEF Stirs, NoLostWakeup

\* nothing changes for those who sleep
LEMMA SleepKept ==
  ASSUME UNCHANGED <<gate, maxConcurrent>>, NEW u \in Threads, pc'[u] = pc[u],
         call'[u].kind = call[u].kind
  PROVE  SleepsOn(u)
BY DEF SleepsOn, Awaited, Proves, SetsUp, CanOwn, gate

LEMMA WakeStep ==
  ASSUME ProverInv, WakeInv, [Next]_vars, LimitNeverRises
  PROVE  NoLostWakeup'
<1>0. /\ pc \in [Threads -> PCs] /\ call \in [Threads -> Call] /\ maxConcurrent \in Nat
      /\ maxConcurrent' \in Nat /\ readers \in Nat /\ writersWaiting \in Nat
      /\ TypeOK /\ LoadedRight /\ NoLostWakeup /\ CallsRight
  BY StepTyped, ConstantsTyped DEF ProverInv, TypeOK, Typed, WakeInv
<1> USE <1>0
<1>1. ASSUME NEW t \in Threads, NEW limit \in Limits, StoreLimit(t, limit) PROVE Stirs
  BY <1>1 DEF StoreLimit, Goto, Stirs
<1>01. ASSUME NEW t \in Threads, Release(t) PROVE Stirs
  BY <1>01 DEF Release, Goto, Stirs
<1>02. ASSUME NEW t \in Threads, GiveUp(t), SetsUp(t) PROVE Stirs
  BY <1>02 DEF GiveUp, Goto, Stirs
<1>2. ASSUME NEW t \in Threads, NotifyAll(t) PROVE \A u \in Threads : pc'[u] # "asleep"
  BY <1>2 DEF NotifyAll
<1>3. ASSUME NEW t \in Threads, \E kind \in {"prove"} \cup Setups : StartCall(t, kind),
             NEW u \in Threads
      PROVE  SleepsOn(u) /\ (pc[u] = "notify" => pc'[u] = "notify")
  <2>1. CASE u = t
    BY <1>3, <2>1 DEF StartCall, Goto, SleepsOn
  <2>2. CASE u # t
    BY <1>3, <2>2, SleepKept DEF StartCall, Goto, settings
  <2> QED BY <2>1, <2>2
<1>4. ASSUME NEW t \in Threads, LoadLimit(t), NEW u \in Threads
      PROVE  SleepsOn(u) /\ (pc[u] = "notify" => pc'[u] = "notify")
  <2>1. CASE u = t
    BY <1>4, <2>1 DEF LoadLimit, Goto, SleepsOn
  <2>2. CASE u # t
    BY <1>4, <2>2, SleepKept DEF LoadLimit, Goto, settings
  <2> QED BY <2>1, <2>2
<1>5. ASSUME NEW t \in Threads, AdmitShared(t), NEW u \in Threads
      PROVE  SleepsOn(u) /\ (pc[u] = "notify" => pc'[u] = "notify")
  BY <1>5 DEF AdmitShared, Goto, SleepsOn, Awaited, Proves, SetsUp, CanOwn, settings
<1>6. ASSUME NEW t \in Threads, WaitShared(t), NEW u \in Threads
      PROVE  /\ pc'[u] = "asleep" => SleepsOn(u) \/ ~Awaited(u)'
             /\ pc[u] = "notify" => pc'[u] = "notify"
  <2>1. CASE u = t
    <3>1. pc[t] = "loaded" /\ ~CanShare(t) /\ UNCHANGED <<gate, maxConcurrent, call>>
      BY <1>6 DEF WaitShared, settings
    <3>2. Proves(t) /\ ~SetsUp(t)
      BY <3>1 DEF CallsRight, Proves, SetsUp, Provers, Setups
    <3>3. call[t].limit >= maxConcurrent /\ call[t].limit \in Nat
      BY <3>1, CallTyped, ConstantsTyped DEF LoadedRight
    <3>4. ~Awaited(t)'
      BY <3>1, <3>2, <3>3 DEF Awaited, CanShare, Proves, SetsUp, gate
    <3> QED BY <2>1, <3>1, <3>4
  <2>2. CASE u # t
    BY <1>6, <2>2, SleepKept DEF WaitShared, Goto, settings
  <2> QED BY <2>1, <2>2
<1>7. ASSUME NEW t \in Threads, EnterExclusive(t) \/ RetryExclusive(t), NEW u \in Threads
      PROVE  /\ pc'[u] = "asleep" => SleepsOn(u) \/ ~Awaited(u)'
             /\ pc[u] = "notify" => pc'[u] = "notify"
  <2>1. /\ SetsUp(t) /\ ~Proves(t) /\ readers' = readers /\ maxConcurrent' = maxConcurrent
        /\ call' = call /\ pc[t] \in {"lock", "woken"}
    BY <1>7 DEF EnterExclusive, RetryExclusive, SetsUp, Proves, Setups, Provers, settings
  <2>2. CASE CanOwn
    <3>1. writerActive' /\ pc' = [pc EXCEPT ![t] = "admitted"]
      BY <1>7, <2>2 DEF EnterExclusive, RetryExclusive, Goto
    <3>2. ~Awaited(u)'
      BY <3>1 DEF Awaited, CanOwn
    <3> QED BY <2>1, <3>1, <3>2
  <2>3. CASE ~CanOwn
    <3>1. /\ writerActive' = writerActive /\ pc' = [pc EXCEPT ![t] = "asleep"]
          /\ writersWaiting' \in {writersWaiting, writersWaiting + 1}
      BY <1>7, <2>3 DEF EnterExclusive, RetryExclusive, Goto
    <3>2. CASE u = t
      BY <2>1, <2>3, <3>1, <3>2 DEF Awaited, CanOwn, SetsUp, Proves
    <3>3. CASE u # t
      <4>1. writersWaiting' = 0 => writersWaiting = 0
        BY <3>1
      <4> QED BY <2>1, <3>1, <3>3, <4>1 DEF SleepsOn, Awaited, CanOwn, SetsUp, Proves
    <3> QED BY <3>2, <3>3
  <2> QED BY <2>2, <2>3
<1>8. ASSUME NEW t \in Threads, GiveUp(t), ~SetsUp(t), NEW u \in Threads
      PROVE  SleepsOn(u) /\ (pc[u] = "notify" => pc'[u] = "notify")
  <2>1. /\ UNCHANGED <<gate, maxConcurrent>> /\ pc'[t] # "asleep" /\ pc[t] = "timedOut"
        /\ \A v \in Threads \ {t} : pc'[v] = pc[v] /\ call'[v] = call[v]
    BY <1>8, EndTyped DEF GiveUp, Goto, Result, gate, settings
  <2> QED BY <2>1, SleepKept DEF SleepsOn
<1>9. ASSUME NEW t \in Threads, \/ TakeRegistry(t) \/ Prove(t) \/ Configure(t) \/ CloseRegistry(t)
                                 \/ WorkerChecks(t),
             NEW u \in Threads
      PROVE  SleepsOn(u) /\ (pc[u] = "notify" => pc'[u] = "notify")
  <2>1. /\ UNCHANGED <<gate, maxConcurrent>> /\ pc'[t] # "asleep" /\ pc[t] # "notify"
        /\ \A v \in Threads \ {t} : pc'[v] = pc[v] /\ call'[v] = call[v]
    BY <1>9 DEF TakeRegistry, Prove, Configure, CloseRegistry, WorkerChecks, Goto, Result, settings
  <2> QED BY <2>1, SleepKept DEF SleepsOn
<1>10. ASSUME NEW t \in Threads, RecordConfigured(t) \/ ForgetClosed(t), NEW u \in Threads
      PROVE  SleepsOn(u) /\ (pc[u] = "notify" => pc'[u] = "notify")
  <2>1. /\ UNCHANGED <<gate, maxConcurrent>> /\ pc'[t] # "asleep" /\ pc[t] = "record"
        /\ \A v \in Threads \ {t} : pc'[v] = pc[v] /\ call'[v] = call[v]
    BY <1>10, EndTyped DEF RecordConfigured, ForgetClosed, settings
  <2> QED BY <2>1, SleepKept DEF SleepsOn
<1>11. ASSUME NEW t \in Threads, WakeUp(t) \/ TimeOut(t), NEW u \in Threads
      PROVE  SleepsOn(u) /\ (pc[u] = "notify" => pc'[u] = "notify")
  BY <1>11, SleepKept DEF WakeUp, TimeOut, Goto, SleepsOn, settings
<1>12. ASSUME NEW workers, StartBatch(workers) \/ RunBatch(workers) \/ FinishBatch(workers),
              NEW u \in Threads
      PROVE  SleepsOn(u) /\ (pc[u] = "notify" => pc'[u] = "notify")
  <2>1. UNCHANGED <<gate, maxConcurrent>>
    BY <1>12 DEF StartBatch, RunBatch, FinishBatch, settings
  <2>2. CASE u \in workers
    BY <1>12, <2>2 DEF StartBatch, RunBatch, FinishBatch, SleepsOn
  <2>3. CASE u \notin workers
    BY <1>12, <2>1, <2>3, SleepKept DEF StartBatch, RunBatch, FinishBatch
  <2> QED BY <2>2, <2>3
<1>13. ASSUME gate' = gate, maxConcurrent' = maxConcurrent, pc' = pc, call' = call
       PROVE  \A u \in Threads : SleepsOn(u) /\ (pc[u] = "notify" => pc'[u] = "notify")
  BY <1>13, SleepKept
<1> DEFINE Calm ==
             \A u \in Threads : /\ pc'[u] = "asleep" => SleepsOn(u) \/ ~Awaited(u)'
                                /\ pc[u] = "notify" => pc'[u] = "notify"
           Woken == \/ Stirs \/ (\A u \in Threads : pc'[u] # "asleep")
                    \/ Calm
<1>14. ASSUME NEW t \in Threads, NEW kind \in {"prove"} \cup Setups, StartCall(t, kind) PROVE Woken
  BY <1>3, <1>14
<1>15. ASSUME NEW t \in Threads, NEW limit \in Limits, StoreLimit(t, limit) PROVE Woken
  BY <1>1, <1>15
<1>16. ASSUME NEW t \in Threads, Release(t) PROVE Woken
  BY <1>01, <1>16
<1>17. ASSUME NEW t \in Threads, GiveUp(t) PROVE Woken
  BY <1>02, <1>8, <1>17
<1>18. ASSUME NEW t \in Threads, LoadLimit(t) PROVE Woken
  BY <1>4, <1>18
<1>19. ASSUME NEW t \in Threads, EnterExclusive(t) \/ RetryExclusive(t) PROVE Woken
  BY <1>7, <1>19
<1>20. ASSUME NEW t \in Threads, AdmitShared(t) PROVE Woken
  BY <1>5, <1>20
<1>21. ASSUME NEW t \in Threads, WaitShared(t) PROVE Woken
  BY <1>6, <1>21
<1>22. ASSUME NEW t \in Threads, \/ TakeRegistry(t) \/ Prove(t) \/ Configure(t) \/ CloseRegistry(t)
                                  \/ WorkerChecks(t)
       PROVE  Woken
  BY <1>9, <1>22
<1>23. ASSUME NEW t \in Threads, RecordConfigured(t) \/ ForgetClosed(t) PROVE Woken
  BY <1>10, <1>23
<1>24. ASSUME NEW t \in Threads, NotifyAll(t) PROVE Woken
  BY <1>2, <1>24
<1>25. ASSUME NEW t \in Threads, WakeUp(t) \/ TimeOut(t) PROVE Woken
  BY <1>11, <1>25
<1>26. ASSUME NEW workers, StartBatch(workers) \/ RunBatch(workers) \/ FinishBatch(workers)
       PROVE  Woken
  BY <1>12, <1>26
<1>27. ASSUME CancelAll PROVE Woken
  <2>1. gate' = gate /\ maxConcurrent' = maxConcurrent /\ pc' = pc /\ call' = call
    BY <1>27 DEF CancelAll
  <2> QED BY <1>13, <2>1
<1>28. ASSUME vars' = vars PROVE Woken
  <2>1. gate' = gate /\ maxConcurrent' = maxConcurrent /\ pc' = pc /\ call' = call
    BY <1>28 DEF vars, settings
  <2> QED BY <1>13, <2>1
<1>29. Woken
  <2> HIDE DEF Woken
  <2>1. Next \/ vars' = vars
    OBVIOUS
  <2>2. ASSUME NEW t \in Threads, Lock(t) PROVE Woken
    BY ONLY <2>2, <1>16, <1>17, <1>18, <1>19 DEF Lock
  <2>3. ASSUME NEW t \in Threads, Run(t) PROVE Woken
    BY ONLY <2>3, <1>20, <1>21, <1>22, <1>23, <1>24 DEF Run
  <2>4. ASSUME NEW t \in Threads, NEW workers, RunBatch(workers) \/ FinishBatch(workers) PROVE Woken
    BY ONLY <2>4, <1>26
  <2>5. ASSUME NEW workers, StartBatch(workers) PROVE Woken
    BY ONLY <2>5, <1>26
  <2>6. ASSUME NEW t \in Threads, WakeUp(t) \/ TimeOut(t) PROVE Woken
    BY ONLY <2>6, <1>25
  <2>7. CASE Next
    <3>1. ASSUME NEW t \in Threads,
                 \/ \E kind \in {"prove"} \cup Setups : StartCall(t, kind)
                 \/ \E limit \in Limits : StoreLimit(t, limit)
                 \/ Lock(t) \/ Run(t) \/ WakeUp(t) \/ TimeOut(t)
                 \/ RunBatch(call[t].batch) \/ FinishBatch(call[t].batch)
          PROVE  Woken
      BY ONLY <3>1, <2>2, <2>3, <2>4, <2>6, <1>14, <1>15
    <3> QED BY ONLY <2>7, <3>1, <2>5, <1>27 DEF Next
  <2> QED BY ONLY <2>1, <2>7, <1>28
<1> QED BY <1>29, NotifyWakes, WakeSteps DEF NotifiersKept

\* As long as the limit is not raised, no thread sleeps at the gate while what it waits for
\* has come and nobody is about to notify (local_prover.rs:125-240): every step that opens
\* the gate is followed by a notify_all.
THEOREM SleepersAreWoken ==
  Spec /\ [][LimitNeverRises]_vars => []NoLostWakeup
<1>1. Init => WakeInv
  BY DEF Init, WakeInv, LoadedRight, NoLostWakeup
<1>2. ProverInv /\ WakeInv /\ [Next]_vars /\ [LimitNeverRises]_vars => WakeInv'
  <2> SUFFICES ASSUME ProverInv, WakeInv, [Next]_vars, [LimitNeverRises]_vars PROVE WakeInv'
    OBVIOUS
  <2>1. LimitNeverRises
    BY ConstantsTyped DEF LimitNeverRises, vars, settings, ProverInv, TypeOK
  <2> QED BY <2>1, LoadedStep, WakeStep DEF WakeInv
<1>3. WakeInv => NoLostWakeup
  BY DEF WakeInv
<1> QED BY <1>1, <1>2, <1>3, ProverInvariant, PTL DEF Spec

-----------------------------------------------------------------------------
(* The bridge's handle                                                     *)

Before == {"lock", "asleep", "woken", "timedOut", "admitted"}
After  == {"release", "notify", "record"}

Follows == IF registry = NoRegistry THEN bridge = 0 ELSE bridge = generation

\* what a configure or close stands at: nothing is done yet, or what it did is still to be
\* recorded, or there is nothing to record
SetupRight(t) ==
  /\ pc[t] \in Before \cup After
  /\ pc[t] \in Before => Follows /\ call[t].handle = bridge
  /\ pc[t] \in After =>
       /\ ~Records(t) => Follows
       /\ Records(t) /\ call[t].kind = "configure" => registry # NoRegistry /\ call[t].handle = generation
       /\ Records(t) /\ call[t].kind = "close" => registry = NoRegistry /\ call[t].handle = bridge
  /\ pc[t] = "record" => Records(t)

SetupInv ==
  /\ \A t, u \in Threads : SetsUp(t) /\ SetsUp(u) => t = u
  /\ \A t \in Threads : SetsUp(t) => SetupRight(t)
  /\ BridgeFollowsRegistry

\* a setup goes on, or waits, without having done or recorded anything
GoesOn(t) ==
  /\ call'[t] = call[t]
  /\ \/ pc'[t] = pc[t]
     \/ pc[t] \in Before /\ pc'[t] \in Before
     \/ pc[t] \in After /\ pc'[t] \in After /\ (pc'[t] = "record" => Records(t))

\* a step that leaves the bridge and the registry alone, and begins and ends no setup
Aside ==
  /\ bridge' = bridge /\ registry' = registry /\ generation' = generation
  /\ \A u \in Threads : (SetsUp(u)' <=> SetsUp(u)) /\ (SetsUp(u) => GoesOn(u))

LEMMA AsideKeeps ==
  ASSUME SetupInv, Aside PROVE SetupInv'
<1>1. ASSUME NEW t \in Threads, SetsUp(t), GoesOn(t) PROVE SetupRight(t)'
  <2>1. SetupRight(t) /\ (Records(t)' <=> Records(t)) /\ (Follows' <=> Follows)
        /\ call'[t] = call[t] /\ bridge' = bridge /\ registry' = registry /\ generation' = generation
    BY <1>1 DEF SetupInv, GoesOn, Records, Follows, Aside
  <2>2. CASE pc'[t] = pc[t]
    BY <2>1, <2>2 DEF SetupRight
  <2>3. CASE pc[t] \in Before /\ pc'[t] \in Before
    BY <2>1, <2>3 DEF SetupRight, Before, After
  <2>4. CASE pc[t] \in After /\ pc'[t] \in After /\ (pc'[t] = "record" => Records(t))
    BY <2>1, <2>4 DEF SetupRight, Before, After
  <2> QED BY <1>1, <2>2, <2>3, <2>4 DEF GoesOn
<1> QED BY <1>1 DEF SetupInv, Aside, BridgeFollowsRegistry

\* the one setup there is ends, or has its way
LEMMA AloneSet ==
  ASSUME SetupInv, NEW t \in Threads, SetsUp(t),
         \A u \in Threads \ {t} : call'[u] = call[u],
         SetsUp(t)' => SetupRight(t)',
         ~SetsUp(t)' => Follows'
  PROVE  SetupInv'
<1>1. \A u \in Threads \ {t} : ~SetsUp(u)'
  BY DEF SetupInv, SetsUp
<1> QED BY <1>1 DEF SetupInv, BridgeFollowsRegistry, Follows

LEMMA SetupSteps ==
  ASSUME ProverInv, SetupInv, [Next]_vars
  PROVE  \/ Aside
         \/ \E t \in Threads, kind \in Setups : StartCall(t, kind)
         \/ \E t \in Threads : /\ SetsUp(t)
                               /\ \/ GiveUp(t) \/ Configure(t) \/ CloseRegistry(t)
                                  \/ NotifyAll(t) /\ ~Records(t)
                                  \/ RecordConfigured(t) \/ ForgetClosed(t)
<1>0. /\ pc \in [Threads -> PCs] /\ call \in [Threads -> Call] /\ TypeOK /\ CallsRight
      /\ \A u \in Threads : SetsUp(u) => ~Proves(u) /\ pc[u] \in Before \cup After
  BY DEF ProverInv, TypeOK, SetupInv, SetupRight, Proves, SetsUp, Provers, Setups
<1> USE <1>0
<1>01. \A u \in Threads : pc'[u] = pc[u] /\ call'[u] = call[u]
                            => (SetsUp(u)' <=> SetsUp(u)) /\ (SetsUp(u) => GoesOn(u))
  BY DEF SetsUp, GoesOn
\* a thread that does not set up
<1>02. ASSUME NEW t \in Threads, ~SetsUp(t), ~SetsUp(t)', UNCHANGED <<bridge, registry, generation>>,
              \A u \in Threads \ {t} : pc'[u] = pc[u] /\ call'[u] = call[u]
       PROVE  Aside
  BY <1>01, <1>02 DEF Aside
<1>1. ASSUME NEW t \in Threads, StartCall(t, "prove") PROVE Aside
  <2>1. ~SetsUp(t)
    BY <1>1 DEF StartCall, Before, After
  <2>2. [NoCall EXCEPT !.kind = "prove", !.handle = bridge].kind = "prove"
    BY StartedTyped DEF Provers, TypeOK
  <2>3. ~SetsUp(t)'
    BY <1>1, <2>2 DEF StartCall, SetsUp, Setups
  <2> QED BY <1>02, <1>1, <2>1, <2>3 DEF StartCall, Goto, slot
<1>2. ASSUME NEW t \in Threads, NEW limit \in Limits, StoreLimit(t, limit) PROVE Aside
  <2>1. ~SetsUp(t) /\ ~SetsUp(t)'
    BY <1>2 DEF StoreLimit, Before, After, SetsUp, Setups, Call
  <2> QED BY <1>02, <1>2, <2>1 DEF StoreLimit, Goto, slot
<1>3. ASSUME NEW t \in Threads, LoadLimit(t) PROVE Aside
  <2>1. ~SetsUp(t) /\ ~SetsUp(t)'
    BY <1>3 DEF LoadLimit, SetsUp, Proves, Setups, Provers, Call
  <2> QED BY <1>02, <1>3, <2>1 DEF LoadLimit, Goto, slot
<1>4. ASSUME NEW t \in Threads, \/ AdmitShared(t) \/ WaitShared(t) \/ EnterExclusive(t)
                                 \/ RetryExclusive(t) \/ Release(t) \/ WakeUp(t) \/ TimeOut(t)
      PROVE  Aside
  <2>1. UNCHANGED <<bridge, registry, generation, call>>
    BY <1>4 DEF AdmitShared, WaitShared, EnterExclusive, RetryExclusive, Release, WakeUp, TimeOut, slot
  <2>2. \A u \in Threads \ {t} : pc'[u] = pc[u]
    BY <1>4 DEF AdmitShared, WaitShared, EnterExclusive, RetryExclusive, Release, WakeUp, TimeOut, Goto
  <2>3. pc[t] # "loaded" =>
          \/ pc[t] \in Before /\ pc'[t] \in Before
          \/ pc[t] \in After /\ pc'[t] \in After /\ pc'[t] # "record"
    BY <1>4 DEF AdmitShared, WaitShared, EnterExclusive, RetryExclusive, Release, WakeUp, TimeOut, Goto,
         Before, After
  <2>4. SetsUp(t) => pc[t] # "loaded"
    BY DEF Before, After
  <2> QED BY <2>1, <2>2, <2>3, <2>4 DEF Aside, SetsUp, GoesOn
<1>5. ASSUME NEW t \in Threads, GiveUp(t), ~SetsUp(t) PROVE Aside
  <2>1. ~SetsUp(t)'
    BY <1>5, NoCallTyped, ResultKept DEF GiveUp, SetsUp, End, Setups
  <2>2. \A u \in Threads \ {t} : pc'[u] = pc[u] /\ call'[u] = call[u]
    BY <1>5, EndTyped DEF GiveUp, Goto, Result
  <2> QED BY <1>02, <1>5, <2>1, <2>2 DEF GiveUp, slot
<1>6. ASSUME NEW t \in Threads, WorkerChecks(t) \/ TakeRegistry(t) \/ Prove(t) PROVE Aside
  <2>1. ~SetsUp(t)
    BY <1>6 DEF WorkerChecks, TakeRegistry, Prove, Before, After
  <2>2. ~SetsUp(t)'
    BY <1>6, <2>1, ResultKept, UsedKept DEF WorkerChecks, TakeRegistry, Prove, SetsUp
  <2>3. \A u \in Threads \ {t} : pc'[u] = pc[u] /\ call'[u] = call[u]
    BY <1>6 DEF WorkerChecks, TakeRegistry, Prove, Goto, Result
  <2> QED BY <1>02, <1>6, <2>1, <2>2, <2>3 DEF WorkerChecks, TakeRegistry, Prove, slot
<1>7. ASSUME NEW t \in Threads, NotifyAll(t), ~SetsUp(t) \/ Records(t) PROVE Aside
  <2>1. /\ UNCHANGED <<bridge, registry, generation>> /\ pc[t] = "notify"
        /\ \A u \in Threads \ {t} : /\ call'[u] = call[u]
                                    /\ pc'[u] = IF pc[u] = "asleep" THEN "woken" ELSE pc[u]
    BY <1>7 DEF NotifyAll, slot
  <2>2. \A u \in Threads \ {t} : (SetsUp(u)' <=> SetsUp(u)) /\ (SetsUp(u) => GoesOn(u))
    BY <2>1 DEF SetsUp, GoesOn, Before
  <2>3. CASE Records(t)
    <3>1. call' = call /\ pc'[t] = "record"
      BY <1>7, <2>3 DEF NotifyAll
    <3> QED BY <2>1, <2>2, <2>3, <3>1 DEF Aside, SetsUp, GoesOn, After
  <2>4. CASE ~SetsUp(t)
    <3>1. ~SetsUp(t)'
      BY <1>7, <2>4, NoCallTyped DEF NotifyAll, SetsUp, Setups
    <3> QED BY <2>1, <2>2, <2>4, <3>1 DEF Aside
  <2> QED BY <1>7, <2>3, <2>4
<1>8. ASSUME NEW t \in Threads, RecordConfigured(t) \/ ForgetClosed(t) \/ Configure(t) \/ CloseRegistry(t)
      PROVE  SetsUp(t)
  BY <1>8 DEF RecordConfigured, ForgetClosed, Configure, CloseRegistry, SetsUp, Setups
<1>9. ASSUME NEW workers, StartBatch(workers) \/ RunBatch(workers) \/ FinishBatch(workers)
      PROVE  Aside
  <2>1. \A u \in workers \cap Threads : ~SetsUp(u)
    BY <1>9 DEF StartBatch, RunBatch, FinishBatch, Before, After
  <2>2. \A u \in workers \cap Threads : ~SetsUp(u)'
    <3>1. CASE StartBatch(workers)
      <4>1. [NoCall EXCEPT !.kind = "worker", !.handle = bridge, !.batch = workers].kind = "worker"
        BY DEF NoCall
      <4> QED BY <3>1, <4>1 DEF StartBatch, SetsUp, Setups
    <3>2. CASE RunBatch(workers)
      BY <2>1, <3>2 DEF RunBatch, SetsUp, Call
    <3>3. CASE FinishBatch(workers)
      BY <3>3, NoCallTyped DEF FinishBatch, SetsUp, Setups
    <3> QED BY <1>9, <3>1, <3>2, <3>3
  <2>3. \A u \in Threads : u \notin workers => pc'[u] = pc[u] /\ call'[u] = call[u]
    BY <1>9 DEF StartBatch, RunBatch, FinishBatch
  <2> QED BY <1>01, <1>9, <2>1, <2>2, <2>3 DEF Aside, StartBatch, RunBatch, FinishBatch, slot
<1>10. CASE CancelAll \/ UNCHANGED vars
  BY <1>01, <1>10 DEF CancelAll, vars, slot, Aside
<1> QED BY ONLY [Next]_vars, <1>1, <1>2, <1>3, <1>4, <1>5, <1>6, <1>7, <1>8, <1>9, <1>10
        DEF Next, Lock, Run

LEMMA SetupStep ==
  ASSUME "oneSetup" \in ClientRules, ProverInv, SetupInv, [Next]_vars
  PROVE  SetupInv'
<1>0. /\ pc \in [Threads -> PCs] /\ call \in [Threads -> Call] /\ TypeOK
      /\ builds \in Nat /\ generation \in Nat
  BY DEF ProverInv, TypeOK
<1> USE <1>0
<1>1. ASSUME NEW t \in Threads, NEW kind \in Setups, StartCall(t, kind) PROVE SetupInv'
  <2>1. \A u \in Threads : ~SetsUp(u)
    BY <1>1 DEF StartCall, MaySetUp
  <2>2. Follows /\ UNCHANGED <<bridge, registry, generation>>
    BY <1>1, <2>1 DEF SetupInv, BridgeFollowsRegistry, Follows, StartCall, slot
  <2>3. pc'[t] = "lock" /\ call'[t].handle = bridge
    <3>1. [NoCall EXCEPT !.kind = kind, !.handle = bridge].handle = bridge
      BY DEF NoCall
    <3> QED BY <1>1, <3>1 DEF StartCall, Goto
  <2>4. \A u \in Threads \ {t} : ~SetsUp(u)'
    BY <1>1, <2>1 DEF StartCall, SetsUp
  <2>5. SetupRight(t)'
    BY <2>2, <2>3 DEF SetupRight, Follows, Before, After
  <2> QED BY <2>2, <2>4, <2>5 DEF SetupInv, BridgeFollowsRegistry, Follows
<1>2. ASSUME NEW t \in Threads, SetsUp(t) PROVE SetupRight(t) /\ call[t].kind \in Setups
  BY <1>2 DEF SetupInv, SetsUp
<1>3. ASSUME NEW t \in Threads, SetsUp(t), GiveUp(t) PROVE SetupInv'
  <2>1. /\ Goto(t, "notify") /\ Result(t, "busy") /\ UNCHANGED <<bridge, registry, generation>>
        /\ pc[t] = "timedOut"
    BY <1>3 DEF GiveUp, slot
  <2>2. /\ pc'[t] = "notify" /\ ~Records(t)' /\ \A u \in Threads \ {t} : call'[u] = call[u]
    BY <2>1, ResultKept DEF Goto, Result, Records
  <2>3. SetupRight(t)'
    BY <1>2, <1>3, <2>1, <2>2 DEF SetupRight, Before, After, Follows
  <2>4. Follows'
    BY <1>2, <1>3, <2>1 DEF SetupRight, Before, Follows
  <2> QED BY <1>3, <2>2, <2>3, <2>4, AloneSet
<1>4. ASSUME NEW t \in Threads, SetsUp(t), Configure(t) PROVE SetupInv'
  <2>1. /\ pc'[t] = "release" /\ bridge' = bridge /\ pc[t] = "admitted"
        /\ call[t].kind = "configure"
    BY <1>4 DEF Configure, Goto
  <2>2. CASE Result(t, "failed") /\ UNCHANGED slot
    <3>1. /\ ~Records(t)' /\ (Follows' <=> Follows) /\ \A u \in Threads \ {t} : call'[u] = call[u]
      BY <2>1, <2>2, ResultKept DEF Result, Records, Follows, slot
    <3> QED BY <1>2, <1>4, <2>1, <3>1, AloneSet DEF SetupRight, Before, After
  <2>3. CASE /\ generation' = generation + 1
             /\ builds' = builds + 1 /\ registry' = builds + 1
             /\ call' = [call EXCEPT ![t].result = "ok", ![t].handle = generation + 1]
    <3>1. /\ call'[t].kind = "configure" /\ call'[t].result = "ok"
          /\ call'[t].handle = generation + 1
          /\ \A u \in Threads \ {t} : call'[u] = call[u]
      <4>1. \A u \in Threads \ {t} : call'[u] = call[u]
        BY <2>3
      <4>2. call'[t].kind = call[t].kind /\ call'[t].result = "ok" /\ call'[t].handle = generation + 1
        <5>1. call' = [call EXCEPT ![t].result = "ok", ![t].handle = generation + 1]
          BY <2>3
        <5> QED BY ONLY <1>0, <5>1, t \in Threads DEF Call
      <4> QED BY <2>1, <4>1, <4>2
    <3>2. SetupRight(t)'
      BY <2>1, <2>3, <3>1 DEF SetupRight, Before, After, Records, NoRegistry
    <3>3. SetsUp(t)'
      BY <3>1 DEF SetsUp, Setups
    <3> QED BY <1>4, <3>1, <3>2, <3>3, AloneSet
  <2> QED BY <1>4, <2>2, <2>3 DEF Configure
<1>5. ASSUME NEW t \in Threads, SetsUp(t), CloseRegistry(t) PROVE SetupInv'
  <2>1. /\ pc'[t] = "release" /\ bridge' = bridge /\ pc[t] = "admitted" /\ generation' = generation
        /\ call[t].kind = "close"
    BY <1>5 DEF CloseRegistry, Goto
  <2>2. Follows /\ call[t].handle = bridge
    BY <1>2, <1>5, <2>1 DEF SetupRight, Before
  <2>3. registry' = NoRegistry /\ (Result(t, "ok") \/ Result(t, "stale"))
    BY <1>5, <2>2 DEF CloseRegistry, Follows
  <2>4. /\ call'[t].kind = "close" /\ call'[t].handle = bridge
        /\ \A u \in Threads \ {t} : call'[u] = call[u]
    BY <2>1, <2>2, <2>3, ResultKept DEF Result
  <2>5. SetsUp(t)'
    BY <2>4 DEF SetsUp, Setups
  <2>6. Records(t)'
    BY <2>3, <2>4, ResultKept DEF Records
  <2>7. SetupRight(t)'
    BY <2>1, <2>3, <2>4, <2>6 DEF SetupRight, Before, After
  <2> QED BY <1>5, <2>4, <2>5, <2>7, AloneSet
<1>6. ASSUME NEW t \in Threads, SetsUp(t), NotifyAll(t), ~Records(t) PROVE SetupInv'
  <2>1. /\ pc[t] = "notify" /\ call' = [call EXCEPT ![t] = NoCall]
        /\ UNCHANGED <<bridge, registry, generation>>
    BY <1>6 DEF NotifyAll, SetsUp, Setups, slot
  <2>2. Follows'
    BY <1>2, <1>6, <2>1 DEF SetupRight, After, Follows
  <2>3. ~SetsUp(t)'
    BY <2>1, NoCallTyped DEF SetsUp, Setups
  <2> QED BY <1>6, <2>1, <2>2, <2>3, AloneSet
<1>7. ASSUME NEW t \in Threads, SetsUp(t), RecordConfigured(t) \/ ForgetClosed(t) PROVE SetupInv'
  <2>1. /\ pc[t] = "record" /\ End(t) /\ UNCHANGED <<registry, generation>>
        /\ SetupRight(t) /\ Records(t)
    BY <1>2, <1>7 DEF RecordConfigured, ForgetClosed, slot, SetupRight
  <2>2. call' = [call EXCEPT ![t] = NoCall]
    BY <1>7, <2>1 DEF End, SetsUp, Setups
  <2>3. ~SetsUp(t)'
    BY <2>2, NoCallTyped DEF SetsUp, Setups
  <2>4. Follows'
    <3>1. CASE RecordConfigured(t)
      <4>1. registry # NoRegistry /\ call[t].handle = generation
        BY <2>1, <3>1 DEF RecordConfigured, SetupRight, After
      <4> QED BY <2>1, <3>1, <4>1 DEF RecordConfigured, Follows
    <3>2. CASE ForgetClosed(t)
      <4>1. registry = NoRegistry /\ call[t].handle = bridge
        BY <2>1, <3>2 DEF ForgetClosed, SetupRight, After
      <4> QED BY <2>1, <3>2, <4>1 DEF ForgetClosed, Follows
    <3> QED BY <1>7, <3>1, <3>2
  <2> QED BY <1>7, <2>2, <2>3, <2>4, AloneSet
<1> QED BY <1>1, <1>3, <1>4, <1>5, <1>6, <1>7, SetupSteps, AsideKeeps

\* If the host does not overlap configure and close, then between them the handle the bridge
\* remembers (LocalProverBridge.kt, MidnightMobileLocalProverModule.swift) stands for the
\* configured registry, whatever timed out, failed or was found stale before.
THEOREM BridgeKeepsUp ==
  ASSUME "oneSetup" \in ClientRules
  PROVE  Spec => []BridgeFollowsRegistry
<1>1. Init => SetupInv
  BY NoCallTyped DEF Init, SetupInv, SetsUp, Setups, BridgeFollowsRegistry, NoRegistry
<1>2. ProverInv /\ SetupInv /\ [Next]_vars => SetupInv'
  BY SetupStep
<1>3. SetupInv => BridgeFollowsRegistry
  BY DEF SetupInv
<1> QED BY <1>1, <1>2, <1>3, ProverInvariant, PTL DEF Spec

=============================================================================
