----------------------------- MODULE LocalProver -----------------------------
(***************************************************************************)
(* The embedded prover: the native bridge that remembers a handle          *)
(* (LocalProverBridge.kt, MidnightMobileLocalProverModule.swift), the      *)
(* writer-preferring gate, the key registry and batch cancellation         *)
(* (crates/runtime/src/local_prover.rs).                                   *)
(*                                                                         *)
(* A thread is a native call or one worker of a batch.  Each action is one *)
(* critical section; the gate's mutex is also held from LoadLimit to the   *)
(* decision that follows, because set_max_concurrency stores a new limit   *)
(* without taking it.                                                      *)
(***************************************************************************)
EXTENDS Naturals, FiniteSets

CONSTANTS
  Threads,        \* native threads inside calls
  Ceiling,        \* MAX_CONCURRENT_PROOFS_CEILING
  DefaultLimit,   \* DEFAULT_CONCURRENT_PROOFS
  Limits,         \* the limits that are set: 1..Ceiling after the clamp
  MaxGeneration,  \* u64::MAX, the last registry generation
  MaxEpoch,       \* how many cancellations are explored
  MaxBatch,       \* MAX_PROOF_BATCH
  ClientRules     \* "oneSetup": the host does not overlap configure and close

ASSUME LimitAssumption ==
  /\ {Ceiling, MaxGeneration, MaxEpoch, MaxBatch} \subseteq Nat
  /\ DefaultLimit \in 1..Ceiling /\ Limits \subseteq 1..Ceiling
  /\ ClientRules \subseteq {"oneSetup"}
ASSUME ThreadAssumption == IsFiniteSet(Threads)

VARIABLES
  bridge,          \* the handle the bridge remembers; 0 when it has no registry
  readers, writerActive, writersWaiting,   \* ProverGateState, guarded by its mutex
  maxConcurrent,   \* MAX_CONCURRENT_PROOFS, an atomic of its own
  generation, registry,   \* RegistrySlot; a registry is known by the count of builds
  cancelEpoch,     \* CANCEL_EPOCH
  builds,          \* history: registries installed so far
  pc, call         \* the calls in progress

gate     == <<readers, writerActive, writersWaiting>>
slot     == <<generation, registry, builds>>
settings == <<maxConcurrent, cancelEpoch>>
vars     == <<bridge, gate, slot, settings, pc, call>>

Provers == {"prove", "worker"}       \* run_check and run_prove take shared permits
Setups  == {"configure", "close"}    \* exclusive permits
Results == {"none", "ok", "stale", "busy", "failed"}
PCs     == {"idle", "batch", "worker", "lock", "loaded", "asleep", "woken", "timedOut",
            "admitted", "proving", "release", "notify", "record", "joined"}
NoRegistry == 0

Call   == [kind : Provers \cup Setups \cup {"limit", "none"}, handle : 0..MaxGeneration,
           epoch : Nat, limit : 0..Ceiling, used : Nat, batch : SUBSET Threads, result : Results]
NoCall == [kind |-> "none", handle |-> 0, epoch |-> 0, limit |-> 0, used |-> NoRegistry,
           batch |-> {}, result |-> "none"]

-----------------------------------------------------------------------------
(* Helpers *)

Goto(t, next)   == pc' = [pc EXCEPT ![t] = next]
Result(t, r)    == call' = [call EXCEPT ![t].result = r]
Proves(t)       == call[t].kind \in Provers
SetsUp(t)       == call[t].kind \in Setups
MutexFree       == \A t \in Threads : pc[t] # "loaded"
\* what a call does once it has nothing more to do with the gate
End(t) ==
  IF call[t].kind = "worker" THEN Goto(t, "joined") /\ UNCHANGED call
  ELSE Goto(t, "idle") /\ call' = [call EXCEPT ![t] = NoCall]

Holding(t) == pc[t] \in {"admitted", "proving", "release"}
Waiting(t) == pc[t] \in {"asleep", "woken", "timedOut"}
MaySetUp   == "oneSetup" \in ClientRules => \A t \in Threads : ~SetsUp(t)

-----------------------------------------------------------------------------
(* Beginning a call: the bridge's lock is held while its handle is read     *)

StartCall(t, kind) ==
  /\ pc[t] = "idle"
  /\ kind # "configure" => bridge # 0
  /\ kind \in Setups => MaySetUp
  /\ Goto(t, "lock")
  /\ call' = [call EXCEPT ![t] = [NoCall EXCEPT !.kind = kind, !.handle = bridge]]
  /\ UNCHANGED <<bridge, gate, slot, settings>>

StartBatch(workers) ==
  /\ bridge # 0
  /\ workers # {} /\ Cardinality(workers) <= MaxBatch
  /\ \A t \in workers : pc[t] = "idle"
  /\ pc' = [t \in Threads |-> IF t \in workers THEN "batch" ELSE pc[t]]
  /\ call' = [t \in Threads |->
                IF t \in workers
                THEN [NoCall EXCEPT !.kind = "worker", !.handle = bridge, !.batch = workers]
                ELSE call[t]]
  /\ UNCHANGED <<bridge, gate, slot, settings>>

\* run_prove_batch: the epoch is read once, then each request gets a thread
RunBatch(workers) ==
  /\ workers # {}
  /\ \A t \in workers : pc[t] = "batch" /\ call[t].batch = workers
  /\ pc' = [t \in Threads |-> IF t \in workers THEN "worker" ELSE pc[t]]
  /\ call' = [t \in Threads |->
                IF t \in workers THEN [call[t] EXCEPT !.epoch = cancelEpoch] ELSE call[t]]
  /\ UNCHANGED <<bridge, gate, slot, settings>>

ShouldAbandon(t) == cancelEpoch # call[t].epoch

WorkerChecks(t) ==
  /\ pc[t] = "worker"
  /\ IF ShouldAbandon(t) THEN Result(t, "busy") /\ Goto(t, "joined")
                         ELSE Goto(t, "lock") /\ UNCHANGED call
  /\ UNCHANGED <<bridge, gate, slot, settings>>

\* the scope joins every worker; the first error in request order is the result
FinishBatch(workers) ==
  /\ workers # {}
  /\ \A t \in workers : pc[t] = "joined" /\ call[t].batch = workers
  /\ pc' = [t \in Threads |-> IF t \in workers THEN "idle" ELSE pc[t]]
  /\ call' = [t \in Threads |-> IF t \in workers THEN NoCall ELSE call[t]]
  /\ UNCHANGED <<bridge, gate, slot, settings>>

CancelAll ==
  /\ bridge # 0
  /\ cancelEpoch < MaxEpoch
  /\ cancelEpoch' = cancelEpoch + 1
  /\ UNCHANGED <<bridge, gate, slot, maxConcurrent, pc, call>>

\* set_max_concurrency: a store and a notification, without the mutex
StoreLimit(t, limit) ==
  /\ pc[t] = "idle"
  /\ maxConcurrent' = limit
  /\ Goto(t, "notify")
  /\ call' = [call EXCEPT ![t].kind = "limit"]
  /\ UNCHANGED <<bridge, gate, slot, cancelEpoch>>

-----------------------------------------------------------------------------
(* SharedProverPermit::acquire                                             *)

LoadLimit(t) ==
  /\ pc[t] \in {"lock", "woken"} /\ Proves(t)
  /\ MutexFree
  /\ Goto(t, "loaded")
  /\ call' = [call EXCEPT ![t].limit = maxConcurrent]
  /\ UNCHANGED <<bridge, gate, slot, settings>>

\* faulty variant: waiting writers are not looked at
CanShareAhead(t) == ~writerActive /\ readers < call[t].limit

CanShare(t) == ~writerActive /\ writersWaiting = 0 /\ readers < call[t].limit

AdmitShared(t) ==
  /\ pc[t] = "loaded" /\ CanShare(t)
  /\ readers' = readers + 1
  /\ Goto(t, "admitted")
  /\ UNCHANGED <<bridge, writerActive, writersWaiting, slot, settings, call>>

WaitShared(t) ==
  /\ pc[t] = "loaded" /\ ~CanShare(t)
  /\ Goto(t, "asleep")
  /\ UNCHANGED <<bridge, gate, slot, settings, call>>

-----------------------------------------------------------------------------
(* ExclusiveProverPermit::acquire                                          *)

\* faulty variant: running proofs are not looked at
CanOwnBesideReaders == ~writerActive

CanOwn == ~writerActive /\ readers = 0

EnterExclusive(t) ==
  /\ pc[t] = "lock" /\ SetsUp(t)
  /\ MutexFree
  /\ IF CanOwn
     THEN writerActive' = TRUE /\ Goto(t, "admitted") /\ UNCHANGED writersWaiting
     ELSE writersWaiting' = writersWaiting + 1 /\ Goto(t, "asleep") /\ UNCHANGED writerActive
  /\ UNCHANGED <<bridge, readers, slot, settings, call>>

RetryExclusive(t) ==
  /\ pc[t] = "woken" /\ SetsUp(t)
  /\ MutexFree
  /\ IF CanOwn
     THEN /\ writerActive' = TRUE /\ writersWaiting' = writersWaiting - 1
          /\ Goto(t, "admitted")
     ELSE Goto(t, "asleep") /\ UNCHANGED <<writerActive, writersWaiting>>
  /\ UNCHANGED <<bridge, readers, slot, settings, call>>

-----------------------------------------------------------------------------
(* Waiting on the condition variable, at most PROVER_WAIT_BUDGET           *)

WakeUp(t) ==  \* a spurious wakeup
  /\ pc[t] = "asleep"
  /\ Goto(t, "woken")
  /\ UNCHANGED <<bridge, gate, slot, settings, call>>

\* a deadline that has passed before the wait is a wait that times out at once
TimeOut(t) ==
  /\ pc[t] = "asleep"
  /\ Goto(t, "timedOut")
  /\ UNCHANGED <<bridge, gate, slot, settings, call>>

\* faulty variant: the place in writers_waiting is kept
GiveUpKeepingPlace(t) ==
  /\ pc[t] = "timedOut" /\ MutexFree
  /\ IF SetsUp(t)
     THEN /\ UNCHANGED writersWaiting
          /\ Goto(t, "notify") /\ Result(t, "busy")
     ELSE /\ UNCHANGED writersWaiting
          /\ IF call[t].kind = "worker"
             THEN Goto(t, "joined") /\ Result(t, "busy")
             ELSE End(t)
  /\ UNCHANGED <<bridge, readers, writerActive, slot, settings>>

\* PROVER_BUSY, without another look at the gate; a writer then lets the proofs pass
GiveUp(t) ==
  /\ pc[t] = "timedOut" /\ MutexFree
  /\ IF SetsUp(t)
     THEN /\ writersWaiting' = writersWaiting - 1
          /\ Goto(t, "notify") /\ Result(t, "busy")
     ELSE /\ UNCHANGED writersWaiting
          /\ IF call[t].kind = "worker"
             THEN Goto(t, "joined") /\ Result(t, "busy")
             ELSE End(t)
  /\ UNCHANGED <<bridge, readers, writerActive, slot, settings>>

-----------------------------------------------------------------------------
(* With a permit                                                           *)

\* faulty variant: any configured registry will do
TakeAnyRegistry(t) ==
  /\ pc[t] = "admitted" /\ Proves(t)
  /\ IF registry # NoRegistry
     THEN Goto(t, "proving") /\ call' = [call EXCEPT ![t].used = registry]
     ELSE Goto(t, "release") /\ Result(t, "stale")
  /\ UNCHANGED <<bridge, gate, slot, settings>>

\* configured_registry
TakeRegistry(t) ==
  /\ pc[t] = "admitted" /\ Proves(t)
  /\ IF registry # NoRegistry /\ call[t].handle = generation
     THEN Goto(t, "proving") /\ call' = [call EXCEPT ![t].used = registry]
     ELSE Goto(t, "release") /\ Result(t, "stale")
  /\ UNCHANGED <<bridge, gate, slot, settings>>

\* a proof, a refusal or a panic: the permit is dropped in any case
Prove(t) ==
  /\ pc[t] = "proving"
  /\ \E r \in {"ok", "failed"} : Result(t, r)
  /\ Goto(t, "release")
  /\ UNCHANGED <<bridge, gate, slot, settings>>

\* slot.generation.checked_add(1)
NextGenerationFits == generation < MaxGeneration

\* configure_registry: bad material leaves the old registry
Configure(t) ==
  /\ pc[t] = "admitted" /\ call[t].kind = "configure"
  /\ Goto(t, "release")
  /\ \/ /\ NextGenerationFits
        /\ generation' = generation + 1
        /\ builds' = builds + 1 /\ registry' = builds + 1
        /\ call' = [call EXCEPT ![t].result = "ok", ![t].handle = generation + 1]
     \/ Result(t, "failed") /\ UNCHANGED slot
  /\ UNCHANGED <<bridge, gate, settings>>

\* close_registry
CloseRegistry(t) ==
  /\ pc[t] = "admitted" /\ call[t].kind = "close"
  /\ Goto(t, "release")
  /\ IF registry # NoRegistry /\ call[t].handle = generation
     THEN registry' = NoRegistry /\ Result(t, "ok")
     ELSE Result(t, "stale") /\ UNCHANGED registry
  /\ UNCHANGED <<bridge, gate, generation, builds, settings>>

Release(t) ==
  /\ pc[t] = "release" /\ MutexFree
  /\ IF Proves(t) THEN readers' = readers - 1 /\ UNCHANGED writerActive
                  ELSE writerActive' = FALSE /\ UNCHANGED readers
  /\ Goto(t, "notify")
  /\ UNCHANGED <<bridge, writersWaiting, slot, settings, call>>

\* faulty variant: a close that got no permit is recorded all the same
RecordsRefusedClose(t) == \/ call[t].kind = "configure" /\ call[t].result = "ok"
                          \/ call[t].kind = "close"

\* requireSuccess: a close whose handle is stale counts as closed
Records(t) == \/ call[t].kind = "configure" /\ call[t].result = "ok"
              \/ call[t].kind = "close" /\ call[t].result \in {"ok", "stale"}

\* faulty variant: notify_one
NotifyOne(t) ==
  /\ pc[t] = "notify"
  /\ LET next == IF Records(t) THEN "record"
                 ELSE IF call[t].kind = "worker" THEN "joined" ELSE "idle"
         sleepers == {u \in Threads : pc[u] = "asleep"}
     IN  /\ \E woken \in SUBSET sleepers :
              /\ Cardinality(woken) = IF sleepers = {} THEN 0 ELSE 1
              /\ pc' = [u \in Threads |-> IF u = t THEN next
                                          ELSE IF u \in woken THEN "woken" ELSE pc[u]]
         /\ call' = IF next = "idle" THEN [call EXCEPT ![t] = NoCall] ELSE call
  /\ UNCHANGED <<bridge, gate, slot, settings>>

\* notify_all, after the mutex is released
NotifyAll(t) ==
  /\ pc[t] = "notify"
  /\ LET next == IF Records(t) THEN "record"
                 ELSE IF call[t].kind = "worker" THEN "joined" ELSE "idle"
     IN  /\ pc' = [u \in Threads |-> IF u = t THEN next
                                     ELSE IF pc[u] = "asleep" THEN "woken" ELSE pc[u]]
         /\ call' = IF next = "idle" THEN [call EXCEPT ![t] = NoCall] ELSE call
  /\ UNCHANGED <<bridge, gate, slot, settings>>

\* the bridge remembers the new handle
RecordConfigured(t) ==
  /\ pc[t] = "record" /\ call[t].kind = "configure"
  /\ bridge' = call[t].handle
  /\ End(t)
  /\ UNCHANGED <<gate, slot, settings>>

\* and forgets the one it closed, unless it has got another meanwhile
ForgetClosed(t) ==
  /\ pc[t] = "record" /\ call[t].kind = "close"
  /\ bridge' = IF bridge = call[t].handle THEN 0 ELSE bridge
  /\ End(t)
  /\ UNCHANGED <<gate, slot, settings>>

-----------------------------------------------------------------------------
Init ==
  /\ bridge = 0
  /\ readers = 0 /\ writerActive = FALSE /\ writersWaiting = 0
  /\ maxConcurrent = DefaultLimit
  /\ generation = 0 /\ registry = NoRegistry /\ builds = 0
  /\ cancelEpoch = 0
  /\ pc = [t \in Threads |-> "idle"]
  /\ call = [t \in Threads |-> NoCall]

\* steps that wait for the gate's mutex, and steps that wait for nothing
Lock(t) == \/ LoadLimit(t) \/ EnterExclusive(t) \/ RetryExclusive(t)
           \/ GiveUp(t) \/ Release(t)
Run(t)  == \/ WorkerChecks(t) \/ AdmitShared(t) \/ WaitShared(t) \/ TakeRegistry(t)
           \/ Prove(t) \/ Configure(t) \/ CloseRegistry(t) \/ NotifyAll(t)
           \/ RecordConfigured(t) \/ ForgetClosed(t)

Next ==
  \/ \E t \in Threads :
       \/ \E kind \in {"prove"} \cup Setups : StartCall(t, kind)
       \/ \E limit \in Limits : StoreLimit(t, limit)
       \/ Lock(t) \/ Run(t) \/ WakeUp(t) \/ TimeOut(t)
       \/ RunBatch(call[t].batch) \/ FinishBatch(call[t].batch)
  \/ \E workers \in SUBSET Threads : StartBatch(workers)
  \/ CancelAll

Spec     == Init /\ [][Next]_vars
\* a running thread goes on, a proof ends, and nobody waits for a free mutex for ever
Fairness == \A t \in Threads : WF_vars(Run(t)) /\ SF_vars(Lock(t))
FairSpec == Spec /\ Fairness

-----------------------------------------------------------------------------
(* Properties *)

\* Every variable has its type: the generation stays within a u64.
TypeOK ==
  /\ bridge \in 0..MaxGeneration /\ generation \in 0..MaxGeneration
  /\ readers \in Nat /\ writersWaiting \in Nat /\ writerActive \in BOOLEAN
  /\ maxConcurrent \in 1..Ceiling
  /\ registry \in Nat /\ builds \in Nat /\ cancelEpoch \in Nat
  /\ pc \in [Threads -> PCs]
  /\ call \in [Threads -> Call]

\* The counters of the gate are what they count, through every timeout, panic and retry,
\* so configure and close never run beside a proof or beside each other, and at most
\* Ceiling proofs run at once.
Sharing == {t \in Threads : Proves(t) /\ Holding(t)}
Owning  == {t \in Threads : SetsUp(t) /\ Holding(t)}
Queued  == {t \in Threads : SetsUp(t) /\ Waiting(t)}
CountsRight ==
  /\ readers = Cardinality(Sharing) /\ writersWaiting = Cardinality(Queued)
  /\ writerActive <=> Owning # {}
Exclusion ==
  /\ \A t, u \in Owning : t = u
  /\ Owning # {} => Sharing = {}
AtMostCeiling == readers <= Ceiling
GateSafe == CountsRight /\ Exclusion /\ AtMostCeiling

\* While a proof runs the registry it uses stays configured, and it is the one that the
\* handle given to the call stands for.
ProvesWithItsRegistry ==
  \A t \in Threads : pc[t] = "proving" =>
    call[t].used = registry /\ registry # NoRegistry /\ call[t].handle = generation

\* Each worker of a batch asks for its own permit, so the registry may be replaced
\* between two of them: a batch that succeeds was proved against one registry all the same.
BatchOneRegistry ==
  \A t, u \in Threads :
    /\ pc[t] = "joined" /\ pc[u] = "joined" /\ call[t].batch = call[u].batch
    /\ call[t].result = "ok" /\ call[u].result = "ok"
    => call[t].used = call[u].used

\* A waiting configure or close blocks new proofs (comment at local_prover.rs:125).
NoOvertaking ==
  [][\A t, u \in Threads :
       (SetsUp(u) /\ Waiting(u) /\ Proves(t) /\ pc[t] # "admitted")
         => pc'[t] # "admitted"]_vars

\* Nobody sleeps while what they wait for has come and no notification is on its way.
\* Needs limits that only fall, as on a phone that runs out of memory: a raised limit is
\* stored and notified without the mutex, between a waiter's look and its sleep.
NoLostWakeup ==
  \A t \in Threads :
    /\ pc[t] = "asleep"
    /\ \/ Proves(t) /\ ~writerActive /\ writersWaiting = 0 /\ readers < maxConcurrent
       \/ SetsUp(t) /\ CanOwn
    => \E u \in Threads : pc[u] = "notify"

\* While no configure or close is in progress, the bridge's handle stands for the
\* configured registry, or neither has one.  Needs "oneSetup": the bridge records a
\* handle after the native call has returned, outside its own lock.
BridgeFollowsRegistry ==
  (\A t \in Threads : ~SetsUp(t)) =>
    IF registry = NoRegistry THEN bridge = 0 ELSE bridge = generation

\* A configure or close that waits gets in or gives up, however many proofs are started
\* after it.  Needs "oneSetup": another configure may overtake it for ever.
SetupGetsIn ==
  \A t \in Threads : (SetsUp(t) /\ Waiting(t)) ~> ~(SetsUp(t) /\ Waiting(t))

\* "Any batch worker that has not yet begun its individual proof observes the new epoch
\* and abandons that request instead of starting it" (local_prover.rs:249): a worker that
\* waits for a permit when its batch is cancelled ends without a proof.
CancelledWaiterAbandons ==
  \A t \in Threads :
    (call[t].kind = "worker" /\ Waiting(t) /\ ShouldAbandon(t))
      ~> (pc[t] = "joined" /\ call[t].result = "busy")

=============================================================================
