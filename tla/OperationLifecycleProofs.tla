---------------------- MODULE OperationLifecycleProofs ----------------------
(***************************************************************************)
(* Proofs about OperationLifecycle, for any number of threads, sessions,   *)
(* hashes and checkpoints and with or without the clients' promises.       *)
(***************************************************************************)
EXTENDS OperationLifecycle, TLAPS

USE CounterAssumption, WalletAssumption, CheckpointAssumption, LimitAssumption

-----------------------------------------------------------------------------
(* The values that the actions build                                       *)

LEMMA BlankTyped == Blank \in Operation
BY DEF Blank, Operation, Ids, None

LEMMA WalletsTyped ==
  ASSUME NEW w \in Wallets
  PROVE  /\ Spent(w) \in Wallets /\ Spent(w).sync = w.sync
         /\ Synced(w) \in Wallets /\ Synced(w).sync = w.sync + 1
BY DEF Wallets, Spent, Synced

LEMMA OperationTyped ==
  ASSUME NEW o \in Operation
  PROVE  /\ o.id \in 0..MaxCounter /\ o.session \in Ids /\ o.generation \in 0..MaxCounter
         /\ o.kind \in Kinds \cup Commands \cup {"none"} /\ o.hash \in Hashes \cup {"none"}
         /\ o.proposed \in Wallets \cup {NoWallet}
BY DEF Operation

LEMMA OperationChanged ==
  ASSUME NEW o \in Operation, NEW id \in 0..MaxCounter,
         NEW kind \in Kinds \cup Commands \cup {"none"},
         NEW w \in Wallets \cup {NoWallet}
  PROVE  /\ [o EXCEPT !.kind = kind] \in Operation
         /\ [o EXCEPT !.kind = kind, !.proposed = w] \in Operation
         /\ [o EXCEPT !.proposed = w] \in Operation
         /\ [o EXCEPT !.id = id, !.kind = kind] \in Operation
BY DEF Operation

LEMMA CheckpointTyped ==
  ASSUME NEW c \in Checkpoints
  PROVE  /\ c.generation \in 0..(MaxCounter - 1) /\ c.offset \in Nat
         /\ c.pending \in [Hashes -> Statuses]
         /\ [sync |-> c.offset, other |-> 0] \in Wallets
<1>1. c \in [generation : 0..(MaxCounter - 1), offset : Nat, pending : [Hashes -> Statuses]]
  OBVIOUS
<1> QED BY <1>1 DEF Wallets

LEMMA KeyTyped ==
  ASSUME NEW o \in Operation
  PROVE  Key(o) \in (0..MaxCounter) \X (0..MaxCounter)
BY DEF Key, Operation

\* returning, moving on and clearing active_operation keep the types
LEMMA ReturnTyped ==
  ASSUME TypeOK, NEW t \in Threads, Return(t)
  PROVE  pc' \in [Threads -> PCs] /\ held' \in [Threads -> Operation]
BY BlankTyped DEF TypeOK, Return, Goto, PCs

LEMMA GotoTyped ==
  ASSUME TypeOK, NEW t \in Threads, NEW next \in PCs, Goto(t, next)
  PROVE  pc' \in [Threads -> PCs]
BY DEF TypeOK, Goto

LEMMA ClearActiveTyped ==
  ASSUME TypeOK, NEW s \in Ids, NEW id, ClearActive(s, id)
  PROVE  active' \in [Ids -> 0..MaxCounter]
BY DEF TypeOK, ClearActive, None

LEMMA PendingTyped ==
  ASSUME TypeOK, NEW s \in Ids, NEW h, NEW status \in Statuses,
         pending' = [pending EXCEPT ![s][h] = status]
  PROVE  pending' \in [Ids -> [Hashes -> Statuses]]
BY DEF TypeOK

-----------------------------------------------------------------------------
(* Types                                                                   *)

LEMMA InitTyped == Init => TypeOK
BY BlankTyped DEF Init, TypeOK, Ids, Wallets, Statuses, PCs, None

LEMMA StepTyped == TypeOK /\ [Next]_vars => TypeOK'
<1> SUFFICES ASSUME TypeOK, [Next]_vars
             PROVE  TypeOK'
  OBVIOUS
<1> USE DEF TypeOK
<1> USE DEF registryVars, sessionVars, walletVars, threadVars, allocation, tombstones
<1>1. ASSUME NEW c \in Checkpoints, OpenSession(c) PROVE TypeOK'
  <2>1. NewGeneration(c) \in 1..MaxCounter
    BY CheckpointTyped DEF NewGeneration
  <2>2. CASE CountersLeft(c)
    <3>0. /\ nextId < MaxCounter /\ nextId' = nextId + 1
          /\ NewGeneration(c) < MaxCounter /\ nextGeneration' = NewGeneration(c) + 1
      BY ONLY <1>1, <2>2 DEF OpenSession, CountersLeft
    <3>00. nextId \in 1..MaxCounter
      OBVIOUS
    <3>1. nextId \in Ids /\ nextId' \in 1..MaxCounter /\ nextGeneration' \in 0..MaxCounter
      BY ONLY <2>1, <3>0, <3>00, CounterAssumption DEF Ids
    <3>2. /\ generation' = [generation EXCEPT ![nextId] = NewGeneration(c)]
          /\ offset' = [offset EXCEPT ![nextId] = c.offset]
          /\ wallet' = [wallet EXCEPT ![nextId] = [sync |-> c.offset, other |-> 0]]
          /\ pending' = [pending EXCEPT ![nextId] = c.pending]
          /\ active' = [active EXCEPT ![nextId] = None]
          /\ closing' = [closing EXCEPT ![nextId] = FALSE]
          /\ sessions' = sessions \cup {nextId}
          /\ UNCHANGED <<operations, tombstones, acknowledged, threadVars>>
      BY <1>1, <2>2 DEF OpenSession
    <3>3. /\ generation' \in [Ids -> 0..MaxCounter] /\ offset' \in [Ids -> Nat]
          /\ wallet' \in [Ids -> Wallets] /\ pending' \in [Ids -> [Hashes -> Statuses]]
          /\ active' \in [Ids -> 0..MaxCounter] /\ closing' \in [Ids -> BOOLEAN]
      BY <2>1, <3>1, <3>2, CheckpointTyped DEF None
    <3> QED BY <3>1, <3>2, <3>3
  <2>3. CASE ~CountersLeft(c)
    BY <1>1, <2>1, <2>3 DEF OpenSession
  <2> QED BY <2>2, <2>3
<1>2. ASSUME NEW k \in cancelledOperations, ResumeCancelled(k) PROVE TypeOK'
  BY <1>2 DEF ResumeCancelled
<1>3. ASSUME NEW t \in Threads, NEW s \in sessions, NEW command \in Commands,
             NEW h \in Hashes \cup {"none"}, Lookup(t, s, command, h)
      PROVE  TypeOK'
  BY <1>3, BlankTyped DEF Lookup, Goto, Operation, PCs
<1>4. ASSUME NEW t \in Threads, CommandFails(t) PROVE TypeOK'
  BY <1>4, ReturnTyped DEF CommandFails
<1>5. ASSUME NEW t \in Threads, ApplySyncBatch(t) PROVE TypeOK'
  BY <1>5, ReturnTyped, OperationTyped, WalletsTyped DEF ApplySyncBatch
<1>6. ASSUME NEW t \in Threads, ChangeWallet(t) PROVE TypeOK'
  BY <1>6, ReturnTyped, OperationTyped, WalletsTyped DEF ChangeWallet
<1>7. ASSUME NEW t \in Threads, NEW kind \in Kinds, NEW w \in Wallets \cup {NoWallet},
             Reserve(t, kind, w)
      PROVE  TypeOK'
  <2>1. [held[t] EXCEPT !.kind = kind, !.proposed = w] \in Operation
    BY OperationChanged
  <2>2. held' \in [Threads -> Operation]
    BY <1>7, <2>1 DEF Reserve
  <2>3. active' \in [Ids -> 0..MaxCounter]
    BY <1>7, OperationTyped DEF Reserve, Reserved
  <2> QED BY <1>7, <2>2, <2>3 DEF Reserve, Goto, PCs
<1>8. ASSUME NEW t \in Threads, BeginUnreserved(t) PROVE TypeOK'
  <2>1. Begins[held[t].kind] \in Kinds
    <3>1. /\ DOMAIN Begins = {"dappIntent", "balanceCommand", "extensionCommand"}
          /\ Begins["dappIntent"] = "dappIntentProof"
          /\ Begins["balanceCommand"] = "balance"
          /\ Begins["extensionCommand"] = "extension"
      BY DEF Begins
    <3> QED BY <1>8, <3>1 DEF BeginUnreserved, Running, Kinds, ProofKinds
  <2>2. [held[t] EXCEPT !.kind = Begins[held[t].kind]] \in Operation
    BY <2>1, OperationChanged
  <2>3. held' \in [Threads -> Operation]
    BY <1>8, <2>2 DEF BeginUnreserved
  <2> QED BY <1>8, <2>3 DEF BeginUnreserved, Goto, PCs
<1>9. ASSUME NEW t \in Threads, BeginSubmit(t) PROVE TypeOK'
  BY <1>9, OperationChanged DEF BeginSubmit, Goto, PCs, Kinds
<1>10. ASSUME NEW t \in Threads, NEW kind \in Kinds \cup Commands \cup {"none"},
              NEW next \in {"idle", "insert"}, NEW expected,
              CanRegister(held[t].session, expected), Register(t, kind, next)
       PROVE TypeOK'
  <2>1. held[t].session \in Ids /\ nextId \in 0..MaxCounter /\ nextId + 1 \in 1..MaxCounter
    BY <1>10, OperationTyped DEF CanRegister
  <2>2. [held[t] EXCEPT !.id = nextId, !.kind = kind] \in Operation
    BY <2>1, OperationChanged
  <2>3. held' \in [Threads -> Operation]
    BY <1>10, <2>2, BlankTyped DEF Register
  <2>4. active' \in [Ids -> 0..MaxCounter]
    BY <1>10, <2>1 DEF Register
  <2> QED BY <1>10, <2>1, <2>2, <2>3, <2>4 DEF Register, Goto, PCs
<1>12. ASSUME NEW t \in Threads, RegisterFails(t) PROVE TypeOK'
  BY <1>12, ReturnTyped DEF RegisterFails
<1>14. ASSUME NEW t \in Threads, CommitReserved(t) PROVE TypeOK'
  BY <1>14, OperationTyped DEF CommitReserved, Goto, PCs
<1>15. ASSUME NEW t \in Threads, Unreserve(t) PROVE TypeOK'
  BY <1>15, ReturnTyped, OperationTyped, ClearActiveTyped DEF Unreserve
<1>16. ASSUME NEW t \in Threads, InsertSubmission(t) PROVE TypeOK'
  BY <1>16, ReturnTyped, OperationTyped, PendingTyped DEF InsertSubmission, Goto, PCs, Statuses
<1>17. ASSUME NEW t \in Threads, DiscardOperation(t) PROVE TypeOK'
  BY <1>17, ReturnTyped, OperationTyped, ClearActiveTyped DEF DiscardOperation
<1>18. ASSUME NEW t \in Threads, NEW o \in operations, TakeOperation(t, o) PROVE TypeOK'
  BY <1>18 DEF TakeOperation, Goto, PCs
<1>19. ASSUME NEW t \in Threads, ResumeStale(t) PROVE TypeOK'
  BY <1>19 DEF ResumeStale, Goto, PCs
<1>20. ASSUME NEW t \in Threads, RefuseResult(t) PROVE TypeOK'
  BY <1>20 DEF RefuseResult, Goto, PCs
<1>21. ASSUME NEW t \in Threads, SubmissionStatusUnknown(t) PROVE TypeOK'
  BY <1>21, OperationTyped, PendingTyped DEF SubmissionStatusUnknown, Goto, PCs, Statuses
<1>22. ASSUME NEW t \in Threads, SubmissionSettled(t) PROVE TypeOK'
  BY <1>22, ReturnTyped, OperationTyped, ClearActiveTyped, PendingTyped
     DEF SubmissionSettled, Statuses
<1>23. ASSUME NEW t \in Threads, NextRound(t) PROVE TypeOK'
  <2>1. held[t].session \in Ids
    BY OperationTyped
  <2>2. Spent(wallet[held[t].session]) \in Wallets
    BY <2>1, WalletsTyped
  <2>3. \/ UNCHANGED held
        \/ \E kind \in Kinds : held' = [held EXCEPT ![t] = [@ EXCEPT !.kind = kind]]
        \/ held' = [held EXCEPT ![t] = [@ EXCEPT !.proposed = Spent(wallet[held[t].session])]]
    BY <1>23 DEF NextRound, Kinds, ProofKinds
  <2>4. held' \in [Threads -> Operation]
    <3>1. [held[t] EXCEPT !.proposed = Spent(wallet[held[t].session])] \in Operation
      BY <2>2, OperationChanged
    <3>2. \A kind \in Kinds : [held[t] EXCEPT !.kind = kind] \in Operation
      BY OperationChanged
    <3> QED BY <2>3, <3>1, <3>2
  <2> QED BY <1>23, <2>4 DEF NextRound, Goto, PCs
<1>24. ASSUME NEW t \in Threads, CompleteOperation(t) PROVE TypeOK'
  <2>1. held[t].session \in Ids /\ held[t].proposed \in Wallets \cup {NoWallet}
    BY OperationTyped
  <2>2. wallet' \in [Ids -> Wallets] /\ acknowledged' \in [Ids -> Nat]
    <3>1. CASE held[t].proposed = NoWallet
      BY <1>24, <2>1, <3>1 DEF CompleteOperation
    <3>2. CASE held[t].proposed # NoWallet
      <4>1. /\ wallet' = [wallet EXCEPT ![held[t].session] = held[t].proposed]
            /\ acknowledged' = [acknowledged EXCEPT ![held[t].session] = @ + 1]
        BY ONLY <1>24, <3>2 DEF CompleteOperation
      <4>2. wallet \in [Ids -> Wallets] /\ acknowledged \in [Ids -> Nat]
        OBVIOUS
      <4> QED BY ONLY <2>1, <3>2, <4>1, <4>2
    <3> QED BY ONLY <3>1, <3>2
  <2> QED BY <1>24, <2>1, <2>2, ReturnTyped, ClearActiveTyped DEF CompleteOperation
<1>25. ASSUME NEW t \in Threads, FailOperation(t) PROVE TypeOK'
  BY <1>25, OperationTyped, ClearActiveTyped DEF FailOperation, Goto, PCs
<1>26. ASSUME NEW t \in Threads, ReinsertOperation(t) PROVE TypeOK'
  BY <1>26, ReturnTyped DEF ReinsertOperation, Goto, PCs
<1>27. ASSUME NEW t \in Threads, CheckOrphan(t) PROVE TypeOK'
  BY <1>27, ReturnTyped DEF CheckOrphan, Goto, PCs
<1>28. ASSUME NEW t \in Threads, ReleaseOrphan(t) PROVE TypeOK'
  BY <1>28, ReturnTyped, OperationTyped, ClearActiveTyped DEF ReleaseOrphan
<1>29. ASSUME NEW t \in Threads, NEW o \in operations, CancelOperation(t, o) PROVE TypeOK'
  <2>1. cancelledOperations' \subseteq cancelledOperations \cup {Key(o)}
    BY <1>29 DEF CancelOperation, RememberCancelled
  <2>2. cancelledOperations' \subseteq (0..MaxCounter) \X (0..MaxCounter)
    BY <2>1, KeyTyped
  <2>3. pc' \in [Threads -> PCs] /\ held' \in [Threads -> Operation]
    BY <1>29 DEF CancelOperation, Goto, PCs
  <2> QED BY <1>29, <2>2, <2>3 DEF CancelOperation
<1>30. ASSUME NEW t \in Threads, FinishCancel(t) PROVE TypeOK'
  BY <1>30, ReturnTyped, OperationTyped, ClearActiveTyped, PendingTyped
     DEF FinishCancel, Statuses
<1>31. ASSUME NEW t \in Threads, NEW s \in sessions, CloseSession(t, s) PROVE TypeOK'
  BY <1>31, BlankTyped DEF CloseSession, Goto, Operation, PCs
<1>32. ASSUME NEW t \in Threads, FinishClose(t) PROVE TypeOK'
  BY <1>32, ReturnTyped, OperationTyped DEF FinishClose
<1>33. CASE UNCHANGED vars
  BY <1>33 DEF vars
<1>34. ASSUME NEW t \in Threads, RunCommand(t) PROVE TypeOK'
  <2>1. held[t].session \in Ids /\ held[t].kind \in Kinds \cup Commands \cup {"none"}
    BY OperationTyped
  <2>2. Spent(wallet[held[t].session]) \in Wallets
    BY <2>1, WalletsTyped
  <2>3. /\ ReserveGenerateDust(t) => TypeOK'
        /\ ReserveTransfer(t) => TypeOK'
        /\ ReserveFinalizeUnproven(t) => TypeOK'
    BY <1>7, <2>2 DEF ReserveGenerateDust, ReserveTransfer, ReserveFinalizeUnproven,
                      Kinds, ProofKinds
  <2>4. /\ WatchShieldedMint(t) => TypeOK'
        /\ UpdateWallet(t) => TypeOK'
        /\ GenerateDustAtOnce(t) => TypeOK'
    BY <1>6 DEF WatchShieldedMint, UpdateWallet, GenerateDustAtOnce
  <2>5. RegisterUnreserved(t) => TypeOK'
    BY <1>10, <2>1 DEF RegisterUnreserved
  <2>6. RegisterReserved(t) => TypeOK'
    BY <1>10, <2>1 DEF RegisterReserved, Kinds, ProofKinds
  <2> QED
    BY <1>34, <1>4, <1>5, <1>8, <1>9, <1>12, <1>14, <1>15, <1>16, <1>17, <2>3, <2>4, <2>5, <2>6
    DEF RunCommand
<1>35. ASSUME NEW t \in Threads, RunResume(t) PROVE TypeOK'
  BY <1>35, <1>19, <1>20, <1>21, <1>22, <1>23, <1>24, <1>25, <1>26, <1>27, <1>28 DEF RunResume
<1>36. ASSUME NEW t \in Threads, BeginCall(t) PROVE TypeOK'
  BY <1>36, <1>3 DEF BeginCall, Commands
<1>37. ASSUME NEW t \in Threads, Continue(t) PROVE TypeOK'
  BY <1>37, <1>30, <1>32, <1>34, <1>35 DEF Continue
<1>38. CASE Next
  BY ONLY <1>38, <1>1, <1>2, <1>18, <1>29, <1>31, <1>36, <1>37 DEF Next
<1> QED
  BY <1>33, <1>38

\* The counters never leave u64 and every record that a call carries is well formed.
THEOREM TypeCorrect == Spec => []TypeOK
<1> QED BY InitTyped, StepTyped, PTL DEF Spec

-----------------------------------------------------------------------------
(* No sync batch is lost                                                   *)

SyncInv == TypeOK /\ ProposalInv /\ SyncNeverLost

\* a step may free sessions, but none that a running call has reserved
OnlyCleared ==
  \A s \in Ids : active'[s] = active[s] \/ (active'[s] = None /\ active[s] # Reserved)

\* What most steps of a thread do: they leave offsets alone, install no wallet state
\* that lacks a batch, add no operation but the one the thread owns, and reserve nothing.
QuietThread(t) ==
  /\ \A u \in Threads \ {t} : pc'[u] = pc[u] /\ held'[u] = held[u]
  /\ pc'[t] # "idle" => held'[t].session < nextId
  /\ pc'[t] \in WithOperation => held'[t].id # None /\ held'[t].id < nextId
  /\ pc'[t] \in {"run", "register"} => held'[t].proposed = NoWallet
  /\ Reserving(t)' => /\ Reserving(t) /\ held'[t] = held[t]
                      /\ pc'[t] = "proving" => pc[t] = "proving"
Quiet(t) ==
  /\ nextId' = nextId /\ sessions' \subseteq sessions
  /\ offset' = offset /\ \A s \in Ids : wallet'[s].sync = wallet[s].sync
  /\ OnlyCleared
  /\ \A o \in operations' : o \in operations \/ (Owning(t) /\ o = held[t])
  /\ QuietThread(t)
  /\ Owning(t)' => UpToDate(held[t])'

LEMMA ClearedOwn ==
  ASSUME TypeOK, NEW s \in Ids, NEW id, id # Reserved, ClearActive(s, id)
  PROVE  OnlyCleared
BY DEF TypeOK, ClearActive, OnlyCleared

LEMMA NotReserved ==
  ASSUME TypeOK, NEW id \in 0..MaxCounter, id < nextId
  PROVE  id # Reserved
BY DEF TypeOK, Reserved

LEMMA QuietPreserves ==
  ASSUME SyncInv, TypeOK', NEW t \in Threads, Quiet(t)
  PROVE  ProposalInv' /\ SyncNeverLost'
<1> USE DEF SyncInv, ProposalInv, QuietThread
<1>1. SyncNeverLost'
  BY DEF Quiet, SyncNeverLost
<1>2. IdsAllocated'
  BY DEF Quiet, IdsAllocated, WithOperation, Owning
<1>3. ReservationHeld'
  <2> SUFFICES ASSUME NEW u \in Threads, Reserving(u)'
               PROVE  /\ active'[held'[u].session] = Reserved
                      /\ held'[u].proposed # NoWallet /\ pc'[u] = "proving"
                           => held'[u].proposed.sync = offset'[held'[u].session]
    BY DEF ReservationHeld, Quiet
  <2>1. Reserving(u) /\ held'[u] = held[u] /\ (pc'[u] = "proving" => pc[u] = "proving")
    BY DEF Quiet, Reserving
  <2>2. held[u].session \in Ids
    BY OperationTyped DEF TypeOK
  <2> QED BY <2>1, <2>2 DEF Quiet, OnlyCleared, ReservationHeld
<1>4. OneReserver'
  <2>1. \A u \in Threads : Reserving(u)' => Reserving(u) /\ held'[u] = held[u]
    BY DEF Quiet, Reserving
  <2> QED BY <2>1 DEF OneReserver
<1>5. ProposalsUpToDate'
  <2>1. ASSUME NEW o \in Operation, UpToDate(o), o.id # None
        PROVE  (active'[o.session] = o.id /\ o.proposed # NoWallet)
                 => o.proposed.sync = offset'[o.session]
    BY <2>1, OperationTyped DEF Quiet, OnlyCleared, UpToDate
  <2>2. ASSUME NEW o \in operations' PROVE UpToDate(o)'
    <3>1. o \in Operation /\ UpToDate(o) /\ o.id # None
      BY DEF Quiet, TypeOK, ProposalsUpToDate, IdsAllocated, Owning, WithOperation
    <3> QED BY <3>1, <2>1 DEF UpToDate
  <2>3. ASSUME NEW u \in Threads, u # t, Owning(u)' PROVE UpToDate(held[u])'
    <3>1. held'[u] = held[u] /\ Owning(u)
      BY <2>3 DEF Quiet, Owning
    <3>2. held[u] \in Operation /\ UpToDate(held[u]) /\ held[u].id # None
      BY <3>1 DEF TypeOK, ProposalsUpToDate, IdsAllocated, Owning, WithOperation
    <3> QED BY <3>1, <3>2, <2>1 DEF UpToDate
  <2> QED BY <2>2, <2>3 DEF ProposalsUpToDate, Quiet
<1> QED BY <1>1, <1>2, <1>3, <1>4, <1>5

LEMMA ReturnQuiet ==
  ASSUME SyncInv, NEW t \in Threads, Return(t)
  PROVE  QuietThread(t) /\ ~Owning(t)' /\ ~Reserving(t)'
BY DEF SyncInv, TypeOK, Return, Goto, QuietThread, Owning, Reserving, WithOperation

\* a call moves on with what it has
LEMMA GotoQuiet ==
  ASSUME SyncInv, NEW t \in Threads, NEW next \in PCs, Goto(t, next), held' = held,
         pc[t] # "idle", next \notin {"proving", "unreserve"},
         next \notin {"run", "register"},
         next \in WithOperation => pc[t] \in WithOperation
  PROVE  QuietThread(t) /\ ~Reserving(t)' /\ (Owning(t)' <=> next \in {"resume", "reinsert", "refuse"})
BY DEF SyncInv, ProposalInv, IdsAllocated, TypeOK, Goto, QuietThread, Owning, Reserving

LEMMA QuietAction ==
  ASSUME SyncInv, NEW t \in Threads, TypeOK'
  PROVE  /\ \A s \in sessions, command \in Commands, h \in Hashes \cup {"none"} :
              Lookup(t, s, command, h) => Quiet(t)
         /\ CommandFails(t) => Quiet(t)
         /\ ChangeWallet(t) => Quiet(t)
         /\ BeginUnreserved(t) => Quiet(t)
         /\ BeginSubmit(t) => Quiet(t)
         /\ RegisterFails(t) => Quiet(t)
         /\ CommitReserved(t) => Quiet(t)
         /\ InsertSubmission(t) => Quiet(t)
         /\ DiscardOperation(t) => Quiet(t)
<1> USE DEF SyncInv, registryVars, sessionVars, walletVars, threadVars, allocation, tombstones
<1>0. /\ held[t].session \in Ids /\ held[t].id \in 0..MaxCounter
      /\ held[t].proposed \in Wallets \cup {NoWallet}
  BY OperationTyped DEF TypeOK
<1>1. ASSUME NEW s \in sessions, NEW command \in Commands, NEW h \in Hashes \cup {"none"},
             Lookup(t, s, command, h)
      PROVE  Quiet(t)
  <2>1. held'[t].session = s /\ held'[t].proposed = NoWallet /\ pc'[t] = "run"
    BY <1>1 DEF Lookup, Goto, TypeOK, Blank
  <2>2. QuietThread(t) /\ ~Owning(t)'
    BY <1>1, <2>1 DEF Lookup, Goto, TypeOK, QuietThread, Owning, Reserving, WithOperation,
                      ProposalInv, IdsAllocated
  <2> QED BY <1>1, <2>2 DEF Lookup, Quiet, OnlyCleared
<1>2. CommandFails(t) => Quiet(t)
  BY ReturnQuiet DEF CommandFails, Quiet, OnlyCleared
<1>3. ASSUME ChangeWallet(t) PROVE Quiet(t)
  <2>1. \A s \in Ids : wallet'[s].sync = wallet[s].sync
    BY <1>0, <1>3, WalletsTyped DEF ChangeWallet, TypeOK
  <2> QED BY <1>3, <2>1, ReturnQuiet DEF ChangeWallet, Quiet, OnlyCleared
<1>4. ASSUME BeginUnreserved(t) \/ BeginSubmit(t) PROVE Quiet(t)
  <2>1. /\ held'[t].session = held[t].session /\ held'[t].proposed = held[t].proposed
        /\ pc'[t] = "register" /\ pc[t] = "run"
        /\ \A u \in Threads \ {t} : pc'[u] = pc[u] /\ held'[u] = held[u]
    BY <1>4 DEF BeginUnreserved, BeginSubmit, Running, Goto, TypeOK, Operation
  <2>2. QuietThread(t) /\ ~Owning(t)'
    BY <2>1 DEF QuietThread, Owning, Reserving, WithOperation, ProposalInv, IdsAllocated,
                ReservationHeld
  <2> QED BY <1>4, <2>2 DEF BeginUnreserved, BeginSubmit, Quiet, OnlyCleared
<1>5. RegisterFails(t) => Quiet(t)
  BY ReturnQuiet DEF RegisterFails, Quiet, OnlyCleared
<1>6. ASSUME CommitReserved(t) PROVE Quiet(t)
  <2>1. \A s \in Ids : wallet'[s].sync = wallet[s].sync
    BY <1>0, <1>6 DEF CommitReserved, TypeOK, ProposalInv, ReservationHeld, Reserving, SyncNeverLost
  <2>2. QuietThread(t) /\ ~Owning(t)'
    BY <1>6 DEF CommitReserved, Goto, TypeOK, QuietThread, Owning, Reserving, WithOperation,
                ProposalInv, IdsAllocated
  <2> QED BY <1>6, <2>1, <2>2 DEF CommitReserved, Quiet, OnlyCleared
<1>7. ASSUME InsertSubmission(t) PROVE Quiet(t)
  <2>1. QuietThread(t) /\ ~Owning(t)'
    <3>1. Return(t) \/ (Goto(t, "discard") /\ held' = held)
      BY <1>7 DEF InsertSubmission
    <3> QED BY <1>7, <3>1, ReturnQuiet, GotoQuiet DEF InsertSubmission, PCs, WithOperation
  <2> QED BY <1>7, <2>1 DEF InsertSubmission, Quiet, OnlyCleared
<1>8. ASSUME DiscardOperation(t) PROVE Quiet(t)
  <2>1. OnlyCleared
    <3>1. held[t].id # Reserved
      BY <1>0, <1>8, NotReserved DEF DiscardOperation, ProposalInv, IdsAllocated, WithOperation
    <3> QED BY <1>0, <1>8, <3>1, ClearedOwn DEF DiscardOperation, OnlyCleared
  <2> QED BY <1>8, <2>1, ReturnQuiet DEF DiscardOperation, Quiet
<1> QED BY <1>1, <1>2, <1>3, <1>4, <1>5, <1>6, <1>7, <1>8

LEMMA QuietResume ==
  ASSUME SyncInv, NEW t \in Threads, TypeOK'
  PROVE  /\ \A o \in operations : TakeOperation(t, o) => Quiet(t)
         /\ \A o \in operations : CancelOperation(t, o) => Quiet(t)
         /\ \A s \in sessions : CloseSession(t, s) => Quiet(t)
         /\ RunResume(t) => Quiet(t)
         /\ FinishCancel(t) => Quiet(t)
         /\ FinishClose(t) => Quiet(t)
<1> USE DEF SyncInv, registryVars, sessionVars, walletVars, threadVars, allocation, tombstones
<1>0. /\ held[t].session \in Ids /\ held[t].id \in 0..MaxCounter
      /\ held[t].proposed \in Wallets \cup {NoWallet}
  BY OperationTyped DEF TypeOK
<1>a. pc[t] \in WithOperation => held[t].id # Reserved
  BY <1>0, NotReserved DEF ProposalInv, IdsAllocated
<1>b. ASSUME pc[t] \in WithOperation, ClearActive(held[t].session, held[t].id)
      PROVE  OnlyCleared
  BY <1>0, <1>a, <1>b, ClearedOwn
<1>c. ASSUME Owning(t), held' = held, UNCHANGED <<active, offset>>
      PROVE  UpToDate(held[t])'
  BY <1>c DEF ProposalInv, ProposalsUpToDate, UpToDate
<1>1. ASSUME NEW o \in operations, TakeOperation(t, o) PROVE Quiet(t)
  <2>1. CASE o.session \in sessions
    <3>1. pc'[t] = "resume" /\ held'[t] = o /\ o.session < nextId /\ o.id # None /\ o.id < nextId
      BY <1>1, <2>1 DEF TakeOperation, Goto, TypeOK, ProposalInv, IdsAllocated
    <3>2. QuietThread(t)
      BY <1>1, <2>1, <3>1 DEF TakeOperation, Goto, TypeOK, QuietThread, Reserving
    <3>3. UpToDate(held[t])'
      BY <1>1, <3>1 DEF TakeOperation, ProposalInv, ProposalsUpToDate, UpToDate
    <3> QED BY <1>1, <3>2, <3>3 DEF TakeOperation, Quiet, OnlyCleared
  <2>2. CASE o.session \notin sessions
    BY <1>1, <2>2 DEF TakeOperation, Quiet, QuietThread, OnlyCleared, Owning, Reserving, WithOperation
  <2> QED BY <2>1, <2>2
<1>2. ASSUME NEW o \in operations, CancelOperation(t, o) PROVE Quiet(t)
  <2>1. CASE o.session \in sessions
    <3>1. pc'[t] = "cancel" /\ held'[t] = o /\ o.session < nextId /\ o.id # None /\ o.id < nextId
      BY <1>2, <2>1 DEF CancelOperation, Goto, TypeOK, ProposalInv, IdsAllocated
    <3>2. QuietThread(t) /\ ~Owning(t)'
      BY <1>2, <2>1, <3>1 DEF CancelOperation, Goto, TypeOK, QuietThread, Reserving, Owning
    <3> QED BY <1>2, <3>2 DEF CancelOperation, Quiet, OnlyCleared
  <2>2. CASE o.session \notin sessions
    BY <1>2, <2>2 DEF CancelOperation, Quiet, QuietThread, OnlyCleared, Owning, Reserving, WithOperation
  <2> QED BY <2>1, <2>2
<1>3. ASSUME NEW s \in sessions, CloseSession(t, s) PROVE Quiet(t)
  <2>1. pc'[t] = "closing" /\ held'[t].session = s /\ s < nextId
    BY <1>3 DEF CloseSession, Goto, TypeOK, Blank, ProposalInv, IdsAllocated
  <2>2. QuietThread(t) /\ ~Owning(t)'
    BY <1>3, <2>1 DEF CloseSession, Goto, TypeOK, QuietThread, Owning, Reserving, WithOperation
  <2> QED BY <1>3, <2>2 DEF CloseSession, Quiet, OnlyCleared
<1>4. ASSUME ResumeStale(t) PROVE Quiet(t)
  BY <1>4, GotoQuiet DEF ResumeStale, Quiet, OnlyCleared, PCs, WithOperation
<1>5. ASSUME RefuseResult(t) \/ SubmissionStatusUnknown(t) PROVE Quiet(t)
  <2>1. UpToDate(held[t])'
    BY <1>5, <1>c DEF RefuseResult, SubmissionStatusUnknown, Resuming, Owning
  <2> QED BY <1>5, <2>1, GotoQuiet DEF RefuseResult, SubmissionStatusUnknown, Resuming, Quiet,
                                       OnlyCleared, PCs, WithOperation
<1>6. ASSUME SubmissionSettled(t) PROVE Quiet(t)
  BY <1>6, <1>b, ReturnQuiet DEF SubmissionSettled, Resuming, Quiet, WithOperation
<1>7. ASSUME NextRound(t) PROVE Quiet(t)
  <2>1. /\ pc[t] = "resume" /\ pc'[t] = "reinsert"
        /\ \A u \in Threads \ {t} : pc'[u] = pc[u] /\ held'[u] = held[u]
    BY <1>7 DEF NextRound, Resuming, Goto, TypeOK
  <2>2. /\ held'[t].session = held[t].session /\ held'[t].id = held[t].id
        /\ \/ held'[t].proposed = held[t].proposed
           \/ held'[t].proposed = Spent(wallet[held[t].session])
    BY <1>7 DEF NextRound, TypeOK, Operation
  <2>3. QuietThread(t)
    BY <2>1, <2>2 DEF QuietThread, Reserving, WithOperation, ProposalInv, IdsAllocated
  <2>4. Spent(wallet[held[t].session]).sync = offset[held[t].session]
    BY <1>0, WalletsTyped DEF SyncNeverLost, TypeOK
  <2>5. UpToDate(held[t])'
    BY <1>7, <2>1, <2>2, <2>4 DEF NextRound, UpToDate, Owning, ProposalInv, ProposalsUpToDate
  <2> QED BY <1>7, <2>3, <2>5 DEF NextRound, Quiet, OnlyCleared
<1>8. ASSUME CompleteOperation(t) PROVE Quiet(t)
  <2>1. \A s \in Ids : wallet'[s].sync = wallet[s].sync
    <3>1. CASE held[t].proposed = NoWallet
      BY <1>8, <3>1 DEF CompleteOperation
    <3>2. CASE held[t].proposed # NoWallet
      <4>1. held[t].proposed.sync = offset[held[t].session]
        BY <1>8, <3>2 DEF CompleteOperation, Resuming, IsCurrent, ProposalInv,
                          ProposalsUpToDate, Owning, UpToDate
      <4>2. wallet' = [wallet EXCEPT ![held[t].session] = held[t].proposed]
        BY <1>8, <3>2 DEF CompleteOperation
      <4> QED BY <1>0, <4>1, <4>2 DEF TypeOK, SyncNeverLost
    <3> QED BY <3>1, <3>2
  <2> QED BY <1>8, <2>1, <1>b, ReturnQuiet DEF CompleteOperation, Resuming, Quiet, WithOperation
<1>9. ASSUME FailOperation(t) PROVE Quiet(t)
  <2>1. OnlyCleared
    BY <1>9, <1>b DEF FailOperation, Resuming, WithOperation, OnlyCleared
  <2> QED BY <1>9, <2>1, GotoQuiet DEF FailOperation, Resuming, Quiet, PCs, WithOperation
<1>10. ASSUME ReinsertOperation(t) PROVE Quiet(t)
  <2>1. QuietThread(t) /\ ~Owning(t)'
    <3>1. Return(t) \/ (Goto(t, "orphan") /\ held' = held)
      BY <1>10 DEF ReinsertOperation
    <3> QED BY <1>10, <3>1, ReturnQuiet, GotoQuiet DEF ReinsertOperation, PCs, WithOperation
  <2> QED BY <1>10, <2>1 DEF ReinsertOperation, Quiet, OnlyCleared, Owning
<1>11. ASSUME CheckOrphan(t) PROVE Quiet(t)
  <2>1. QuietThread(t) /\ ~Owning(t)'
    <3>1. Return(t) \/ (Goto(t, "release") /\ held' = held)
      BY <1>11 DEF CheckOrphan
    <3> QED BY <1>11, <3>1, ReturnQuiet, GotoQuiet DEF CheckOrphan, PCs, WithOperation
  <2> QED BY <1>11, <2>1 DEF CheckOrphan, Quiet, OnlyCleared
<1>12. ASSUME ReleaseOrphan(t) PROVE Quiet(t)
  BY <1>12, <1>b, ReturnQuiet DEF ReleaseOrphan, Quiet, WithOperation
<1>13. ASSUME FinishCancel(t) PROVE Quiet(t)
  BY <1>13, <1>b, ReturnQuiet DEF FinishCancel, Quiet, WithOperation
<1>14. ASSUME FinishClose(t) PROVE Quiet(t)
  BY <1>14, ReturnQuiet DEF FinishClose, Quiet, OnlyCleared
<1> QED
  BY <1>1, <1>2, <1>3, <1>4, <1>5, <1>6, <1>7, <1>8, <1>9, <1>10, <1>11, <1>12, <1>13, <1>14
  DEF RunResume

-----------------------------------------------------------------------------
(* The five steps that are not quiet                                       *)

LEMMA OpenPreserves ==
  ASSUME SyncInv, TypeOK', NEW c \in Checkpoints, OpenSession(c)
  PROVE  ProposalInv' /\ SyncNeverLost'
<1> USE DEF SyncInv, ProposalInv, registryVars, sessionVars, walletVars, threadVars,
            allocation, tombstones
<1>1. CASE ~CountersLeft(c)
  BY <1>1 DEF OpenSession, SyncNeverLost, IdsAllocated, ReservationHeld, OneReserver,
              ProposalsUpToDate, UpToDate, Reserving, Owning
<1>2. CASE CountersLeft(c)
  <2>1. /\ nextId' = nextId + 1 /\ sessions' = sessions \cup {nextId}
        /\ offset' = [offset EXCEPT ![nextId] = c.offset]
        /\ wallet' = [wallet EXCEPT ![nextId] = [sync |-> c.offset, other |-> 0]]
        /\ active' = [active EXCEPT ![nextId] = None]
        /\ UNCHANGED <<operations, pc, held>>
    BY <1>2 DEF OpenSession
  <2>2. nextId \in Ids
    BY <1>2 DEF CountersLeft, TypeOK, Ids
  <2>3. SyncNeverLost'
    BY <2>1, <2>2 DEF SyncNeverLost, TypeOK
  <2>4. IdsAllocated'
    <3>1. \A o \in operations : o.id \in 0..MaxCounter
      BY OperationTyped DEF TypeOK
    <3>2. \A t \in Threads : held[t].id \in 0..MaxCounter /\ held[t].session \in Ids
      BY OperationTyped DEF TypeOK
    <3>3. sessions \subseteq Ids /\ nextId \in 1..MaxCounter
      BY DEF TypeOK
    <3> QED BY <2>1, <3>1, <3>2, <3>3 DEF IdsAllocated, Ids
  <2>5. \A t \in Threads : Reserving(t) => held[t].session # nextId
    <3> SUFFICES ASSUME NEW t \in Threads, Reserving(t) PROVE held[t].session # nextId
      OBVIOUS
    <3>1. held[t].session < nextId
      BY DEF IdsAllocated, Reserving
    <3>2. held[t].session \in 1..MaxCounter /\ nextId \in 1..MaxCounter
      BY OperationTyped DEF TypeOK, Ids
    <3> QED BY <3>1, <3>2
  <2>6. ReservationHeld' /\ OneReserver'
    BY <2>1, <2>2, <2>5 DEF ReservationHeld, OneReserver, Reserving, TypeOK
  <2>7. ASSUME NEW o \in Operation, UpToDate(o), o.id # None
        PROVE  UpToDate(o)'
    BY <2>1, <2>2, <2>7, OperationTyped DEF UpToDate, TypeOK, None
  <2>8. ProposalsUpToDate'
    <3>1. \A o \in operations : o \in Operation /\ o.id # None /\ UpToDate(o)
      BY DEF IdsAllocated, ProposalsUpToDate, TypeOK
    <3>2. \A t \in Threads : Owning(t) => held[t] \in Operation /\ held[t].id # None /\ UpToDate(held[t])
      BY DEF IdsAllocated, ProposalsUpToDate, TypeOK, Owning, WithOperation
    <3>3. operations' = operations /\ \A t \in Threads : Owning(t)' = Owning(t) /\ held'[t] = held[t]
      BY <2>1 DEF Owning
    <3>4. \A t \in Threads : Owning(t)' => UpToDate(held[t])'
      <4> SUFFICES ASSUME NEW t \in Threads, Owning(t)' PROVE UpToDate(held[t])'
        OBVIOUS
      <4> QED BY <3>2, <3>3, <2>7 DEF UpToDate
    <3> QED BY <3>1, <3>3, <3>4, <2>7 DEF ProposalsUpToDate
  <2> QED BY <2>3, <2>4, <2>6, <2>8
<1> QED BY <1>1, <1>2

LEMMA SyncPreserves ==
  ASSUME SyncInv, TypeOK', NEW t \in Threads, ApplySyncBatch(t)
  PROVE  ProposalInv' /\ SyncNeverLost'
<1> USE DEF SyncInv, ProposalInv, registryVars, sessionVars, walletVars, threadVars,
            allocation, tombstones
<1> DEFINE s == held[t].session
<1>1. /\ s \in Ids /\ active[s] = None
      /\ offset' = [offset EXCEPT ![s] = @ + 1]
      /\ wallet' = [wallet EXCEPT ![s] = Synced(@)]
      /\ UNCHANGED <<nextId, sessions, operations, active>>
  BY OperationTyped DEF ApplySyncBatch, TypeOK
<1>2. QuietThread(t) /\ ~Owning(t)' /\ ~Reserving(t)'
  BY ReturnQuiet DEF ApplySyncBatch
<1>3. SyncNeverLost'
  BY <1>1, WalletsTyped DEF SyncNeverLost, TypeOK
<1>4. IdsAllocated'
  BY <1>1, <1>2 DEF IdsAllocated, QuietThread, WithOperation
<1>5. \A u \in Threads : Reserving(u)' => Reserving(u) /\ held'[u] = held[u] /\ pc'[u] = pc[u]
  BY <1>2 DEF QuietThread, Reserving
<1>6. \A u \in Threads : Reserving(u) => held[u].session # s
  BY <1>1 DEF ReservationHeld, Reserved, None
<1>7. ReservationHeld' /\ OneReserver'
  <2>1. OneReserver'
    BY <1>5 DEF OneReserver
  <2>2. ASSUME NEW u \in Threads, pc'[u] \in {"run", "register"} PROVE held'[u].proposed = NoWallet
    BY <1>2, <2>2 DEF ReservationHeld, QuietThread
  <2>3. ASSUME NEW u \in Threads, Reserving(u)'
        PROVE  Reserving(u) /\ held'[u] = held[u] /\ held[u].session # s
    BY ONLY <1>5, <1>6, <2>3
  <2>4. ASSUME NEW u \in Threads, Reserving(u)'
        PROVE  /\ held'[u] = held[u] /\ held[u].session \in Ids \ {s}
               /\ active'[held[u].session] = active[held[u].session]
               /\ offset'[held[u].session] = offset[held[u].session]
    <3>1. held[u].session \in Ids
      BY OperationTyped DEF TypeOK
    <3> QED BY <1>1, <2>3, <2>4, <3>1 DEF TypeOK
  <2>5. ASSUME NEW u \in Threads, Reserving(u)'
        PROVE  /\ active'[held'[u].session] = Reserved
               /\ held'[u].proposed # NoWallet /\ pc'[u] = "proving"
                    => held'[u].proposed.sync = offset'[held'[u].session]
    BY ONLY <1>5, <2>3, <2>4, <2>5, ReservationHeld DEF ReservationHeld
  <2> QED BY <2>1, <2>2, <2>5 DEF ReservationHeld
<1>8. ASSUME NEW o \in Operation, UpToDate(o), o.id # None
      PROVE  UpToDate(o)'
  BY <1>1, <1>8, OperationTyped DEF UpToDate, TypeOK
<1>9. ProposalsUpToDate'
  <2>1. \A o \in operations : o \in Operation /\ o.id # None /\ UpToDate(o)
    BY DEF IdsAllocated, ProposalsUpToDate, TypeOK
  <2>2. ASSUME NEW u \in Threads, Owning(u)' PROVE UpToDate(held[u])'
    <3>1. Owning(u) /\ held'[u] = held[u]
      BY <1>2, <2>2 DEF QuietThread, Owning
    <3>2. held[u] \in Operation /\ held[u].id # None /\ UpToDate(held[u])
      BY <3>1 DEF IdsAllocated, ProposalsUpToDate, TypeOK, Owning, WithOperation
    <3> QED BY <3>1, <3>2, <1>8 DEF UpToDate
  <2> QED BY <1>1, <1>8, <2>1, <2>2 DEF ProposalsUpToDate
<1> QED BY <1>3, <1>4, <1>7, <1>9

LEMMA ReservePreserves ==
  ASSUME SyncInv, TypeOK', NEW t \in Threads, NEW kind \in Kinds,
         NEW w \in Wallets \cup {NoWallet}, Reserve(t, kind, w), pc[t] = "run",
         w # NoWallet => w.sync = offset[held[t].session]
  PROVE  ProposalInv' /\ SyncNeverLost'
<1> USE DEF SyncInv, ProposalInv, registryVars, sessionVars, walletVars, threadVars,
            allocation, tombstones
<1> DEFINE s == held[t].session
<1>1. /\ s \in Ids /\ active[s] = None /\ pc'[t] = "proving"
      /\ active' = [active EXCEPT ![s] = Reserved]
      /\ UNCHANGED <<nextId, sessions, operations, offset, wallet>>
      /\ \A u \in Threads \ {t} : pc'[u] = pc[u] /\ held'[u] = held[u]
  BY OperationTyped DEF Reserve, Goto, TypeOK
<1>2. held'[t].session = s /\ held'[t].proposed = w /\ s < nextId
  BY DEF Reserve, TypeOK, Operation, IdsAllocated
<1>3. SyncNeverLost'
  BY <1>1 DEF SyncNeverLost
<1>4. IdsAllocated'
  BY <1>1, <1>2 DEF IdsAllocated, WithOperation
<1>5. \A u \in Threads : Reserving(u) => held[u].session # s
  BY <1>1 DEF ReservationHeld, Reserved, None
<1>6. \A u \in Threads \ {t} : Reserving(u)' => Reserving(u)
  BY <1>1 DEF Reserving
<1>7. ReservationHeld' /\ OneReserver'
  <2>1. ReservationHeld'
    <3> SUFFICES ASSUME NEW u \in Threads, Reserving(u)'
                 PROVE  /\ active'[held'[u].session] = Reserved
                        /\ held'[u].proposed # NoWallet /\ pc'[u] = "proving"
                             => held'[u].proposed.sync = offset'[held'[u].session]
      BY <1>1, <1>2 DEF ReservationHeld
    <3>1. CASE u = t
      BY <1>1, <1>2, <3>1 DEF TypeOK
    <3>2. CASE u # t
      BY <1>1, <1>5, <1>6, <3>2 DEF TypeOK, ReservationHeld
    <3> QED BY <3>1, <3>2
  <2>2. OneReserver'
    BY <1>1, <1>2, <1>5, <1>6 DEF OneReserver
  <2> QED BY <2>1, <2>2
<1>8. ASSUME NEW o \in Operation, UpToDate(o), o.id < nextId
      PROVE  UpToDate(o)'
  <2>1. o.id # Reserved
    BY <1>8, OperationTyped, NotReserved
  <2> QED BY <1>1, <1>8, <2>1, OperationTyped DEF UpToDate, TypeOK
<1>9. ProposalsUpToDate'
  <2>1. \A o \in operations : o \in Operation /\ o.id < nextId /\ UpToDate(o)
    BY DEF IdsAllocated, ProposalsUpToDate, TypeOK
  <2>2. ASSUME NEW u \in Threads, Owning(u)' PROVE UpToDate(held[u])'
    <3>1. Owning(u) /\ held'[u] = held[u]
      BY <1>1, <2>2 DEF Owning
    <3>2. held[u] \in Operation /\ held[u].id < nextId /\ UpToDate(held[u])
      BY <3>1 DEF IdsAllocated, ProposalsUpToDate, TypeOK, Owning, WithOperation
    <3> QED BY <3>1, <3>2, <1>8 DEF UpToDate
  <2> QED BY <1>1, <1>8, <2>1, <2>2 DEF ProposalsUpToDate
<1> QED BY <1>3, <1>4, <1>7, <1>9

LEMMA RegisterPreserves ==
  ASSUME SyncInv, TypeOK', NEW t \in Threads, NEW kind \in Kinds \cup Commands \cup {"none"},
         NEW next \in {"idle", "insert"}, Register(t, kind, next),
         \/ CanRegister(held[t].session, None) /\ pc[t] = "register"
         \/ CanRegister(held[t].session, Reserved) /\ pc[t] = "proving"
  PROVE  ProposalInv' /\ SyncNeverLost'
<1> USE DEF SyncInv, ProposalInv, registryVars, sessionVars, walletVars, threadVars,
            allocation, tombstones
<1> DEFINE s == held[t].session
<1>1. /\ s \in Ids /\ nextId < MaxCounter /\ nextId \in 1..MaxCounter
      /\ held[t].id \in 0..MaxCounter /\ s < nextId
  BY OperationTyped DEF CanRegister, TypeOK, IdsAllocated
<1>2. PICK o \in Operation : /\ o = [held[t] EXCEPT !.id = nextId, !.kind = kind]
                            /\ o.id = nextId /\ o.session = s /\ o.proposed = held[t].proposed
  <2>1. held[t] \in Operation /\ nextId \in 0..MaxCounter
    BY DEF TypeOK
  <2>2. [held[t] EXCEPT !.id = nextId, !.kind = kind] \in Operation
    BY <1>1, <2>1, OperationChanged
  <2> QED BY <2>1, <2>2 DEF Operation
<1>3. /\ nextId' = nextId + 1 /\ operations' = operations \cup {o}
      /\ active' = [active EXCEPT ![s] = nextId]
      /\ pc'[t] = next
      /\ next = "insert" => held'[t] = o
      /\ UNCHANGED <<sessions, offset, wallet>>
      /\ \A u \in Threads \ {t} : pc'[u] = pc[u] /\ held'[u] = held[u]
  BY <1>2 DEF Register, Goto, TypeOK
<1>4. SyncNeverLost'
  BY <1>3 DEF SyncNeverLost
<1>5. IdsAllocated'
  <2>1. \A p \in operations : p.id \in 0..MaxCounter
    BY OperationTyped DEF TypeOK
  <2>2. \A u \in Threads : held[u].id \in 0..MaxCounter /\ held[u].session \in Ids
    BY OperationTyped DEF TypeOK
  <2>3. sessions \subseteq Ids
    BY DEF TypeOK
  <2>0. o.id = nextId /\ o.session = s
    BY <1>2
  <2>6. nextId \in Nat /\ nextId # None /\ nextId < nextId'
    BY ONLY <1>1, <1>3, CounterAssumption DEF None
  <2>7. (\A r \in sessions : r \in Nat) /\ (\A p \in operations : p.id \in Nat)
    BY ONLY <2>1, <2>3, CounterAssumption DEF Ids
  <2>8. \A r \in sessions : r < nextId'
    BY <1>3, <2>6, <2>7 DEF IdsAllocated
  <2>9. \A p \in operations : p.id # None /\ p.id < nextId'
    BY <1>3, <2>6, <2>7 DEF IdsAllocated
  <2>4. /\ \A r \in sessions' : r < nextId'
        /\ \A p \in operations' : p.id # None /\ p.id < nextId'
    BY ONLY <1>3, <2>0, <2>6, <2>8, <2>9
  <2>5. ASSUME NEW u \in Threads
        PROVE  /\ pc'[u] # "idle" => held'[u].session < nextId'
               /\ pc'[u] \in WithOperation => held'[u].id # None /\ held'[u].id < nextId'
    <3>1. CASE u = t
      BY <1>1, <1>3, <2>0, <3>1 DEF None, WithOperation, Ids
    <3>2. CASE u # t
      BY <1>1, <1>3, <2>2, <3>2 DEF IdsAllocated, Ids
    <3> QED BY <3>1, <3>2
  <2> QED BY <2>4, <2>5 DEF IdsAllocated
<1>6. \A u \in Threads \ {t} : Reserving(u) => held[u].session # s
  BY DEF ReservationHeld, OneReserver, CanRegister, Reserving, Reserved, None
<1>7. \A u \in Threads : Reserving(u)' => u # t /\ Reserving(u) /\ held'[u] = held[u] /\ pc'[u] = pc[u]
  BY <1>3 DEF Reserving
<1>8. ReservationHeld' /\ OneReserver'
  <2>1. OneReserver'
    BY <1>7 DEF OneReserver
  <2> QED BY <1>3, <1>6, <1>7, <2>1 DEF ReservationHeld, TypeOK
<1>9. ASSUME NEW p \in Operation, UpToDate(p), p.id < nextId
      PROVE  UpToDate(p)'
  <2>1. p.id # nextId
    BY <1>1, <1>9, OperationTyped
  <2> QED BY <1>3, <1>9, <2>1, OperationTyped DEF UpToDate, TypeOK
<1>10. UpToDate(o)'
  <2>1. held[t].proposed # NoWallet => held[t].proposed.sync = offset[s]
    BY DEF ReservationHeld, Reserving
  <2>2. o.proposed # NoWallet => o.proposed.sync = offset'[o.session]
    BY <1>2, <1>3, <2>1
  <2> QED BY <2>2 DEF UpToDate
<1>11. ProposalsUpToDate'
  <2>1. \A p \in operations : p \in Operation /\ p.id < nextId /\ UpToDate(p)
    BY DEF IdsAllocated, ProposalsUpToDate, TypeOK
  <2>2. ASSUME NEW u \in Threads, Owning(u)' PROVE UpToDate(held[u])'
    <3>1. Owning(u) /\ held'[u] = held[u]
      BY <1>3, <2>2 DEF Owning
    <3>2. held[u] \in Operation /\ held[u].id < nextId /\ UpToDate(held[u])
      BY <3>1 DEF IdsAllocated, ProposalsUpToDate, TypeOK, Owning, WithOperation
    <3> QED BY <3>1, <3>2, <1>9 DEF UpToDate
  <2> QED BY <1>3, <1>9, <1>10, <2>1, <2>2 DEF ProposalsUpToDate
<1> QED BY <1>4, <1>5, <1>8, <1>11

LEMMA UnreservePreserves ==
  ASSUME SyncInv, TypeOK', NEW t \in Threads, Unreserve(t)
  PROVE  ProposalInv' /\ SyncNeverLost'
<1> USE DEF SyncInv, ProposalInv, registryVars, sessionVars, walletVars, threadVars,
            allocation, tombstones
<1> DEFINE s == held[t].session
<1>1. /\ s \in Ids /\ Reserving(t)
      /\ active' = [active EXCEPT ![s] = None]
      /\ UNCHANGED <<nextId, sessions, operations, offset, wallet>>
  BY OperationTyped DEF Unreserve, TypeOK, ClearActive, Reserving, ReservationHeld
<1>2. QuietThread(t) /\ ~Owning(t)' /\ ~Reserving(t)'
  BY ReturnQuiet DEF Unreserve
<1>3. SyncNeverLost'
  BY <1>1 DEF SyncNeverLost
<1>4. IdsAllocated'
  BY <1>1, <1>2 DEF IdsAllocated, QuietThread
<1>5. \A u \in Threads : Reserving(u)' =>
        u # t /\ Reserving(u) /\ held'[u] = held[u] /\ pc'[u] = pc[u]
  BY <1>2 DEF QuietThread, Reserving
<1>6. \A u \in Threads \ {t} : Reserving(u) => held[u].session # s
  BY <1>1 DEF OneReserver
<1>7. ReservationHeld' /\ OneReserver'
  <2>1. OneReserver'
    BY <1>5 DEF OneReserver
  <2>2. ASSUME NEW u \in Threads, Reserving(u)'
        PROVE  /\ active'[held'[u].session] = Reserved
               /\ held'[u].proposed # NoWallet /\ pc'[u] = "proving"
                    => held'[u].proposed.sync = offset'[held'[u].session]
    <3>1. u # t /\ Reserving(u) /\ held'[u] = held[u] /\ pc'[u] = pc[u] /\ held[u].session # s
      BY <1>5, <1>6, <2>2
    <3>2. active'[held[u].session] = active[held[u].session]
      BY <1>1, <3>1, OperationTyped DEF TypeOK
    <3> QED BY <1>1, <3>1, <3>2 DEF ReservationHeld
  <2>3. ASSUME NEW u \in Threads, pc'[u] \in {"run", "register"}
        PROVE  held'[u].proposed = NoWallet
    BY <1>2, <2>3 DEF ReservationHeld, QuietThread
  <2> QED BY <2>1, <2>2, <2>3 DEF ReservationHeld
<1>8. ASSUME NEW o \in Operation, UpToDate(o), o.id # None
      PROVE  UpToDate(o)'
  BY <1>1, <1>8, OperationTyped DEF UpToDate, TypeOK
<1>9. ProposalsUpToDate'
  <2>1. \A o \in operations : o \in Operation /\ o.id # None /\ UpToDate(o)
    BY DEF IdsAllocated, ProposalsUpToDate, TypeOK
  <2>2. ASSUME NEW u \in Threads, Owning(u)' PROVE UpToDate(held[u])'
    <3>1. Owning(u) /\ held'[u] = held[u]
      BY <1>2, <2>2 DEF QuietThread, Owning
    <3>2. held[u] \in Operation /\ held[u].id # None /\ UpToDate(held[u])
      BY <3>1 DEF IdsAllocated, ProposalsUpToDate, TypeOK, Owning, WithOperation
    <3> QED BY <3>1, <3>2, <1>8 DEF UpToDate
  <2> QED BY <1>1, <1>8, <2>1, <2>2 DEF ProposalsUpToDate
<1> QED BY <1>3, <1>4, <1>7, <1>9

-----------------------------------------------------------------------------
LEMMA SyncInvInit == Init => SyncInv
<1> SUFFICES ASSUME Init PROVE SyncInv
  OBVIOUS
<1>1. TypeOK
  BY InitTyped
<1>2. SyncNeverLost
  BY DEF Init, SyncNeverLost
<1>3. ProposalInv
  BY DEF Init, ProposalInv, IdsAllocated, ReservationHeld, OneReserver, ProposalsUpToDate,
         Reserving, Owning, WithOperation
<1> QED BY <1>1, <1>2, <1>3 DEF SyncInv

LEMMA SyncInvStep == SyncInv /\ [Next]_vars => SyncInv'
<1> SUFFICES ASSUME SyncInv, [Next]_vars PROVE ProposalInv' /\ SyncNeverLost'
  BY StepTyped DEF SyncInv
<1>1. TypeOK'
  BY StepTyped DEF SyncInv
<1>2. ASSUME NEW t \in Threads, Quiet(t) PROVE ProposalInv' /\ SyncNeverLost'
  BY <1>1, <1>2, QuietPreserves
<1>3. ASSUME NEW t \in Threads, BeginCall(t) PROVE ProposalInv' /\ SyncNeverLost'
  BY <1>1, <1>2, <1>3, QuietAction DEF BeginCall, Commands
<1>4. ASSUME NEW t \in Threads, RunCommand(t) PROVE ProposalInv' /\ SyncNeverLost'
  <2>1. /\ held[t].session \in Ids /\ held[t].kind \in Kinds \cup Commands \cup {"none"}
        /\ Spent(wallet[held[t].session]) \in Wallets
        /\ Spent(wallet[held[t].session]).sync = offset[held[t].session]
    BY OperationTyped, WalletsTyped DEF SyncInv, TypeOK, SyncNeverLost
  <2>2. ASSUME \/ ReserveGenerateDust(t) \/ ReserveTransfer(t) \/ ReserveFinalizeUnproven(t)
        PROVE  ProposalInv' /\ SyncNeverLost'
    <3>1. pc[t] = "run"
      BY <2>2 DEF ReserveGenerateDust, ReserveTransfer, ReserveFinalizeUnproven, Running
    <3>2. "generateDustProof" \in Kinds /\ "transactionProof" \in Kinds
      BY DEF Kinds, ProofKinds
    <3> QED
      BY <1>1, <2>1, <2>2, <3>1, <3>2, ReservePreserves
      DEF ReserveGenerateDust, ReserveTransfer, ReserveFinalizeUnproven
  <2>3. ASSUME RegisterUnreserved(t) \/ RegisterReserved(t)
        PROVE  ProposalInv' /\ SyncNeverLost'
    BY <1>1, <2>1, <2>3, RegisterPreserves DEF RegisterUnreserved, RegisterReserved, Kinds, ProofKinds
  <2>4. WatchShieldedMint(t) \/ UpdateWallet(t) \/ GenerateDustAtOnce(t) => Quiet(t)
    BY <1>1, QuietAction DEF WatchShieldedMint, UpdateWallet, GenerateDustAtOnce
  <2>5. \/ CommandFails(t) \/ BeginUnreserved(t) \/ BeginSubmit(t) \/ RegisterFails(t)
        \/ CommitReserved(t) \/ InsertSubmission(t) \/ DiscardOperation(t)
        => Quiet(t)
    BY <1>1, QuietAction
  <2> QED
    BY <1>1, <1>2, <1>4, <2>2, <2>3, <2>4, <2>5, SyncPreserves, UnreservePreserves DEF RunCommand
<1>5. ASSUME NEW t \in Threads, Continue(t) PROVE ProposalInv' /\ SyncNeverLost'
  BY <1>1, <1>2, <1>4, <1>5, QuietResume DEF Continue
<1>6. ASSUME NEW t \in Threads,
             \/ \E o \in operations : TakeOperation(t, o) \/ CancelOperation(t, o)
             \/ \E s \in sessions : CloseSession(t, s)
      PROVE  ProposalInv' /\ SyncNeverLost'
  BY <1>1, <1>2, <1>6, QuietResume
<1>7. ASSUME UNCHANGED <<nextId, sessions, operations, wallet, offset, active, pc, held>>
      PROVE  ProposalInv' /\ SyncNeverLost'
  BY <1>7 DEF SyncInv, ProposalInv, SyncNeverLost, IdsAllocated, ReservationHeld, OneReserver,
              ProposalsUpToDate, UpToDate, Reserving, Owning
<1>8. ASSUME NEW k \in cancelledOperations, ResumeCancelled(k)
      PROVE  ProposalInv' /\ SyncNeverLost'
  BY <1>7, <1>8 DEF ResumeCancelled, allocation, sessionVars, threadVars
<1>9. CASE UNCHANGED vars
  BY <1>7, <1>9 DEF vars, registryVars, sessionVars, threadVars
<1>10. CASE Next
  BY <1>1, <1>3, <1>5, <1>6, <1>8, <1>10, OpenPreserves DEF Next
<1> QED BY <1>9, <1>10

\* No sync batch is ever lost, however calls interleave and whatever the clients do: every
\* wallet includes exactly the batches its session's offset counts.
THEOREM SyncIsNeverLost == Spec => []SyncNeverLost
<1>1. SyncInv => SyncNeverLost
  BY DEF SyncInv
<1> QED BY <1>1, SyncInvInit, SyncInvStep, PTL DEF Spec

\* Why: a proposal stays up to date for as long as its session waits for it, and no two
\* running calls have reserved the same session.
THEOREM ProposalsStayUpToDate == Spec => []ProposalInv
<1>1. SyncInv => ProposalInv
  BY DEF SyncInv
<1> QED BY <1>1, SyncInvInit, SyncInvStep, PTL DEF Spec

=============================================================================
