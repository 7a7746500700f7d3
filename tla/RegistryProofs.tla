---------------------------- MODULE RegistryProofs ----------------------------
(***************************************************************************)
(* What the registry of OperationLifecycle promises about operations, for  *)
(* any number of threads, sessions and hashes: cancelled operations stay   *)
(* cancelled, submission statuses move forward, a busy session has an      *)
(* owner, generations are fresh, a registered operation is the one its     *)
(* session waits for, a submission that awaits has an operation, and no    *)
(* reported wallet change is lost.                                         *)
(***************************************************************************)
EXTENDS OperationLifecycleProofs

Same(t) == \A u \in Threads \ {t} : pc'[u] = pc[u] /\ held'[u] = held[u]

-----------------------------------------------------------------------------
(* What a call holds at each of its places *)

Submits(o) == o.kind = "submitFinalized"
WellFormed(o) == o.kind \in Kinds /\ (Submits(o) => o.hash \in Hashes)

Right(p, o) ==
  /\ p = "run" => o.kind \in Commands /\ (o.kind = "submit" => o.hash \in Hashes)
  /\ p \in {"register"} \cup WithOperation \cup {"proving", "unreserve"} => WellFormed(o)
  /\ p \in {"proving", "unreserve"} => ~Submits(o)
  /\ p \in {"insert", "discard"} => Submits(o)

KindsRight ==
  /\ \A o \in operations : WellFormed(o) /\ o.session < nextId
  /\ \A t \in Threads : Right(pc[t], held[t])

Base == SyncInv /\ KindsRight

LEMMA KindsInit == Init => KindsRight
BY DEF Init, KindsRight, Right, WithOperation

LEMMA ReturnRight ==
  ASSUME TypeOK, NEW t \in Threads, Return(t)
  PROVE  Same(t) /\ Right(pc'[t], held'[t])
BY DEF TypeOK, Return, Goto, Same, Right, WithOperation

\* a call moves on with what it has
LEMMA GotoRight ==
  ASSUME TypeOK, NEW t \in Threads, NEW next, Goto(t, next), held' = held,
         Right(pc[t], held[t]), pc[t] \in {"register"} \cup WithOperation \cup {"proving", "unreserve"},
         next \in {"discard"} => pc[t] = "insert",
         next \in {"unreserve"} => pc[t] = "proving",
         next \notin {"run", "insert", "proving"}
  PROVE  Same(t) /\ Right(pc'[t], held'[t])
<1>1. pc'[t] = next /\ held'[t] = held[t] /\ Same(t)
  BY DEF TypeOK, Goto, Same
<1> QED BY <1>1 DEF Right, WithOperation

LEMMA KindsThread ==
  ASSUME TypeOK, TypeOK', KindsRight, nextId' >= nextId, NEW t \in Threads, Same(t), Right(pc'[t], held'[t]),
         \A o \in operations' : o \in operations \/ (WellFormed(o) /\ o.session < nextId')
  PROVE  KindsRight'
<1>1. \A o \in operations' : WellFormed(o) /\ o.session < nextId'
  <2>1. \A o \in operations : o.session \in Nat
    BY OperationTyped DEF TypeOK, Ids
  <2>2. nextId \in Nat
    BY DEF TypeOK
  <2> QED BY <2>1, <2>2 DEF KindsRight, TypeOK
<1>2. \A u \in Threads : Right(pc'[u], held'[u])
  BY DEF KindsRight, Same
<1> QED BY <1>1, <1>2 DEF KindsRight, WellFormed, Submits, Right, WithOperation

-----------------------------------------------------------------------------
(* The steps, by what they do to the operations                            *)

Making(t)   == pc[t] \in {"insert", "discard"}
Carrying(t) == pc[t] \in {"resume", "reinsert", "refuse", "cancel"}
Late(t)     == pc[t] \in {"orphan", "release"}

Alike(o, p) ==
  /\ o.id = p.id /\ o.session = p.session /\ o.generation = p.generation /\ o.hash = p.hash
  /\ Submits(o) <=> Submits(p)

\* a submission is told to its host
Delivers(t) ==
  /\ pc[t] = "insert" /\ pc'[t] = "idle"
  /\ pending[held[t].session][held[t].hash] = "absent"
  /\ pending' = [pending EXCEPT ![held[t].session][held[t].hash] = "awaiting"]

\* what a call proposes is planned from the wallet as it is
Plans(t) ==
  /\ held'[t].session = held[t].session
  /\ held'[t].proposed \in {NoWallet, Spent(wallet[held[t].session])}
  /\ acknowledged' = acknowledged

\* a call goes on, and holds what it held or nothing
Moves(t) ==
  /\ Same(t) /\ Right(pc'[t], held'[t])
  /\ operations' = operations /\ nextId' = nextId /\ cancelledOperations' = cancelledOperations
  /\ pc[t] # "cancel" \/ pc'[t] = "idle"
  /\ Making(t)' => Making(t) /\ held'[t] = held[t]
  /\ Making(t) => Making(t)' \/ Delivers(t)
  /\ Carrying(t)' => Owning(t) /\ Owning(t)' /\ Alike(held'[t], held[t])
  /\ Late(t)' => (Late(t) \/ Owning(t)) /\ held'[t] = held[t]
  /\ pc'[t] \in {"reinsert", "refuse"} => IsCurrent(t) /\ active' = active
  /\ pc'[t] \notin {"resume", "closing"}
  /\ pc'[t] = "release" => \A o \in operations : o.id # held[t].id
  /\ pc'[t] = "proving" => Plans(t)
  /\ Owning(t)' => held'[t].proposed = held[t].proposed \/ Plans(t)

\* a call registers a new operation
Registers(t, o) ==
  /\ Same(t) /\ pc[t] \in {"register", "proving"}
  /\ o.id = nextId /\ o.session = held[t].session /\ o.proposed = held[t].proposed
  /\ WellFormed(o)
  /\ CanRegister(o.session, IF pc[t] = "proving" THEN Reserved ELSE None)
  /\ operations' = operations \cup {o} /\ nextId' = nextId + 1
  /\ active' = [active EXCEPT ![o.session] = o.id]
  /\ cancelledOperations' = cancelledOperations
  /\ \/ pc'[t] = "idle" /\ ~Submits(o) /\ held'[t] = Blank
     \/ pc'[t] = "insert" /\ Submits(o) /\ held'[t] = o

\* a call takes an operation out, to resume or to cancel it
Takes(t, o) ==
  /\ Same(t) /\ pc[t] = "idle" /\ Issued(o)
  /\ operations' = operations \ {o} /\ nextId' = nextId
  /\ \/ /\ pc'[t] = "idle" /\ held'[t] = held[t] /\ o.session \notin sessions
        /\ cancelledOperations' \subseteq cancelledOperations \cup {Key(o)}
     \/ /\ pc'[t] = "resume" /\ held'[t] = o /\ MayResume(o)
        /\ cancelledOperations' = cancelledOperations
     \/ /\ pc'[t] = "cancel" /\ held'[t] = o
        /\ cancelledOperations' \subseteq cancelledOperations \cup {Key(o)}

PutsBack(t) ==
  /\ Same(t) /\ pc[t] \in {"reinsert", "refuse"}
  /\ operations' = operations \cup {held[t]} /\ nextId' = nextId
  /\ cancelledOperations' = cancelledOperations
  /\ \/ pc'[t] = "idle" /\ held'[t] = Blank
     \/ pc'[t] = "orphan" /\ held'[t] = held[t]

Discards(t) ==
  /\ Same(t) /\ pc[t] = "discard" /\ pc'[t] = "idle" /\ held'[t] = Blank
  /\ operations' = operations \ {held[t]} /\ nextId' = nextId
  /\ cancelledOperations' = cancelledOperations

Closes(t, s) ==
  /\ Same(t) /\ pc[t] = "idle" /\ pc'[t] = "closing" /\ s \notin sessions'
  /\ operations' = {o \in operations : o.session # s} /\ nextId' = nextId
  /\ cancelledOperations' \subseteq cancelledOperations

\* no operation and no call moves
Rests ==
  /\ UNCHANGED <<operations, pc, held>> /\ nextId' >= nextId
  /\ cancelledOperations' \subseteq cancelledOperations

LEMMA CommandClass ==
  ASSUME Base, TypeOK', NEW t \in Threads, RunCommand(t)
  PROVE  \/ Moves(t)
         \/ \E o \in Operation : Registers(t, o)
         \/ Discards(t)
<1> USE DEF registryVars, sessionVars, walletVars, allocation, tombstones
<1>0. /\ TypeOK /\ KindsRight /\ Right(pc[t], held[t]) /\ held[t] \in Operation
      /\ nextId \in 0..MaxCounter
  BY DEF Base, SyncInv, KindsRight, TypeOK
<1> DEFINE Keeps == /\ operations' = operations /\ nextId' = nextId
                    /\ cancelledOperations' = cancelledOperations
<1>1. ASSUME Keeps, Return(t), Making(t) => Delivers(t) PROVE Moves(t)
  <2>1. Same(t) /\ Right(pc'[t], held'[t]) /\ pc'[t] = "idle"
    BY <1>0, <1>1, ReturnRight DEF Return, Goto, TypeOK
  <2> QED BY <1>1, <2>1 DEF Moves, Making, Carrying, Late, Owning
<1>2. CommandFails(t) \/ ApplySyncBatch(t) \/ RegisterFails(t) \/ Unreserve(t) => Moves(t)
  BY <1>1 DEF CommandFails, ApplySyncBatch, RegisterFails, Unreserve, Making, Running
<1>3. WatchShieldedMint(t) \/ UpdateWallet(t) \/ GenerateDustAtOnce(t) => Moves(t)
  BY <1>1 DEF WatchShieldedMint, UpdateWallet, GenerateDustAtOnce, ChangeWallet, Making, Running
<1>4. ASSUME NEW kind \in ProofKinds, NEW w \in {NoWallet, Spent(wallet[held[t].session])},
             Reserve(t, kind, w), pc[t] = "run"
      PROVE  Moves(t)
  <2>1. /\ Same(t) /\ pc'[t] = "proving" /\ held'[t].kind = kind /\ held'[t].hash = held[t].hash
        /\ held'[t].session = held[t].session /\ held'[t].proposed = w
    BY <1>0, <1>4 DEF Reserve, Goto, Same, TypeOK, Operation
  <2>2. Right(pc'[t], held'[t])
    BY <2>1 DEF Right, WellFormed, Submits, Kinds, ProofKinds, WithOperation
  <2>3. Plans(t)
    BY <1>4, <2>1 DEF Reserve, Plans
  <2> QED BY <1>4, <2>1, <2>2, <2>3 DEF Reserve, Moves, Making, Carrying, Late, Owning
<1>5. ReserveGenerateDust(t) \/ ReserveTransfer(t) \/ ReserveFinalizeUnproven(t) => Moves(t)
  BY <1>4 DEF ReserveGenerateDust, ReserveTransfer, ReserveFinalizeUnproven, Running, ProofKinds
<1>6. ASSUME BeginUnreserved(t) \/ BeginSubmit(t) PROVE Moves(t)
  <2>1. /\ DOMAIN Begins = {"dappIntent", "balanceCommand", "extensionCommand"}
        /\ Begins["dappIntent"] = "dappIntentProof" /\ Begins["balanceCommand"] = "balance"
        /\ Begins["extensionCommand"] = "extension"
    BY DEF Begins
  <2>2. /\ Same(t) /\ pc'[t] = "register" /\ pc[t] = "run" /\ held'[t].hash = held[t].hash
        /\ \/ held'[t].kind \in {"dappIntentProof", "balance", "extension"}
           \/ held'[t].kind = "submitFinalized" /\ held[t].kind = "submit"
    BY <1>0, <1>6, <2>1 DEF BeginUnreserved, BeginSubmit, Running, Goto, Same, TypeOK, Operation
  <2>3. Right(pc'[t], held'[t])
    BY <1>0, <2>2 DEF Right, WellFormed, Submits, Kinds, ProofKinds, WithOperation
  <2> QED BY <1>6, <2>2, <2>3 DEF BeginUnreserved, BeginSubmit, Moves, Making, Carrying, Late, Owning
<1>7. ASSUME NEW kind \in Kinds, NEW next \in {"idle", "insert"}, NEW expected,
             CanRegister(held[t].session, expected), Register(t, kind, next),
             \/ pc[t] = "register" /\ expected = None /\ kind = held[t].kind
             \/ pc[t] = "proving" /\ expected = Reserved /\ next = "idle",
             kind = "submitFinalized" <=> next = "insert"
      PROVE  \E o \in Operation : Registers(t, o)
  <2> DEFINE o == [held[t] EXCEPT !.id = nextId, !.kind = kind]
  <2>1. o \in Operation
    BY <1>0, OperationChanged
  <2>2. /\ o.id = nextId /\ o.session = held[t].session /\ o.kind = kind /\ o.hash = held[t].hash
        /\ o.proposed = held[t].proposed
    BY <1>0 DEF Operation
  <2>3. /\ operations' = operations \cup {o} /\ nextId' = nextId + 1
        /\ cancelledOperations' = cancelledOperations /\ Same(t) /\ pc'[t] = next
        /\ active' = [active EXCEPT ![held[t].session] = nextId]
        /\ held'[t] = IF next = "idle" THEN Blank ELSE o
    BY <1>0, <1>7 DEF Register, Goto, Same, TypeOK
  <2> HIDE DEF o
  <2>4. WellFormed(o)
    BY <1>0, <1>7, <2>2 DEF Right, WellFormed, Submits
  <2>5. Registers(t, o)
    BY <1>7, <2>2, <2>3, <2>4 DEF Registers, Submits
  <2> QED BY <2>1, <2>5
<1>8. ASSUME RegisterUnreserved(t) PROVE \E o \in Operation : Registers(t, o)
  <2> DEFINE next == IF held[t].kind = "submitFinalized" THEN "insert" ELSE "idle"
  <2>1. /\ CanRegister(held[t].session, None) /\ Register(t, held[t].kind, next)
        /\ pc[t] = "register" /\ held[t].kind \in Kinds
    BY <1>0, <1>8 DEF RegisterUnreserved, Right, WellFormed
  <2>2. next \in {"idle", "insert"}
    OBVIOUS
  <2>3. (held[t].kind = "submitFinalized" <=> next = "insert")
    OBVIOUS
  <2>4. \E k \in Kinds : k = held[t].kind
    BY <2>1
  <2> HIDE DEF next
  <2> QED BY <1>7, <2>1, <2>2, <2>3, <2>4
<1>9. RegisterReserved(t) => \E o \in Operation : Registers(t, o)
  BY <1>0, <1>7 DEF RegisterReserved, Right, WellFormed, Submits, WithOperation, Kinds, ProofKinds
<1>10. ASSUME CommitReserved(t) PROVE Moves(t)
  <2>1. Same(t) /\ Right(pc'[t], held'[t]) /\ pc'[t] = "unreserve"
    BY <1>0, <1>10, GotoRight DEF CommitReserved, Goto, TypeOK
  <2> QED BY <1>10, <2>1 DEF CommitReserved, Moves, Making, Carrying, Late, Owning
<1>11. ASSUME InsertSubmission(t) PROVE Moves(t)
  <2>1. CASE Return(t)
    <3>1. Keeps /\ pc[t] = "insert" /\ pc'[t] = "idle"
      BY <1>0, <1>11, <2>1 DEF InsertSubmission, Return, Goto, TypeOK
    <3>2. Delivers(t)
      BY <1>11, <3>1 DEF InsertSubmission, Delivers, Goto, TypeOK
    <3> QED BY <1>1, <2>1, <3>1, <3>2
  <2>2. CASE Goto(t, "discard") /\ held' = held
    <3>1. Same(t) /\ Right(pc'[t], held'[t]) /\ pc'[t] = "discard" /\ held'[t] = held[t]
      BY <1>0, <1>11, <2>2, GotoRight DEF InsertSubmission, WithOperation, Goto, TypeOK
    <3> QED BY <1>11, <3>1 DEF InsertSubmission, Moves, Making, Carrying, Late, Owning
  <2> QED BY <1>11, <2>1, <2>2 DEF InsertSubmission
<1>12. DiscardOperation(t) => Discards(t)
  BY <1>0, ReturnRight DEF DiscardOperation, Discards, Return, Goto, TypeOK
<1> QED
  BY <1>2, <1>3, <1>5, <1>6, <1>8, <1>9, <1>10, <1>11, <1>12 DEF RunCommand

LEMMA ResumeClass ==
  ASSUME Base, NEW t \in Threads, RunResume(t)
  PROVE  Moves(t) \/ PutsBack(t)
<1> USE DEF registryVars, sessionVars, walletVars, allocation, tombstones
<1>0. TypeOK /\ KindsRight /\ Right(pc[t], held[t]) /\ held[t] \in Operation
  BY DEF Base, SyncInv, KindsRight, TypeOK
<1> DEFINE Keeps == /\ operations' = operations /\ nextId' = nextId
                    /\ cancelledOperations' = cancelledOperations
<1>1. ASSUME Keeps, Return(t), Making(t) => Delivers(t) PROVE Moves(t)
  <2>1. Same(t) /\ Right(pc'[t], held'[t]) /\ pc'[t] = "idle"
    BY <1>0, <1>1, ReturnRight DEF Return, Goto, TypeOK
  <2> QED BY <1>1, <2>1 DEF Moves, Making, Carrying, Late, Owning
<1>2. ASSUME Keeps, NEW next, Goto(t, next), held' = held,
             \/ pc[t] = "resume" /\ next \in {"refuse", "reinsert"} /\ IsCurrent(t) /\ active' = active
             \/ pc[t] = "resume" /\ next = "orphan"
             \/ pc[t] = "orphan" /\ next = "release" /\ \A o \in operations : o.id # held[t].id
      PROVE  Moves(t)
  <2>1. Same(t) /\ Right(pc'[t], held'[t]) /\ pc'[t] = next /\ held'[t] = held[t]
    BY <1>0, <1>2, GotoRight DEF Goto, TypeOK, WithOperation
  <2> QED BY <1>2, <2>1 DEF Moves, Making, Carrying, Late, Owning, Alike
<1>3. ResumeStale(t) \/ RefuseResult(t) \/ SubmissionStatusUnknown(t) => Moves(t)
  BY <1>2 DEF ResumeStale, RefuseResult, SubmissionStatusUnknown, Resuming
<1>4. SubmissionSettled(t) \/ CompleteOperation(t) \/ ReleaseOrphan(t) => Moves(t)
  BY <1>1 DEF SubmissionSettled, CompleteOperation, ReleaseOrphan, Resuming, Making
<1>5. FailOperation(t) => Moves(t)
  BY <1>2 DEF FailOperation, Resuming
<1>6. CheckOrphan(t) => Moves(t)
  BY <1>1, <1>2 DEF CheckOrphan, Making
<1>7. ASSUME NextRound(t) PROVE Moves(t)
  <2>1. /\ Same(t) /\ pc[t] = "resume" /\ pc'[t] = "reinsert" /\ Keeps
        /\ IsCurrent(t) /\ active' = active
    BY <1>0, <1>7 DEF NextRound, Resuming, Goto, Same, TypeOK
  <2>2. /\ Alike(held'[t], held[t])
        /\ held'[t].kind \in {held[t].kind, "transactionBalance", "balance"}
        /\ held'[t].proposed = held[t].proposed \/ Plans(t)
    BY <1>0, <1>7 DEF NextRound, TypeOK, Operation, Alike, Submits, Plans
  <2>3. Right(pc'[t], held'[t])
    BY <1>0, <2>1, <2>2 DEF Right, WellFormed, Submits, Alike, WithOperation, Kinds, ProofKinds
  <2> QED BY <2>1, <2>2, <2>3 DEF Moves, Making, Carrying, Late, Owning
<1>8. ReinsertOperation(t) => PutsBack(t)
  <2>1. Return(t) => pc'[t] = "idle" /\ held'[t] = Blank /\ Same(t)
    BY <1>0 DEF Return, Goto, TypeOK, Same
  <2>2. Goto(t, "orphan") /\ held' = held => pc'[t] = "orphan" /\ held'[t] = held[t] /\ Same(t)
    BY <1>0 DEF Goto, TypeOK, Same
  <2> QED BY <2>1, <2>2 DEF ReinsertOperation, PutsBack
<1> QED
  BY <1>3, <1>4, <1>5, <1>6, <1>7, <1>8 DEF RunResume

LEMMA RemovalClass ==
  ASSUME Base, NEW t \in Threads
  PROVE  /\ \A o \in operations : TakeOperation(t, o) \/ CancelOperation(t, o) => Takes(t, o)
         /\ \A s \in sessions : CloseSession(t, s) => Closes(t, s)
         /\ FinishCancel(t) \/ FinishClose(t) => Moves(t)
         /\ BeginCall(t) => Moves(t)
<1> USE DEF registryVars, sessionVars, walletVars, threadVars, allocation, tombstones
<1>0. TypeOK /\ KindsRight /\ Right(pc[t], held[t]) /\ held[t] \in Operation
  BY DEF Base, SyncInv, KindsRight, TypeOK
<1>1. ASSUME NEW o \in operations, TakeOperation(t, o) PROVE Takes(t, o)
  BY <1>0, <1>1 DEF TakeOperation, Takes, Goto, TypeOK, Same
<1>2. ASSUME NEW o \in operations, CancelOperation(t, o) PROVE Takes(t, o)
  <2>1. cancelledOperations' \subseteq cancelledOperations \cup {Key(o)}
    BY <1>2 DEF CancelOperation, RememberCancelled
  <2> QED BY <1>0, <1>2, <2>1 DEF CancelOperation, Takes, Goto, TypeOK, Same
<1>3. ASSUME NEW s \in sessions, CloseSession(t, s) PROVE Closes(t, s)
  BY <1>0, <1>3 DEF CloseSession, Closes, Goto, TypeOK, Same
<1>4. FinishCancel(t) \/ FinishClose(t) => Moves(t)
  <2>1. Return(t) => Same(t) /\ Right(pc'[t], held'[t]) /\ pc'[t] = "idle"
    BY <1>0, ReturnRight DEF Return, Goto, TypeOK
  <2> QED BY <2>1 DEF FinishCancel, FinishClose, Moves, Making, Carrying, Late, Owning
<1>5. ASSUME NEW s \in sessions, NEW command \in Commands, NEW h \in Hashes \cup {"none"},
             Lookup(t, s, command, h), command = "submit" => h \in Hashes
      PROVE  Moves(t)
  <2>1. Same(t) /\ pc[t] = "idle" /\ pc'[t] = "run" /\ held'[t].kind = command /\ held'[t].hash = h
    BY <1>0, <1>5 DEF Lookup, Goto, TypeOK, Same, Blank
  <2>2. Right(pc'[t], held'[t])
    BY <1>5, <2>1 DEF Right, WithOperation
  <2> QED BY <1>5, <2>1, <2>2 DEF Lookup, Moves, Making, Carrying, Late, Owning
<1>6. BeginCall(t) => Moves(t)
  BY <1>5 DEF BeginCall, Commands
<1> QED BY <1>1, <1>2, <1>3, <1>4, <1>6

\* every step is one of these
LEMMA StepClass ==
  ASSUME Base, TypeOK', [Next]_vars
  PROVE  \/ Rests
         \/ \E t \in Threads : \/ Moves(t) \/ PutsBack(t) \/ Discards(t)
                               \/ \E o \in Operation : Registers(t, o)
                               \/ \E o \in operations : Takes(t, o)
                               \/ \E s \in sessions : Closes(t, s)
<1> USE DEF registryVars, sessionVars, walletVars, threadVars, allocation, tombstones
<1>1. nextId \in Nat
  BY DEF Base, SyncInv, TypeOK
<1>2. ASSUME NEW c \in Checkpoints, OpenSession(c) PROVE Rests
  BY <1>1, <1>2 DEF OpenSession, Rests
<1>3. ASSUME NEW k \in cancelledOperations, ResumeCancelled(k) PROVE Rests
  BY <1>1, <1>3 DEF ResumeCancelled, Rests
<1>4. UNCHANGED vars => Rests
  BY <1>1 DEF vars, Rests
<1> QED
  BY <1>2, <1>3, <1>4, CommandClass, ResumeClass, RemovalClass DEF Next, Continue

LEMMA KindsStep ==
  ASSUME Base, TypeOK', [Next]_vars
  PROVE  KindsRight'
<1>0. TypeOK /\ KindsRight /\ IdsAllocated /\ nextId \in Nat
  BY DEF Base, SyncInv, ProposalInv, TypeOK
<1>1. CASE Rests
  <2>1. \A o \in operations : o.session < nextId'
    <3>1. \A o \in operations : o.session \in Nat
      BY <1>0, OperationTyped DEF TypeOK, Ids
    <3>2. nextId' \in Nat
      BY DEF TypeOK
    <3> QED BY <1>0, <1>1, <3>1, <3>2 DEF KindsRight, Rests
  <2> QED BY <1>0, <1>1, <2>1 DEF KindsRight, Rests, WellFormed, Submits, Right, WithOperation
<1>2. ASSUME NEW t \in Threads, Moves(t) PROVE KindsRight'
  BY <1>0, <1>2, KindsThread DEF Moves
<1>3. ASSUME NEW t \in Threads, PutsBack(t) PROVE KindsRight'
  <2>1. WellFormed(held[t]) /\ held[t].session < nextId /\ Right(pc[t], held[t])
    BY <1>0, <1>3 DEF KindsRight, Right, WithOperation, PutsBack, IdsAllocated
  <2>2. Right(pc'[t], held'[t])
    BY <1>3, <2>1 DEF PutsBack, Right, WithOperation
  <2> QED BY <1>0, <1>3, <2>1, <2>2, KindsThread DEF PutsBack
<1>4. ASSUME NEW t \in Threads, Discards(t) PROVE KindsRight'
  BY <1>0, <1>4, KindsThread DEF Discards, Right, WithOperation
<1>5. ASSUME NEW t \in Threads, NEW o \in Operation, Registers(t, o) PROVE KindsRight'
  <2>1. o.session < nextId'
    <3>1. held[t].session < nextId /\ o.session \in Nat
      BY <1>0, <1>5, OperationTyped DEF IdsAllocated, Registers, Ids
    <3> QED BY <1>0, <1>5, <3>1 DEF Registers
  <2>2. Right(pc'[t], held'[t])
    BY <1>5 DEF Registers, Right, WithOperation
  <2> QED BY <1>0, <1>5, <2>1, <2>2, KindsThread DEF Registers
<1>6. ASSUME NEW t \in Threads, NEW o \in operations, Takes(t, o) PROVE KindsRight'
  <2>1. Right(pc'[t], held'[t])
    BY <1>0, <1>6 DEF Takes, Right, WithOperation, KindsRight
  <2> QED BY <1>0, <1>6, <2>1, KindsThread DEF Takes
<1>7. ASSUME NEW t \in Threads, NEW s \in sessions, Closes(t, s) PROVE KindsRight'
  BY <1>0, <1>7, KindsThread DEF Closes, Right, WithOperation
<1> QED BY <1>1, <1>2, <1>3, <1>4, <1>5, <1>6, <1>7, StepClass

-----------------------------------------------------------------------------
(* An operation is in one place, and its id names it for ever              *)

Holds(t) == Making(t) \/ Carrying(t)

RegisteredOnce == \A o, p \in operations : o.id = p.id => o = p
HeldApart ==
  \A t \in Threads : /\ Making(t) => \A o \in operations : o.id = held[t].id => o = held[t]
                     /\ Carrying(t) => \A o \in operations : o.id # held[t].id
HeldOnce == \A t, u \in Threads : t # u /\ Holds(t) /\ Holds(u) => held[t].id # held[u].id
\* a call that looks after an operation that it does not hold knows its session
NamesAgree ==
  \A t \in Threads : Late(t) =>
    /\ \A o \in operations : o.id = held[t].id => o.session = held[t].session
    /\ \A u \in Threads : Holds(u) /\ held[u].id = held[t].id => held[u].session = held[t].session

OnePlace == RegisteredOnce /\ HeldApart /\ HeldOnce /\ NamesAgree

LEMMA OnePlaceStep ==
  ASSUME Base, TypeOK', OnePlace, [Next]_vars
  PROVE  OnePlace'
<1> USE DEF OnePlace
<1>0. /\ nextId \in Nat
      /\ \A o \in operations : o \in Operation /\ o.id \in Nat /\ o.id < nextId
      /\ \A u \in Threads : /\ held[u].id \in Nat
                            /\ Holds(u) \/ Late(u) => held[u].id < nextId
  BY OperationTyped DEF Base, SyncInv, ProposalInv, IdsAllocated, TypeOK, Holds, Making,
                        Carrying, Late, WithOperation
<1>1. CASE Rests
  BY <1>1 DEF Rests, RegisteredOnce, HeldApart, HeldOnce, NamesAgree, Holds, Making, Carrying, Late
<1>2. ASSUME NEW t \in Threads, Moves(t) PROVE OnePlace'
  <2>1. /\ operations' = operations /\ Same(t)
        /\ Making(t)' => Making(t) /\ held'[t] = held[t]
        /\ Carrying(t)' => Carrying(t) /\ held'[t].id = held[t].id /\ held'[t].session = held[t].session
        /\ Late(t)' => (Late(t) \/ Carrying(t)) /\ held'[t] = held[t]
    BY <1>2 DEF Moves, Alike, Owning, Carrying
  <2>2. \A u \in Threads \ {t} : /\ held'[u] = held[u] /\ (Holds(u)' <=> Holds(u))
                                 /\ (Making(u)' <=> Making(u)) /\ (Carrying(u)' <=> Carrying(u))
                                 /\ (Late(u)' <=> Late(u))
    BY <2>1 DEF Same, Holds, Making, Carrying, Late
  <2>3. Holds(t)' => Holds(t) /\ held'[t].id = held[t].id /\ held'[t].session = held[t].session
    BY <2>1 DEF Holds
  <2>4. RegisteredOnce' /\ HeldApart'
    BY <2>1, <2>2 DEF RegisteredOnce, HeldApart
  <2>5. HeldOnce'
    BY <2>2, <2>3 DEF HeldOnce
  <2>6. NamesAgree'
    <3>1. ASSUME NEW u \in Threads, Late(u)', NEW o \in operations', o.id = held'[u].id
          PROVE  o.session = held'[u].session
      BY <2>1, <2>2, <3>1 DEF NamesAgree, HeldApart
    <3>2. ASSUME NEW u \in Threads, Late(u)', NEW v \in Threads, Holds(v)', held'[v].id = held'[u].id
          PROVE  held'[v].session = held'[u].session
      <4>1. Holds(v) /\ held'[v].id = held[v].id /\ held'[v].session = held[v].session
        BY <2>2, <2>3, <3>2
      <4>2. (Late(u) \/ Carrying(u)) /\ held'[u] = held[u]
        BY <2>1, <2>2, <3>2
      <4> QED BY <3>2, <4>1, <4>2 DEF NamesAgree, HeldOnce, Holds
    <3> QED BY <3>1, <3>2 DEF NamesAgree
  <2> QED BY <2>4, <2>5, <2>6
<1>3. ASSUME NEW t \in Threads, NEW o \in Operation, Registers(t, o) PROVE OnePlace'
  <2>1. /\ operations' = operations \cup {o} /\ o.id = nextId
        /\ ~Carrying(t)' /\ ~Late(t)' /\ (Making(t)' => held'[t] = o)
    BY <1>3 DEF Registers, Carrying, Late, Making
  <2>2. \A u \in Threads \ {t} : /\ held'[u] = held[u] /\ (Holds(u)' <=> Holds(u))
                                 /\ (Making(u)' <=> Making(u)) /\ (Carrying(u)' <=> Carrying(u))
                                 /\ (Late(u)' <=> Late(u))
    BY <1>3 DEF Registers, Same, Holds, Making, Carrying, Late
  <2>3. RegisteredOnce'
    BY <1>0, <2>1 DEF RegisteredOnce
  <2>4. HeldApart'
    BY <1>0, <2>1, <2>2 DEF HeldApart, Holds
  <2>5. HeldOnce'
    BY <1>0, <2>1, <2>2 DEF HeldOnce, Holds
  <2>6. NamesAgree'
    BY <1>0, <2>1, <2>2 DEF NamesAgree, Holds
  <2> QED BY <2>3, <2>4, <2>5, <2>6
<1>4. ASSUME NEW t \in Threads, NEW o \in operations, Takes(t, o) PROVE OnePlace'
  <2>1. /\ operations' = operations \ {o}
        /\ ~Making(t)' /\ ~Late(t)' /\ (Carrying(t)' => held'[t] = o)
    BY <1>4 DEF Takes, Carrying, Late, Making
  <2>2. \A u \in Threads \ {t} : /\ held'[u] = held[u] /\ (Holds(u)' <=> Holds(u))
                                 /\ (Making(u)' <=> Making(u)) /\ (Carrying(u)' <=> Carrying(u))
                                 /\ (Late(u)' <=> Late(u))
    BY <1>4 DEF Takes, Same, Holds, Making, Carrying, Late
  <2>3. \A u \in Threads : Holds(u) => held[u].id # o.id
    BY <1>4 DEF Takes, Issued, HeldApart, Holds, Making
  <2>4. RegisteredOnce' /\ HeldApart'
    BY <2>1, <2>2 DEF RegisteredOnce, HeldApart
  <2>5. HeldOnce'
    BY <2>1, <2>2, <2>3 DEF HeldOnce, Holds
  <2>6. NamesAgree'
    BY <2>1, <2>2 DEF NamesAgree, Holds
  <2> QED BY <2>4, <2>5, <2>6
<1>5. ASSUME NEW t \in Threads, PutsBack(t) PROVE OnePlace'
  <2>1. /\ operations' = operations \cup {held[t]} /\ Carrying(t)
        /\ ~Making(t)' /\ ~Carrying(t)' /\ (Late(t)' => held'[t] = held[t])
    BY <1>5 DEF PutsBack, Carrying, Late, Making
  <2>2. \A u \in Threads \ {t} : /\ held'[u] = held[u] /\ (Holds(u)' <=> Holds(u))
                                 /\ (Making(u)' <=> Making(u)) /\ (Carrying(u)' <=> Carrying(u))
                                 /\ (Late(u)' <=> Late(u))
    BY <1>5 DEF PutsBack, Same, Holds, Making, Carrying, Late
  <2>3. RegisteredOnce'
    BY <2>1 DEF RegisteredOnce, HeldApart
  <2>4. HeldApart'
    BY <2>1, <2>2 DEF HeldApart, HeldOnce, Holds
  <2>5. HeldOnce'
    BY <2>1, <2>2 DEF HeldOnce, Holds
  <2>6. NamesAgree'
    BY <2>1, <2>2 DEF NamesAgree, HeldApart, HeldOnce, Holds
  <2> QED BY <2>3, <2>4, <2>5, <2>6
<1>6. ASSUME NEW t \in Threads, Discards(t) \/ \E s \in sessions : Closes(t, s) PROVE OnePlace'
  <2>1. operations' \subseteq operations /\ ~Making(t)' /\ ~Carrying(t)' /\ ~Late(t)'
    BY <1>6 DEF Discards, Closes, Making, Carrying, Late
  <2>2. \A u \in Threads \ {t} : /\ held'[u] = held[u] /\ (Holds(u)' <=> Holds(u))
                                 /\ (Making(u)' <=> Making(u)) /\ (Carrying(u)' <=> Carrying(u))
                                 /\ (Late(u)' <=> Late(u))
    BY <1>6 DEF Discards, Closes, Same, Holds, Making, Carrying, Late
  <2> QED BY <2>1, <2>2 DEF RegisteredOnce, HeldApart, HeldOnce, NamesAgree, Holds
<1> QED BY <1>1, <1>2, <1>3, <1>4, <1>5, <1>6, StepClass

-----------------------------------------------------------------------------
(* Cancelled operations                                                    *)

CancelledGone ==
  \A k \in cancelledOperations : /\ k[1] < nextId
                                 /\ \A o \in operations : o.id # k[1]
                                 /\ \A t \in Threads : Owning(t) => held[t].id # k[1]

LEMMA CancelledStep ==
  ASSUME Base, TypeOK', OnePlace, CancelledGone, [Next]_vars
  PROVE  CancelledGone'
<1>0. /\ nextId \in Nat
      /\ \A o \in operations : o \in Operation /\ o.id \in Nat /\ o.id < nextId
      /\ \A u \in Threads : held[u].id \in Nat
      /\ \A k \in cancelledOperations : k[1] \in Nat
  BY OperationTyped DEF Base, SyncInv, ProposalInv, IdsAllocated, TypeOK
<1>1. CASE Rests
  <2>1. nextId' \in Nat
    BY DEF TypeOK
  <2> QED BY <1>0, <1>1, <2>1 DEF Rests, CancelledGone, Owning
<1>2. ASSUME NEW t \in Threads, Moves(t) PROVE CancelledGone'
  <2>1. Owning(t)' => Owning(t) /\ held'[t].id = held[t].id
    BY <1>2 DEF Moves, Owning, Carrying, Alike
  <2> QED BY <1>2, <2>1 DEF Moves, Same, CancelledGone, Owning
<1>3. ASSUME NEW t \in Threads, NEW o \in Operation, Registers(t, o) PROVE CancelledGone'
  <2>1. ~Owning(t)'
    BY <1>3 DEF Registers, Owning
  <2> QED BY <1>0, <1>3, <2>1 DEF Registers, Same, CancelledGone, Owning
<1>4. ASSUME NEW t \in Threads, NEW o \in operations, Takes(t, o) PROVE CancelledGone'
  <2>1. Key(o)[1] = o.id
    BY DEF Key
  <2>2. \A u \in Threads : Owning(u) => held[u].id # o.id
    BY DEF OnePlace, HeldApart, Owning, Carrying
  <2>3. \A p \in operations' : p \in operations /\ p.id # o.id
    BY <1>4 DEF Takes, OnePlace, RegisteredOnce
  <2>4. CASE pc'[t] = "resume"
    BY <1>0, <1>4, <2>3, <2>4 DEF Takes, Same, CancelledGone, Owning
  <2>5. CASE pc'[t] # "resume"
    <3>1. ~Owning(t)'
      BY <1>4, <2>5 DEF Takes, Owning
    <3>2. \A u \in Threads : Owning(u)' => Owning(u) /\ held'[u] = held[u]
      BY <1>4, <3>1 DEF Takes, Same, Owning
    <3>3. \A k \in cancelledOperations' : k \in cancelledOperations \/ k[1] = o.id
      BY <1>4, <2>1 DEF Takes
    <3> QED BY <1>0, <1>4, <2>2, <2>3, <3>2, <3>3 DEF Takes, CancelledGone
  <2> QED BY <2>4, <2>5
<1>5. ASSUME NEW t \in Threads, PutsBack(t) PROVE CancelledGone'
  <2>1. Owning(t) /\ ~Owning(t)'
    BY <1>5 DEF PutsBack, Owning
  <2> QED BY <1>5, <2>1 DEF PutsBack, Same, CancelledGone, Owning
<1>6. ASSUME NEW t \in Threads, Discards(t) \/ \E s \in sessions : Closes(t, s) PROVE CancelledGone'
  <2>1. ~Owning(t)'
    BY <1>6 DEF Discards, Closes, Owning
  <2> QED BY <1>6, <2>1 DEF Discards, Closes, Same, CancelledGone, Owning
<1> QED BY <1>1, <1>2, <1>3, <1>4, <1>5, <1>6, StepClass

-----------------------------------------------------------------------------
(* Submissions                                                             *)

\* an operation that may still change the status of its submission
Carrier(x) ==
  \/ x \in operations /\ Submits(x) /\ Issued(x)
  \/ \E t \in Threads : Carrying(t) /\ held[t] = x /\ Submits(x)

Open(x) == pending[x.session][x.hash] \in {"awaiting", "unknown"}

SubmissionsOpen ==
  \A x \in Operation : Carrier(x) =>
    /\ Open(x)
    /\ \A y \in Operation : Carrier(y) /\ x.session = y.session /\ x.hash = y.hash => x.id = y.id

LEMMA CarrierTyped ==
  ASSUME Base, NEW x \in Operation, Carrier(x)
  PROVE  x.session \in Ids /\ x.session < nextId /\ x.hash \in Hashes
<1>1. \A t \in Threads : Carrying(t) => WellFormed(held[t]) /\ held[t].session < nextId
  BY DEF Base, SyncInv, ProposalInv, IdsAllocated, KindsRight, Right, Carrying, WithOperation
<1> QED BY <1>1, OperationTyped DEF Base, KindsRight, Carrier, WellFormed

LEMMA PendingClass ==
  ASSUME Base, [Next]_vars
  PROVE  \/ pending' = pending
         \/ \E c \in Checkpoints : OpenSession(c) /\ pending' = [pending EXCEPT ![nextId] = c.pending]
         \/ \E t \in Threads : Delivers(t)
         \/ \E t \in Threads : SubmissionSettled(t)
         \/ \E t \in Threads :
              /\ Carrying(t) /\ Submits(held[t])
              /\ pending' = [pending EXCEPT ![held[t].session][held[t].hash] = "unknown"]
<1> USE DEF registryVars, sessionVars, walletVars, threadVars, allocation, tombstones
<1>1. ASSUME NEW c \in Checkpoints, OpenSession(c)
      PROVE  pending' = pending \/ pending' = [pending EXCEPT ![nextId] = c.pending]
  BY <1>1 DEF OpenSession
<1>2. ASSUME NEW k \in cancelledOperations, ResumeCancelled(k) PROVE pending' = pending
  BY <1>2 DEF ResumeCancelled
<1>3. ASSUME NEW t \in Threads, BeginCall(t) PROVE pending' = pending
  BY <1>3 DEF BeginCall, Lookup
<1>4. ASSUME NEW t \in Threads, NEW o \in operations, TakeOperation(t, o) \/ CancelOperation(t, o)
      PROVE  pending' = pending
  BY <1>4 DEF TakeOperation, CancelOperation
<1>5. ASSUME NEW t \in Threads, NEW s \in sessions, CloseSession(t, s) PROVE pending' = pending
  BY <1>5 DEF CloseSession
<1>6. ASSUME NEW t \in Threads, RunCommand(t) PROVE pending' = pending \/ Delivers(t)
  <2>1. InsertSubmission(t) => pending' = pending \/ Delivers(t)
    BY DEF InsertSubmission, Delivers, Return, Goto, Base, SyncInv, TypeOK
  <2> QED
    BY <1>6, <2>1 DEF RunCommand, CommandFails, ApplySyncBatch, WatchShieldedMint, UpdateWallet,
       GenerateDustAtOnce, ChangeWallet, ReserveGenerateDust, ReserveTransfer,
       ReserveFinalizeUnproven, Reserve, BeginUnreserved, BeginSubmit, RegisterUnreserved,
       RegisterFails, RegisterReserved, Register, CommitReserved, Unreserve, DiscardOperation
<1>7. ASSUME NEW t \in Threads, RunResume(t)
      PROVE  \/ pending' = pending \/ SubmissionSettled(t)
             \/ /\ Carrying(t) /\ Submits(held[t])
                /\ pending' = [pending EXCEPT ![held[t].session][held[t].hash] = "unknown"]
  <2>1. SubmissionStatusUnknown(t) =>
          /\ Carrying(t) /\ Submits(held[t])
          /\ pending' = [pending EXCEPT ![held[t].session][held[t].hash] = "unknown"]
    BY DEF SubmissionStatusUnknown, Resuming, Carrying, Submits
  <2> QED
    BY <1>7, <2>1 DEF RunResume, ResumeStale, RefuseResult, NextRound, CompleteOperation,
       FailOperation, ReinsertOperation, CheckOrphan, ReleaseOrphan
<1>8. ASSUME NEW t \in Threads, FinishCancel(t) \/ FinishClose(t)
      PROVE  \/ pending' = pending
             \/ /\ Carrying(t) /\ Submits(held[t])
                /\ pending' = [pending EXCEPT ![held[t].session][held[t].hash] = "unknown"]
  BY <1>8 DEF FinishCancel, FinishClose, Carrying, Submits
<1>9. UNCHANGED vars => pending' = pending
  BY DEF vars
<1> QED
  BY <1>1, <1>2, <1>3, <1>4, <1>5, <1>6, <1>7, <1>8, <1>9 DEF Next, Continue

\* a carrier was one before, unless its submission has just been told to its host
LEMMA CarrierStep ==
  ASSUME Base, TypeOK', OnePlace, [Next]_vars, NEW x \in Operation, Carrier(x)'
  PROVE  \/ \E y \in Operation : Carrier(y) /\ Alike(x, y)
         \/ \E t \in Threads : Delivers(t) /\ x = held[t] /\ Moves(t)
<1> DEFINE Was == \E y \in Operation : Carrier(y) /\ Alike(x, y)
<1>0. Alike(x, x) /\ \A u \in Threads : held[u] \in Operation
  BY DEF Alike, Base, SyncInv, TypeOK
<1>1. ASSUME Carrier(x) PROVE Was
  BY <1>0, <1>1
<1>2. CASE Rests
  BY <1>1, <1>2 DEF Rests, Carrier, Issued, Carrying
<1>3. ASSUME NEW t \in Threads, Moves(t)
      PROVE  Was \/ (Delivers(t) /\ x = held[t])
  <2>1. CASE x \in operations' /\ Submits(x) /\ Issued(x)'
    <3>1. x \in operations /\ \A u \in Threads \ {t} : Making(u) => held[u].id # x.id
      BY <1>3, <2>1 DEF Moves, Same, Issued, Making
    <3>2. Making(t)' => held[t].id # x.id
      BY <1>3, <2>1 DEF Moves, Issued, Making
    <3>3. CASE Making(t) /\ held[t].id = x.id
      BY <1>3, <3>1, <3>2, <3>3 DEF Moves, OnePlace, HeldApart
    <3>4. CASE ~(Making(t) /\ held[t].id = x.id)
      BY <1>1, <2>1, <3>1, <3>4 DEF Carrier, Issued, Making
    <3> QED BY <3>3, <3>4
  <2>2. ASSUME NEW u \in Threads, Carrying(u)', held'[u] = x, Submits(x) PROVE Was
    <3>1. CASE u = t
      <4>1. Carrying(t) /\ Alike(x, held[t])
        BY <1>3, <2>2, <3>1 DEF Moves, Owning, Carrying
      <4>2. Submits(held[t])
        BY <2>2, <4>1 DEF Alike
      <4>3. Carrier(held[t])
        BY <4>1, <4>2 DEF Carrier
      <4> QED BY <1>0, <4>1, <4>3
    <3>2. CASE u # t
      BY <1>1, <1>3, <2>2, <3>2 DEF Moves, Same, Carrying, Carrier
    <3> QED BY <3>1, <3>2
  <2> QED BY <2>1, <2>2 DEF Carrier
<1>4. ASSUME NEW t \in Threads, NEW o \in Operation, Registers(t, o) PROVE Was
  <2>1. /\ \A u \in Threads \ {t} : Carrying(u)' => Carrying(u) /\ held'[u] = held[u]
        /\ ~Carrying(t)'
    BY <1>4 DEF Registers, Same, Carrying
  <2>2. \A u \in Threads : Carrying(u) => held[u].id # nextId
    <3>1. \A u \in Threads : Carrying(u) => held[u].id < nextId
      BY DEF Base, SyncInv, ProposalInv, IdsAllocated, Carrying, WithOperation
    <3>2. nextId \in Nat /\ \A u \in Threads : held[u].id \in Nat
      BY <1>0, OperationTyped DEF Base, SyncInv, TypeOK
    <3> QED BY <3>1, <3>2
  <2>3. x # o
    <3>1. ASSUME x = o, Issued(x)', Submits(x) PROVE FALSE
      <4>1. pc'[t] = "insert" /\ held'[t] = x
        BY <1>4, <3>1 DEF Registers
      <4> QED BY <3>1, <4>1 DEF Issued
    <3>2. ASSUME NEW u \in Threads, Carrying(u), held[u] = o PROVE FALSE
      BY <1>4, <2>2, <3>2 DEF Registers
    <3> QED BY <2>1, <3>1, <3>2 DEF Carrier
  <2> QED BY <1>1, <1>4, <2>1, <2>3 DEF Carrier, Registers, Issued, Same
<1>5. ASSUME NEW t \in Threads, NEW o \in operations, Takes(t, o) PROVE Was
  <2>1. CASE x = o
    BY <1>1, <1>5, <2>1 DEF Takes, Carrier
  <2>2. CASE x # o
    BY <1>1, <1>5, <2>2 DEF Takes, Carrier, Issued, Carrying, Same
  <2> QED BY <2>1, <2>2
<1>6. ASSUME NEW t \in Threads, PutsBack(t) PROVE Was
  <2>1. CASE x = held[t]
    BY <1>1, <1>6, <2>1 DEF PutsBack, Carrier, Carrying
  <2>2. CASE x # held[t]
    BY <1>1, <1>6, <2>2 DEF PutsBack, Carrier, Issued, Carrying, Same
  <2> QED BY <2>1, <2>2
<1>7. ASSUME NEW t \in Threads, Discards(t) PROVE Was
  <2>1. ASSUME x \in operations' PROVE x \in operations /\ held[t].id # x.id
    BY <1>7, <2>1 DEF Discards, OnePlace, HeldApart, Making
  <2> QED BY <1>1, <1>7, <2>1 DEF Discards, Carrier, Issued, Carrying, Same
<1>8. ASSUME NEW t \in Threads, NEW s \in sessions, Closes(t, s) PROVE Was
  BY <1>1, <1>8 DEF Closes, Carrier, Issued, Carrying, Same
<1> QED BY <1>2, <1>3, <1>4, <1>5, <1>6, <1>7, <1>8, StepClass

LEMMA SubmissionsStep ==
  ASSUME Base, TypeOK', OnePlace, SubmissionsOpen, [Next]_vars
  PROVE  SubmissionsOpen'
<1> DEFINE From(x) == \E y \in Operation : Carrier(y) /\ Alike(x, y)
           New(x)  == \E t \in Threads : Delivers(t) /\ x = held[t] /\ Moves(t)
<1>0. /\ pending \in [Ids -> [Hashes -> Statuses]]
      /\ \A t \in Threads : held[t] \in Operation
  BY DEF Base, SyncInv, TypeOK
<1>1. \A x \in Operation : Carrier(x)' => From(x) \/ New(x)
  BY CarrierStep
<1>2. ASSUME NEW x \in Operation, NEW t \in Threads, Delivers(t), x = held[t]
      PROVE  /\ pending[x.session][x.hash] = "absent"
             /\ pending'[x.session][x.hash] = "awaiting"
  <2>1. x.session \in Ids /\ x.hash \in Hashes
    <3>1. x.session \in Ids
      BY OperationTyped
    <3>2. Right(pc[t], held[t]) /\ pc[t] = "insert"
      BY <1>2 DEF Base, KindsRight, Delivers
    <3> QED BY <1>2, <3>1, <3>2 DEF Right, WellFormed, WithOperation
  <2> QED BY <1>0, <1>2, <2>1 DEF Delivers
<1>3. ASSUME NEW x \in Operation, Carrier(x)', From(x) PROVE Open(x)'
  <2> PICK y \in Operation : Carrier(y) /\ Alike(x, y)
    BY <1>3
  <2>1. /\ y.session \in Ids /\ y.session < nextId /\ y.hash \in Hashes
        /\ y.session = x.session /\ y.hash = x.hash /\ y.id = x.id
    BY CarrierTyped DEF Alike
  <2>2. pending[x.session][x.hash] \in {"awaiting", "unknown"}
    BY <2>1 DEF SubmissionsOpen, Open
  <2>3. CASE pending' = pending
    BY <2>2, <2>3 DEF Open
  <2>4. ASSUME NEW c \in Checkpoints, pending' = [pending EXCEPT ![nextId] = c.pending]
        PROVE  Open(x)'
    <3>1. x.session # nextId
      BY <2>1 DEF Ids, Base, SyncInv, TypeOK
    <3> QED BY <1>0, <2>1, <2>2, <2>4, <3>1 DEF Open
  <2>5. ASSUME NEW t \in Threads, Delivers(t) PROVE Open(x)'
    BY <1>0, <2>1, <2>2, <2>5 DEF Open, Delivers
  <2>6. ASSUME NEW t \in Threads, SubmissionSettled(t) PROVE Open(x)'
    <3>1. Carrying(t) /\ Carrier(held[t]) /\ pc'[t] = "idle" /\ Same(t) /\ operations' = operations
      BY <2>6 DEF SubmissionSettled, Resuming, Carrying, Carrier, Submits, Return, Goto, Same,
                  Base, SyncInv, TypeOK, registryVars
    <3>2. ASSUME x.session = held[t].session, x.hash = held[t].hash PROVE FALSE
      <4>1. x.id = held[t].id
        BY <1>0, <2>1, <3>1, <3>2 DEF SubmissionsOpen
      <4>2. x \notin operations'
        BY <3>1, <4>1 DEF OnePlace, HeldApart
      <4>3. PICK u \in Threads : Carrying(u)' /\ held'[u] = x
        BY <1>3, <4>2 DEF Carrier
      <4>4. u # t /\ Carrying(u) /\ held[u] = x
        BY <3>1, <4>3 DEF Same, Carrying
      <4> QED BY <3>1, <4>1, <4>4 DEF OnePlace, HeldOnce, Holds
    <3>3. \E status \in Statuses :
            pending' = [pending EXCEPT ![held[t].session][held[t].hash] = status]
      BY <2>6 DEF SubmissionSettled, Statuses
    <3> QED BY <1>0, <2>1, <2>2, <3>2, <3>3 DEF Open
  <2>7. ASSUME NEW t \in Threads,
               pending' = [pending EXCEPT ![held[t].session][held[t].hash] = "unknown"]
        PROVE  Open(x)'
    BY <1>0, <2>1, <2>2, <2>7 DEF Open
  <2> QED BY <2>3, <2>4, <2>5, <2>6, <2>7, PendingClass
<1>4. ASSUME NEW x \in Operation, NEW y \in Operation, Carrier(x)', Carrier(y)',
             x.session = y.session, x.hash = y.hash
      PROVE  x.id = y.id
  <2>1. CASE From(x) /\ From(y)
    BY <1>4, <2>1 DEF SubmissionsOpen, Alike
  <2>2. CASE New(x) /\ New(y)
    BY <2>2 DEF Delivers, Moves, Same
  <2>3. ASSUME NEW v \in Operation, NEW w \in Operation, From(v), New(w),
               v.session = w.session, v.hash = w.hash
        PROVE  FALSE
    <3>1. pending[w.session][w.hash] = "absent"
      BY <1>2, <2>3
    <3>2. pending[v.session][v.hash] \in {"awaiting", "unknown"}
      BY <2>3 DEF SubmissionsOpen, Open, Alike
    <3> QED BY <2>3, <3>1, <3>2
  <2> HIDE DEF From, New
  <2> QED BY <1>1, <1>4, <2>1, <2>2, <2>3
<1>5. \A x \in Operation : Carrier(x)' => Open(x)'
  <2>1. \A x \in Operation : Carrier(x)' /\ New(x) => Open(x)'
    BY <1>2 DEF Open
  <2> HIDE DEF From, New
  <2> QED BY <1>1, <1>3, <2>1
<1> HIDE DEF From, New
<1> QED BY <1>4, <1>5 DEF SubmissionsOpen

-----------------------------------------------------------------------------
(* The theorems about operations                                           *)

OperationInv == Base /\ OnePlace /\ CancelledGone /\ SubmissionsOpen

LEMMA OperationInit == Init => OperationInv
<1> SUFFICES ASSUME Init PROVE OperationInv
  OBVIOUS
<1>1. Base
  BY SyncInvInit, KindsInit DEF Base
<1>2. operations = {} /\ cancelledOperations = {} /\ \A t \in Threads : pc[t] = "idle"
  BY DEF Init
<1>3. OnePlace /\ CancelledGone /\ SubmissionsOpen
  BY <1>2 DEF OnePlace, RegisteredOnce, HeldApart, HeldOnce, NamesAgree, CancelledGone,
              SubmissionsOpen, Carrier, Holds, Making, Carrying, Late, Owning
<1> QED BY <1>1, <1>3 DEF OperationInv

LEMMA OperationStep == OperationInv /\ [Next]_vars => OperationInv'
<1> SUFFICES ASSUME OperationInv, [Next]_vars PROVE OperationInv'
  OBVIOUS
<1>1. SyncInv' /\ TypeOK'
  BY SyncInvStep DEF OperationInv, Base, SyncInv
<1>2. Base'
  BY <1>1, KindsStep DEF OperationInv, Base
<1> QED BY <1>1, <1>2, OnePlaceStep, CancelledStep, SubmissionsStep DEF OperationInv

\* Once cancel_operation has answered Ok, no call holds the operation to resume it and
\* none can take it out again: the tombstone and the operation are never there together,
\* however many threads resume and cancel it at once.
THEOREM CancelledIsCancelled == Spec => []CancelledStaysCancelled
<1>1. OperationInv => CancelledStaysCancelled
  <2> SUFFICES ASSUME OperationInv, NEW o \in Welcome, Key(o) \in cancelledOperations
               PROVE  FALSE
    BY DEF CancelledStaysCancelled
  <2>1. Key(o)[1] = o.id
    BY DEF Key
  <2>2. o \in operations \/ \E t \in Threads : Owning(t) /\ held[t] = o
    BY DEF Welcome, Owning
  <2> QED BY <2>1, <2>2 DEF OperationInv, CancelledGone
<1> QED BY <1>1, OperationInit, OperationStep, PTL DEF Spec

\* A submitted transaction hash never becomes submittable again and a settled outcome is
\* final: while an operation may still settle a submission its status is open, and no
\* second operation may settle the same one.
THEOREM StatusesMoveForward == Spec => StatusMovesForward
<1>1. OperationInv /\ [Next]_vars =>
        [\A s \in Ids, h \in Hashes :
           LET old == pending[s][h]
               new == pending'[s][h]
           IN  (s < nextId /\ old # new) =>
                 \/ old = "absent" /\ new = "awaiting"
                 \/ old \in {"awaiting", "unknown"} /\ new \in Settled \cup {"unknown"}]_vars
  <2> SUFFICES ASSUME OperationInv, [Next]_vars, NEW s \in Ids, NEW h \in Hashes,
                      s < nextId, pending[s][h] # pending'[s][h]
               PROVE  \/ pending[s][h] = "absent" /\ pending'[s][h] = "awaiting"
                      \/ /\ pending[s][h] \in {"awaiting", "unknown"}
                         /\ pending'[s][h] \in Settled \cup {"unknown"}
    OBVIOUS
  <2>0. /\ pending \in [Ids -> [Hashes -> Statuses]] /\ s # nextId
        /\ \A t \in Threads : held[t] \in Operation
    BY DEF OperationInv, Base, SyncInv, TypeOK, Ids
  <2>1. ASSUME NEW c \in Checkpoints, pending' = [pending EXCEPT ![nextId] = c.pending]
        PROVE  FALSE
    BY <2>0, <2>1
  <2>2. ASSUME NEW t \in Threads, Delivers(t)
        PROVE  pending[s][h] = "absent" /\ pending'[s][h] = "awaiting"
    BY <2>0, <2>2 DEF Delivers
  <2>3. ASSUME NEW t \in Threads, NEW status \in Settled \cup {"unknown"},
               Carrying(t), Submits(held[t]),
               pending' = [pending EXCEPT ![held[t].session][held[t].hash] = status]
        PROVE  /\ pending[s][h] \in {"awaiting", "unknown"}
               /\ pending'[s][h] \in Settled \cup {"unknown"}
    <3>1. s = held[t].session /\ h = held[t].hash /\ pending'[s][h] = status
      BY <2>0, <2>3
    <3>2. Carrier(held[t])
      BY <2>3 DEF Carrier
    <3> QED BY <2>0, <3>1, <3>2 DEF OperationInv, SubmissionsOpen, Open
  <2>4. ASSUME NEW t \in Threads, SubmissionSettled(t)
        PROVE  /\ Carrying(t) /\ Submits(held[t])
               /\ \E status \in Settled \cup {"unknown"} :
                    pending' = [pending EXCEPT ![held[t].session][held[t].hash] = status]
    BY <2>4 DEF SubmissionSettled, Resuming, Carrying, Submits, Settled
  <2> QED BY <2>1, <2>2, <2>3, <2>4, PendingClass DEF OperationInv
<1> QED BY <1>1, OperationInit, OperationStep, PTL DEF Spec, StatusMovesForward

-----------------------------------------------------------------------------
(* Generations                                                             *)

GenerationsBelow == \A r \in Ids : generation[r] < nextGeneration

LEMMA OpenIsFresh ==
  ASSUME TypeOK, GenerationsBelow, NEW c \in Checkpoints, OpenSession(c), TypeOK'
  PROVE  /\ GenerationsBelow'
         /\ \A s \in sessions' \ sessions :
              /\ \A r \in 1..(nextId - 1) : generation[r] < generation'[s]
              /\ c.generation < generation'[s]
              /\ c.offset = offset'[s] /\ c.pending = pending'[s]
<1>1. /\ nextId \in Nat /\ nextId \in Ids /\ nextGeneration \in Nat /\ c.generation \in Nat
      /\ generation \in [Ids -> 0..MaxCounter] /\ MaxCounter \in Nat
      /\ offset \in [Ids -> Nat] /\ pending \in [Ids -> [Hashes -> Statuses]]
  <2>1. MaxCounter \in Nat
    BY CounterAssumption
  <2>2. c.generation \in 0..(MaxCounter - 1)
    BY CheckpointTyped
  <2>3. c.generation \in Nat
    BY <2>1, <2>2
  <2> QED BY <2>1, <2>3 DEF TypeOK, Ids
<1>2. NewGeneration(c) \in Nat /\ NewGeneration(c) >= nextGeneration /\ NewGeneration(c) > c.generation
  BY <1>1 DEF NewGeneration
<1>3. \A r \in Ids : generation[r] \in Nat /\ generation[r] < nextGeneration
  BY <1>1 DEF GenerationsBelow
<1>4. \A r \in 1..(nextId - 1) : r \in Ids
  BY <1>1 DEF Ids
<1>5. CASE CountersLeft(c)
  <2>1. /\ nextId' = nextId + 1 /\ nextGeneration' = NewGeneration(c) + 1
        /\ sessions' = sessions \cup {nextId}
        /\ generation' = [generation EXCEPT ![nextId] = NewGeneration(c)]
        /\ offset' = [offset EXCEPT ![nextId] = c.offset]
        /\ pending' = [pending EXCEPT ![nextId] = c.pending]
    BY <1>5 DEF OpenSession
  <2>2. GenerationsBelow'
    BY <1>1, <1>2, <1>3, <2>1 DEF GenerationsBelow
  <2>3. /\ generation'[nextId] = NewGeneration(c) /\ offset'[nextId] = c.offset
        /\ pending'[nextId] = c.pending
    BY <1>1, <2>1
  <2> QED BY <1>1, <1>2, <1>3, <1>4, <2>1, <2>2, <2>3
<1>6. CASE ~CountersLeft(c)
  <2>1. nextGeneration' = NewGeneration(c) /\ sessions' = sessions /\ generation' = generation
    BY <1>6 DEF OpenSession
  <2> QED BY <1>1, <1>2, <1>3, <2>1 DEF GenerationsBelow
<1> QED BY <1>5, <1>6

\* only OpenSession opens sessions and sets generations
LEMMA AllocationClass ==
  ASSUME [Next]_vars
  PROVE  \/ \E c \in Checkpoints : OpenSession(c)
         \/ /\ sessions' \subseteq sessions
            /\ generation' = generation /\ nextGeneration' = nextGeneration
<1> USE DEF registryVars, sessionVars, walletVars, allocation, tombstones
<1>1. ASSUME NEW t \in Threads, BeginCall(t) \/ Continue(t)
      PROVE  /\ sessions' \subseteq sessions
             /\ generation' = generation /\ nextGeneration' = nextGeneration
  <2>1. BeginCall(t) => sessions' = sessions /\ generation' = generation /\ nextGeneration' = nextGeneration
    BY DEF BeginCall, Lookup
  <2>2. RunCommand(t) => sessions' = sessions /\ generation' = generation /\ nextGeneration' = nextGeneration
    BY DEF RunCommand, CommandFails, ApplySyncBatch, WatchShieldedMint, UpdateWallet,
       GenerateDustAtOnce, ChangeWallet, ReserveGenerateDust, ReserveTransfer,
       ReserveFinalizeUnproven, Reserve, BeginUnreserved, BeginSubmit, RegisterUnreserved,
       RegisterFails, RegisterReserved, Register, CommitReserved, Unreserve, InsertSubmission,
       DiscardOperation
  <2>3. RunResume(t) => sessions' = sessions /\ generation' = generation /\ nextGeneration' = nextGeneration
    BY DEF RunResume, ResumeStale, RefuseResult, SubmissionStatusUnknown, SubmissionSettled,
       NextRound, CompleteOperation, FailOperation, ReinsertOperation, CheckOrphan, ReleaseOrphan
  <2> QED BY <1>1, <2>1, <2>2, <2>3 DEF Continue, FinishCancel, FinishClose
<1>2. ASSUME NEW t \in Threads,
             \/ \E o \in operations : TakeOperation(t, o) \/ CancelOperation(t, o)
             \/ \E s \in sessions : CloseSession(t, s)
      PROVE  /\ sessions' \subseteq sessions
             /\ generation' = generation /\ nextGeneration' = nextGeneration
  BY <1>2 DEF TakeOperation, CancelOperation, CloseSession
<1>3. \A k : ResumeCancelled(k) =>
        sessions' = sessions /\ generation' = generation /\ nextGeneration' = nextGeneration
  BY DEF ResumeCancelled
<1> QED BY <1>1, <1>2, <1>3 DEF Next, vars

\* A new session's generation is above every generation given so far and above that of
\* the checkpoint it was opened from, and it starts where that checkpoint left off, for
\* any checkpoint and any number of sessions.
THEOREM GenerationsAreFresh == Spec => FreshGeneration
<1> DEFINE GInv == TypeOK /\ GenerationsBelow
<1>1. Init => GInv
  BY InitTyped DEF Init, GenerationsBelow
<1>2. GInv /\ [Next]_vars => GInv'
  <2> SUFFICES ASSUME GInv, [Next]_vars PROVE GenerationsBelow'
    BY StepTyped
  <2>1. TypeOK'
    BY StepTyped
  <2> QED BY <2>1, OpenIsFresh, AllocationClass DEF GenerationsBelow
<1>3. GInv /\ GInv' /\ [Next]_vars =>
        [\A s \in sessions' \ sessions :
           /\ \A r \in 1..(nextId - 1) : generation[r] < generation'[s]
           /\ \E c \in Checkpoints : /\ c.generation < generation'[s]
                                     /\ c.offset = offset'[s] /\ c.pending = pending'[s]]_vars
  BY OpenIsFresh, AllocationClass
<1> HIDE DEF GInv
<1> QED BY <1>1, <1>2, <1>3, PTL DEF Spec, FreshGeneration

-----------------------------------------------------------------------------
(* A busy session has an owner                                             *)

\* a submission that was registered stays registered until its call returns, as long as
\* its session is open
MadeRegistered ==
  \A t \in Threads : Making(t) /\ held[t].session \in sessions => held[t] \in operations

LEMMA MadeStep ==
  ASSUME Base, TypeOK', OnePlace, MadeRegistered, [Next]_vars
  PROVE  MadeRegistered'
<1>1. /\ nextId \in Nat /\ sessions' \subseteq sessions \cup {nextId}
      /\ \A u \in Threads : Making(u) => held[u].session # nextId
  <2>1. \A u \in Threads : Making(u) => held[u].session < nextId
    BY DEF Base, SyncInv, ProposalInv, IdsAllocated, Making
  <2>2. sessions' \subseteq sessions \cup {nextId}
    BY AllocationClass DEF OpenSession
  <2> QED BY <2>1, <2>2 DEF Base, SyncInv, TypeOK
<1>2. CASE Rests
  BY <1>1, <1>2 DEF Rests, MadeRegistered, Making
<1>3. ASSUME NEW t \in Threads, Moves(t) PROVE MadeRegistered'
  BY <1>1, <1>3 DEF Moves, Same, MadeRegistered, Making
<1>4. ASSUME NEW t \in Threads, NEW o \in Operation, Registers(t, o) PROVE MadeRegistered'
  BY <1>1, <1>4 DEF Registers, Same, MadeRegistered, Making
<1>5. ASSUME NEW t \in Threads, NEW o \in operations, Takes(t, o) PROVE MadeRegistered'
  BY <1>1, <1>5 DEF Takes, Issued, Same, MadeRegistered, Making
<1>6. ASSUME NEW t \in Threads, PutsBack(t) PROVE MadeRegistered'
  BY <1>1, <1>6 DEF PutsBack, Same, MadeRegistered, Making
<1>7. ASSUME NEW t \in Threads, Discards(t) PROVE MadeRegistered'
  BY <1>1, <1>7 DEF Discards, Same, MadeRegistered, Making, OnePlace, HeldOnce, Holds
<1>8. ASSUME NEW t \in Threads, NEW s \in sessions, Closes(t, s) PROVE MadeRegistered'
  BY <1>1, <1>8 DEF Closes, Same, MadeRegistered, Making
<1> QED BY <1>2, <1>3, <1>4, <1>5, <1>6, <1>7, <1>8, StepClass


\* call t answers for session s
Guards(t, s) ==
  /\ held[t].session = s
  /\ \/ active[s] = Reserved /\ Reserving(t)
     \/ active[s] = held[t].id /\ pc[t] \in WithOperation

LEMMA ResponsibleIs ==
  ASSUME NEW s \in Ids
  PROVE  Responsible(s) <=> \/ \E o \in operations : o.session = s /\ o.id = active[s]
                            \/ \E t \in Threads : Guards(t, s)
BY DEF Responsible, Guards, Reserving, WithOperation

\* A step of call t leaves every busy session with an owner if it leaves one to the
\* session that t answered for and to those whose operation it took out.
Settles(t) ==
  /\ Same(t) /\ sessions' \subseteq sessions
  /\ \A s \in Ids : active'[s] = active[s] \/ active'[s] = None \/ Responsible(s)'
  /\ \A o \in operations :
       o.session \in sessions' /\ o.id = active'[o.session] => o \in operations' \/ Responsible(o.session)'
  /\ \A s \in sessions' : Guards(t, s) /\ active'[s] = active[s] /\ active[s] # None => Responsible(s)'

LEMMA SettlesBusy ==
  ASSUME TypeOK, TypeOK', BusyHasOwner, NEW t \in Threads, Settles(t)
  PROVE  BusyHasOwner'
<1> SUFFICES ASSUME NEW s \in sessions', active'[s] # None, active'[s] = active[s]
             PROVE  Responsible(s)'
  BY DEF BusyHasOwner, Settles, TypeOK
<1>0. s \in sessions /\ s \in Ids
  BY DEF Settles, TypeOK
<1>1. ASSUME NEW o \in operations, o.session = s, o.id = active[s] PROVE Responsible(s)'
  <2>1. o \in operations' \/ Responsible(s)'
    BY <1>1 DEF Settles
  <2> QED BY <1>1, <2>1 DEF Responsible
<1>2. ASSUME NEW u \in Threads, Guards(u, s) PROVE Responsible(s)'
  <2>1. CASE u = t
    BY <1>0, <1>2, <2>1 DEF Settles
  <2>2. CASE u # t
    <3>1. Guards(u, s)'
      BY <1>2, <2>2 DEF Settles, Same, Guards, Reserving
    <3> QED BY <1>0, <3>1, ResponsibleIs DEF Responsible, Guards, Reserving, WithOperation
  <2> QED BY <2>1, <2>2
<1> QED BY <1>0, <1>1, <1>2, ResponsibleIs DEF BusyHasOwner

\* the steps that leave the operations alone
LEMMA CommandSettles ==
  ASSUME Base, TypeOK', OnePlace, MadeRegistered, NEW t \in Threads, RunCommand(t), Moves(t)
  PROVE  Settles(t)
<1> USE DEF registryVars, sessionVars, walletVars, allocation, tombstones
<1> PICK s \in Ids : s = held[t].session
  BY OperationTyped DEF Base, SyncInv, TypeOK
<1>0. /\ s = held[t].session
      /\ active \in [Ids -> 0..MaxCounter] /\ held \in [Threads -> Operation]
      /\ pc \in [Threads -> PCs] /\ Same(t) /\ operations' = operations /\ sessions' = sessions
      /\ sessions \subseteq Ids
  <2>1. sessions' = sessions
    BY DEF RunCommand, CommandFails, ApplySyncBatch, WatchShieldedMint, UpdateWallet,
       GenerateDustAtOnce, ChangeWallet, ReserveGenerateDust, ReserveTransfer,
       ReserveFinalizeUnproven, Reserve, BeginUnreserved, BeginSubmit, RegisterUnreserved,
       RegisterFails, RegisterReserved, Register, CommitReserved, Unreserve, InsertSubmission,
       DiscardOperation
  <2> QED BY <2>1, OperationTyped DEF Base, SyncInv, TypeOK, Moves
<1>1. ASSUME active' = active, pc[t] \in {"run", "register"} PROVE Settles(t)
  BY <1>0, <1>1 DEF Settles, Guards, Reserving, WithOperation
<1>2. ASSUME NEW kind, NEW w, Reserve(t, kind, w), pc[t] = "run" PROVE Settles(t)
  <2>1. active' = [active EXCEPT ![s] = Reserved] /\ pc'[t] = "proving" /\ held'[t].session = s
    BY <1>0, <1>2 DEF Reserve, Goto, Operation
  <2>2. Responsible(s)'
    BY <1>0, <2>1 DEF Responsible
  <2>3. ~\E r \in Ids : Guards(t, r)
    BY <1>2 DEF Guards, Reserving, WithOperation
  <2>4. \A r \in Ids \ {s} : active'[r] = active[r]
    BY <1>0, <2>1
  <2> QED BY <1>0, <2>2, <2>3, <2>4 DEF Settles, Guards, Base, SyncInv, TypeOK
<1>3. ASSUME CommitReserved(t) PROVE Settles(t)
  BY <1>0, <1>3 DEF CommitReserved, Goto, Settles, Guards, Reserving, WithOperation, Responsible
<1>4. ASSUME Unreserve(t) PROVE Settles(t)
  <2>1. active[s] = Reserved
    BY <1>4 DEF Unreserve, Base, SyncInv, ProposalInv, ReservationHeld, Reserving
  <2>2. active' = [active EXCEPT ![s] = None]
    BY <1>4, <2>1 DEF Unreserve, ClearActive
  <2> QED BY <1>0, <2>1, <2>2 DEF Settles, Guards, Reserved, None
<1>5. ASSUME InsertSubmission(t) PROVE Settles(t)
  <2>1. active' = active /\ pc[t] = "insert"
    BY <1>5 DEF InsertSubmission
  <2>2. ASSUME s \in sessions, active[s] = held[t].id PROVE Responsible(s)'
    <3>1. held[t] \in operations
      BY <2>1, <2>2 DEF MadeRegistered, Making
    <3> QED BY <1>0, <2>1, <2>2, <3>1 DEF Responsible
  <2> QED BY <1>0, <2>1, <2>2 DEF Settles, Guards, Reserving
<1>6. CASE DiscardOperation(t)
  <2>1. Making(t) /\ ~Making(t)'
    BY <1>0, <1>6 DEF DiscardOperation, Return, Goto, Making
  <2> QED BY <2>1, <1>6 DEF Moves, Delivers, DiscardOperation
<1>7. CASE RegisterUnreserved(t) \/ RegisterReserved(t)
  <2>1. nextId' = nextId + 1 /\ nextId \in Nat
    BY <1>7 DEF RegisterUnreserved, RegisterReserved, Register, Base, SyncInv, TypeOK
  <2> QED BY <2>1 DEF Moves
<1>8. CommandFails(t) \/ ApplySyncBatch(t) \/ RegisterFails(t) \/ WatchShieldedMint(t) \/ UpdateWallet(t)
      \/ GenerateDustAtOnce(t) \/ BeginUnreserved(t) \/ BeginSubmit(t) => Settles(t)
  BY <1>1 DEF CommandFails, ApplySyncBatch, RegisterFails, WatchShieldedMint, UpdateWallet,
     GenerateDustAtOnce, BeginUnreserved, BeginSubmit, ChangeWallet, Running
<1>9. ReserveGenerateDust(t) \/ ReserveTransfer(t) \/ ReserveFinalizeUnproven(t) => Settles(t)
  BY <1>2 DEF ReserveGenerateDust, ReserveTransfer, ReserveFinalizeUnproven, Running
<1> QED
  BY <1>3, <1>4, <1>5, <1>6, <1>7, <1>8, <1>9 DEF RunCommand

LEMMA RegisterSettles ==
  ASSUME Base, TypeOK', OnePlace, MadeRegistered, NEW t \in Threads,
         RegisterUnreserved(t) \/ RegisterReserved(t) \/ DiscardOperation(t)
  PROVE  Settles(t)
<1> USE DEF registryVars, sessionVars, walletVars, allocation, tombstones
<1> PICK s \in Ids : s = held[t].session
  BY OperationTyped DEF Base, SyncInv, TypeOK
<1>0. /\ s = held[t].session /\ active \in [Ids -> 0..MaxCounter]
      /\ held \in [Threads -> Operation] /\ pc \in [Threads -> PCs] /\ nextId \in 0..MaxCounter
      /\ sessions' = sessions /\ sessions \subseteq Ids
  BY DEF Base, SyncInv, TypeOK, RegisterUnreserved, RegisterReserved, DiscardOperation, Register
<1>1. ASSUME NEW kind \in Kinds \cup Commands \cup {"none"}, NEW next \in {"idle", "insert"},
             Register(t, kind, next)
      PROVE  Settles(t)
  <2> DEFINE o == [held[t] EXCEPT !.id = nextId, !.kind = kind]
  <2>1. o.id = nextId /\ o.session = s
    BY <1>0 DEF Operation
  <2>2. /\ operations' = operations \cup {o} /\ Same(t)
        /\ active' = [active EXCEPT ![s] = nextId]
    BY <1>0, <1>1, <2>1 DEF Register, Goto, Same
  <2> HIDE DEF o
  <2>3. Responsible(s)'
    BY <1>0, <2>1, <2>2 DEF Responsible
  <2>4. \A r \in Ids \ {s} : active'[r] = active[r] /\ ~Guards(t, r)
    BY <1>0, <2>2 DEF Guards
  <2> QED BY <1>0, <2>2, <2>3, <2>4 DEF Settles
<1>2. ASSUME DiscardOperation(t) PROVE Settles(t)
  <2>1. /\ operations' = operations \ {held[t]} /\ Same(t) /\ pc[t] = "discard"
        /\ IF held[t] \in operations /\ s \in sessions
           THEN ClearActive(s, held[t].id) ELSE active' = active
    BY <1>0, <1>2 DEF DiscardOperation, Return, Goto, Same
  <2>2. s \in sessions => held[t] \in operations
    BY <1>0, <2>1 DEF MadeRegistered, Making
  <2>3. /\ \A r \in Ids \ {s} : active'[r] = active[r]
        /\ active'[s] = active[s] \/ active'[s] = None
        /\ s \in sessions => active'[s] # held[t].id \/ active'[s] = None
    BY <1>0, <2>1, <2>2 DEF ClearActive
  <2>4. held[t].id # None
    BY <2>1 DEF Base, SyncInv, ProposalInv, IdsAllocated, WithOperation
  <2> QED BY <1>0, <2>1, <2>3, <2>4 DEF Settles, Guards, Reserving
<1>3. held[t].kind \in Kinds \cup Commands \cup {"none"} /\ "transactionBalance" \in Kinds
      /\ "balance" \in Kinds
  BY <1>0, OperationTyped DEF Kinds, ProofKinds
<1>4. ASSUME RegisterUnreserved(t) PROVE Settles(t)
  <2> DEFINE next == IF held[t].kind = "submitFinalized" THEN "insert" ELSE "idle"
  <2>1. Register(t, held[t].kind, next)
    BY <1>4 DEF RegisterUnreserved
  <2>2. next \in {"idle", "insert"}
    OBVIOUS
  <2> HIDE DEF next
  <2> QED BY <1>1, <1>3, <2>1, <2>2
<1>5. RegisterReserved(t) => Settles(t)
  BY <1>1, <1>3 DEF RegisterReserved
<1> QED BY <1>2, <1>4, <1>5

LEMMA ResumeSettles ==
  ASSUME Base, TypeOK', OnePlace, NEW t \in Threads, RunResume(t) \/ FinishCancel(t)
  PROVE  Settles(t)
<1> USE DEF registryVars, sessionVars, walletVars, allocation, tombstones
<1> PICK s \in Ids : s = held[t].session
  BY OperationTyped DEF Base, SyncInv, TypeOK
<1>0. /\ s = held[t].session /\ active \in [Ids -> 0..MaxCounter]
      /\ held \in [Threads -> Operation] /\ pc \in [Threads -> PCs]
      /\ sessions \subseteq Ids
  BY DEF Base, SyncInv, TypeOK
<1>1. sessions' = sessions
  BY DEF RunResume, ResumeStale, RefuseResult, SubmissionStatusUnknown, SubmissionSettled,
     NextRound, CompleteOperation, FailOperation, ReinsertOperation, CheckOrphan, ReleaseOrphan,
     FinishCancel
\* the call frees the session it answered for, and returns
<1>2. ASSUME operations' = operations, ClearActive(s, held[t].id), Same(t),
             pc[t] \in WithOperation
      PROVE  Settles(t)
  BY <1>0, <1>1, <1>2 DEF ClearActive, Settles, Guards, Reserving, WithOperation
\* the call goes on with its operation
<1>3. ASSUME operations' = operations, Same(t), pc'[t] \in WithOperation, pc[t] \in WithOperation,
             held'[t].id = held[t].id, held'[t].session = s,
             active' = active \/ ClearActive(s, held[t].id)
      PROVE  Settles(t)
  <2>1. \A r \in Ids : active'[r] = active[r] \/ active'[r] = None
    BY <1>0, <1>3 DEF ClearActive
  <2>2. ~Reserving(t)
    BY <1>3 DEF Reserving, WithOperation
  <2>3. active'[s] = active[s] /\ active[s] = held[t].id => Responsible(s)'
    BY <1>3 DEF Responsible, WithOperation
  <2> QED BY <1>0, <1>1, <1>3, <2>1, <2>2, <2>3 DEF Settles, Guards
<1>4. \A next : Goto(t, next) => Same(t) \/ held' # held
  BY <1>0 DEF Goto, Same
<1>5. ASSUME NEW next \in WithOperation, Goto(t, next), held' = held, operations' = operations,
             pc[t] \in WithOperation, active' = active \/ ClearActive(s, held[t].id)
      PROVE  Settles(t)
  <2>1. Same(t) /\ pc'[t] = next
    BY <1>0, <1>5 DEF Goto, Same
  <2> QED BY <1>0, <1>3, <1>5, <2>1
<1>6. ResumeStale(t) \/ RefuseResult(t) \/ SubmissionStatusUnknown(t) => Settles(t)
  BY <1>5 DEF ResumeStale, RefuseResult, SubmissionStatusUnknown, Resuming, WithOperation
<1>7. Return(t) => Same(t) /\ pc'[t] = "idle"
  BY <1>0 DEF Return, Goto, Same
<1>8. SubmissionSettled(t) \/ CompleteOperation(t) \/ ReleaseOrphan(t) \/ FinishCancel(t) => Settles(t)
  BY <1>0, <1>2, <1>7 DEF SubmissionSettled, CompleteOperation, ReleaseOrphan, FinishCancel,
     Resuming, WithOperation
<1>9. FailOperation(t) => Settles(t)
  BY <1>0, <1>5 DEF FailOperation, Resuming, WithOperation
<1>10. ASSUME NextRound(t) PROVE Settles(t)
  <2>1. /\ Same(t) /\ pc[t] = "resume" /\ pc'[t] = "reinsert"
        /\ operations' = operations /\ active' = active
    BY <1>0, <1>10 DEF NextRound, Resuming, Goto, Same
  <2>2. held'[t].id = held[t].id /\ held'[t].session = s
    BY <1>0, <1>10 DEF NextRound, Operation
  <2> QED BY <1>3, <2>1, <2>2 DEF WithOperation
<1>11. ASSUME ReinsertOperation(t) PROVE Settles(t)
  <2>1. /\ Same(t) /\ operations' = operations \cup {held[t]} /\ active' = active
        /\ pc[t] \in {"reinsert", "refuse"}
    BY <1>0, <1>11 DEF ReinsertOperation, Return, Goto, Same
  <2>2. active[s] = held[t].id => Responsible(s)'
    BY <1>0, <2>1 DEF Responsible
  <2> QED BY <1>0, <1>1, <2>1, <2>2 DEF Settles, Guards, Reserving
<1>12. ASSUME CheckOrphan(t) PROVE Settles(t)
  <2>1. CASE \E o \in operations : o.id = held[t].id
    <3>1. /\ Same(t) /\ operations' = operations /\ active' = active /\ pc[t] = "orphan"
      BY <1>0, <1>12, <2>1 DEF CheckOrphan, Return, Goto, Same
    <3>2. active[s] = held[t].id => Responsible(s)'
      BY <1>0, <2>1, <3>1 DEF Responsible, OnePlace, NamesAgree, Late
    <3> QED BY <1>0, <1>1, <3>1, <3>2 DEF Settles, Guards, Reserving
  <2>2. CASE ~\E o \in operations : o.id = held[t].id
    BY <1>5, <1>12, <2>2 DEF CheckOrphan, WithOperation
  <2> QED BY <2>1, <2>2
<1> QED
  BY <1>6, <1>8, <1>9, <1>10, <1>11, <1>12 DEF RunResume

LEMMA BeginSettles ==
  ASSUME Base, TypeOK', OnePlace, NEW t \in Threads,
         \/ BeginCall(t) \/ FinishClose(t)
         \/ \E o \in operations : TakeOperation(t, o) \/ CancelOperation(t, o)
         \/ \E s \in sessions : CloseSession(t, s)
  PROVE  Settles(t)
<1> USE DEF registryVars, sessionVars, walletVars, threadVars, allocation, tombstones
<1>0. /\ active \in [Ids -> 0..MaxCounter] /\ held \in [Threads -> Operation]
      /\ pc \in [Threads -> PCs] /\ sessions \subseteq Ids
  BY DEF Base, SyncInv, TypeOK
<1>1. /\ active' = active /\ Same(t) /\ pc[t] \in {"idle", "closing"}
      /\ sessions' \subseteq sessions
  BY <1>0 DEF BeginCall, Lookup, FinishClose, TakeOperation, CancelOperation, CloseSession,
     Goto, Return, Same
<1>2. ASSUME NEW o \in operations, o.session \in sessions'
      PROVE  o \in operations' \/ \E u \in Threads : held'[u] = o /\ pc'[u] \in {"resume", "cancel"}
  <2>1. CASE BeginCall(t) \/ FinishClose(t)
    BY <2>1 DEF BeginCall, Lookup, FinishClose
  <2>2. ASSUME NEW p \in operations, TakeOperation(t, p) \/ CancelOperation(t, p),
               o \notin operations'
        PROVE  held'[t] = o /\ pc'[t] \in {"resume", "cancel"}
    BY <1>0, <1>2, <2>2 DEF TakeOperation, CancelOperation, Goto
  <2>3. ASSUME NEW s \in sessions, CloseSession(t, s) PROVE o \in operations'
    BY <1>2, <2>3 DEF CloseSession
  <2> QED BY <2>1, <2>2, <2>3
<1>3. \A r \in Ids : ~Guards(t, r)
  BY <1>1 DEF Guards, Reserving, WithOperation
<1>4. ASSUME NEW o \in operations, o.session \in sessions', o.id = active'[o.session],
             o \notin operations'
      PROVE  Responsible(o.session)'
  <2>1. PICK u \in Threads : held'[u] = o /\ pc'[u] \in {"resume", "cancel"}
    BY <1>2, <1>4
  <2> PICK r : r = o.session
    OBVIOUS
  <2>2. Responsible(r)'
    BY <1>4, <2>1 DEF Responsible
  <2> QED BY <2>2
<1> QED BY <1>0, <1>1, <1>3, <1>4 DEF Settles

BusyInv == OperationInv /\ MadeRegistered /\ BusyHasOwner

LEMMA BusyStep == BusyInv /\ [Next]_vars => BusyInv'
<1> SUFFICES ASSUME BusyInv, [Next]_vars PROVE BusyInv'
  OBVIOUS
<1> USE DEF registryVars, sessionVars, walletVars, threadVars, allocation, tombstones
<1>1. /\ Base /\ OnePlace /\ MadeRegistered /\ BusyHasOwner /\ TypeOK
      /\ OperationInv' /\ TypeOK'
  BY OperationStep DEF BusyInv, OperationInv, Base, SyncInv
<1>2. MadeRegistered'
  BY <1>1, MadeStep
<1>3. ASSUME NEW t \in Threads, Settles(t) PROVE BusyHasOwner'
  BY <1>1, <1>3, SettlesBusy
<1>4. ASSUME NEW c \in Checkpoints, OpenSession(c) PROVE BusyHasOwner'
  <2>1. /\ active \in [Ids -> 0..MaxCounter] /\ nextId \in Ids
        /\ sessions \subseteq Ids /\ sessions' \subseteq Ids
    BY <1>1 DEF TypeOK, Ids
  <2>2. /\ sessions' \subseteq sessions \cup {nextId}
        /\ (active' = active /\ sessions' = sessions) \/ active' = [active EXCEPT ![nextId] = None]
        /\ operations' = operations /\ pc' = pc /\ held' = held
    BY <1>4 DEF OpenSession
  <2>3. ASSUME NEW s \in sessions', active'[s] # None PROVE s \in sessions /\ active'[s] = active[s]
    BY <2>1, <2>2, <2>3
  <2>4. \A s \in sessions : Responsible(s) /\ active'[s] = active[s] => Responsible(s)'
    BY <2>2 DEF Responsible
  <2> QED BY <1>1, <2>3, <2>4 DEF BusyHasOwner
<1>5. ASSUME UNCHANGED vars \/ \E k \in cancelledOperations : ResumeCancelled(k) PROVE BusyHasOwner'
  BY <1>1, <1>5 DEF vars, ResumeCancelled, BusyHasOwner, Responsible
<1>6. ASSUME NEW t \in Threads, RunCommand(t) PROVE Settles(t)
  <2>1. CASE RegisterUnreserved(t) \/ RegisterReserved(t) \/ DiscardOperation(t)
    BY <1>1, <2>1, RegisterSettles
  <2>2. CASE ~(RegisterUnreserved(t) \/ RegisterReserved(t) \/ DiscardOperation(t))
    <3>1. nextId' = nextId /\ pc[t] # "discard"
      BY <1>6, <2>2 DEF RunCommand, CommandFails, ApplySyncBatch, WatchShieldedMint,
         UpdateWallet, GenerateDustAtOnce, ChangeWallet, ReserveGenerateDust, ReserveTransfer,
         ReserveFinalizeUnproven, Reserve, BeginUnreserved, BeginSubmit, RegisterFails,
         CommitReserved, Unreserve, InsertSubmission, Running
    <3>2. ~Discards(t) /\ \A o : ~Registers(t, o)
      BY <1>1, <3>1 DEF Discards, Registers, TypeOK
    <3> QED BY <1>1, <1>6, <3>2, CommandClass, CommandSettles
  <2> QED BY <2>1, <2>2
<1>7. BusyHasOwner'
  BY <1>1, <1>3, <1>4, <1>5, <1>6, ResumeSettles, BeginSettles DEF Next, Continue
<1> QED BY <1>1, <1>2, <1>7 DEF BusyInv

\* An open session that refuses other work has an operation that the client can resume
\* or cancel, or a call that is still running, however the calls of any number of
\* threads interleave: no error path leaves it blocked for good.
THEOREM BusySessionHasOwner == Spec => []BusyHasOwner
<1>1. Init => BusyInv
  BY OperationInit DEF Init, BusyInv, MadeRegistered, BusyHasOwner, Making
<1>2. BusyInv => BusyHasOwner
  BY DEF BusyInv
<1> QED BY <1>1, <1>2, BusyStep, PTL DEF Spec

-----------------------------------------------------------------------------
(* A registered operation is the one its session waits for                 *)

Resumer(t) == pc[t] \in {"resume", "reinsert", "refuse", "orphan", "release"}

OneResumer    == \A t, u \in Threads : t # u /\ Resumer(t) /\ Resumer(u) => held[t].id # held[u].id
ReleaseIsGone == \A t \in Threads : pc[t] = "release" => \A o \in operations : o.id # held[t].id
OwnedIsActive == \A t \in Threads : Owning(t) => active[held[t].session] = held[t].id

\* a call frees the session of the operation it holds
Clears(t) ==
  /\ pc[t] \in {"discard", "resume", "release", "cancel"} /\ pc'[t] \in {"idle", "orphan"} /\ Same(t)
  /\ pc[t] = "discard" => held[t] \notin operations'
  /\ active[held[t].session] = held[t].id
  /\ active' = [active EXCEPT ![held[t].session] = None]

LEMMA ActiveClass ==
  ASSUME Base, TypeOK', [Next]_vars
  PROVE  \/ active' = active
         \/ active' = [active EXCEPT ![nextId] = None]
         \/ \E s \in Ids : active[s] = None /\ active' = [active EXCEPT ![s] = Reserved]
         \/ \E s \in Ids : active[s] = Reserved /\ active' = [active EXCEPT ![s] = None]
         \/ \E t \in Threads, o \in Operation : Registers(t, o)
         \/ \E t \in Threads : Clears(t)
<1> USE DEF registryVars, sessionVars, walletVars, threadVars, allocation, tombstones
<1>0. /\ TypeOK /\ \A t \in Threads : held[t].session \in Ids
  BY OperationTyped DEF Base, SyncInv, TypeOK
<1>1. ASSUME NEW c \in Checkpoints, OpenSession(c)
      PROVE  active' = active \/ active' = [active EXCEPT ![nextId] = None]
  BY <1>1 DEF OpenSession
<1>2. ASSUME \/ \E k \in cancelledOperations : ResumeCancelled(k)
             \/ \E t \in Threads : \/ BeginCall(t) \/ FinishClose(t)
                                   \/ \E o \in operations : TakeOperation(t, o) \/ CancelOperation(t, o)
                                   \/ \E s \in sessions : CloseSession(t, s)
             \/ UNCHANGED vars
      PROVE  active' = active
  BY <1>2 DEF ResumeCancelled, BeginCall, Lookup, FinishClose, TakeOperation, CancelOperation,
     CloseSession, vars
<1>3. ASSUME NEW t \in Threads, NEW kind, NEW w, Reserve(t, kind, w)
      PROVE  \E s \in Ids : active[s] = None /\ active' = [active EXCEPT ![s] = Reserved]
  BY <1>0, <1>3 DEF Reserve
<1>4. ASSUME NEW t \in Threads, Unreserve(t)
      PROVE  \E s \in Ids : active[s] = Reserved /\ active' = [active EXCEPT ![s] = None]
  <2>1. active[held[t].session] = Reserved
    BY <1>4 DEF Unreserve, Base, SyncInv, ProposalInv, ReservationHeld, Reserving
  <2> QED BY <1>0, <1>4, <2>1 DEF Unreserve, ClearActive
<1>5. ASSUME NEW t \in Threads, ClearActive(held[t].session, held[t].id), Same(t),
             pc[t] \in {"discard", "resume", "release", "cancel"}, pc'[t] \in {"idle", "orphan"},
             pc[t] = "discard" => held[t] \notin operations'
      PROVE  active' = active \/ Clears(t)
  BY <1>5 DEF ClearActive, Clears
<1>6. ASSUME NEW t \in Threads, Return(t) \/ (held' = held /\ \E next : Goto(t, next)) PROVE Same(t)
  BY <1>0, <1>6 DEF Return, Goto, Same, TypeOK
<1>6r. ASSUME NEW t \in Threads
       PROVE  /\ Return(t) => pc'[t] = "idle"
              /\ Goto(t, "orphan") => pc'[t] = "orphan"
  BY <1>0 DEF Return, Goto, TypeOK
<1>7. ASSUME NEW t \in Threads, DiscardOperation(t) PROVE active' = active \/ Clears(t)
  BY <1>5, <1>6, <1>6r, <1>7 DEF DiscardOperation
<1>8. ASSUME NEW t \in Threads, RunResume(t) \/ FinishCancel(t)
      PROVE  active' = active \/ Clears(t)
  <2>1. SubmissionSettled(t) \/ CompleteOperation(t) \/ ReleaseOrphan(t) \/ FinishCancel(t)
          => active' = active \/ Clears(t)
    BY <1>5, <1>6, <1>6r DEF SubmissionSettled, CompleteOperation, ReleaseOrphan, FinishCancel, Resuming
  <2>2. FailOperation(t) => active' = active \/ Clears(t)
    BY <1>5, <1>6, <1>6r DEF FailOperation, Resuming
  <2> QED
    BY <1>8, <2>1, <2>2 DEF RunResume, ResumeStale, RefuseResult, SubmissionStatusUnknown,
       NextRound, ReinsertOperation, CheckOrphan
<1>9. ASSUME NEW t \in Threads, RunCommand(t), ~(RegisterUnreserved(t) \/ RegisterReserved(t))
      PROVE  \/ active' = active
             \/ \E s \in Ids : active[s] = None /\ active' = [active EXCEPT ![s] = Reserved]
             \/ \E s \in Ids : active[s] = Reserved /\ active' = [active EXCEPT ![s] = None]
             \/ Clears(t)
  <2>1. ReserveGenerateDust(t) \/ ReserveTransfer(t) \/ ReserveFinalizeUnproven(t) =>
          \E s \in Ids : active[s] = None /\ active' = [active EXCEPT ![s] = Reserved]
    BY <1>3 DEF ReserveGenerateDust, ReserveTransfer, ReserveFinalizeUnproven
  <2> QED
    BY <1>4, <1>7, <1>9, <2>1 DEF RunCommand, CommandFails, ApplySyncBatch, WatchShieldedMint,
       UpdateWallet, GenerateDustAtOnce, ChangeWallet, BeginUnreserved, BeginSubmit,
       RegisterFails, CommitReserved, InsertSubmission
<1>10. ASSUME NEW t \in Threads, RegisterUnreserved(t) \/ RegisterReserved(t)
       PROVE  \E o \in Operation : Registers(t, o)
  <2>1. nextId' = nextId + 1 /\ nextId \in Nat /\ pc[t] # "discard"
    BY <1>0, <1>10 DEF RegisterUnreserved, RegisterReserved, Register, TypeOK
  <2>2. ~Moves(t) /\ ~Discards(t)
    BY <2>1 DEF Moves, Discards
  <2> QED BY <1>10, <2>2, CommandClass DEF RunCommand
<1> QED
  BY <1>1, <1>2, <1>8, <1>9, <1>10 DEF Next, Continue

\* an operation stays active until a call that holds it frees its session
LEMMA StaysActive ==
  ASSUME Base, TypeOK', [Next]_vars, NEW o \in Operation, active[o.session] = o.id,
         o.id # None, o.id < nextId, o.session < nextId,
         \A t \in Threads : Clears(t) => held[t].id # o.id
  PROVE  active'[o.session] = o.id
<1>1. /\ active \in [Ids -> 0..MaxCounter] /\ o.session \in Ids /\ nextId \in 1..MaxCounter
      /\ o.id # Reserved /\ o.session # nextId
  <2>1. active \in [Ids -> 0..MaxCounter] /\ nextId \in 1..MaxCounter
    BY DEF Base, SyncInv, TypeOK
  <2>2. o.session \in Ids
    BY OperationTyped
  <2>3. o.id # Reserved /\ o.session # nextId
    BY <2>1, CounterAssumption DEF Reserved
  <2> QED BY <2>1, <2>2, <2>3
<1>2. ASSUME NEW t \in Threads, NEW p \in Operation, Registers(t, p) PROVE p.session # o.session
  BY <1>1, <1>2 DEF Registers, CanRegister
<1> QED BY <1>1, <1>2, ActiveClass DEF Clears, Registers

ActiveInv == OneResumer /\ ReleaseIsGone /\ OwnedIsActive /\ RegisteredIsActive

LEMMA OneResumerStep ==
  ASSUME "oneResume" \in ClientRules, Base, TypeOK', OneResumer, ReleaseIsGone, [Next]_vars
  PROVE  OneResumer' /\ ReleaseIsGone'
<1>0. nextId \in Nat /\ \A u \in Threads : Resumer(u) => held[u].id # nextId
  <2>1. \A u \in Threads : Resumer(u) => held[u].id < nextId
    BY DEF Base, SyncInv, ProposalInv, IdsAllocated, Resumer, WithOperation
  <2> QED BY <2>1 DEF Base, SyncInv, TypeOK
<1>1. CASE Rests
  BY <1>1 DEF Rests, OneResumer, ReleaseIsGone, Resumer
<1>2. ASSUME NEW t \in Threads, Moves(t) PROVE OneResumer' /\ ReleaseIsGone'
  <2>1. Resumer(t)' => Resumer(t) /\ held'[t].id = held[t].id
    BY <1>2 DEF Moves, Resumer, Carrying, Late, Owning, Alike
  <2>2. pc'[t] = "release" => held'[t].id = held[t].id /\ \A o \in operations : o.id # held[t].id
    BY <1>2 DEF Moves, Late
  <2>3. OneResumer'
    BY <1>2, <2>1 DEF Moves, Same, OneResumer, Resumer
  <2>4. ReleaseIsGone'
    BY <1>2, <2>2 DEF Moves, Same, ReleaseIsGone
  <2> QED BY <2>3, <2>4
<1>3. ASSUME NEW t \in Threads, NEW o \in Operation, Registers(t, o) PROVE OneResumer' /\ ReleaseIsGone'
  <2>1. ~Resumer(t)'
    BY <1>3 DEF Registers, Resumer
  <2>2. OneResumer'
    BY <1>3, <2>1 DEF Registers, Same, OneResumer, Resumer
  <2>3. ReleaseIsGone'
    BY <1>0, <1>3, <2>1 DEF Registers, Same, ReleaseIsGone, Resumer
  <2> QED BY <2>2, <2>3
<1>4. ASSUME NEW t \in Threads, NEW o \in operations, Takes(t, o) PROVE OneResumer' /\ ReleaseIsGone'
  <2>1. Resumer(t)' => held'[t] = o /\ \A u \in Threads \ {t} : Resumer(u) => held[u].id # o.id
    BY <1>4 DEF Takes, MayResume, Resumer
  <2>2. OneResumer'
    BY <1>4, <2>1 DEF Takes, Same, OneResumer, Resumer
  <2>3. ReleaseIsGone'
    BY <1>4 DEF Takes, Same, ReleaseIsGone
  <2> QED BY <2>2, <2>3
<1>5. ASSUME NEW t \in Threads, PutsBack(t) PROVE OneResumer' /\ ReleaseIsGone'
  <2>1. Resumer(t) /\ (Resumer(t)' => held'[t] = held[t]) /\ pc'[t] # "release"
    BY <1>5 DEF PutsBack, Resumer
  <2>2. OneResumer'
    BY <1>5, <2>1 DEF PutsBack, Same, OneResumer, Resumer
  <2>3. ReleaseIsGone'
    BY <1>5, <2>1 DEF PutsBack, Same, ReleaseIsGone, OneResumer, Resumer
  <2> QED BY <2>2, <2>3
<1>6. ASSUME NEW t \in Threads, Discards(t) \/ \E s \in sessions : Closes(t, s)
      PROVE  OneResumer' /\ ReleaseIsGone'
  <2>1. ~Resumer(t)' /\ Same(t) /\ operations' \subseteq operations
    BY <1>6 DEF Discards, Closes, Resumer
  <2> QED BY <2>1 DEF Same, OneResumer, ReleaseIsGone, Resumer
<1> QED BY <1>1, <1>2, <1>3, <1>4, <1>5, <1>6, StepClass

LEMMA ActiveStep ==
  ASSUME "oneResume" \in ClientRules, Base, TypeOK', OnePlace, ActiveInv, [Next]_vars
  PROVE  ActiveInv'
<1> USE DEF ActiveInv
<1>0. /\ nextId \in Nat /\ \A o \in operations : o \in Operation
      /\ \A t \in Threads : held[t] \in Operation
      /\ \A o \in operations : o.id # None /\ o.id < nextId /\ o.session < nextId
      /\ \A t \in Threads : Carrying(t) => held[t].id # None /\ held[t].id < nextId /\ held[t].session < nextId
  BY DEF Base, SyncInv, ProposalInv, IdsAllocated, KindsRight, TypeOK, Carrying, WithOperation
<1>1. ASSUME NEW o \in operations,
             o \in operations' \/ \A t \in Threads : pc[t] = "discard" => held[t].id # o.id
      PROVE  active'[o.session] = o.id
  <2>1. active[o.session] = o.id
    BY DEF RegisteredIsActive
  <2>2. ASSUME NEW t \in Threads, Clears(t) PROVE held[t].id # o.id
    BY <1>1, <2>2 DEF Clears, OnePlace, HeldApart, Making, Carrying, ReleaseIsGone
  <2> QED BY <1>0, <2>1, <2>2, StaysActive
<1>2. ASSUME NEW t \in Threads, Owning(t), active[held[t].session] = held[t].id, ~Clears(t)
      PROVE  active'[held[t].session] = held[t].id
  <2>1. ASSUME NEW u \in Threads, Clears(u) PROVE held[u].id # held[t].id
    BY <1>2, <2>1 DEF Clears, OnePlace, HeldOnce, Holds, Making, Carrying, Owning, OneResumer, Resumer
  <2>2. Carrying(t)
    BY <1>2 DEF Owning, Carrying
  <2> QED BY <1>0, <1>2, <2>1, <2>2, StaysActive
<1>3. ASSUME NEW o \in operations', o \notin operations PROVE active'[o.session] = o.id
  <2>1. ASSUME NEW t \in Threads, NEW p \in Operation, Registers(t, p) PROVE active'[o.session] = o.id
    <3>1. o = p /\ p.session \in Ids /\ active \in [Ids -> 0..MaxCounter]
      BY <1>3, <2>1, OperationTyped DEF Registers, Base, SyncInv, TypeOK
    <3> QED BY <2>1, <3>1 DEF Registers
  <2>2. ASSUME NEW t \in Threads, PutsBack(t) PROVE active'[o.session] = o.id
    <3>1. o = held[t] /\ pc[t] \in {"reinsert", "refuse"}
      BY <1>3, <2>2 DEF PutsBack
    <3>2. Owning(t) /\ active[held[t].session] = held[t].id /\ ~Clears(t)
      BY <3>1 DEF Owning, OwnedIsActive, Clears
    <3> QED BY <1>2, <3>1, <3>2
  <2>3. /\ ~Rests
        /\ \A t \in Threads : /\ ~Moves(t) /\ ~Discards(t)
                              /\ \A p \in operations : ~Takes(t, p)
                              /\ \A s \in sessions : ~Closes(t, s)
    BY <1>3 DEF Rests, Moves, Discards, Takes, Closes
  <2> QED BY <2>1, <2>2, <2>3, StepClass
<1>4. RegisteredIsActive'
  BY <1>1, <1>3 DEF RegisteredIsActive
<1>5. ASSUME NEW t \in Threads, Owning(t)'
      PROVE  active'[held'[t].session] = held'[t].id
  <2>1. CASE Moves(t)
    <3>1. IsCurrent(t) /\ active' = active /\ Carrying(t)'
      BY <1>5, <2>1 DEF Moves, Carrying, Owning
    <3>2. Alike(held'[t], held[t])
      BY <2>1, <3>1 DEF Moves
    <3> QED BY <3>1, <3>2 DEF IsCurrent, Alike
  <2>2. ASSUME NEW o \in operations, Takes(t, o) PROVE active'[held'[t].session] = held'[t].id
    <3>1. held'[t] = o /\ \A u \in Threads : pc[u] = "discard" => held[u].id # o.id
      BY <1>5, <2>2 DEF Takes, Issued, Owning
    <3> QED BY <1>1, <3>1
  <2>3. CASE ~Moves(t) /\ \A o \in operations : ~Takes(t, o)
    <3>1. ~(PutsBack(t) \/ Discards(t) \/ (\E o \in Operation : Registers(t, o))
            \/ (\E s \in sessions : Closes(t, s)))
      BY <1>5 DEF PutsBack, Discards, Registers, Closes, Owning
    <3>2. pc'[t] = pc[t] /\ held'[t] = held[t]
      <4>1. CASE Rests
        BY <4>1 DEF Rests
      <4>2. ASSUME NEW u \in Threads, Same(u), u # t PROVE pc'[t] = pc[t] /\ held'[t] = held[t]
        BY <4>2 DEF Same
      <4> QED
        BY <2>3, <3>1, <4>1, <4>2, StepClass DEF Moves, PutsBack, Discards, Registers, Takes, Closes
    <3>3. Owning(t) /\ active[held[t].session] = held[t].id
      BY <1>5, <3>2 DEF Owning, OwnedIsActive
    <3>4. ~Clears(t)
      BY <3>1, <3>2, <3>3, <2>3 DEF Clears
    <3> QED BY <1>2, <3>2, <3>3, <3>4
  <2> QED BY <2>1, <2>2, <2>3
<1>6. OwnedIsActive'
  BY <1>5 DEF OwnedIsActive
<1> QED BY <1>4, <1>6, OneResumerStep

\* As long as no operation is resumed by two threads at once, every registered operation
\* is the one its session waits for: no late cleanup (clear_orphaned_active_operation)
\* frees a session whose operation is still to be resumed.
THEOREM RegisteredStaysActive ==
  ASSUME "oneResume" \in ClientRules
  PROVE  Spec => []RegisteredIsActive
<1>1. Init => OperationInv /\ ActiveInv
  BY OperationInit DEF Init, ActiveInv, OneResumer, ReleaseIsGone, OwnedIsActive,
     RegisteredIsActive, Resumer, Owning
<1>2. OperationInv /\ ActiveInv /\ [Next]_vars => (OperationInv /\ ActiveInv)'
  BY OperationStep, ActiveStep DEF OperationInv, Base, SyncInv
<1>3. ActiveInv => RegisteredIsActive
  BY DEF ActiveInv
<1> QED BY <1>1, <1>2, <1>3, PTL DEF Spec

-----------------------------------------------------------------------------
(* A submission that awaits a response has an operation                    *)

\* only sessions that have left the registry are marked as closing
ClosingGone ==
  /\ \A s \in sessions : ~closing[s]
  /\ \A t \in Threads : pc[t] = "closing" => held[t].session \notin sessions

LEMMA ClosingStep ==
  ASSUME Base, TypeOK', ClosingGone, [Next]_vars
  PROVE  ClosingGone'
<1> USE DEF registryVars, sessionVars, walletVars, threadVars, allocation, tombstones
<1>0. /\ closing \in [Ids -> BOOLEAN] /\ nextId \in Ids /\ nextId \in Nat
      /\ held \in [Threads -> Operation] /\ pc \in [Threads -> PCs] /\ sessions \subseteq Ids
      /\ \A t \in Threads : pc[t] # "idle" => held[t].session # nextId
      /\ \A t \in Threads : held[t].session \in Ids
  <2>1. \A t \in Threads : pc[t] # "idle" => held[t].session < nextId
    BY DEF Base, SyncInv, ProposalInv, IdsAllocated
  <2>2. nextId \in Nat
    BY DEF Base, SyncInv, TypeOK
  <2> QED BY <2>1, <2>2, OperationTyped DEF Base, SyncInv, TypeOK, Ids
<1>1. ASSUME NEW c \in Checkpoints, OpenSession(c) PROVE ClosingGone'
  <2>1. /\ pc' = pc /\ held' = held
        /\ \/ sessions' = sessions /\ closing' = closing
           \/ sessions' = sessions \cup {nextId} /\ closing' = [closing EXCEPT ![nextId] = FALSE]
    BY <1>1 DEF OpenSession
  <2> QED BY <1>0, <2>1 DEF ClosingGone
<1>2. ASSUME NEW t \in Threads, NEW s \in sessions, CloseSession(t, s) PROVE ClosingGone'
  <2>1. /\ pc' = [pc EXCEPT ![t] = "closing"] /\ sessions' = sessions \ {s} /\ closing' = closing
        /\ held'[t].session = s /\ \A u \in Threads \ {t} : held'[u] = held[u]
    BY <1>0, <1>2 DEF CloseSession, Goto, Blank
  <2> QED BY <1>0, <2>1 DEF ClosingGone
<1>3. ASSUME NEW t \in Threads, FinishClose(t) PROVE ClosingGone'
  <2>1. /\ pc' = [pc EXCEPT ![t] = "idle"] /\ sessions' = sessions
        /\ closing' = [closing EXCEPT ![held[t].session] = TRUE] /\ pc[t] = "closing"
        /\ \A u \in Threads \ {t} : held'[u] = held[u]
    BY <1>0, <1>3 DEF FinishClose, Return, Goto
  <2> QED BY <1>0, <2>1 DEF ClosingGone
<1>4. ASSUME NEW t \in Threads, Same(t), pc'[t] # "closing", sessions' = sessions, closing' = closing
      PROVE  ClosingGone'
  BY <1>4 DEF Same, ClosingGone
<1>5. ASSUME UNCHANGED <<sessions, closing, pc, held>> PROVE ClosingGone'
  BY <1>5 DEF ClosingGone
<1>6. (\E k \in cancelledOperations : ResumeCancelled(k)) \/ UNCHANGED vars
        => UNCHANGED <<sessions, closing, pc, held>>
  BY DEF ResumeCancelled, vars
<1>7. ASSUME NEW t \in Threads,
             \/ BeginCall(t) \/ RunCommand(t) \/ RunResume(t) \/ FinishCancel(t)
             \/ \E o \in operations : TakeOperation(t, o) \/ CancelOperation(t, o)
      PROVE  ClosingGone'
  <2>1. sessions' = sessions /\ closing' = closing
    BY <1>7 DEF BeginCall, Lookup, FinishCancel, TakeOperation, CancelOperation, RunCommand,
       CommandFails, ApplySyncBatch, WatchShieldedMint, UpdateWallet,
       GenerateDustAtOnce, ChangeWallet, ReserveGenerateDust, ReserveTransfer,
       ReserveFinalizeUnproven, Reserve, BeginUnreserved, BeginSubmit, RegisterUnreserved,
       RegisterFails, RegisterReserved, Register, CommitReserved, Unreserve, InsertSubmission,
       DiscardOperation, RunResume, ResumeStale, RefuseResult, SubmissionStatusUnknown,
       SubmissionSettled, NextRound, CompleteOperation, FailOperation, ReinsertOperation,
       CheckOrphan, ReleaseOrphan
  <2>2. Same(t) /\ pc'[t] # "closing"
    <3>1. \/ Moves(t) \/ PutsBack(t) \/ Discards(t) \/ (\E o \in Operation : Registers(t, o))
          \/ (\E o \in operations : Takes(t, o))
      BY <1>7, CommandClass, ResumeClass, RemovalClass
    <3> QED BY <3>1 DEF Moves, PutsBack, Discards, Registers, Takes
  <2> QED BY <1>4, <2>1, <2>2
<1> QED BY <1>1, <1>2, <1>3, <1>5, <1>6, <1>7 DEF Next, Continue

\* a call that carries a submission settles it, puts it back or keeps it
LEMMA CarryingKept ==
  ASSUME Base, OnePlace, SubmissionsOpen, OwnedIsActive, ClosingGone,
         NEW t \in Threads, RunResume(t) \/ FinishCancel(t), Carrying(t), Submits(held[t]),
         held[t].session \in sessions, pending'[held[t].session][held[t].hash] = "awaiting"
  PROVE  \E x \in Operation : Carrier(x)' /\ x = held[t]
<1> USE DEF registryVars, sessionVars, walletVars, allocation, tombstones
<1>0. /\ held[t] \in Operation /\ pending \in [Ids -> [Hashes -> Statuses]]
      /\ held \in [Threads -> Operation] /\ pc \in [Threads -> PCs]
      /\ held[t].session \in Ids /\ held[t].hash \in Hashes
      /\ pending[held[t].session][held[t].hash] \in {"awaiting", "unknown"}
      /\ ~closing[held[t].session]
  <2>1. Carrier(held[t]) /\ held[t] \in Operation
    BY DEF Carrier, Base, SyncInv, TypeOK
  <2> QED BY <2>1, CarrierTyped DEF Base, SyncInv, TypeOK, SubmissionsOpen, Open, ClosingGone
<1>1. ASSUME Carrying(t)', held'[t] = held[t] PROVE \E x \in Operation : Carrier(x)' /\ x = held[t]
  BY <1>0, <1>1 DEF Carrier
<1>2. ~SubmissionStatusUnknown(t) /\ ~SubmissionSettled(t) /\ ~FinishCancel(t)
  BY <1>0 DEF SubmissionStatusUnknown, SubmissionSettled, FinishCancel, Submits
<1>3. ~CompleteOperation(t) /\ ~NextRound(t) /\ ~FailOperation(t)
  BY <1>0 DEF CompleteOperation, NextRound, FailOperation, Resuming, Submits, Kinds, ProofKinds
<1>4. ~ResumeStale(t) /\ ~CheckOrphan(t) /\ ~ReleaseOrphan(t)
  BY <1>0 DEF ResumeStale, CheckOrphan, ReleaseOrphan, IsCurrent, OwnedIsActive, Owning, Carrying
<1>5. RefuseResult(t) => Carrying(t)' /\ held'[t] = held[t]
  BY <1>0 DEF RefuseResult, Goto, Carrying
<1>6. ASSUME ReinsertOperation(t) PROVE \E x \in Operation : Carrier(x)' /\ x = held[t]
  <2>1. PutsBack(t)
    <3>1. held[t] \notin operations
      BY DEF OnePlace, HeldApart
    <3>2. ~Moves(t)
      BY <1>6, <3>1 DEF ReinsertOperation, Moves
    <3> QED BY <1>6, <3>2, ResumeClass DEF RunResume
  <2>2. held[t] \in operations' /\ ~Making(t)' /\ Same(t)
    BY <2>1 DEF PutsBack, Making
  <2>3. \A u \in Threads \ {t} : Making(u) => held[u].id # held[t].id
    BY DEF OnePlace, HeldOnce, Holds
  <2>4. PICK x \in Operation : x = held[t]
    BY <1>0
  <2>5. Issued(x)'
    BY <2>2, <2>3, <2>4 DEF Issued, Making, Same
  <2> QED BY <2>2, <2>4, <2>5 DEF Carrier
<1> QED BY <1>1, <1>2, <1>3, <1>4, <1>5, <1>6 DEF RunResume

\* a call that carries an operation is moved by nobody else
LEMMA OnlyItself ==
  ASSUME Base, TypeOK', [Next]_vars, NEW t \in Threads, Carrying(t),
         pc'[t] # pc[t] \/ held'[t] # held[t]
  PROVE  RunResume(t) \/ FinishCancel(t)
<1>1. \A u \in Threads : ~(Same(u) /\ u # t)
  BY DEF Same
<1>2. \E u \in Threads : \/ BeginCall(u) \/ Continue(u)
                         \/ \E o \in operations : TakeOperation(u, o) \/ CancelOperation(u, o)
                         \/ \E s \in sessions : CloseSession(u, s)
  BY DEF Next, vars, OpenSession, ResumeCancelled, threadVars
<1>3. PICK u \in Threads : \/ BeginCall(u) \/ Continue(u)
                           \/ \E o \in operations : TakeOperation(u, o) \/ CancelOperation(u, o)
                           \/ \E s \in sessions : CloseSession(u, s)
  BY <1>2
<1>4. Same(u)
  <2>1. \/ Moves(u) \/ PutsBack(u) \/ Discards(u) \/ \E o \in Operation : Registers(u, o)
        \/ (\E o \in operations : Takes(u, o)) \/ \E s \in sessions : Closes(u, s)
    BY <1>3, CommandClass, ResumeClass, RemovalClass DEF Continue
  <2> QED BY <2>1 DEF Moves, PutsBack, Discards, Registers, Takes, Closes
<1>5. u = t
  BY <1>1, <1>4
<1>6. ~BeginCall(t) /\ ~FinishClose(t)
  BY DEF BeginCall, Lookup, FinishClose, Carrying
<1>7. ~RunCommand(t)
  BY DEF Carrying, RunCommand, CommandFails, ApplySyncBatch, WatchShieldedMint, UpdateWallet,
     GenerateDustAtOnce, ReserveGenerateDust, ReserveTransfer, ReserveFinalizeUnproven,
     BeginUnreserved, BeginSubmit, RegisterUnreserved, RegisterFails, RegisterReserved,
     CommitReserved, Unreserve, InsertSubmission, DiscardOperation, Running
<1>8. /\ \A o \in operations : ~TakeOperation(t, o) /\ ~CancelOperation(t, o)
      /\ \A s \in sessions : ~CloseSession(t, s)
  BY DEF TakeOperation, CancelOperation, CloseSession, Carrying
<1> QED BY <1>3, <1>5, <1>6, <1>7, <1>8 DEF Continue

\* an operation that may settle a submission stays one while the submission awaits
LEMMA CarrierKept ==
  ASSUME Base, TypeOK', OnePlace, SubmissionsOpen, OwnedIsActive, ClosingGone, [Next]_vars,
         NEW x \in Operation, Carrier(x), x.session \in sessions, x.session \in sessions',
         pending'[x.session][x.hash] = "awaiting"
  PROVE  Carrier(x)'
<1>1. ASSUME NEW t \in Threads, Carrying(t), held[t] = x, Submits(x) PROVE Carrier(x)'
  <2>1. CASE pc'[t] = pc[t] /\ held'[t] = held[t]
    BY <1>1, <2>1 DEF Carrier, Carrying
  <2>2. CASE ~(pc'[t] = pc[t] /\ held'[t] = held[t])
    <3>1. RunResume(t) \/ FinishCancel(t)
      BY <1>1, <2>2, OnlyItself
    <3>2. \E y \in Operation : Carrier(y)' /\ y = held[t]
      BY <1>1, <3>1, CarryingKept
    <3> QED BY <1>1, <3>2
  <2> QED BY <2>1, <2>2
<1> SUFFICES ASSUME x \in operations, Submits(x), Issued(x) PROVE Carrier(x)'
  BY <1>1 DEF Carrier
<1>2. x.id # nextId
  <2>1. x.id < nextId /\ nextId \in Nat
    BY DEF Base, SyncInv, ProposalInv, IdsAllocated, TypeOK
  <2> QED BY <2>1
<1>3. CASE Rests
  BY <1>3 DEF Rests, Carrier, Issued
<1>4. ASSUME NEW t \in Threads, Moves(t) PROVE Carrier(x)'
  BY <1>4 DEF Moves, Same, Carrier, Issued, Making
<1>5. ASSUME NEW t \in Threads, NEW o \in Operation, Registers(t, o) PROVE Carrier(x)'
  <2>1. x \in operations'
    BY <1>5 DEF Registers
  <2>2. pc'[t] \in {"insert", "discard"} => held'[t].id # x.id
    BY <1>2, <1>5 DEF Registers
  <2>3. Issued(x)'
    BY <1>5, <2>2 DEF Registers, Same, Issued
  <2> QED BY <2>1, <2>3 DEF Carrier
<1>6. ASSUME NEW t \in Threads, NEW o \in operations, Takes(t, o) PROVE Carrier(x)'
  <2>1. CASE x = o
    BY <1>6, <2>1 DEF Takes, Carrier, Carrying
  <2>2. CASE x # o
    BY <1>6, <2>2 DEF Takes, Same, Carrier, Issued
  <2> QED BY <2>1, <2>2
<1>7. ASSUME NEW t \in Threads, PutsBack(t) PROVE Carrier(x)'
  BY <1>7 DEF PutsBack, Same, Carrier, Issued
<1>8. ASSUME NEW t \in Threads, Discards(t) PROVE Carrier(x)'
  BY <1>8 DEF Discards, Same, Carrier, Issued
<1>9. ASSUME NEW t \in Threads, NEW s \in sessions, Closes(t, s) PROVE Carrier(x)'
  BY <1>9 DEF Closes, Same, Carrier, Issued
<1> QED BY <1>3, <1>4, <1>5, <1>6, <1>7, <1>8, <1>9, StepClass

\* a submission is told to its host by the call that holds it
LEMMA DeliversMoves ==
  ASSUME Base, TypeOK', [Next]_vars, NEW t \in Threads, Delivers(t)
  PROVE  Moves(t)
<1>1. \A u \in Threads : ~(Same(u) /\ u # t)
  BY DEF Same, Delivers
<1>2. ~Rests
  BY DEF Rests, Delivers
<1>3. \A u \in Threads : Moves(u) \/ PutsBack(u) \/ Discards(u) => u = t
  BY <1>1 DEF Moves, PutsBack, Discards
<1>4. \A u \in Threads : \/ \E o \in Operation : Registers(u, o)
                         \/ \E o \in operations : Takes(u, o)
                         \/ \E s \in sessions : Closes(u, s)
                         => u = t
  BY <1>1 DEF Registers, Takes, Closes
<1>5. /\ ~PutsBack(t) /\ ~Discards(t) /\ \A o \in Operation : ~Registers(t, o)
      /\ \A o \in operations : ~Takes(t, o)
      /\ \A s \in sessions : ~Closes(t, s)
  BY DEF Delivers, PutsBack, Discards, Registers, Takes, Closes
<1> QED BY <1>2, <1>3, <1>4, <1>5, StepClass

Awaited(s, h) == \E x \in Operation : Carrier(x) /\ x.session = s /\ x.hash = h
AwaitingHeld  == \A s \in sessions, h \in Hashes : pending[s][h] = "awaiting" => Awaited(s, h)

LEMMA AwaitingStep ==
  ASSUME \A c \in Checkpoints, h \in Hashes : c.pending[h] # "awaiting",
         Base, TypeOK', OnePlace, SubmissionsOpen, MadeRegistered, OwnedIsActive, ClosingGone,
         AwaitingHeld, [Next]_vars
  PROVE  AwaitingHeld'
<1> SUFFICES ASSUME NEW s \in sessions', NEW h \in Hashes, pending'[s][h] = "awaiting"
             PROVE  Awaited(s, h)'
  BY DEF AwaitingHeld
<1>0. /\ pending \in [Ids -> [Hashes -> Statuses]] /\ sessions' \subseteq Ids /\ nextId \in Ids
      /\ \A t \in Threads : held[t] \in Operation
  BY DEF Base, SyncInv, TypeOK, Ids
<1>1. s \in sessions
  <2>1. ASSUME NEW c \in Checkpoints, OpenSession(c), s \notin sessions PROVE FALSE
    <3>1. s = nextId /\ pending' = [pending EXCEPT ![nextId] = c.pending]
      BY <2>1 DEF OpenSession
    <3> QED BY <1>0, <3>1
  <2> QED BY <2>1, AllocationClass
<1>2. CASE pending[s][h] = "awaiting"
  <2>1. PICK x \in Operation : Carrier(x) /\ x.session = s /\ x.hash = h
    BY <1>1, <1>2 DEF AwaitingHeld, Awaited
  <2>2. Carrier(x)'
    BY <1>1, <2>1, CarrierKept
  <2> QED BY <2>1, <2>2 DEF Awaited
<1>3. ASSUME NEW t \in Threads, Delivers(t), s = held[t].session, h = held[t].hash
      PROVE  Awaited(s, h)'
  <2>1. Moves(t) /\ Making(t) /\ ~Making(t)'
    BY <1>3, DeliversMoves DEF Delivers, Making
  <2>2. held[t] \in operations' /\ Submits(held[t])
    BY <1>1, <1>3, <2>1 DEF MadeRegistered, Moves, Base, KindsRight, Right, Making
  <2>3. \A u \in Threads \ {t} : Making(u)' => held'[u].id # held[t].id
    BY <2>1 DEF Moves, Same, OnePlace, HeldOnce, Holds, Making
  <2>4. PICK x \in Operation : x = held[t]
    BY <1>0
  <2>5. Issued(x)'
    BY <2>1, <2>3, <2>4 DEF Issued, Making
  <2>6. Carrier(x)'
    BY <2>2, <2>4, <2>5 DEF Carrier
  <2> QED BY <1>3, <2>4, <2>6 DEF Awaited
<1>4. ASSUME NEW t \in Threads, Delivers(t) PROVE Awaited(s, h)'
  <2>1. CASE s = held[t].session /\ h = held[t].hash
    BY <1>3, <1>4, <2>1
  <2>2. CASE ~(s = held[t].session /\ h = held[t].hash)
    <3>1. pending'[s][h] = pending[s][h]
      BY <1>0, <1>4, <2>2 DEF Delivers
    <3> QED BY <1>2, <3>1
  <2> QED BY <2>1, <2>2
<1>5. CASE \E c \in Checkpoints : OpenSession(c) /\ pending' = [pending EXCEPT ![nextId] = c.pending]
  <2>1. s # nextId
    <3>1. s < nextId /\ nextId \in Nat
      BY <1>1 DEF Base, SyncInv, ProposalInv, IdsAllocated, TypeOK
    <3> QED BY <3>1
  <2>2. pending'[s][h] = pending[s][h]
    BY <1>0, <1>5, <2>1
  <2> QED BY <1>2, <2>2
<1>6. ASSUME NEW t \in Threads, SubmissionSettled(t) PROVE pending[s][h] = "awaiting"
  <2>1. PICK status \in {"accepted", "rejected"} :
          pending' = [pending EXCEPT ![held[t].session][held[t].hash] = status]
    BY <1>6 DEF SubmissionSettled
  <2> QED BY <1>0, <2>1
<1>7. ASSUME NEW t \in Threads,
             pending' = [pending EXCEPT ![held[t].session][held[t].hash] = "unknown"]
      PROVE  pending[s][h] = "awaiting"
  BY <1>0, <1>7
<1> QED BY <1>2, <1>4, <1>5, <1>6, <1>7, PendingClass

\* In an open session a submission awaits a response only as long as an operation can
\* still bring it, registered or held by a call that will settle or put it back.  No
\* operation is resumed twice at once, and the session was not opened from a checkpoint
\* that was written while a submission awaited its response: open_wallet_session restores
\* that status, but no operation.
THEOREM AwaitingKeepsOperation ==
  ASSUME "oneResume" \in ClientRules,
         \A c \in Checkpoints, h \in Hashes : c.pending[h] # "awaiting"
  PROVE  Spec => []AwaitingHasOperation
<1> DEFINE IInv == BusyInv /\ ActiveInv /\ ClosingGone /\ AwaitingHeld
<1>1. Init => IInv
  <2> SUFFICES ASSUME Init PROVE IInv
    OBVIOUS
  <2>1. sessions = {} /\ operations = {} /\ \A t \in Threads : pc[t] = "idle"
    BY DEF Init
  <2>2. BusyInv
    BY <2>1, OperationInit DEF BusyInv, MadeRegistered, BusyHasOwner, Making
  <2>3. ActiveInv
    BY <2>1 DEF ActiveInv, OneResumer, ReleaseIsGone, OwnedIsActive, RegisteredIsActive,
       Resumer, Owning
  <2> QED BY <2>1, <2>2, <2>3 DEF ClosingGone, AwaitingHeld
<1>2. IInv /\ [Next]_vars => IInv'
  <2> SUFFICES ASSUME IInv, [Next]_vars PROVE IInv'
    OBVIOUS
  <2>1. BusyInv'
    BY BusyStep
  <2>2. TypeOK'
    BY <2>1 DEF BusyInv, OperationInv, Base, SyncInv
  <2>3. Base /\ OnePlace /\ SubmissionsOpen /\ MadeRegistered /\ OwnedIsActive
    BY DEF BusyInv, OperationInv, ActiveInv
  <2> QED BY <2>1, <2>2, <2>3, ActiveStep, ClosingStep, AwaitingStep
<1>3. IInv => AwaitingHasOperation
  BY DEF AwaitingHeld, Awaited, AwaitingHasOperation, Carrier, Carrying, Submits
<1> QED BY <1>1, <1>2, <1>3, PTL DEF Spec

-----------------------------------------------------------------------------
(***************************************************************************)
(* No wallet change that a call reported as done is lost                   *)
(* (OperationLifecycle!ChangeNeverLost), for any number of threads and     *)
(* sessions, as long as the clients keep the rule "soleUpdates".           *)
(***************************************************************************)

\* nothing in session s plans a change
NothingPlanned(s) ==
  /\ \A o \in operations : o.session # s
  /\ \A t \in Threads : Owning(t) \/ pc[t] = "proving" => held[t].session # s

\* while a command that does not ask runs in a session, no other call serves it
UpdatesAlone ==
  \A t \in Threads : Running(t, Unchecked) =>
    /\ \A o \in operations : o.session # held[t].session
    /\ \A u \in Threads \ {t} : ~Serving(u, held[t].session)

Exact(o) ==
  active[o.session] = o.id /\ o.proposed # NoWallet
    => o.proposed.other = acknowledged[o.session] + 1
PlansExact ==
  /\ \A o \in operations : Exact(o)
  /\ \A t \in Threads : Owning(t) => Exact(held[t])
  /\ \A t \in Threads : pc[t] = "proving" /\ held[t].proposed # NoWallet
       => held[t].proposed.other = acknowledged[held[t].session] + 1
NothingYet == \A s \in Ids : s >= nextId => acknowledged[s] = 0

ChangeInv == UpdatesAlone /\ PlansExact /\ NothingYet /\ ChangeNeverLost

-----------------------------------------------------------------------------
(* Commands that do not ask run alone                                      *)

LEMMA ContinueServes ==
  ASSUME Base, NEW t \in Threads, Continue(t)
  PROVE  /\ Same(t) /\ pc'[t] # "run"
         /\ \A s : Serving(t, s)' => Serving(t, s)
         /\ \A o \in operations' : o \in operations \/ Serving(t, o.session)
<1> USE DEF registryVars, sessionVars, walletVars, threadVars, allocation, tombstones
<1>0. /\ held \in [Threads -> Operation] /\ pc \in [Threads -> PCs] /\ held[t] \in Operation
      /\ Right(pc[t], held[t])
  BY DEF Base, SyncInv, TypeOK, KindsRight
<1> DEFINE Goal == /\ Same(t) /\ pc'[t] # "run"
                   /\ \A s : Serving(t, s)' => Serving(t, s)
                   /\ \A o \in operations' : o \in operations \/ Serving(t, o.session)
<1>1. ASSUME Return(t), operations' \subseteq operations PROVE Goal
  BY <1>0, <1>1 DEF Return, Goto, Same, Serving
<1>2. ASSUME NEW next, Goto(t, next), held' = held, next # "run",
             pc[t] \notin {"idle", "cancel", "closing"}, operations' \subseteq operations
      PROVE  Goal
  BY <1>0, <1>2 DEF Goto, Same, Serving
<1>3. ASSUME NEW next, Goto(t, next), next # "run", pc[t] \notin {"idle", "cancel", "closing"},
             held[t].kind # "applySync", \A u \in Threads \ {t} : held'[u] = held[u],
             held'[t].session = held[t].session, operations' = operations
      PROVE  Goal
  BY <1>0, <1>3 DEF Goto, Same, Serving
<1>4. CommandFails(t) \/ ApplySyncBatch(t) \/ RegisterFails(t) \/ WatchShieldedMint(t)
      \/ UpdateWallet(t) \/ GenerateDustAtOnce(t) \/ Unreserve(t) \/ DiscardOperation(t)
      \/ SubmissionSettled(t) \/ CompleteOperation(t) \/ ReleaseOrphan(t) \/ FinishCancel(t)
      \/ FinishClose(t) => Goal
  BY <1>1 DEF CommandFails, ApplySyncBatch, RegisterFails, WatchShieldedMint, UpdateWallet,
     GenerateDustAtOnce, ChangeWallet, Unreserve, DiscardOperation, SubmissionSettled,
     CompleteOperation, ReleaseOrphan, FinishCancel, FinishClose
<1>5. CommitReserved(t) \/ ResumeStale(t) \/ RefuseResult(t) \/ SubmissionStatusUnknown(t)
      \/ FailOperation(t) => Goal
  BY <1>2 DEF CommitReserved, ResumeStale, RefuseResult, SubmissionStatusUnknown, FailOperation,
     Resuming
<1>6. InsertSubmission(t) \/ CheckOrphan(t) => Goal
  BY <1>1, <1>2 DEF InsertSubmission, CheckOrphan
<1>7. ASSUME NEW kind, NEW w, Reserve(t, kind, w), pc[t] = "run", held[t].kind # "applySync"
      PROVE  Goal
  <2>1. /\ held'[t].session = held[t].session /\ \A u \in Threads \ {t} : held'[u] = held[u]
        /\ Goto(t, "proving") /\ operations' = operations
    BY <1>0, <1>7 DEF Reserve, Operation
  <2> HIDE DEF Goal
  <2> QED BY <1>3, <1>7, <2>1
<1>8. ReserveGenerateDust(t) \/ ReserveTransfer(t) \/ ReserveFinalizeUnproven(t) => Goal
  <2> HIDE DEF Goal
  <2> QED BY <1>7 DEF ReserveGenerateDust, ReserveTransfer, ReserveFinalizeUnproven, Running
<1>9. ASSUME BeginUnreserved(t) \/ BeginSubmit(t) PROVE Goal
  <2>1. DOMAIN Begins = {"dappIntent", "balanceCommand", "extensionCommand"}
    BY DEF Begins
  <2>2. /\ held'[t].session = held[t].session /\ \A u \in Threads \ {t} : held'[u] = held[u]
        /\ Goto(t, "register") /\ operations' = operations
        /\ pc[t] = "run" /\ held[t].kind # "applySync"
    BY <1>0, <1>9, <2>1 DEF BeginUnreserved, BeginSubmit, Running, Operation
  <2> HIDE DEF Goal
  <2> QED BY <1>3, <2>2
<1>10. ASSUME NextRound(t) PROVE Goal
  <2>1. /\ held'[t].session = held[t].session /\ \A u \in Threads \ {t} : held'[u] = held[u]
        /\ Goto(t, "reinsert") /\ operations' = operations /\ pc[t] = "resume"
    BY <1>0, <1>10 DEF NextRound, Resuming, Operation
  <2>2. held[t].kind # "applySync"
    BY <1>0, <2>1 DEF Right, WellFormed, WithOperation, Kinds, ProofKinds
  <2> HIDE DEF Goal
  <2> QED BY <1>3, <2>1, <2>2
<1>11. ASSUME ReinsertOperation(t) PROVE Goal
  <2>1. /\ Same(t) /\ pc[t] \in {"reinsert", "refuse"} /\ operations' = operations \cup {held[t]}
        /\ pc'[t] = "idle" \/ (pc'[t] = "orphan" /\ held' = held)
    <3>1. Return(t) => Same(t) /\ pc'[t] = "idle"
      BY <1>0 DEF Return, Goto, Same
    <3>2. Goto(t, "orphan") /\ held' = held => Same(t) /\ pc'[t] = "orphan"
      BY <1>0 DEF Goto, Same
    <3> QED BY <1>11, <3>1, <3>2 DEF ReinsertOperation
  <2>2. held[t].kind # "applySync"
    BY <1>0, <2>1 DEF Right, WellFormed, WithOperation, Kinds, ProofKinds
  <2> QED BY <2>1, <2>2 DEF Serving
<1>12. ASSUME RegisterUnreserved(t) \/ RegisterReserved(t) PROVE Goal
  <2>1. nextId' = nextId + 1 /\ nextId \in Nat /\ pc[t] \in {"register", "proving"}
    BY <1>12 DEF RegisterUnreserved, RegisterReserved, Register, Base, SyncInv, TypeOK
  <2>2. ~Moves(t) /\ ~Discards(t)
    BY <2>1 DEF Moves, Discards
  <2>3. PICK o \in Operation : Registers(t, o)
    <3>1. TypeOK'
      BY <1>12, StepTyped DEF Base, SyncInv, Next, Continue, RunCommand
    <3> QED BY <1>12, <2>2, <3>1, CommandClass DEF RunCommand
  <2>4. held[t].kind # "applySync"
    BY <1>0, <2>1 DEF Right, WellFormed, WithOperation, Kinds, ProofKinds
  <2> QED BY <2>1, <2>3, <2>4 DEF Registers, Serving
<1> HIDE DEF Goal
<1>13. Goal
  BY <1>4, <1>5, <1>6, <1>8, <1>9, <1>10, <1>11, <1>12 DEF Continue, RunCommand, RunResume
<1> QED BY <1>13 DEF Goal

LEMMA UpdatesAloneStep ==
  ASSUME "soleUpdates" \in ClientRules, Base, UpdatesAlone, [Next]_vars
  PROVE  UpdatesAlone'
<1> USE DEF registryVars, sessionVars, walletVars, threadVars, allocation, tombstones
<1>0. /\ held \in [Threads -> Operation] /\ pc \in [Threads -> PCs]
      /\ \A t \in Threads : Right(pc[t], held[t])
      /\ \A o \in operations : WellFormed(o)
  BY DEF Base, SyncInv, TypeOK, KindsRight
<1>1. ASSUME UNCHANGED <<operations, pc, held>> PROVE UpdatesAlone'
  BY <1>1 DEF UpdatesAlone, Running, Serving
<1>2. ASSUME NEW t \in Threads, Continue(t) PROVE UpdatesAlone'
  <2>1. ASSUME NEW u \in Threads, Running(u, Unchecked)'
        PROVE  Running(u, Unchecked) /\ u # t /\ held'[u] = held[u]
    BY <1>2, <2>1, ContinueServes DEF Running, Same
  <2>2. ASSUME NEW u \in Threads, NEW v \in Threads, NEW s, Serving(v, s)'
        PROVE  Serving(v, s)
    BY <1>2, <2>2, ContinueServes DEF Same, Serving
  <2>3. \A o \in operations' : o \in operations \/ Serving(t, o.session)
    BY <1>2, ContinueServes
  <2>4. ASSUME NEW u \in Threads, Running(u, Unchecked)', NEW o \in operations'
        PROVE  o.session # held'[u].session
    BY <2>1, <2>3, <2>4 DEF UpdatesAlone
  <2>5. ASSUME NEW u \in Threads, Running(u, Unchecked)', NEW v \in Threads \ {u}
        PROVE  ~Serving(v, held[u].session)'
    <3> SUFFICES ASSUME NEW s, s = held'[u].session, Serving(v, s)' PROVE FALSE
      BY DEF Serving
    <3> QED BY <2>1, <2>2, <2>5 DEF UpdatesAlone
  <2> QED BY <2>4, <2>5 DEF UpdatesAlone
<1>3. ASSUME NEW t \in Threads, NEW s \in sessions, NEW command \in Commands,
             NEW h \in Hashes \cup {"none"}, Lookup(t, s, command, h)
      PROVE  UpdatesAlone'
  <2>1. /\ Same(t) /\ pc[t] = "idle" /\ pc'[t] = "run" /\ operations' = operations
        /\ held'[t].session = s /\ held'[t].kind = command
    BY <1>0, <1>3 DEF Lookup, Goto, Same, Blank
  <2>2. CASE command = "applySync"
    <3>1. \A r : ~Serving(t, r)' /\ ~Serving(t, r)
      BY <2>1, <2>2 DEF Serving
    <3>2. ~Running(t, Unchecked)'
      BY <2>1, <2>2 DEF Running, Unchecked
    <3> QED BY <2>1, <3>1, <3>2 DEF UpdatesAlone, Same, Running, Serving
  <2>3. CASE command \in Unchecked
    <3>1. ~InProgress(s)
      BY <1>3, <2>3 DEF Lookup, MayBegin, Unchecked
    <3>2. \A o \in operations : o.session # s
      BY <3>1 DEF InProgress
    <3>3. \A u \in Threads : ~Serving(u, s)
      BY <3>1 DEF InProgress
    <3>4. \A u \in Threads : Running(u, Unchecked) => held[u].session # s
      BY <3>3 DEF Running, Serving, Unchecked
    <3> QED BY <2>1, <3>2, <3>3, <3>4 DEF UpdatesAlone, Same, Running, Serving
  <2>4. CASE command \notin Unchecked /\ command # "applySync"
    <3>1. ~Updating(s)
      BY <1>3, <2>4 DEF Lookup, MayBegin
    <3>2. \A u \in Threads : Running(u, Unchecked) => held[u].session # s
      BY <3>1 DEF Updating, Running, Serving, Unchecked
    <3>3. ~Running(t, Unchecked)'
      BY <2>1, <2>4 DEF Running
    <3> QED BY <2>1, <3>2, <3>3 DEF UpdatesAlone, Same, Running, Serving
  <2> QED BY <2>2, <2>3, <2>4
<1>4. ASSUME NEW t \in Threads, NEW o \in operations, Takes(t, o) PROVE UpdatesAlone'
  <2>1. /\ Same(t) /\ operations' \subseteq operations /\ pc[t] = "idle" /\ pc'[t] # "run"
        /\ \A s : Serving(t, s)' => s = o.session
    BY <1>4 DEF Takes, Serving
  <2> QED BY <2>1 DEF UpdatesAlone, Same, Running, Serving
<1>5. ASSUME NEW t \in Threads, NEW s \in sessions, Closes(t, s) PROVE UpdatesAlone'
  BY <1>5 DEF Closes, UpdatesAlone, Same, Running, Serving
<1>6. ASSUME NEW t \in Threads, BeginCall(t) PROVE UpdatesAlone'
  BY <1>3, <1>6 DEF BeginCall, Commands
<1>7. (\E c \in Checkpoints : OpenSession(c)) \/ (\E k \in cancelledOperations : ResumeCancelled(k))
      \/ UNCHANGED vars => UNCHANGED <<operations, pc, held>>
  BY DEF OpenSession, ResumeCancelled, vars
<1> QED BY <1>1, <1>2, <1>4, <1>5, <1>6, <1>7, RemovalClass DEF Next

-----------------------------------------------------------------------------
(* Where plans come from                                                   *)

\* a plan is one that was there before, or is made from the wallet as it is
PlanKept(t) ==
  /\ held'[t].id = held[t].id /\ held'[t].session = held[t].session
  /\ held'[t].proposed = held[t].proposed

LEMMA PlanClass ==
  ASSUME Base, TypeOK', [Next]_vars, NEW t \in Threads
  PROVE  /\ Owning(t)' =>
              \/ held'[t] \in operations
              \/ Owning(t) /\ PlanKept(t)
              \/ Owning(t) /\ held'[t].id = held[t].id /\ Plans(t)
         /\ pc'[t] = "proving" => (pc[t] = "proving" /\ PlanKept(t)) \/ Plans(t)
<1>1. CASE pc'[t] = pc[t] /\ held'[t] = held[t]
  BY <1>1 DEF PlanKept, Owning
<1>2. CASE Moves(t)
  BY <1>2 DEF Moves, Owning, Carrying, Alike, PlanKept
<1>3. CASE PutsBack(t) \/ Discards(t) \/ (\E o \in Operation : Registers(t, o))
           \/ (\E s \in sessions : Closes(t, s))
  BY <1>3 DEF PutsBack, Discards, Registers, Closes, Owning
<1>4. CASE \E o \in operations : Takes(t, o)
  BY <1>4 DEF Takes, Owning
<1>5. CASE Rests
  BY <1>1, <1>5 DEF Rests
<1>6. ASSUME NEW u \in Threads \ {t}, Same(u) PROVE pc'[t] = pc[t] /\ held'[t] = held[t]
  BY <1>6 DEF Same
<1>7. \A u \in Threads : Moves(u) \/ PutsBack(u) \/ Discards(u) \/ (\E o \in Operation : Registers(u, o))
        \/ (\E o \in operations : Takes(u, o)) \/ (\E s \in sessions : Closes(u, s)) => Same(u)
  BY DEF Moves, PutsBack, Discards, Registers, Takes, Closes
<1> QED BY <1>1, <1>2, <1>3, <1>4, <1>5, <1>6, <1>7, StepClass

\* an operation in the registry was there, or in a call, or was planned by a call
LEMMA OperationClass ==
  ASSUME Base, TypeOK', [Next]_vars, NEW o \in operations'
  PROVE  \/ o \in operations
         \/ \E t \in Threads : Owning(t) /\ o = held[t]
         \/ \E t \in Threads : /\ pc[t] \in {"register", "proving"}
                               /\ o.session = held[t].session /\ o.proposed = held[t].proposed
<1>1. ASSUME NEW t \in Threads, NEW p \in Operation, Registers(t, p)
      PROVE  \/ o \in operations
             \/ /\ pc[t] \in {"register", "proving"}
                /\ o.session = held[t].session /\ o.proposed = held[t].proposed
  BY <1>1 DEF Registers
<1>2. ASSUME NEW t \in Threads, PutsBack(t)
      PROVE  o \in operations \/ (Owning(t) /\ o = held[t])
  BY <1>2 DEF PutsBack, Owning
<1>3. ASSUME \/ Rests
             \/ \E t \in Threads : \/ Moves(t) \/ Discards(t)
                                   \/ \E p \in operations : Takes(t, p)
                                   \/ \E s \in sessions : Closes(t, s)
      PROVE  o \in operations
  BY <1>3 DEF Rests, Moves, Discards, Takes, Closes
<1> QED BY <1>1, <1>2, <1>3, StepClass

\* a session does not wait for an operation that it did not wait for, but for a new one
LEMMA ActiveBefore ==
  ASSUME Base, TypeOK', [Next]_vars, NEW s \in Ids, NEW id, id # None, id # Reserved,
         id # nextId, active'[s] = id
  PROVE  active[s] = id
<1>1. active \in [Ids -> 0..MaxCounter] /\ nextId \in Ids
  BY DEF Base, SyncInv, TypeOK, Ids
<1>2. ASSUME NEW t \in Threads, NEW o \in Operation, Registers(t, o)
      PROVE  active' = [active EXCEPT ![o.session] = nextId]
  BY <1>2 DEF Registers
<1> QED BY <1>1, <1>2, ActiveClass DEF Clears

-----------------------------------------------------------------------------
(* The changes that calls report                                           *)

KeepsChanges ==
  /\ acknowledged' = acknowledged
  /\ \A s \in Ids : wallet'[s].other = wallet[s].other
Changes(s) ==
  /\ s < nextId
  /\ acknowledged' = [acknowledged EXCEPT ![s] = @ + 1]
  /\ wallet'[s].other = acknowledged[s] + 1
  /\ \A r \in Ids \ {s} : wallet'[r].other = wallet[r].other
  /\ \/ active'[s] = None
     \/ \E t \in Threads : pc'[t] = "unreserve" /\ held'[t].session = s
     \/ NothingPlanned(s)'

LEMMA ChangeClass ==
  ASSUME Base, TypeOK', ChangeInv, [Next]_vars
  PROVE  KeepsChanges \/ \E s \in Ids : Changes(s)
<1> USE DEF registryVars, sessionVars, walletVars, threadVars, allocation, tombstones
<1>0. /\ wallet \in [Ids -> Wallets] /\ acknowledged \in [Ids -> Nat] /\ nextId \in Ids
      /\ active \in [Ids -> 0..MaxCounter]
      /\ held \in [Threads -> Operation] /\ pc \in [Threads -> PCs]
      /\ \A t \in Threads : held[t] \in Operation /\ held[t].session \in Ids
                            /\ (pc[t] # "idle" => held[t].session < nextId)
      /\ \A s \in Ids : wallet[s].other = acknowledged[s] /\ wallet[s].other \in Nat
  <2>1. wallet \in [Ids -> Wallets] /\ \A w \in Wallets : w.other \in Nat
    BY DEF Base, SyncInv, TypeOK, Wallets
  <2> QED BY <2>1, OperationTyped DEF Base, SyncInv, ProposalInv, IdsAllocated, TypeOK, Ids,
             ChangeInv, ChangeNeverLost
<1>1. ASSUME wallet' = wallet /\ acknowledged' = acknowledged PROVE KeepsChanges
  BY <1>1 DEF KeepsChanges
<1>2. ASSUME NEW c \in Checkpoints, OpenSession(c) PROVE KeepsChanges
  <2>1. acknowledged[nextId] = 0 /\ wallet[nextId].other = 0
    BY <1>0 DEF ChangeInv, NothingYet, Ids
  <2> QED BY <1>0, <1>2, <2>1 DEF OpenSession, KeepsChanges
<1>3. ASSUME NEW t \in Threads, ApplySyncBatch(t) PROVE KeepsChanges
  BY <1>0, <1>3 DEF ApplySyncBatch, Synced, KeepsChanges, Wallets
<1>4. ASSUME NEW t \in Threads, ChangeWallet(t), Running(t, {"watchMint"} \cup Unchecked),
             held[t].kind = "watchMint" => active[held[t].session] = None
      PROVE  \E s \in Ids : Changes(s)
  <2> PICK s \in Ids : s = held[t].session
    BY <1>0
  <2>1. /\ acknowledged' = [acknowledged EXCEPT ![s] = @ + 1] /\ s < nextId
        /\ wallet' = [wallet EXCEPT ![s] = Spent(@)]
        /\ operations' = operations /\ active' = active
        /\ Same(t) /\ pc'[t] = "idle"
    BY <1>0, <1>4 DEF ChangeWallet, Running, Return, Goto, Same
  <2>2. Spent(wallet[s]).other = acknowledged[s] + 1
    BY <1>0 DEF Spent, Wallets
  <2>3. ASSUME held[t].kind \in Unchecked PROVE NothingPlanned(s)'
    <3>1. Running(t, Unchecked)
      BY <1>4, <2>3 DEF Running
    <3>2. /\ \A o \in operations : o.session # s
          /\ \A u \in Threads \ {t} : ~Serving(u, s)
      BY <3>1 DEF ChangeInv, UpdatesAlone
    <3>3. ASSUME NEW u \in Threads, Owning(u)' \/ pc'[u] = "proving" PROVE held'[u].session # s
      <4>1. u # t /\ pc[u] = pc'[u] /\ held'[u] = held[u]
        BY <2>1, <3>3 DEF Same, Owning
      <4>2. Right(pc[u], held[u])
        BY DEF Base, KindsRight
      <4>3. held[u].kind # "applySync"
        BY <3>3, <4>1, <4>2 DEF Owning, Right, WellFormed, WithOperation, Kinds, ProofKinds
      <4> QED BY <3>2, <3>3, <4>1, <4>3 DEF Serving, Owning
    <3> QED BY <2>1, <3>2, <3>3 DEF NothingPlanned
  <2>4. active'[s] = None \/ NothingPlanned(s)'
    BY <1>4, <2>1, <2>3 DEF Running
  <2>5. Changes(s)
    BY <1>0, <2>1, <2>2, <2>4 DEF Changes
  <2> QED BY <2>5
<1>5. ASSUME NEW t \in Threads, CommitReserved(t) PROVE \E s \in Ids : Changes(s)
  <2> PICK s \in Ids : s = held[t].session
    BY <1>0
  <2>1. held[t].proposed.other = acknowledged[s] + 1
    BY <1>5 DEF CommitReserved, ChangeInv, PlansExact
  <2>2. pc'[t] = "unreserve" /\ held'[t].session = s /\ s < nextId
    BY <1>0, <1>5 DEF CommitReserved, Goto
  <2>3. Changes(s)
    BY <1>0, <1>5, <2>1, <2>2 DEF CommitReserved, Changes
  <2> QED BY <2>3
<1>6. ASSUME NEW t \in Threads, CompleteOperation(t) PROVE KeepsChanges \/ \E s \in Ids : Changes(s)
  <2> PICK s \in Ids : s = held[t].session
    BY <1>0
  <2>1. CASE held[t].proposed = NoWallet
    BY <1>1, <1>6, <2>1 DEF CompleteOperation
  <2>2. CASE held[t].proposed # NoWallet
    <3>1. /\ wallet' = [wallet EXCEPT ![s] = held[t].proposed]
          /\ acknowledged' = [acknowledged EXCEPT ![s] = @ + 1]
          /\ active[s] = held[t].id /\ active' = [active EXCEPT ![s] = None]
          /\ pc[t] = "resume"
      BY <1>6, <2>2 DEF CompleteOperation, Resuming, IsCurrent, ClearActive
    <3>2. held[t].proposed.other = acknowledged[s] + 1
      BY <2>2, <3>1 DEF ChangeInv, PlansExact, Exact, Owning
    <3>3. Changes(s)
      BY <1>0, <3>1, <3>2 DEF Changes
    <3> QED BY <3>3
  <2> QED BY <2>1, <2>2
<1>7. ASSUME NEW t \in Threads, RunCommand(t) PROVE KeepsChanges \/ \E s \in Ids : Changes(s)
  <2>1. WatchShieldedMint(t) \/ UpdateWallet(t) \/ GenerateDustAtOnce(t) => \E s \in Ids : Changes(s)
    BY <1>4 DEF WatchShieldedMint, UpdateWallet, GenerateDustAtOnce, Running, Unchecked
  <2> QED
    BY <1>1, <1>3, <1>5, <1>7, <2>1 DEF RunCommand, CommandFails, ReserveGenerateDust,
       ReserveTransfer, ReserveFinalizeUnproven, Reserve, BeginUnreserved, BeginSubmit,
       RegisterUnreserved, RegisterFails, RegisterReserved, Register, Unreserve,
       InsertSubmission, DiscardOperation
<1>8. ASSUME NEW t \in Threads, RunResume(t) PROVE KeepsChanges \/ \E s \in Ids : Changes(s)
  BY <1>1, <1>6, <1>8 DEF RunResume, ResumeStale, RefuseResult, SubmissionStatusUnknown,
     SubmissionSettled, NextRound, FailOperation, ReinsertOperation, CheckOrphan, ReleaseOrphan
<1>9. ASSUME \/ UNCHANGED vars \/ \E k \in cancelledOperations : ResumeCancelled(k)
             \/ \E t \in Threads : \/ BeginCall(t) \/ FinishCancel(t) \/ FinishClose(t)
                                   \/ \E o \in operations : TakeOperation(t, o) \/ CancelOperation(t, o)
                                   \/ \E s \in sessions : CloseSession(t, s)
      PROVE  KeepsChanges
  BY <1>1, <1>9 DEF vars, ResumeCancelled, BeginCall, Lookup, FinishCancel, FinishClose,
     TakeOperation, CancelOperation, CloseSession
<1> QED BY <1>2, <1>7, <1>8, <1>9 DEF Next, Continue

-----------------------------------------------------------------------------
(* The theorem                                                             *)

LEMMA ChangeInvStep ==
  ASSUME "soleUpdates" \in ClientRules, Base, Base', ChangeInv, [Next]_vars
  PROVE  ChangeInv'
<1>0. /\ TypeOK /\ TypeOK' /\ SyncInv'
      /\ nextId \in Nat /\ nextId' \in Nat /\ nextId' >= nextId
      /\ acknowledged \in [Ids -> Nat]
      /\ \A s \in Ids : wallet[s].other = acknowledged[s]
  <2>1. TypeOK /\ TypeOK' /\ SyncInv'
    BY DEF Base, SyncInv
  <2>2. nextId' >= nextId
    BY <2>1, StepClass DEF Rests, Moves, PutsBack, Discards, Registers, Takes, Closes, TypeOK
  <2> QED BY <2>1, <2>2 DEF TypeOK, ChangeInv, ChangeNeverLost
<1>1. UpdatesAlone'
  BY UpdatesAloneStep DEF ChangeInv
<1>2. ChangeNeverLost'
  BY <1>0, ChangeClass DEF KeepsChanges, Changes, ChangeNeverLost
<1>3. NothingYet'
  <2> SUFFICES ASSUME NEW s \in Ids, s >= nextId' PROVE acknowledged'[s] = 0
    BY DEF NothingYet
  <2>1. s >= nextId /\ s \in Nat
    BY <1>0 DEF Ids
  <2>2. acknowledged[s] = 0 /\ ~Changes(s)
    BY <1>0, <2>1 DEF ChangeInv, NothingYet, Changes
  <2>3. \A r \in Ids : Changes(r) => acknowledged'[s] = acknowledged[s]
    BY <1>0, <2>2 DEF Changes
  <2> QED BY <1>0, <2>2, <2>3, ChangeClass DEF KeepsChanges
\* a plan of a session whose wallet has just changed is no longer waited for
<1>4. ASSUME NEW s \in Ids, Changes(s)
      PROVE  /\ \A o \in operations' : o.session = s => active'[s] # o.id
             /\ \A t \in Threads : Owning(t)' /\ held'[t].session = s => active'[s] # held'[t].id
             /\ \A t \in Threads : pc'[t] = "proving" => held'[t].session # s
  <2>1. /\ \A o \in operations' : o.id # None /\ o.id # Reserved
        /\ \A t \in Threads : Owning(t)' => held'[t].id # None /\ held'[t].id # Reserved
    <3>1. /\ \A o \in operations' : o.id # None /\ o.id < nextId'
          /\ \A t \in Threads : Owning(t)' => held'[t].id # None /\ held'[t].id < nextId'
      BY <1>0 DEF SyncInv, ProposalInv, IdsAllocated, Owning, WithOperation
    <3>2. nextId' \in 1..MaxCounter /\ MaxCounter \in Nat
      BY <1>0, CounterAssumption DEF TypeOK
    <3> QED BY <3>1, <3>2 DEF Reserved
  <2>2. \A t \in Threads : Reserving(t)' /\ held'[t].session = s => active'[s] = Reserved
    BY <1>0 DEF SyncInv, ProposalInv, ReservationHeld
  <2>3. CASE active'[s] = None
    <3>1. None # Reserved
      BY CounterAssumption DEF None, Reserved
    <3> QED BY <2>1, <2>2, <2>3, <3>1 DEF Reserving
  <2>4. ASSUME NEW t \in Threads, pc'[t] = "unreserve", held'[t].session = s
        PROVE  /\ active'[s] = Reserved
               /\ \A u \in Threads : pc'[u] = "proving" => held'[u].session # s
    BY <1>0, <2>2, <2>4 DEF SyncInv, ProposalInv, OneReserver, Reserving
  <2>5. CASE NothingPlanned(s)'
    BY <2>5 DEF NothingPlanned
  <2> QED BY <1>4, <2>1, <2>3, <2>4, <2>5 DEF Changes
<1>5. ASSUME NEW o \in Operation, Exact(o), o.id # None, o.id < nextId,
             ~\E s \in Ids : Changes(s) /\ o.session = s /\ active'[s] = o.id
      PROVE  Exact(o)'
  <2> SUFFICES ASSUME active'[o.session] = o.id, o.proposed # NoWallet
               PROVE  o.proposed.other = acknowledged'[o.session] + 1
    BY DEF Exact
  <2>1. o.session \in Ids /\ o.id # Reserved /\ o.id # nextId
    BY <1>0, <1>5, OperationTyped DEF TypeOK, Reserved
  <2>2. active[o.session] = o.id
    BY <1>0, <1>5, <2>1, ActiveBefore
  <2>3. acknowledged'[o.session] = acknowledged[o.session]
    BY <1>0, <1>5, <2>1, ChangeClass DEF KeepsChanges, Changes
  <2> QED BY <1>5, <2>2, <2>3 DEF Exact
<1>6. ASSUME NEW t \in Threads, Plans(t), held'[t].proposed # NoWallet, held[t].session \in Ids
      PROVE  held'[t].proposed.other = acknowledged'[held'[t].session] + 1
  <2>1. wallet[held[t].session] \in Wallets
    BY <1>0, <1>6 DEF TypeOK
  <2>2. Spent(wallet[held[t].session]).other = wallet[held[t].session].other + 1
    BY <2>1 DEF Spent, Wallets
  <2> QED BY <1>0, <1>6, <2>2 DEF Plans
<1>7. /\ \A o \in operations : o \in Operation /\ o.id # None /\ o.id < nextId /\ Exact(o)
      /\ \A t \in Threads : held[t] \in Operation /\ held[t].session \in Ids
      /\ \A t \in Threads : Owning(t) => held[t].id # None /\ held[t].id < nextId /\ Exact(held[t])
  BY OperationTyped DEF Base, SyncInv, ProposalInv, IdsAllocated, TypeOK, Owning, WithOperation,
                        ChangeInv, PlansExact
<1>8. ASSUME NEW t \in Threads, pc'[t] = "proving", held'[t].proposed # NoWallet
      PROVE  held'[t].proposed.other = acknowledged'[held'[t].session] + 1
  <2>1. CASE Plans(t)
    BY <1>6, <1>7, <1>8, <2>1
  <2>2. CASE pc[t] = "proving" /\ PlanKept(t)
    <3>1. acknowledged'[held[t].session] = acknowledged[held[t].session]
      BY <1>0, <1>4, <1>7, <1>8, <2>2, ChangeClass DEF KeepsChanges, Changes, PlanKept
    <3> QED BY <1>8, <2>2, <3>1 DEF PlanKept, ChangeInv, PlansExact
  <2> QED BY <1>0, <1>8, <2>1, <2>2, PlanClass
<1>9. ASSUME NEW t \in Threads, Owning(t)' PROVE Exact(held[t])'
  <2>1. CASE held'[t] \in operations
    <3>1. PICK o \in operations : o = held'[t]
      BY <2>1
    <3>2. Exact(o)'
      BY <1>4, <1>5, <1>7, <1>9, <3>1
    <3> QED BY <3>1, <3>2 DEF Exact
  <2>2. CASE Owning(t) /\ PlanKept(t)
    <3>1. Exact(held[t])
      BY <1>7, <2>2
    <3> PICK o \in Operation : o = held[t]
      BY <1>7
    <3>2. Exact(o)'
      BY <1>4, <1>5, <1>7, <1>9, <2>2, <3>1 DEF PlanKept
    <3> QED BY <2>2, <3>2 DEF PlanKept, Exact
  <2>3. CASE Plans(t)
    BY <1>6, <1>7, <2>3 DEF Exact
  <2> QED BY <1>0, <1>9, <2>1, <2>2, <2>3, PlanClass
<1>10. ASSUME NEW o \in operations' PROVE Exact(o)'
  <2>1. CASE o \in operations
    BY <1>4, <1>5, <1>7, <1>10, <2>1
  <2>2. ASSUME NEW t \in Threads, Owning(t), o = held[t] PROVE Exact(o)'
    BY <1>4, <1>5, <1>7, <1>10, <2>2
  <2>3. ASSUME NEW t \in Threads, pc[t] \in {"register", "proving"},
               o.session = held[t].session, o.proposed = held[t].proposed
        PROVE  Exact(o)'
    <3>1. o.proposed # NoWallet => o.proposed.other = acknowledged[o.session] + 1
      BY <2>3 DEF Base, SyncInv, ProposalInv, ReservationHeld, ChangeInv, PlansExact
    <3>2. active'[o.session] = o.id => acknowledged'[o.session] = acknowledged[o.session]
      BY <1>0, <1>4, <1>7, <1>10, <2>3, ChangeClass DEF KeepsChanges, Changes
    <3> QED BY <3>1, <3>2 DEF Exact
  <2> QED BY <1>0, <1>10, <2>1, <2>2, <2>3, OperationClass
<1>11. PlansExact'
  BY <1>8, <1>9, <1>10 DEF PlansExact
<1> QED BY <1>1, <1>2, <1>3, <1>11 DEF ChangeInv

\* As long as the commands that do not ask whether an operation is active run alone in
\* their session, no wallet change that a call reported as done is lost: what an
\* operation installs when it completes was planned from the wallet it replaces.
THEOREM ChangeIsNeverLost ==
  ASSUME "soleUpdates" \in ClientRules
  PROVE  Spec => []ChangeNeverLost
<1>1. Init => OperationInv /\ ChangeInv
  <2> SUFFICES ASSUME Init PROVE ChangeInv
    BY OperationInit
  <2>1. /\ operations = {} /\ \A t \in Threads : pc[t] = "idle"
        /\ \A s \in Ids : acknowledged[s] = 0 /\ wallet[s].other = 0
    BY DEF Init
  <2> QED BY <2>1 DEF ChangeInv, UpdatesAlone, PlansExact, NothingYet, ChangeNeverLost, Running,
             Owning
<1>2. OperationInv /\ ChangeInv /\ [Next]_vars => (OperationInv /\ ChangeInv)'
  BY OperationStep, ChangeInvStep DEF OperationInv
<1>3. ChangeInv => ChangeNeverLost
  BY DEF ChangeInv
<1> QED BY <1>1, <1>2, <1>3, PTL DEF Spec

=============================================================================
