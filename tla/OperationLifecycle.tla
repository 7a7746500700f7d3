------------------------- MODULE OperationLifecycle -------------------------
(***************************************************************************)
(* The native registry of wallet sessions and pending operations           *)
(* (crates/runtime/src/runtime.rs and runtime/), called by any number of   *)
(* host threads at once.                                                   *)
(*                                                                         *)
(* The code guards its state with one registry mutex and one mutex per     *)
(* session, always taken in that order.  Each action below is one critical *)
(* section; between two sections of the same call every other thread may   *)
(* run.  An operation that a call has taken out of the registry lives in   *)
(* held[t] until the call puts it back or drops it.                        *)
(*                                                                         *)
(* What a wallet state contains is abstracted to what the properties tell  *)
(* apart: how many sync batches and how many other changes it includes.    *)
(***************************************************************************)
EXTENDS Naturals, FiniteSets, Sequences

CONSTANTS
  Threads,          \* host threads that may be inside a runtime call
  Hashes,           \* transaction hashes a client may submit
  Checkpoints,      \* what a session may be opened from
  MaxCounter,       \* u64::MAX, the last value of the id and generation counters
  MaxOpenSessions,  \* MAX_OPEN_SESSIONS
  MaxTombstones,    \* MAX_CANCELLED_OPERATION_TOMBSTONES
  MaxOffset,        \* how many sync batches the indexer has
  MaxChanges,       \* how many other wallet changes are explored
  ClientRules,      \* what the clients promise, see below
  NoWallet          \* Option::None of a proposed wallet state

Ids         == 1..MaxCounter
Reserved    == MaxCounter            \* RESERVED_OPERATION_ID = u64::MAX
None        == 0                     \* active_operation = None

Statuses    == {"absent", "awaiting", "accepted", "rejected", "unknown"}
Wallets     == [sync : Nat, other : Nat]
ProofKinds  == {"transactionProof", "dappIntentProof", "generateDustProof", "balance"}
Kinds       == ProofKinds \cup {"transactionBalance", "submitFinalized", "extension"}
Commands    == {"applySync", "watchMint", "updateWallet", "generateDust", "transfer",
                "finalizeUnproven", "dappIntent", "balanceCommand", "extensionCommand",
                "submit"}
Unchecked   == {"updateWallet", "generateDust"}
PCs         == {"idle", "run", "register", "proving", "unreserve", "insert", "discard",
                "resume", "reinsert", "refuse", "orphan", "release", "cancel", "closing"}

(***************************************************************************)
(* Promises a client may make; README.md:172 asks for more than both: to   *)
(* run one command at a time on a session.  "oneResume": it does not       *)
(* resume one operation from two threads at once.  "soleUpdates": it runs  *)
(* the commands that do not ask whether an operation is active (Unchecked) *)
(* only while no other command of the session is in progress.              *)
(***************************************************************************)
ASSUME CounterAssumption == MaxCounter \in Nat \ {0}
ASSUME WalletAssumption  == NoWallet \notin Wallets
ASSUME CheckpointAssumption ==
  Checkpoints \subseteq [generation : 0..(MaxCounter - 1), offset : Nat,
                         pending : [Hashes -> Statuses]]
ASSUME LimitAssumption ==
  /\ {MaxOpenSessions, MaxTombstones, MaxOffset, MaxChanges} \subseteq Nat
  /\ ClientRules \subseteq {"oneResume", "soleUpdates"}

VARIABLES
  \* RuntimeRegistry, guarded by the registry mutex
  nextId, nextGeneration, sessions, operations, cancelledOperations, cancelledOrder,
  \* SessionState, one mutex per session; it outlives its registry entry
  generation, wallet, offset, active, closing, pending,
  \* the runtime calls in progress
  pc, held,
  \* history: the non-sync changes that calls reported as done
  acknowledged

registryVars == <<nextId, nextGeneration, sessions, operations,
                  cancelledOperations, cancelledOrder>>
allocation   == <<nextId, nextGeneration, sessions>>
tombstones   == <<cancelledOperations, cancelledOrder>>
sessionVars  == <<generation, wallet, offset, active, closing, pending, acknowledged>>
walletVars   == <<wallet, offset, acknowledged>>
threadVars   == <<pc, held>>
vars         == <<registryVars, sessionVars, threadVars>>

Operation == [id : 0..MaxCounter, session : Ids, generation : 0..MaxCounter,
              kind : Kinds \cup Commands \cup {"none"}, hash : Hashes \cup {"none"},
              proposed : Wallets \cup {NoWallet}]

-----------------------------------------------------------------------------
(* Helpers *)

Blank == [id |-> None, session |-> 1, generation |-> 0, kind |-> "none",
          hash |-> "none", proposed |-> NoWallet]

Spent(w)  == [w EXCEPT !.other = @ + 1]
Synced(w) == [w EXCEPT !.sync = @ + 1]
Key(o)    == <<o.id, o.generation>>

Goto(t, next) == pc' = [pc EXCEPT ![t] = next]
Return(t)     == /\ Goto(t, "idle")
                 /\ held' = [held EXCEPT ![t] = Blank]

\* faulty variant: whatever is active is cleared
ClearAnyActive(s, id) ==
  active' = [active EXCEPT ![s] = None]

\* clear_active_operation
ClearActive(s, id) ==
  active' = IF active[s] = id THEN [active EXCEPT ![s] = None] ELSE active

\* remember_cancelled: the oldest keys make room, resumed or not
RememberCancelled(k) ==
  LET order   == IF k \in cancelledOperations THEN cancelledOrder
                 ELSE Append(cancelledOrder, k)
      expired == IF Len(order) > MaxTombstones THEN Len(order) - MaxTombstones ELSE 0
  IN  /\ cancelledOrder' = SubSeq(order, expired + 1, Len(order))
      /\ cancelledOperations' =
           (cancelledOperations \cup {k}) \ {order[i] : i \in 1..expired}

\* thread t is inside a call that belongs to a command of session s
Serving(t, s) == /\ held[t].session = s
                 /\ pc[t] \notin {"idle", "cancel", "closing"}
                 /\ held[t].kind # "applySync"
InProgress(s) == \/ \E o \in operations : o.session = s
                 \/ \E t \in Threads : Serving(t, s)
Updating(s)   == \E t \in Threads : Serving(t, s) /\ held[t].kind \in Unchecked

MayBegin(s, command) ==
  "soleUpdates" \in ClientRules =>
    \/ command = "applySync"
    \/ command \in Unchecked /\ ~InProgress(s)
    \/ command \notin Unchecked /\ ~Updating(s)
MayResume(o) ==
  "oneResume" \in ClientRules =>
    \A t \in Threads : pc[t] \in {"resume", "reinsert", "refuse", "orphan", "release"}
                         => held[t].id # o.id
\* a handle is known to the client once the call that made it returned
Issued(o)    == \A t \in Threads : pc[t] \in {"insert", "discard"} => held[t].id # o.id

-----------------------------------------------------------------------------
(* open_wallet_session: one registry section *)

\* faulty variant: >= became >
NewGenerationOrSame(c) ==
  IF c.generation > nextGeneration THEN c.generation + 1 ELSE nextGeneration

NewGeneration(c) ==
  IF c.generation >= nextGeneration THEN c.generation + 1 ELSE nextGeneration

\* faulty variant: the generation is added to without checked_add
IdsLeft(c) == nextId < MaxCounter

CountersLeft(c) == nextId < MaxCounter /\ NewGeneration(c) < MaxCounter

OpenSession(c) ==
  /\ Cardinality(sessions) < MaxOpenSessions
  /\ IF CountersLeft(c)
     THEN /\ nextId' = nextId + 1
          /\ nextGeneration' = NewGeneration(c) + 1
          /\ sessions' = sessions \cup {nextId}
          /\ generation' = [generation EXCEPT ![nextId] = NewGeneration(c)]
          /\ offset' = [offset EXCEPT ![nextId] = c.offset]
          /\ wallet' = [wallet EXCEPT ![nextId] = [sync |-> c.offset, other |-> 0]]
          /\ pending' = [pending EXCEPT ![nextId] = c.pending]
          /\ active' = [active EXCEPT ![nextId] = None]
          /\ closing' = [closing EXCEPT ![nextId] = FALSE]
     ELSE \* a counter is exhausted; the raised generation stays
          /\ nextGeneration' = NewGeneration(c)
          /\ UNCHANGED <<nextId, sessions, generation, offset, wallet, pending,
                         active, closing>>
  /\ UNCHANGED <<operations, tombstones, acknowledged, threadVars>>

-----------------------------------------------------------------------------
(* begin_command and apply_sync_batch                                      *)

\* session_for_handle: registry section, then a check under the session lock that
\* is released before the command takes the lock again
Lookup(t, s, command, h) ==
  /\ pc[t] = "idle"
  /\ s \in sessions /\ ~closing[s]
  /\ MayBegin(s, command)
  /\ Goto(t, "run")
  /\ held' = [held EXCEPT ![t] = [Blank EXCEPT !.session = s, !.generation = generation[s],
                                               !.kind = command, !.hash = h]]
  /\ UNCHANGED <<registryVars, sessionVars>>

Running(t, commands) == pc[t] = "run" /\ held[t].kind \in commands

\* bad input, a stream that is not caught up, no funds, another operation active:
\* every handler returns such an error before it changes anything
CommandFails(t) ==
  /\ pc[t] = "run"
  /\ Return(t)
  /\ UNCHANGED <<registryVars, sessionVars>>

\* faulty variant: no look at active_operation
ApplySyncBatchAnytime(t) ==
  LET s == held[t].session
  IN  /\ Running(t, {"applySync"})
      /\ ~closing[s]
      /\ offset[s] < MaxOffset
      /\ offset' = [offset EXCEPT ![s] = @ + 1]
      /\ wallet' = [wallet EXCEPT ![s] = Synced(@)]
      /\ Return(t)
      /\ UNCHANGED <<registryVars, generation, active, closing, pending, acknowledged>>

ApplySyncBatch(t) ==
  LET s == held[t].session
  IN  /\ Running(t, {"applySync"})
      /\ ~closing[s] /\ active[s] = None
      /\ offset[s] < MaxOffset
      /\ offset' = [offset EXCEPT ![s] = @ + 1]
      /\ wallet' = [wallet EXCEPT ![s] = Synced(@)]
      /\ Return(t)
      /\ UNCHANGED <<registryVars, generation, active, closing, pending, acknowledged>>

\* the wallet changes that a command makes at once, and reports as done
ChangeWallet(t) ==
  LET s == held[t].session
  IN  /\ acknowledged[s] < MaxChanges
      /\ wallet' = [wallet EXCEPT ![s] = Spent(@)]
      /\ acknowledged' = [acknowledged EXCEPT ![s] = @ + 1]
      /\ Return(t)
      /\ UNCHANGED <<registryVars, generation, offset, active, closing, pending>>

\* faulty variant: no look at active_operation
WatchShieldedMintAnytime(t) ==
  /\ Running(t, {"watchMint"})
  /\ ~closing[held[t].session]
  /\ ChangeWallet(t)

\* close_wallet_session empties the keys, so what needs one fails on a closing session
WatchShieldedMint(t) ==
  /\ Running(t, {"watchMint"})
  /\ active[held[t].session] = None /\ ~closing[held[t].session]
  /\ ChangeWallet(t)

\* applyShieldedSpentResponse, setShieldedProtocolVersion and applyDustSpendResolution
\* do not ask whether an operation is active
UpdateWallet(t) ==
  /\ Running(t, {"updateWallet"})
  /\ ChangeWallet(t)

\* generateDust whose transaction needs no proof: no such question either
GenerateDustAtOnce(t) ==
  /\ Running(t, {"generateDust"})
  /\ ~closing[held[t].session]
  /\ ChangeWallet(t)

\* reserve_operation; the proposed wallet state is built in the same section
Reserve(t, kind, proposed) ==
  LET s == held[t].session
  IN  /\ active[s] = None
      /\ active' = [active EXCEPT ![s] = Reserved]
      /\ Goto(t, "proving")
      /\ held' = [held EXCEPT ![t] = [@ EXCEPT !.kind = kind, !.proposed = proposed]]
      /\ UNCHANGED <<registryVars, generation, walletVars, closing, pending>>

ReserveGenerateDust(t) ==
  /\ Running(t, {"generateDust"}) /\ ~closing[held[t].session]
  /\ Reserve(t, "generateDustProof", Spent(wallet[held[t].session]))

ReserveTransfer(t) ==
  /\ Running(t, {"transfer"}) /\ ~closing[held[t].session]
  /\ Reserve(t, "transactionProof", Spent(wallet[held[t].session]))

ReserveFinalizeUnproven(t) ==
  /\ Running(t, {"finalizeUnproven"})
  /\ Reserve(t, "transactionProof", NoWallet)

\* dappIntent, balanceSealed/balanceUnsealed and host commands register without a
\* reservation; what they propose is empty (a host proposes when it is resumed)
Begins == [dappIntent |-> "dappIntentProof", balanceCommand |-> "balance",
           extensionCommand |-> "extension"]
BeginUnreserved(t) ==
  /\ Running(t, DOMAIN Begins)
  /\ Goto(t, "register")
  /\ held' = [held EXCEPT ![t].kind = Begins[@]]
  /\ UNCHANGED <<registryVars, sessionVars>>

\* submitFinalized: the first of its two looks at pending_submissions
BeginSubmit(t) ==
  /\ Running(t, {"submit"})
  /\ pending[held[t].session][held[t].hash] = "absent"
  /\ Goto(t, "register")
  /\ held' = [held EXCEPT ![t].kind = "submitFinalized"]
  /\ UNCHANGED <<registryVars, sessionVars>>

-----------------------------------------------------------------------------
(* register_operation_with_reservation: registry lock, then session lock    *)

CanRegister(s, expected) ==
  /\ s \in sessions
  /\ \A o \in operations : o.session # s
  /\ ~closing[s]
  /\ active[s] = expected
  /\ nextId < MaxCounter

Register(t, kind, next) ==
  LET o == [held[t] EXCEPT !.id = nextId, !.kind = kind]
  IN  /\ operations' = operations \cup {o}
      /\ nextId' = nextId + 1
      /\ active' = [active EXCEPT ![o.session] = nextId]
      /\ Goto(t, next)
      /\ held' = [held EXCEPT ![t] = IF next = "idle" THEN Blank ELSE o]
      /\ UNCHANGED <<nextGeneration, sessions, tombstones, generation, walletVars,
                     closing, pending>>

RegisterUnreserved(t) ==
  /\ pc[t] = "register"
  /\ CanRegister(held[t].session, None)
  /\ Register(t, held[t].kind, IF held[t].kind = "submitFinalized" THEN "insert" ELSE "idle")

RegisterFails(t) ==
  /\ pc[t] = "register"
  /\ ~CanRegister(held[t].session, None)
  /\ Return(t)
  /\ UNCHANGED <<registryVars, sessionVars>>

\* start_transaction_finalization: proofs are outstanding, or there were none and the
\* balance service or (for a proposed state) a local DUST proof comes next
RegisterReserved(t) ==
  /\ pc[t] = "proving"
  /\ CanRegister(held[t].session, Reserved)
  /\ \/ Register(t, held[t].kind, "idle")
     \/ /\ held[t].kind = "transactionProof"
        /\ Register(t, "transactionBalance", "idle")
     \/ /\ held[t].kind = "transactionProof" /\ held[t].proposed # NoWallet
        /\ Register(t, "balance", "idle")

\* start_local_transfer_balance with nothing to prove
CommitReserved(t) ==
  LET s == held[t].session
  IN  /\ pc[t] = "proving"
      /\ held[t].kind = "transactionProof" /\ held[t].proposed # NoWallet
      /\ ~closing[s]
      /\ acknowledged[s] < MaxChanges
      /\ wallet' = [wallet EXCEPT ![s] = held[t].proposed]
      /\ acknowledged' = [acknowledged EXCEPT ![s] = @ + 1]
      /\ Goto(t, "unreserve")
      /\ UNCHANGED <<registryVars, generation, offset, active, closing, pending, held>>

\* clear_operation_reservation, on the way out of every reserved command that
\* registered nothing
Unreserve(t) ==
  /\ pc[t] \in {"proving", "unreserve"}
  /\ ClearActive(held[t].session, Reserved)
  /\ Return(t)
  /\ UNCHANGED <<registryVars, generation, walletVars, closing, pending>>

\* faulty variant: no second look at pending_submissions
InsertSubmissionAgain(t) ==
  LET s == held[t].session
      h == held[t].hash
  IN  /\ pc[t] = "insert"
      /\ IF ~closing[s]
         THEN /\ pending' = [pending EXCEPT ![s][h] = "awaiting"]
              /\ Return(t)
         ELSE /\ Goto(t, "discard")
              /\ UNCHANGED <<pending, held>>
      /\ UNCHANGED <<registryVars, generation, walletVars, active, closing>>

\* submitFinalized, after registering: the second look at pending_submissions
InsertSubmission(t) ==
  LET s == held[t].session
      h == held[t].hash
  IN  /\ pc[t] = "insert"
      /\ IF ~closing[s] /\ pending[s][h] = "absent"
         THEN /\ pending' = [pending EXCEPT ![s][h] = "awaiting"]
              /\ Return(t)
         ELSE /\ Goto(t, "discard")
              /\ UNCHANGED <<pending, held>>
      /\ UNCHANGED <<registryVars, generation, walletVars, active, closing>>

\* faulty variant: active_operation is left behind
DiscardOperationOnly(t) ==
  LET o == held[t]
  IN  /\ pc[t] = "discard"
      /\ operations' = operations \ {o}
      /\ IF o \in operations /\ o.session \in sessions
         THEN UNCHANGED active
         ELSE UNCHANGED active
      /\ Return(t)
      /\ UNCHANGED <<allocation, tombstones, generation, walletVars, closing, pending>>

\* discard_operation
DiscardOperation(t) ==
  LET o == held[t]
  IN  /\ pc[t] = "discard"
      /\ operations' = operations \ {o}
      /\ IF o \in operations /\ o.session \in sessions
         THEN ClearActive(o.session, o.id)
         ELSE UNCHANGED active
      /\ Return(t)
      /\ UNCHANGED <<allocation, tombstones, generation, walletVars, closing, pending>>

-----------------------------------------------------------------------------
(* resume_operation                                                        *)

\* faulty variant: the operation stays registered
TakeOperationCopy(t, o) ==
  /\ pc[t] = "idle"
  /\ Issued(o) /\ MayResume(o)
  /\ UNCHANGED operations
  /\ IF o.session \in sessions
     THEN Goto(t, "resume") /\ held' = [held EXCEPT ![t] = o]
     ELSE UNCHANGED threadVars
  /\ UNCHANGED <<allocation, tombstones, sessionVars>>

\* the registry section: the operation leaves the registry; without its session it is
\* dropped and the call fails
TakeOperation(t, o) ==
  /\ pc[t] = "idle"
  /\ Issued(o) /\ MayResume(o)
  /\ operations' = operations \ {o}
  /\ IF o.session \in sessions
     THEN Goto(t, "resume") /\ held' = [held EXCEPT ![t] = o]
     ELSE UNCHANGED threadVars
  /\ UNCHANGED <<allocation, tombstones, sessionVars>>

\* a result that arrives after the cancellation consumes its tombstone
ResumeCancelled(k) ==
  /\ cancelledOperations' = cancelledOperations \ {k}
  /\ UNCHANGED <<allocation, operations, cancelledOrder, sessionVars, threadVars>>

\* the section under the session lock
IsCurrent(t) == ~closing[held[t].session] /\ active[held[t].session] = held[t].id
Resuming(t, kinds) == pc[t] = "resume" /\ held[t].kind \in kinds

ResumeStale(t) ==
  /\ pc[t] = "resume" /\ ~IsCurrent(t)
  /\ Goto(t, "orphan")
  /\ UNCHANGED <<registryVars, sessionVars, held>>

\* wrong effect id, an incomplete batch, an unknown outcome, or a host's Retry
RefuseResult(t) ==
  /\ pc[t] = "resume" /\ IsCurrent(t)
  /\ Goto(t, "refuse")
  /\ UNCHANGED <<registryVars, sessionVars, held>>

\* a submission whose outcome is unknown stays pending, so that it can be resumed
SubmissionStatusUnknown(t) ==
  /\ Resuming(t, {"submitFinalized"}) /\ IsCurrent(t)
  /\ pending[held[t].session][held[t].hash] # "absent"
  /\ pending' = [pending EXCEPT ![held[t].session][held[t].hash] = "unknown"]
  /\ Goto(t, "refuse")
  /\ UNCHANGED <<registryVars, generation, walletVars, active, closing, held>>

SubmissionSettled(t) ==
  LET s == held[t].session
  IN  /\ Resuming(t, {"submitFinalized"}) /\ IsCurrent(t)
      /\ pending[s][held[t].hash] # "absent"
      /\ \E status \in {"accepted", "rejected"} :
           pending' = [pending EXCEPT ![s][held[t].hash] = status]
      /\ ClearActive(s, held[t].id)
      /\ Return(t)
      /\ UNCHANGED <<registryVars, generation, walletVars, closing>>

\* another round of proofs, the balance service or a local DUST proof after the
\* last one, or a host's Continue (which may plan a wallet change)
NextRound(t) ==
  LET s == held[t].session
  IN  /\ Resuming(t, ProofKinds \cup {"extension"}) /\ IsCurrent(t)
      /\ \/ UNCHANGED held
         \/ /\ held[t].kind = "transactionProof"
            /\ held' = [held EXCEPT ![t].kind = "transactionBalance"]
         \/ /\ held[t].kind = "transactionProof" /\ held[t].proposed # NoWallet
            /\ held' = [held EXCEPT ![t].kind = "balance"]
         \/ /\ held[t].kind = "extension"
            /\ held' = [held EXCEPT ![t].proposed = Spent(wallet[s])]
      /\ Goto(t, "reinsert")
      /\ UNCHANGED <<registryVars, sessionVars>>

\* the operation completes: commit the proposed state, free the session
CompleteOperation(t) ==
  LET o == held[t]
      s == held[t].session
  IN  /\ Resuming(t, Kinds \ {"submitFinalized"}) /\ IsCurrent(t)
      /\ o.kind = "transactionProof" => o.proposed # NoWallet
      /\ IF o.proposed = NoWallet
         THEN UNCHANGED <<wallet, acknowledged>>
         ELSE /\ wallet' = [wallet EXCEPT ![s] = o.proposed]
              /\ acknowledged' = [acknowledged EXCEPT ![s] = @ + 1]
      /\ ClearActive(s, o.id)
      /\ Return(t)
      /\ UNCHANGED <<registryVars, generation, offset, closing, pending>>

\* faulty variant: no error reaches clear_orphaned_active_operation
FailOperationQuietly(t) ==
  LET o == held[t]
  IN  /\ Resuming(t, Kinds) /\ IsCurrent(t)
      /\ \/ o.kind # "submitFinalized" /\ ClearActive(o.session, o.id)
         \/ o.kind = "extension" /\ UNCHANGED active
         \/ /\ o.kind = "submitFinalized" /\ pending[o.session][o.hash] = "absent"
            /\ UNCHANGED active
      /\ Return(t)
      /\ UNCHANGED <<registryVars, generation, walletVars, closing, pending>>

\* a rejected effect or a failed proof; a host's error leaves active_operation to
\* clear_orphaned_active_operation
FailOperation(t) ==
  LET o == held[t]
  IN  /\ Resuming(t, Kinds) /\ IsCurrent(t)
      /\ \/ o.kind # "submitFinalized" /\ ClearActive(o.session, o.id)
         \/ o.kind = "extension" /\ UNCHANGED active
         \/ /\ o.kind = "submitFinalized" /\ pending[o.session][o.hash] = "absent"
            /\ UNCHANGED active
      /\ Goto(t, "orphan")
      /\ UNCHANGED <<registryVars, generation, walletVars, closing, pending, held>>

\* the second registry section: the operation returns to the registry
ReinsertOperation(t) ==
  /\ pc[t] \in {"reinsert", "refuse"}
  /\ operations' = operations \cup {held[t]}
  /\ IF pc[t] = "refuse"
     THEN Goto(t, "orphan") /\ UNCHANGED held
     ELSE Return(t)
  /\ UNCHANGED <<allocation, tombstones, sessionVars>>

\* faulty variant: no look at the registry
CheckOrphanBlindly(t) ==
  /\ pc[t] = "orphan"
  /\ IF FALSE
     THEN Return(t)
     ELSE Goto(t, "release") /\ UNCHANGED held
  /\ UNCHANGED <<registryVars, sessionVars>>

\* clear_orphaned_active_operation, after every error: it looks at the registry and,
\* with no lock held in between, then at the session
CheckOrphan(t) ==
  /\ pc[t] = "orphan"
  /\ IF \E o \in operations : o.id = held[t].id
     THEN Return(t)
     ELSE Goto(t, "release") /\ UNCHANGED held
  /\ UNCHANGED <<registryVars, sessionVars>>

ReleaseOrphan(t) ==
  /\ pc[t] = "release"
  /\ ClearActive(held[t].session, held[t].id)
  /\ Return(t)
  /\ UNCHANGED <<registryVars, generation, walletVars, closing, pending>>

-----------------------------------------------------------------------------
(* cancel_operation and close_wallet_session                               *)

CancelOperation(t, o) ==
  /\ pc[t] = "idle"
  /\ Issued(o)
  /\ operations' = operations \ {o}
  /\ RememberCancelled(Key(o))
  /\ IF o.session \in sessions
     THEN Goto(t, "cancel") /\ held' = [held EXCEPT ![t] = o]
     ELSE UNCHANGED threadVars
  /\ UNCHANGED <<allocation, sessionVars>>

\* faulty variant: the submission keeps its status
FinishCancelOnly(t) ==
  LET o == held[t]
  IN  /\ pc[t] = "cancel"
      /\ ClearActive(o.session, o.id)
      /\ IF FALSE
         THEN pending' = [pending EXCEPT ![o.session][o.hash] = "unknown"]
         ELSE UNCHANGED pending
      /\ Return(t)
      /\ UNCHANGED <<registryVars, generation, walletVars, closing>>

FinishCancel(t) ==
  LET o == held[t]
  IN  /\ pc[t] = "cancel"
      /\ ClearActive(o.session, o.id)
      /\ IF o.kind = "submitFinalized" /\ pending[o.session][o.hash] # "absent"
         THEN pending' = [pending EXCEPT ![o.session][o.hash] = "unknown"]
         ELSE UNCHANGED pending
      /\ Return(t)
      /\ UNCHANGED <<registryVars, generation, walletVars, closing>>

CloseSession(t, s) ==
  /\ pc[t] = "idle"
  /\ s \in sessions /\ ~closing[s]
  /\ sessions' = sessions \ {s}
  /\ operations' = {o \in operations : o.session # s}
  /\ cancelledOperations' = {k \in cancelledOperations : k[2] # generation[s]}
  /\ cancelledOrder' = SelectSeq(cancelledOrder, LAMBDA k : k[2] # generation[s])
  /\ Goto(t, "closing")
  /\ held' = [held EXCEPT ![t] = [Blank EXCEPT !.session = s]]
  /\ UNCHANGED <<nextId, nextGeneration, sessionVars>>

FinishClose(t) ==
  /\ pc[t] = "closing"
  /\ closing' = [closing EXCEPT ![held[t].session] = TRUE]
  /\ Return(t)
  /\ UNCHANGED <<registryVars, generation, walletVars, active, pending>>

-----------------------------------------------------------------------------
Init ==
  /\ nextId = 1 /\ nextGeneration = 1
  /\ sessions = {} /\ operations = {}
  /\ cancelledOperations = {} /\ cancelledOrder = <<>>
  /\ generation = [s \in Ids |-> 0]
  /\ wallet = [s \in Ids |-> [sync |-> 0, other |-> 0]]
  /\ offset = [s \in Ids |-> 0]
  /\ active = [s \in Ids |-> None]
  /\ closing = [s \in Ids |-> FALSE]
  /\ pending = [s \in Ids |-> [h \in Hashes |-> "absent"]]
  /\ acknowledged = [s \in Ids |-> 0]
  /\ pc = [t \in Threads |-> "idle"]
  /\ held = [t \in Threads |-> Blank]

BeginCall(t) ==
  \E s \in sessions :
    \/ \E command \in Commands \ {"submit"} : Lookup(t, s, command, "none")
    \/ \E h \in Hashes : Lookup(t, s, "submit", h)

RunCommand(t) ==
  \/ CommandFails(t) \/ ApplySyncBatch(t) \/ WatchShieldedMint(t) \/ UpdateWallet(t)
  \/ GenerateDustAtOnce(t) \/ ReserveGenerateDust(t) \/ ReserveTransfer(t)
  \/ ReserveFinalizeUnproven(t) \/ BeginUnreserved(t) \/ BeginSubmit(t)
  \/ RegisterUnreserved(t) \/ RegisterFails(t) \/ RegisterReserved(t)
  \/ CommitReserved(t) \/ Unreserve(t) \/ InsertSubmission(t) \/ DiscardOperation(t)

RunResume(t) ==
  \/ ResumeStale(t) \/ RefuseResult(t) \/ SubmissionStatusUnknown(t)
  \/ SubmissionSettled(t) \/ NextRound(t) \/ CompleteOperation(t) \/ FailOperation(t)
  \/ ReinsertOperation(t) \/ CheckOrphan(t) \/ ReleaseOrphan(t)

\* what a call does after it began; a host thread inside a call keeps running
Continue(t) == RunCommand(t) \/ RunResume(t) \/ FinishCancel(t) \/ FinishClose(t)

Next ==
  \/ \E c \in Checkpoints : OpenSession(c)
  \/ \E k \in cancelledOperations : ResumeCancelled(k)
  \/ \E t \in Threads :
       \/ BeginCall(t) \/ Continue(t)
       \/ \E o \in operations : TakeOperation(t, o) \/ CancelOperation(t, o)
       \/ \E s \in sessions : CloseSession(t, s)

Spec     == Init /\ [][Next]_vars
Fairness == \A t \in Threads : WF_vars(Continue(t))
FairSpec == Spec /\ Fairness

-----------------------------------------------------------------------------
(* Properties *)

\* Every variable has its type: the counters stay within a u64.
TypeOK ==
  /\ nextId \in 1..MaxCounter /\ nextGeneration \in 0..MaxCounter
  /\ sessions \subseteq Ids
  /\ operations \subseteq Operation
  /\ cancelledOperations \subseteq (0..MaxCounter) \X (0..MaxCounter)
  /\ generation \in [Ids -> 0..MaxCounter]
  /\ wallet \in [Ids -> Wallets]
  /\ offset \in [Ids -> Nat]
  /\ active \in [Ids -> 0..MaxCounter]
  /\ closing \in [Ids -> BOOLEAN]
  /\ pending \in [Ids -> [Hashes -> Statuses]]
  /\ pc \in [Threads -> PCs]
  /\ held \in [Threads -> Operation]
  /\ acknowledged \in [Ids -> Nat]

\* A wallet includes exactly the sync batches that its session's offset counts.  An
\* operation proposes a wallet state when it begins and installs it as a whole when it
\* completes, perhaps after many other calls: no batch applied in between may be lost
\* (session.rs refuses a batch while active_operation is set).
SyncNeverLost == \A s \in Ids : wallet[s].sync = offset[s]

\* Why: what an operation proposes stays up to date for as long as its session waits for
\* it, and a session reserved by a running call is reserved by that call alone, although
\* every reservation has the same id.
WithOperation == {"insert", "discard", "resume", "reinsert", "refuse", "orphan",
                  "release", "cancel"}
Reserving(t)  == pc[t] \in {"proving", "unreserve"}
Owning(t)     == pc[t] \in {"resume", "reinsert", "refuse"}
UpToDate(o)   == (active[o.session] = o.id /\ o.proposed # NoWallet)
                   => o.proposed.sync = offset[o.session]

IdsAllocated ==
  /\ \A s \in sessions : s < nextId
  /\ \A o \in operations : o.id # None /\ o.id < nextId
  /\ \A t \in Threads : /\ pc[t] # "idle" => held[t].session < nextId
                        /\ pc[t] \in WithOperation => held[t].id # None /\ held[t].id < nextId
ReservationHeld ==
  \A t \in Threads :
    /\ pc[t] \in {"run", "register"} => held[t].proposed = NoWallet
    /\ Reserving(t) =>
         /\ active[held[t].session] = Reserved
         /\ held[t].proposed # NoWallet /\ pc[t] = "proving"
              => held[t].proposed.sync = offset[held[t].session]
OneReserver ==
  \A t, u \in Threads :
    Reserving(t) /\ Reserving(u) /\ held[t].session = held[u].session => t = u
ProposalsUpToDate ==
  /\ \A o \in operations : UpToDate(o)
  /\ \A t \in Threads : Owning(t) => UpToDate(held[t])
ProposalInv == IdsAllocated /\ ReservationHeld /\ OneReserver /\ ProposalsUpToDate

\* In the same way no other change that a call reported as done is lost when an
\* operation installs the state it proposed.  Needs "soleUpdates": four commands change
\* the wallet without asking whether an operation is active.
ChangeNeverLost == \A s \in Ids : wallet[s].other = acknowledged[s]

\* A registered operation is the one its session waits for, so its result is accepted
\* and neither a sync nor another operation gets in before it.  Needs "oneResume":
\* clear_orphaned_active_operation looks at the registry and clears active_operation in
\* two steps.
RegisteredIsActive == \A o \in operations : active[o.session] = o.id

\* An open session that refuses other work has an operation the client can resume or
\* cancel, or a call that is still running: it is never blocked for good.
Responsible(s) ==
  \/ \E o \in operations : o.session = s /\ o.id = active[s]
  \/ \E t \in Threads :
       /\ held[t].session = s
       /\ \/ active[s] = Reserved /\ pc[t] \in {"proving", "unreserve"}
          \/ active[s] = held[t].id
             /\ pc[t] \in {"insert", "discard", "resume", "reinsert", "refuse", "orphan",
                          "release", "cancel"}
BusyHasOwner == \A s \in sessions : active[s] # None => Responsible(s)

\* In an open session a submission awaits a response only as long as some operation can
\* still bring it: registered, or held by a call that will settle or put it back.
AwaitingHasOperation ==
  \A s \in sessions, h \in Hashes :
    pending[s][h] = "awaiting" =>
      \E o \in operations \cup {held[t] : t \in {u \in Threads :
                  pc[u] \in {"resume", "reinsert", "refuse", "cancel"}}} :
        o.session = s /\ o.hash = h /\ o.kind = "submitFinalized"

\* The operations whose result is still welcome.
Welcome == operations \cup {held[t] : t \in {u \in Threads :
                                pc[u] \in {"resume", "reinsert", "refuse"}}}

\* Once cancel_operation has answered Ok no result of the operation is used.
CancelledStaysCancelled == \A o \in Welcome : Key(o) \notin cancelledOperations

\* The status of a submission only moves forward: a transaction hash that was submitted
\* never becomes submittable again, and a settled outcome is never overwritten, neither
\* by a second submitFinalized of the same transaction nor by a late cancellation.
Settled == {"accepted", "rejected"}
StatusMovesForward ==
  [][\A s \in Ids, h \in Hashes :
       LET old == pending[s][h]
           new == pending'[s][h]
       IN  (s < nextId /\ old # new) =>
             \/ old = "absent" /\ new = "awaiting"
             \/ old \in {"awaiting", "unknown"} /\ new \in Settled \cup {"unknown"}]_vars

\* A session never shares its generation with an earlier session or with the process
\* that wrote its checkpoint, so a handle from either is refused.
FreshGeneration ==
  [][\A s \in sessions' \ sessions :
       /\ \A r \in 1..(nextId - 1) : generation[r] < generation'[s]
       /\ \E c \in Checkpoints : /\ c.generation < generation'[s]
                                 /\ c.offset = offset'[s] /\ c.pending = pending'[s]]_vars

\* As long as calls return, an open session that is reserved by a running call, or whose
\* operation is in no registry, becomes free, registered or closed.
Registered(s) == \E o \in operations : o.session = s /\ o.id = active[s]
BusySettles ==
  \A s \in Ids :
    (s \in sessions /\ active[s] # None /\ ~Registered(s))
      ~> (s \notin sessions \/ active[s] = None \/ Registered(s))

=============================================================================
