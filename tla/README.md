# A verification of the Midnight mobile runtime

This directory holds TLA+ models of the wallet runtime of *midnight-mobile*, TLC
configurations that check them on small instances, and proofs that TLAPS checks for
every value of their constants. Paths are relative to the repository (`src/` is its
root here); `runtime/…` stands for `src/crates/runtime/src/runtime/…`.

- [The system](#the-system): its parts, and what makes each correct
- [The modules](#the-modules): how state and actions correspond to the code
- [The runs](#the-runs): what TLC checks, in which bounds, under which fairness
- [The proofs](#the-proofs): theorems, assumptions, inductive invariants
- [What disagrees with comments and documentation](#what-disagrees-with-comments-and-documentation)
- [What is not modelled](#what-is-not-modelled)
- [The plan](#the-plan)

## The system

A React Native application keeps a Midnight wallet on a phone. The wallet itself is
native Rust code without a network (`src/crates/runtime`, about 12 000 lines without
tests); TypeScript (`src/packages/react-native/src`, about 3 000 lines) fetches, submits
and stores on its behalf; Kotlin and Swift bridges join them and run each asynchronous
call on a native thread.

```
 app ── controller ── transport ── runtime-api ── native bridge ─────────┐
         (open, sync,        (HTTP, retry,  (argument                    │ any thread
          pause, save)        batches)       checks)                     ▼
   store ◄─┘                                                dispatch (v8 / v9 ledger)
                                                                          │
                       ┌──────────────────────────────────────────────────┤
                       ▼                                                  ▼
             operation registry ── session ── wallet state       local prover
              (pending operations)  (sync, checkpoints)       (gate, key registry)
```

The runtime is a *step machine*. A command either finishes or answers `suspended` with a
request (prove this, submit that) and an operation handle; the client does the work and
resumes the operation with the answer, for as many rounds as it takes. Everything below is
about what happens between those calls.

### Components

**Operation registry** (`runtime.rs`, `runtime/registry.rs`, `registry_types.rs`,
`operation_helpers.rs`, `commands/`). State: one registry (open sessions, pending
operations, id and generation counters, tombstones of cancelled operations) behind one
mutex, and a `SessionState` per session behind its own, always locked in that order.
Operations: open and close a session, run a command, resume, cancel. A call takes and
releases the locks several times, so calls of different threads interleave between those
sections; a resumed operation is *outside* the registry while its session is worked on.
Correct when: a wallet state proposed in one call and committed in a later one never
overwrites what was applied in between; a cancelled operation never comes back; a busy
session always has somebody who can free it; submission statuses only move forward.

**Host extension** (`runtime/extension.rs`): commands the application adds itself. They
use the same registry, with begin, resume, retry, finalize and failure of their own.

**Sessions, sync streams and checkpoints** (`runtime/session.rs`, `checkpoint.rs`,
`wallet_state/sync.rs`). State: an offset per stream (DUST, shielded, unshielded), receipts
of applied batches, which streams are caught up, the wallet. Operations: apply a batch or a
tip marker, export a checkpoint, open from one. Batches come from the network in several
forms, late, twice, or cut at other places; a checkpoint may be old. Correct when each event
is applied exactly once and "ready" means that all streams are at their tips.

**Wallet state** (`wallet_state.rs`, `wallet_state/`). State: unshielded UTXOs that are available or
pending, the ledger library's shielded state with its pending spends and outputs, DUST. Operations: transfers,
dApp transfers and intents, DUST registration, and what the three streams, a spent-coin answer or a v2 payload
bring. The code is sequential; what makes it hard is that the streams come at their own pace, while the chain
includes transactions, includes them in part, fails them or never sees them. Correct when every coin is
accounted for, no coin is spent twice, and balances add up.

**Balancing and its manifest** (`wallet_state/balance/`): a plan covers what a dApp's
transaction lacks, per token and segment, and pays its fee from DUST; the user approves a
manifest of it, and execution plans again. Correct when a plan balances and pays what it should, and
an execution costs no more than was approved, whatever happened to the wallet in between.

**Transactions and paused proofs** (`transaction.rs`, `transaction/remote_proof.rs`): a
transaction is built again from the start at each round and stops at the first proof that
has no answer yet. Correct when answers go to the requests that asked for them.

**Local prover gate and key registry** (`local_prover.rs`). State: a reader/writer gate with
a limit that may change, the registry of proving keys and its generation, the cancellation
epoch. Operations: prove, check, prove a batch with worker threads, configure, close, set the
limit, cancel. Correct when a registry is never replaced under a proof, configure and close
are not starved, and counts survive every timeout.

**Local prover FFI and timings** (`local_prover/ffi.rs`, `timings.rs`): C entry points and
a trace of durations.

**Ledger dispatch** (`dispatch.rs`, `compat.rs`, `executor.rs`): routes a handle to one of
two builds of the same engine by its id range. **Codecs** (`codec.rs`,
`commands/codecs.rs`): pure conversions.

**Session controller** (`packages/react-native/src/controller.ts`): opens and closes a
session, applies batches, runs commands, and saves a checkpoint after each batch and before
each network effect. Asynchronous: methods interleave at every `await`. Correct when the store
knows of every transaction before it may be sent and keeps what a command reported.

**Command transport** (`transport.ts`, `transport-batch.ts`): carries out requests, retries,
turns a failed submission into `statusUnknown`, proves batches with a bounded number of
workers, cancels on abort. Correct when a transaction whose outcome is unknown is not
sent again, and nothing starts after an abort.

**JavaScript API and decoding** (`runtime-api.ts`, `commands.ts`, `decode.ts`,
`local-prover.ts`): argument checks without state. **Native bridges** (`android/`, `ios/`): thin
asynchronous functions; the prover's bridge remembers the configured handle, and Android
runs its calls on a pool of four threads. **Generated bindings, examples, scripts and CI**.

### What is hard to test here

`PROJECT.json` lists each hazard at its line. In groups:

- *between two critical sections of a call*: proposals that become stale, reservations that all use
  one id, operations held outside the registry, orphans cleared on a stale look, a session
  closed while others work on it;
- *at the gate*: a writer that times out as it is notified, a limit changed without the
  mutex, workers of one batch with a configure between them, cancellation that
  comes while workers wait;
- *on the way from the chain*: repetitions, gaps, re-cuts, snapshots, receipts that are
  pruned, restarts from an old checkpoint, limits that export and open must agree on;
- *in the rounds of a proof*: results that come late, twice, of another round, in another order or under
  another's id, replays that must ask for the same again, workers of a batch that share an index and a stop flag
  across awaits, an abort at any of them;
- *in the wallet*: streams that deliver a transaction at different times, a failed transaction whose coins come
  back, a partial one, reservations that nobody releases, a plan made stale by an
  incoming payment, a fee that depends on the coins that pay it;
- *in the host*: saves that finish out of order, a crash before a save, a submission that was
  received but not answered, pause against a step that is arriving.

## The modules

| module | models | lines of proof |
|---|---|---|
| `OperationLifecycle` | the operation registry and its sessions under concurrent calls | `OperationLifecycleProofs`, `RegistryProofs` |
| `LocalProver` | the prover's gate, registry slot, batches, cancellation, the bridge's handle | `LocalProverProofs` |
| `SyncStream` | a session's streams, receipts, checkpoints and restarts | `SyncStreamProofs` |
| `ChainFeed` | abstract: what a wallet promises about the chain it follows | refined by `SyncStream` |
| `SubmissionClient` | the controller's calls over transport, native session, store and node | `SubmissionClientProofs` |
| `ProofRounds` | a paused transaction: replays, rounds, effect ids, answers | `ProofRoundsProofs` |
| `ProvingOrder` | abstract: what it means to prove a transaction | refined by `ProofRounds` |
| `ProofTransport` | the transport's step loop and batches over `ProofRounds` | `ProofTransportProofs` |
| `CoinSelection` | operators: the choice of coins, the search for DUST that pays its own fee | |
| `Wallet` | the coins of a wallet, its commands, its three streams, the chain | `WalletProofs` |
| `Balancing` | plan, manifest, preview and execution of a balance over `Wallet` | `WalletProofs` |
| `MC…` | symmetry sets and constants of the runs | |

The operators marked *faulty* beside a definition are that definition with one plausible
mistake in it. No specification uses them: each is there to replace the definition it stands
before, and the property named with it in `PROJECT.json` (`mutants`) must then fail. They show
that the properties depend on the code they are about.

### OperationLifecycle

One action is one critical section. `pc[t]` says where thread `t` is inside a call, `held[t]`
is what the call carries on its stack: its arguments and, after `remove`, the operation that
is outside the registry. The registry variables and the session variables are named after
their fields (`nextId`, `operations`, `cancelledOperations`, `cancelledOrder`, `active`,
`offset`, `pending`, …).

- `Lookup` is `find_session`; then each command has its section under the session
  lock (`ApplySyncBatch`, `WatchShieldedMint`, `UpdateWallet`, `GenerateDustAtOnce`,
  `Reserve…`, `BeginUnreserved`, `BeginSubmit`). Commands that need proofs reserve the session
  with the id `u64::MAX`, release the lock, build (`pc = "proving"`) and register
  (`RegisterReserved`, then `CommitReserved` or `Unreserve`).
- `TakeOperation` is the start of resume: it removes the operation. Its ends are the actions
  for each kind and answer: `SubmissionSettled`, `NextRound`, `CompleteOperation`, `FailOperation`,
  `RefuseResult`, with `ReinsertOperation`, `CheckOrphan` and `ReleaseOrphan` after them.
- `CancelOperation`/`FinishCancel` and `CloseSession`/`FinishClose` are two sections each.

A wallet is `[sync, other]`: how many sync batches and how many other changes it includes.
That is what "lost update" needs. `acknowledged` is history: the other changes that calls
have reported as done. A session outlives its registry entry, as its `Arc` does.

`ClientRules` are promises of the client. README.md:172 asks for "one command at a time for
each session"; most properties are checked without it. `"oneResume"` (one operation is not
resumed by two threads at once) and `"soleUpdates"` (the two kinds of command that do not ask
whether an operation is active run alone) are both weaker than that line. One assumption is
made about extensions: a host prepares wallet changes in `resume`, not in `begin`. The code does not enforce it:
`begin` gets the same `SessionContext` (`extension.rs:129-175`), the session is unlocked at `:281` before the operation is
registered at `:282`, and `Finalize` installs at `:363`. A wallet state proposed in `begin` could therefore overwrite a
sync batch that arrives in between; what is shown about lost updates is shown for hosts that do not do this.

### LocalProver

Threads are native calls or the scoped threads of `run_prove_batch`. The gate's mutex is held
from `LoadLimit` to the decision (`AdmitShared`, `WaitShared`), because the limit is an atomic
that is read under it and stored without it; the exclusive side decides in one step
(`EnterExclusive`, `RetryExclusive`). A wait ends by a notification, spuriously (`WakeUp`) or by a
timeout (`TimeOut`), and a thread that times out gets the mutex again before `GiveUp`.
`NotifyOne` and `NotifyAll` are the condition variable, whose choice is not deterministic.
`TakeRegistry`, `Prove`, `Configure`, `CloseRegistry` are the sections under the registry lock,
`RecordConfigured` and `ForgetClosed` the bridge's own variable, which is written after the
native call has returned. `"oneSetup"` is the promise that a host does not overlap configure
and close.

### SyncStream and ChainFeed

Each call holds the session's mutex from its first look to its answer, so each is one
action. A batch is its form (`plain`, `wire`, `v2`, `tip`), stream, offsets `from`–`to` and the
range `lo`–`hi` of its payload. *Any* batch of the set may be delivered at any time:
that is loss, repetition, reordering and re-cutting at once. A batch is honest if its payload
is what its offsets say. Wire and v2 payloads may be dishonest (`Mislabelled`), since the code
checks them (`WireOffsets`, `V2Trailer`); plain ones are trusted, as the code has only its offsets
and the ledger's own replay, which may refuse anything (`AnswerOnly`). A v2 payload is a
snapshot: it *replaces* what the stream had brought.

`exports` are the checkpoints the host still has. `EndSession` is a close or a crash;
`OpenSession` continues from any of them, or from nothing. `wallet` counts how often each
event has been applied, and `last` (history) is the last batch applied to each stream.

`ChainFeed` knows nothing of batches: a position per stream, the events up to it, each once,
the streams announced as caught up, and checkpoints that are such places. `ImplementsFeed` is
the refinement under the mapping `place = [position ↦ offsets, caughtUp ↦ caughtUp]`.

Left out here: the payload digest is taken as free of collisions; checksum, codec and signature
of a checkpoint; the migration of legacy states; calls refused because an operation is active,
which `OperationLifecycle` has. "Ready" means that all modelled streams are caught up, in the
code all three.

### SubmissionClient

The modules above are the native side; this one is a host over it. JavaScript runs to its next
`await`, so every `await` of the controller and the transport is a place in a call (`pc[c]`), the
actions `Native…` are the awaited native calls, and what follows up to the next `await` is
one action: `Suspend` is `#abort` with the synchronous beginning of `#cancel`, `NotifyStep` is
`requireNotAborted` with `#trackStep`. `call[c]` is what a call keeps in its closure: its
session, transaction, signals, the step it carries out, the checkpoint it saves.

- A command: `RunCommand`, `NativeBegin`, then per step `NotifyStep`, `NativeExport`, `Save` or
  `SaveFails`, and `Send`, `StopAborted` or `ReturnResult`; the request ends in `Answer` or
  `RequestFails`, its outcome goes to `NativeResume`, and any error to `NativeCancel`.
- `ApplySyncBatch`, `Pause`, `CloseSession` and `OpenSession` with their native parts; `Crash` ends the process
  between any two of these steps and leaves the store, the node and what was sent.

The native session is as `OperationLifecycle` shows it: one active operation, begin refused if a
transaction is already known, cancel and unknown outcomes kept as `unknown`. A checkpoint is the
statuses it holds. `older` and `superseded` know in which order the saves in progress were exported, which
the code does not: they say what a store that keeps the newest checkpoint would do.

The node (external) settles what it received, or never answers. `HostRules` are promises of the
host: `"keepNewest"` is README.md:274, a store that prevents rollback; `"closeLast"` says that nothing is begun
on a session that is being closed. One host opens one session of a wallet at a time.

Left out: proof rounds (a submission has none), several sessions at once, status
notifications, `refresh` and `dispose`.

### ProofRounds, ProvingOrder and ProofTransport

A proof request is a member of `Requests`; `Needs` says which answers its preimage is made
from, `Key` what its body hashes to (two requests may have one body). A replay of the transaction is not a
loop: `Reached(resp)` is the set of requests that the ledger comes to with these answers,
`Captured(resp)` those it finds unanswered, `IsBatch` the ones that are handed out
(`captured_batch`: the first `MaxBatch` in the order of their hashes).
`EffectId` names the requests of a round. A resume is one action with the outcomes of the code in its order:
`Addressed` and `SetMatches` refuse a list that does not fit, then the first request that does not decode decides
(`Verdict`), then `Memoized` adds the answers and the transaction is replayed (`Advance`).

A host may send anything at any time but labels truthfully: a result with a proof carries an
id that was advertised for the request it proves. That promise is needed: the code
does not verify a proof here, and cannot see that an answer belongs to another request of the same
kind. Everything else (old rounds, repetitions, garbage, refusals, empty bodies) is in `Deliverable`.

`ProvingOrder` knows no rounds: each request gets its own answer, once, after those it is made
from. `ImplementsProving` is the refinement.

`ProofTransport` is `runCommand` with the actions of `ProofRounds` as its native side. `pc` is the await at
which it stands; a step is what runs up to the next one, so `StartBatch` takes one request for each worker and `TakesNext`
takes the next with the settling of the one before. Other hosts resume or cancel the same operation
beside it (`Others`).

Two facts that the model shows and no property calls wrong: a result that is completed by the last
resume that `maximumEffectSteps` allows is thrown away with an internal error, since the head of the loop compares before
it looks at the step (`transport.ts:180`); and an abort during a single request of the last round ends in
`CANCELLED` although the native operation has completed.

### CoinSelection, Wallet and Balancing

A coin is `[token, value, id, registered]`. A transaction (`txs[k]`) is what it takes from
this wallet and gives back to it (`ins`, `outs`), which of both are in fallible sections (`soft`), and the DUST it spends;
`fate` is what became of it, `kept` the parts of the wallet's state that still know of it. `chain`
is external: its entries say what they spent and made of the wallet's coins and what
the wallet owned afterwards. `seen[s]` is how many entries stream `s` has delivered.

- Selection (`Taken`) is stated by what it returns: a coin is taken if the smaller ones do
  not yet make up the amount. `DustSearch` is the iteration of `balance/dust.rs`: the fee of a transaction depends on
  its DUST spends, so spends are chosen for a target until what they leave to pay is that target. `Shortfall` is the
  closure `fee_shortfall`: a dApp's transaction may bring DUST of its own (`o.dust`), which is taken off the fee, and one that brings
  more than the fee is refused. The wallet's own transactions bring none.
- `Transfer`, `DappTransfer`, `GenerateDust` build and reserve in one step (`BuildAndReserve`); `DappIntent`
  reserves nothing. How their proposed state waits for proofs is in `OperationLifecycle`, where its wallet state is opaque.
- `ApplyUnshielded`, `ApplyShielded`, `ApplyDust` take one entry each; a stream for which an
  entry holds nothing stays at the tip. `ApplyShieldedSpentResponse`, `ImportShielded` and `ImportDust` may be ahead of the stream.
- `Include` (success, part of it, failure), `Drop`, `Pay`, `Grow` and `Expire` are the chain and time.
- `Plan` in `Balancing` picks coins for the segments of a token in ascending order, each from what the ones before
  left (`Pick`), adds change and surplus, and searches for DUST for the merged transaction; `Editable` are
  the refusals of `unshielded.rs`. `PreviewBalance` adds a manifest, `Execute` plans again and asks `Authorizes`.

`Total` counts the units that coins are made of instead of folding over their values: the same number,
cheaper for TLC and within the provers' reach.

`HostRules` are promises of the host. `"balanceAlone"`: nothing is built while a balance or intent of this
wallet is on its way, because no coin is reserved for it (see the finding below). `"importIdle"`: a v2 payload is
imported when no transaction is on its way, because it forgets reservations. Without
either of them `NeverSpentTwice` fails. `CoinsAccounted` is proved without both.

What a reader should know of this code beside the properties:

- Per segment the smallest coins come first, so a plan may be refused although the coins would do in another
  order: a segment may use up a coin that a later one needs.
- `state_digest` compares shielded coins, not their reservations (`balance.rs:136`): a transfer built between preview and
  execution does not by itself make a manifest stale. `ApprovedIsPaid` shows that this costs the user nothing.
- The reservation of a shielded coin whose transaction failed or was dropped is released by nothing
  but a v2 import; the balance shows the coin as spent meanwhile (`BalancesAddUp` says so: it counts
  the transactions the wallet remembers, whatever became of them).

Abstractions: what the ledger library does is external (fees as `Fee`, events, replay); the search has 8
rounds where the code has 64; DUST grows to its cap at once and never lags behind; a registration's own fee is left open; a balance gets the
free segment numbers it needs; the host's announcement at the tip comes with the batch that reaches
it; `watch_shielded_mint` and the requests for missing DUST data are left out, as are signatures and placeholders.

## The runs

Thread symmetry is used in safety runs only; threads are interchangeable there. Deadlock is checked except in
`proof_transport`, where `runCommand` is called once and ends, and in the two runs of `Balancing`,
where the bound on transactions and approvals can leave nothing to do.

| run | question | instance |
|---|---|---|
| `any_client` | can a proposed wallet state overwrite a sync batch, can a cancelled operation come back, are generations fresh, and does a session that is busy without an operation become free? | 2 threads, 2 operations, sessions from any checkpoint, no client rules, fairness |
| `one_command` | is each registered operation the one its session waits for, is there always somebody to free a busy session, is a reported change ever overwritten, does a status move back? | 2 threads, 3 operations, `oneResume`, `soleUpdates` |
| `prover_gate` | are the gate's counts right and is no registry replaced under a proof, whatever overlaps? | 3 threads, batches, a cancel, a limit that falls |
| `prover_fair` | does no waiter miss its turn, does the bridge follow the registry, and are configure and close starved? | 3 threads, limit only falls, `oneSetup`, fairness |
| `prover_cancel` | does a waiting worker of a cancelled batch abandon? (no, see below) | 3 threads, fairness |
| `sync_two_streams` | does a session implement `ChainFeed`, and can all exports be opened? | 2 streams, all forms, v2 payloads that lie, restarts |
| `sync_any_payload` | is any event applied twice if payloads do not fit offsets, is a repeated batch recognised, and does the wallet become ready, also after restarts? | 2 streams of wire batches, one of which has a gap, one receipt, fairness |
| `submission` | is a transaction sent once, are statuses true, are reported results saved, is nothing left behind, and does every call end? | 2 calls, 1 transaction, 2 sessions, both host rules, fairness |
| `submission_cancelled` | does a command send whose caller had cancelled it before? (yes, see below) | the same |
| `proof_transport` | is proving in rounds proving, does nothing start after a stop, is nothing left running, do results fit their round, and does every call end? | 7 requests in 3 rounds of at most 3, 2 workers, an abort, another host, fairness |
| `balancing` | are coins accounted for, do balances add up, is nothing spent twice, are plans sound, and does a balance cost what was approved? | 5 coins of 3 tokens, 2 DUST coins, 2 transactions, 5 kinds of dApp transaction in 3 segments, one with DUST of its own that is too much at one price and too little at the other, both host rules |
| `balancing_unreserved` | are the inputs of a submitted balance pending? (no, see below) | the same |

Why the bounds are enough to be interesting:

- `OperationLifecycle`: two threads are what each race needs (one inside a call, one that
  intervenes); the properties most exposed to more of them are proved for any number. Ids are `1..MaxCounter-1`
  and `MaxCounter` itself is the reserved id, so there are two or three operations per behaviour: one
  to become stale and one to replace it. `MaxTombstones = 1` makes the second cancellation evict the
  first. One batch and one change suffice to lose one.
- `LocalProver`: three threads are two sharers and a writer, or two writers and a sharer,
  or a batch of two and an intruder. A limit of 2 that may fall to 1 passes through the
  state in which more permits are out than the limit allows. Two generations make a stale handle.
- `SyncStream`: two or three ids per stream leave a gap, a batch across it, and a batch
  split in two. `MaxReceipts` 1 or 2 is less than what can be kept. Two sessions make one restart, from an export at
  any earlier point.

- `SubmissionClient`: two calls at once meet every pair of places in two calls: a command with
  another command, a pause, a close, a sync batch, an open. The second command submits the same transaction again, the
  second session starts from whatever the store holds after a close or a crash at any point.

- `ProofTransport`: the requests make a round of three (of which two have one body), one of two and one of one, so all
  three ways to carry out a round occur, and ids with and without a position. One key may be refused by the
  ledger. `maximumEffectSteps` 3 and 4 are one too few and just enough. Two workers over three requests is the
  least at which one takes a second request while the other awaits.
- `Balancing`: two transactions are what it takes to spend a coin twice or to make an approved manifest stale, and one of
  them may be in part. The originals are the cases of `unshielded.rs`: two sections of which one is another's,
  sealed, sealed with a fallible deficit, an input of others, and one that lacks only its fee. The DUST coins are small enough
  that a fee needs both, and the fee is such that a search takes more than one round. `MaxApprovals` and `KeepApproved`
  bound the manifests: one at a time, forgotten when no transaction can follow.

The last id, generation, batch, restart or change that a bound allows is a guard on the
action that would exceed it. `MaxCounter` is both such a bound and the code's own (`u64::MAX`): the
model's counters fail at it as `checked_add` does in the code. `MaxTombstones`, `MaxOpenSessions`,
`MaxReceipts` and `Ceiling` are constants of the code, made small.

**Fairness.** `any_client` assumes that a thread inside a call keeps running, nothing about
clients. `prover_fair` assumes that a thread inside a call runs on (weak), and that one
waiting for the gate's mutex gets it if it is free again and again (strong: no mutex of the two
platforms lets one thread wait for ever while others come and go). Timeouts, spurious wakeups and new calls are never
forced. `sync_any_payload` assumes of the host what `CreateSyncRequest` and README.md:169 describe: it asks
again for what follows the offset, announces the tip when nothing follows, and reopens a session that
has ended. `submission` assumes of each call that it goes on: native calls return, saves settle, and a
request that is not answered times out (`transport-batch.ts:165`). It assumes no answer of the node,
no new call and no crash. `proof_transport` assumes the same of its one call, nothing of the caller or of other hosts.

**Where a promise is needed.** Without `oneResume`, two concurrent resumes of one operation
leave an operation registered that its session no longer waits for: the second finds no
operation and clears the session before the first has put its next round back. Without
`soleUpdates`, a paused transfer overwrites the change made by `applyShieldedSpentResponse` or its kin, which do not
look at `active_operation`. `NoLostWakeup` needs limits that only fall, since
`set_max_concurrency` stores and notifies without the mutex: after a raise, a waiter that had just read the
old limit sleeps until the next release or its timeout. `LastIsRecognised` has an exception: receipts
of all streams are pruned by offset together, so a stream with low offsets can lose its newest
receipt to the others, and a repetition of that batch is then refused rather than called a duplicate.
Without `keepNewest`, two saves that finish in the other order leave the older checkpoint in the store: a
reported result is gone (`ReportedIsSaved`), and after a crash the transaction can be sent again
(`NeverSentTwice`). Without `closeLast`, a command begun while `closeWalletSession` awaits is not among those
it aborted, and sends after its session is closed (`SendsWhatIsAwaited`).

Three hazards of the code are excluded by these rules rather than covered by a property, and `PROJECT.json` lists them
without one or without that one: a change made beside a paused operation (`session_and_sync.rs:103`, `soleUpdates`), a command begun while
its session closes (`controller.ts:187`, `closeLast`), and two transactions that take one coin because a balance reserves nothing
(`deploy_and_balance.rs:154`, `balanceAlone` and `importIdle`; that it reserves nothing is the finding of `balancing_unreserved`).

## The proofs

| theorem | module | says |
|---|---|---|
| `SyncIsNeverLost` | `OperationLifecycleProofs` | a wallet includes exactly the batches its offset counts |
| `ProposalsStayUpToDate` | | a proposal is up to date while its operation can complete |
| `TypeCorrect` | | types; counters within a u64 |
| `CancelledIsCancelled` | `RegistryProofs` | a cancelled operation is held by no resume and cannot be taken again |
| `StatusesMoveForward` | | submission statuses only move forward |
| `GenerationsAreFresh` | | a new session's generation is new |
| `BusySessionHasOwner` | | a busy session has an operation or a call that can free it |
| `RegisteredStaysActive` | | a registered operation is its session's (with `oneResume`) |
| `AwaitingKeepsOperation` | | a submission that awaits has an operation (with `oneResume`) |
| `ChangeIsNeverLost` | `RegistryProofs` | no reported change is overwritten (with `soleUpdates`) |
| `GateIsSafe` | `LocalProverProofs` | counts, exclusion and ceiling of the gate |
| `ProofsKeepTheirRegistry` | | no registry is replaced under a proof |
| `BatchesUseOneRegistry` | | all proofs of a batch use one registry |
| `WritersAreNotOvertaken` | | no proof is admitted past a waiting configure or close |
| `SleepersAreWoken` | | no wakeup is lost at the gate (while the limit is not raised) |
| `BridgeKeepsUp` | | the bridge's handle stands for the configured registry (with `oneSetup`) |
| `TypeCorrect` | | types; generation within a u64 |
| `SessionImplementsFeed` | `SyncStreamProofs` | the refinement of `ChainFeed` |
| `EventsAreAppliedOnce` | | no event twice, whatever payloads say |
| `DuplicatesAreApplied` | | a kept receipt stands for events in the wallet |
| `CheckpointsReopen` | | every exported checkpoint is accepted |
| `LastBatchIsRecognised` | | a stream's last batch is recognised when it comes again |
| `TypeCorrect` | | types |
| `RoundsImplementProving` | `ProofRoundsProofs` | the refinement of `ProvingOrder` |
| `AnswersStayWithTheirRequests` | | an answer that is kept for a request is its own |
| `ProofRoundsTyped` | | types |
| `TransportIsARoundsHost` | `ProofTransportProofs` | `runCommand` is a host of `ProofRounds` |
| `TransportImplementsProving` | | the refinement of `ProvingOrder` by the transport |
| `TransportLeavesNothing` | | nothing is in flight between rounds and no operation is left behind |
| `ResultsFitTheirRound` | | the results of a round are those the native side waits for |
| `StoppedBatchAdmitsNothing` | | a stopped batch takes no further request |
| `RoundsAreCounted` | | no more rounds than `maximumEffectSteps` |
| `WalletAccountsForCoins` | `WalletProofs` | every coin is accounted for, with the wallet's own commands |
| `BalancingAccountsForCoins` | | the same with balances in between |
| `CoinsAreSpentOnce` | | no coin and no DUST coin is taken by two transactions that both stand (with both host rules) |
| `BalancesAreRight` | | what a wallet shows is what the chain holds for it and what it waits for |
| `ApprovedBalancesArePaid` | | a balance that is executed costs what the user approved |
| `PlansStaySound` | | plans balance every token in every segment, waste no coin and pay exactly what the original's own DUST leaves of the fee |
| `TransactionsAreSentOnce` | `SubmissionClientProofs` | no transaction goes to the node twice (with both host rules) |
| `ResultsAreSaved` | | a reported result is in the store and stays there (with both) |
| `OnlyAwaitedIsSent` | | what is sent, the open session waits for (with both) |
| `StatusesAreTrue` | | a written outcome is the node's |
| `NothingIsLeftBehind` | | when no call is in progress the session is free |
| `TypeCorrect` | | types |

They hold for every number of threads, calls, sessions, hashes, streams, ids and receipts. The
assumptions are those named in the modules, and TLC evaluates them in every run:
`CounterAssumption` (there is an id to reserve), `WalletAssumption` (the absent proposal is
not a wallet), `CheckpointAssumption` (what `validate_checkpoint` lets through),
`LimitAssumption`, `ThreadAssumption` (finitely many threads, for the gate's counts),
`FeedAssumption`, `HostAssumption`, `RequestAssumption` (finitely many requests, and those with one body are made
from the same answers), `TokenAssumption`, `CoinAssumption` (a coin has an id of its own: what others pay is no coin the
wallet begins with, nor one that its transactions make), `AmountAssumption` (finitely many tokens; requests name natural numbers), `NightAssumption` (finitely
many DUST coins, with ids and caps that are natural numbers), `RoundsAssumption`, `SegmentAssumption` (a segment is a u16), `PriceAssumption` and
`OriginalAssumption` (prices, sizes and imbalances are numbers). No client or
host rule is assumed, except those named in the table; "both" are `keepNewest` and `closeLast` (`Promised`) in
`SubmissionClientProofs`, `balanceAlone` and `importIdle` in `WalletProofs`.

**SyncIsNeverLost.** `wallet.sync = offset` is not inductive: a proposal made in one call is
written in another. The strengthening is `SyncInv == TypeOK /\ ProposalInv /\ SyncNeverLost`, where
`ProposalInv` has four parts: ids in use have been allocated and the reserved id is never one of
them (`IdsAllocated`); a call that builds under a reservation finds it still there, or the
session closed (`ReservationHeld`); at most one call builds for a session (`OneReserver`), although all
reservations have one id; a proposal whose operation the session waits for has the session's
sync count (`ProposalsUpToDate`). `Quiet(t)` covers the steps that leave wallets, reservations
and proposals alone; five kinds of step are then proved one by one.

**The registry.** Every step is one of seven kinds by what it does to operations (`StepClass`): a call goes on
(`Moves`), registers, takes out, puts back, discards or closes, or nothing about operations changes (`Rests`).
`OperationInv` adds to `SyncInv` what a call holds at each of its places (`KindsRight`); that an operation is in one
place, the registry or one call, under one id (`OnePlace`); that a cancelled operation is in none (`CancelledGone`); and
that what may still settle a submission finds it awaiting or unknown, and is the only one that may
(`SubmissionsOpen`). Statuses move forward because of the last: a settled status has no carrier left. `BusyInv` adds that a
submission stays registered until the call that made it returns (`MadeRegistered`), without which `discard_operation`
would leave its session busy. `ActiveInv` is about the window of `clear_orphaned_active_operation`: a call about to
clear has an id that is not registered (`ReleaseIsGone`) and, with `oneResume`, nobody else will register
(`OneResumer`). `AwaitingHeld` says which operation settles each awaiting submission; a step that loses it changes
the status (`CarrierKept`). `AwaitingHasOperation` is about sessions opened from checkpoints in which no submission awaits:
`open_wallet_session` restores statuses as they were exported (`session.rs:83-85`), and the operation of the earlier
process does not exist any more.

**Changes.** `ChangeInv` says that a proposal whose operation may complete is the session's wallet and one change
(`PlansExact`), because nothing that changes the wallet without asking runs beside it (`UpdatesAlone`), and
that a session that is not open yet has no change (`NothingYet`).

**The gate.** `ProverInv` adds to `GateSafe` what each call may believe about itself at its
place in the code (`CallsRight`), about the registry slot (`SlotRight`), the registries used (`UsedRight`)
and the workers of a batch (`BatchesRight`). `CountsRight` relates counters to cardinalities
of sets of threads, so its steps use the library's facts on finite sets. A batch uses one
registry because handles name generations, which are never used again.

That no wakeup is lost (`SleepersAreWoken`) needs one more fact, `LoadedRight`: the limit a thread has read under the mutex is
not below the stored one, which a raise would break. A step then either opens the gate and leaves a
thread that will notify, wakes everybody, or opens the gate for none of those who sleep (`WakeStep`).

`BridgeKeepsUp` follows one setup from its beginning to `record` (`SetupInv`): before it has its permit, the bridge
still stands for the registry; afterwards it does not until its call has returned, and the call knows the handle that
will. A configure that failed and a close that got no permit never part the two; a close whose handle was stale
does not find a registry (`SetupRight`).

**The session.** `SessionSteps` reduces every step to five: the session stays, opens, ends, is
announced caught up, or commits a batch that fits; what is exported is always something
reachable. Each invariant is then a lemma about `Commit`. Events are applied once because what the
wallet holds of a stream is at or below its offset, and accepted payloads are above it
(`OnceInv`). The refinement needs `FaithfulInv`: the wallet is exactly the prefix of
each stream at its offset, which honest payloads preserve.

Receipts are totally ordered by offset, stream and digest (`OlderIsOrder`), and pruning keeps those with fewer than
`MaxReceipts` newer ones. That this never keeps more, and as many if it drops one, is counted from the oldest
receipt kept and from the newest one dropped (`NewestBounded`, `NewestFull`): a set of numbers has a
least one (`WFMin`), which the provers can use where they cannot use induction. `CheckpointsReopen` adds to `SoundInv` that what is pruned is still a checkpoint that
`validate_checkpoint` accepts; `LastBatchIsRecognised` that a receipt is dropped only for newer ones (`Remembered`),
so a stream whose newest receipt is gone sees `MaxReceipts` of other streams.

**TransactionsAreSentOnce.** That a transaction was sent once is kept by what is *known*: `SentKnown` says that
a transaction that was sent is in the store, in every checkpoint that will still replace it, in the session
and in what an opening session has loaded, so it is refused from then on. `NewKnown` says of a command that
may still send that its transaction is new, that no other command may send it, and where its own
announcement is: in the session, then in its checkpoint and in each one exported later, then in the store. The one
difficult step is a save that replaces the store while another is in progress: `OrderRight`, that the order of
exports is transitive, decides which of the two the store will keep. `SessionsRight` says that a command that was not
aborted belongs to the open session and that no session is being closed beside it: it rests on `closeLast`, the step of `Save`
on `keepNewest`.

**What the host need not promise.** `FreeInv` is invariant whatever the host does with checkpoints and closing sessions. Every status in the
store, in the sessions and in checkpoints under way is the node's or unknown (`RecordsTrue`), because what a call
carries as its answer is the node's answer to its transaction (`AnswersTrue`). The active operation of the native
session belongs to a call that will still end or cancel it (`Owned`), at whichever of its awaits a
pause, a close or a failed save finds it. Both theorems about it therefore have no hypothesis.

`CommandInv` needs the promises: a command that may still send is the one the session waits for (`AwaitInv`), and a result that
was reported is in the store and in every checkpoint that may replace it (`ReportInv`).

**Rounds of proofs.** The inductive invariant is small: what is memoized for a key is that key's answer
(`AnswersMatch`), what a pending operation waits for is captured and unanswered (`OpenIsCaptured`),
and the first part of an advertised id tells its round, so an id of this round was advertised for the request that now
stands under it (`AdvertisedByRound`). The last is what makes late results harmless. A step of the refinement answers
the set of requests whose keys were outstanding.

**The transport.** `TransportInv` has a part about the native side (`OpenIsAdvertised`: an open request has an id of
this round) and one about the closure of `runCommand`. `StepHeld` says that the step it holds is the round that
the native side waits for, unless somebody else moved the operation; `Crew` that the workers hold different indices below
`nextIndex` and that every index below it is held or filled; `Filled` that a filled place holds an answer to the request of
that place. From these the results of a batch in their order are a list that `resume` takes (`FilledFits`). Every step of
`runCommand` is a step of `ProofRounds` or leaves it alone (`TransportIsHost`), since all it resumes with is in
`Deliverable`; so `ImplementsProving` carries over.

**The coins.** `Inv` adds to `CoinsAccounted` what the chain is (`ChainInv`): each entry continues what was before it, and a coin
that the wallet owned at *any* earlier place and does not own at the tip was spent by an entry that did not fail. The last is needed
because `ApplyShieldedSpentResponse` and a v2 import may be ahead of the stream. Builders keep the invariant
because they take candidates only, whatever they are asked for and whatever `DustSearch` and `Plan` compute.

**CoinsAreSpentOnce.** `NeverSpentTwice` says nothing of what is free, of the chain, or of how far the streams have come, and all
three matter. `SpendInv` has three parts. `History` adds to `Inv` what the chain and the transactions know of each other
(`EntriesRight`: an entry is that of one transaction and spends and makes what its fate says) and that a coin is made once and
does not come back (`MadeOnce`), for which ids are compared (`MadeIsNew`). `Claims`, one for each of the two coin streams, says
that what transactions claim is disjoint, was delivered to the wallet, and is not free once the transaction was reserved or its stream
came past it (`Guarded`). A failed transaction keeps its claim on UTXOs until the unshielded stream has said so, and has none
on shielded coins, which nothing gives back. A new transaction claims only what is free; by `FreeIsUnclaimed` that
is claimed by nobody: reserved transactions guard their claims, and for a balance or an intent the host has waited
(`balanceAlone`). An import replaces the shielded state; with `importIdle` every transaction has landed at or below it or is dropped,
so what it spent is not in the state that comes. `DustInv` is the same for DUST, whose coins stay and change their sequence number: it is the
number of entries that spent the coin (`SeqAt`), delivered entries in the wallet, so two
transactions with one number cannot both have been reserved or landed. Every builder makes a transaction of free coins with
numbers of its own (`Built`, `CommandsBuild`, `ExecutionBuilds`), and from there the proof has one lemma per
action and part.

`CommandsBuild` needs of `DustSearch` and of `Pick`, which are recursive functions, that what they choose is free. The library's induction
theorems take an operator and cannot be used, but one over a *set* of numbers can (`NatSteps`, from the least number
principle `WFMin`): the set of rounds, or of segments, up to which a function with this recursion exists, and of those at
which it has the property (`SearchTakes`, `PicksAreSpendable`).

**BalancesAreRight.** What a wallet shows of a shielded token depends on everything it ever made and has not seen arrive, so `BalanceInv` adds to
`History` that the pending spends are those of the wallet's coins which a watched transaction takes, and the pending outputs the
shielded ones which watched transactions give back (`ShownInv`; `Watched`: still remembered and not `Arrived`). What
`ApplyShielded` takes away of both is what one entry brings, and nothing that another watched transaction still
needs, because coins are made once. A v2 import forgets all of them, an answer about spent coins none. Then two sets of coins are added
up: `Total` is a cardinality, so that disjoint sets add up is a fact about finite sets (`TotalsAddUp`), for which no set of
coins that occurs may be infinite (`CoinsCounted`). No host rule is needed.

**ApprovedBalancesArePaid, PlansStaySound.** Both are about sums that the code computes in loops and the model with folds of the community modules.
A fold over a set is a `CHOOSE` of a function by recursion over subsets; `SumRuns` shows that there is such a function and
that every one of them comes to `SumOf`, the cardinality of a set of piles, whichever element is chosen first (`SetSteps`, an
induction over finite sets with a set in the place of the operator). For the coins of a plan, segments take disjoint sets
(`PickFacts`) and give back different coins (`OutputsDiffer`), so totals per token are sums over segments (`PlanTotals`): what goes
in exceeds what comes back by at most the deficits, and what comes back is the change and surplus of the manifest.
In a sealed transaction all unshielded coins count in segment 0; nothing is lost by that because `Editable` lets through only
originals whose other segments need none (`CountedHere`). For DUST, the search pays if it ends: in the order of worth the first n
coins are those before the n-th (`FirstNext`), each gives what is left of the target (`GivenAddUp`), so together they
give it all (`DeductionsPay`), and the search ends when what the original's DUST leaves of the fee of the transaction *with* these spends is the target
(`SearchPays`). `WorthInv` is the invariant behind it: what DUST is worth and what transactions deduct are natural numbers, through growth,
spends and imports. That plans are recomputed on execution is not assumed away: `Execute` plans with the wallet it finds, and the
theorem follows from `Authorizes` (`ExecutePays`).

**Only model-checked.** Liveness (`BusySettles`, `SetupGetsIn`, `SyncSettles`, `CallsEnd`, `RunEnds`) is out of this
prover's reach, and so is `ENABLED`. Every invariant and every action property of a passing run is a theorem. No module declares a `RECURSIVE` operator.

## What disagrees with comments and documentation

`prover_cancel` is expected to fail. The comments at `local_prover.rs:249-251` and `:60-64`
say that a batch worker that has not begun its proof "observes the new epoch and abandons", so that cancellation
leaves at most one proof per admitted permit. `run_prove_batch` compares the epoch
once (`:675`), and only then calls `run_prove`, which waits for a permit for up to `PROVER_WAIT_BUDGET`. A worker that waits
when the batch is cancelled is admitted later and proves. The run shows it with two workers, a
limit of one and a release. README.md:293-294 promises less than the comments (local proof
work cannot be cancelled), and agrees with the code.

`submission_cancelled` is expected to fail. README.md:262 says that a caller's cancellation makes a submission
`cancelled`. `runCommand` of the controller relays the caller's signal by its `abort` event alone (`controller.ts:141`)
and gives the transport a signal of its own. A signal that is already aborted fires no event, so the
transport's `requireNotAborted` (`transport.ts:176`) passes, and the command begins and sends. The transport by itself
refuses such a signal.

`balancing_unreserved` is expected to fail. `deploy_and_balance.rs:151-153` says of a balance that no coin is
reserved when it is executed and that finalized submission "stays the owner of pending-input" registration. Nothing on the submission
path registers inputs: `pending_utxos` is written by the wallet's own builders and by state import only, and the
proposed state of the plan, in which they are pending, is dropped. The run shows a balance
that is executed and included while its inputs are still available to the next command.

## What is not modelled

- Cryptography, proof contents, the ledger library's own state transitions.
- Codecs, base64, hex and JSON, error texts, checksums and signatures of checkpoints.
- Timings and traces; artifact mapping and key validation; C buffers of the FFI.
- Decoding and validating a transaction, free segment numbers, signatures, addresses (`transaction.rs`, `dapp.rs`, `spend_builders.rs`).
- Watching for a shielded mint in the wallet's coins (in `OperationLifecycle` it is a change like others), requests for missing DUST data.
- Sockets, status notifications, `refresh` and `dispose` of the controller.
- Dispatch: the two engines are builds of one source with disjoint handle ranges.
- Generated bindings, examples, tools, scripts.

## The plan

1. `OperationLifecycle`: the core, since every command runs through it. *Done*, every safety property proved. To
   add: an abstract session with one atomic operation at a time that it implements.
2. `LocalProver`. *Done*, every safety property proved.
3. `SyncStream` and `ChainFeed`. *Done*, every safety property proved.
4. `SubmissionClient`. *Done*, every safety property proved. To add: two sessions in one store at once.
5. `ProofRounds`, `ProvingOrder` and `ProofTransport`. *Done*, both refinements proved.
6. `Wallet`, `CoinSelection` and `Balancing`. *Done* for all three coin families, every safety property proved. To add:
   requests for missing DUST data, watched shielded mints.
7. The composition of `Wallet` with `OperationLifecycle`, in which a proposal is a set of coins rather than a count.
