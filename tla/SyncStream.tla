----------------------------- MODULE SyncStream -----------------------------
(***************************************************************************)
(* How a session follows the chain (runtime/session.rs, checkpoint.rs,     *)
(* wallet_state/sync.rs): batches of a stream's events arrive late, twice, *)
(* out of order or cut at other places; a session ends at any time and is  *)
(* opened again from any checkpoint that was exported.                     *)
(*                                                                         *)
(* A call holds the session's mutex from its first look at the state to    *)
(* its answer, so each is one action.  The session is free: calls refused  *)
(* because an operation is active or the session is closing are those of   *)
(* OperationLifecycle.  An event is its id, a payload the ids it carries   *)
(* and its form, and a digest its payload.                                 *)
(***************************************************************************)
EXTENDS Naturals, FiniteSets

CONSTANTS
  Streams,      \* the streams followed, of the three canonical ones
  Events,       \* the ids of each stream's events
  MaxOffset,    \* the largest event id
  MaxReceipts,  \* MAX_SYNC_BATCH_RECEIPTS
  Forms,        \* the forms batches come in
  Mislabelled,  \* the forms whose payload may not be what its offsets say
  MaxExports,   \* how many checkpoints the host keeps
  MaxSessions   \* how many sessions are explored

Rank == [dust |-> 1, shielded |-> 2, unshielded |-> 3]   \* names in their order
Ids  == 1..MaxOffset
Offsets == 0..MaxOffset

ASSUME FeedAssumption ==
  /\ Streams \subseteq DOMAIN Rank /\ Events \in [Streams -> SUBSET Ids]
  /\ MaxOffset \in Nat /\ MaxReceipts \in Nat \ {0}
  /\ Forms \subseteq {"plain", "wire", "v2"} /\ Mislabelled \subseteq Forms \ {"plain"}
  /\ MaxExports \in Nat /\ MaxSessions \in Nat

VARIABLES
  session,    \* the open session, or NoSession
  exports,    \* the exported checkpoints that the host still has
  sessions,   \* how many sessions have been opened
  last        \* history: the last batch this session applied to each stream

vars == <<session, exports, sessions, last>>

-----------------------------------------------------------------------------
(* Batches, as the indexer and the host make them *)

Keys == [stream : Streams, from : Offsets, to : Offsets]

\* the stream's events after lo up to hi: a "v2" payload is a snapshot up to hi
Batch == [form : Forms \cup {"tip"}, stream : Streams, from : Offsets, to : Offsets,
          lo : Offsets, hi : Offsets]

Honest(b) == b.lo = b.from /\ b.hi = b.to

Payload(b) ==
  IF b.form = "v2" THEN {b.hi} ELSE {id \in Events[b.stream] : b.lo < id /\ id <= b.hi}

\* applySyncBatch in runtime-api.ts sends an empty batch that ends where it begins, of
\* a canonical stream, as a tip marker; unshielded events have no other form
Sent(b) ==
  /\ b.form \in Mislabelled \/ Honest(b)
  /\ IF b.form = "v2" THEN b.lo = b.from ELSE b.lo <= b.hi
  /\ b.stream = "unshielded" => b.form \in {"plain", "tip"}
  /\ b.form = "plain" => b.from # b.to
  /\ b.form = "tip" => b.from = b.to

Batches == {b \in Batch : Sent(b)}
NoBatch == [form |-> "none"]

KeyOf(b)  == [stream |-> b.stream, from |-> b.from, to |-> b.to]
Digest(b) == <<b.form, Payload(b)>>      \* payload_digest, taken as free of collisions

-----------------------------------------------------------------------------
(* Sessions and checkpoints: a checkpoint is a session without its secrets *)

Nothing == [id \in Ids |-> 0]

\* offsets[s] is 0 for a stream without an entry in the map, which is one not in seen
Empty ==
  [open |-> TRUE, offsets |-> [s \in Streams |-> 0], seen |-> {},
   wallet |-> [s \in Streams |-> Nothing], receipts |-> [k \in {} |-> <<>>], caughtUp |-> {}]
NoSession == [Empty EXCEPT !.open = FALSE]

\* faulty: the newest receipts are dropped in place of the oldest
OlderReversed(j, k) ==
  \/ j.to > k.to
  \/ j.to = k.to /\ Rank[j.stream] > Rank[k.stream]
  \/ j.to = k.to /\ j.stream = k.stream /\ j.from > k.from

\* prune_batch_receipts drops the smallest key by <<to, stream, from>> until few enough remain
Older(j, k) ==
  \/ j.to < k.to
  \/ j.to = k.to /\ Rank[j.stream] < Rank[k.stream]
  \/ j.to = k.to /\ j.stream = k.stream /\ j.from < k.from

\* faulty: pruning stops one receipt late
NewestOffByOne(K) == {k \in K : Cardinality({j \in K : Older(k, j)}) <= MaxReceipts}

Newest(K) == {k \in K : Cardinality({j \in K : Older(k, j)}) < MaxReceipts}

\* faulty: a checkpoint may not hold the receipt of the batch its stream ends with
ValidStrict(S) ==
  /\ Cardinality(DOMAIN S.receipts) <= MaxReceipts
  /\ \A k \in DOMAIN S.receipts :
       k.from <= k.to /\ k.stream \in S.seen /\ k.to < S.offsets[k.stream]

\* validate_checkpoint: what concerns streams and receipts
Valid(S) ==
  /\ Cardinality(DOMAIN S.receipts) <= MaxReceipts
  /\ \A k \in DOMAIN S.receipts :
       k.from <= k.to /\ k.stream \in S.seen /\ k.to <= S.offsets[k.stream]

-----------------------------------------------------------------------------
(* apply_sync_batch *)

\* faulty: a wire event may have the id the batch starts at
WireOffsetsInclusive(b) ==
  b.form = "wire" =>
    /\ Payload(b) # {}
    /\ \A id \in Payload(b) : b.from <= id /\ id <= b.to
    /\ b.to \in Payload(b)

\* faulty: a stream's ids are taken to have no gaps
WireOffsetsWithoutGaps(b) == b.form = "wire" => Payload(b) # {} /\ Payload(b) = (b.from + 1)..b.to

\* validate_wire_offsets: ids increase from the batch's start and end at its end
WireOffsets(b) ==
  b.form = "wire" =>
    /\ Payload(b) # {}
    /\ \A id \in Payload(b) : b.from < id /\ id <= b.to
    /\ b.to \in Payload(b)

\* validate_v2_trailer
V2Trailer(b) == b.form = "v2" => b.hi # 0 /\ b.hi = b.to

TipAccepted(S, b) ==
  b.form = "tip" /\ b.from = S.offsets[b.stream] /\ b.to = S.offsets[b.stream]

\* a batch that ends before the expected offset, or that was applied at it
Repeated(S, b) ==
  /\ b.form # "tip" /\ b.from <= b.to /\ b.from <= S.offsets[b.stream]
  /\ KeyOf(b) \in DOMAIN S.receipts /\ S.receipts[KeyOf(b)] = Digest(b)

Fits(S, b) ==
  /\ b.form # "tip" /\ b.from <= b.to /\ b.from = S.offsets[b.stream]
  /\ KeyOf(b) \notin DOMAIN S.receipts
  /\ WireOffsets(b) /\ V2Trailer(b)

\* apply_batch: a snapshot replaces what the stream had brought, events are added
Applied(S, b) ==
  [S.wallet EXCEPT ![b.stream] =
     IF b.form = "v2"
       THEN [id \in Ids |-> IF id \in Events[b.stream] /\ id <= b.hi THEN 1 ELSE 0]
       ELSE [id \in Ids |-> IF id \in Payload(b) THEN @[id] + 1 ELSE @[id]]]

WithReceipt(S, b) ==
  [k \in Newest(DOMAIN S.receipts \cup {KeyOf(b)}) |->
     IF k = KeyOf(b) THEN Digest(b) ELSE S.receipts[k]]

\* faulty: a batch leaves its stream caught up
CommitKeepsReady(S, b) ==
  [open |-> TRUE, offsets |-> [S.offsets EXCEPT ![b.stream] = b.to],
   seen |-> S.seen \cup {b.stream}, wallet |-> Applied(S, b),
   receipts |-> WithReceipt(S, b), caughtUp |-> S.caughtUp]

Commit(S, b) ==
  [open |-> TRUE, offsets |-> [S.offsets EXCEPT ![b.stream] = b.to],
   seen |-> S.seen \cup {b.stream}, wallet |-> Applied(S, b),
   receipts |-> WithReceipt(S, b), caughtUp |-> S.caughtUp \ {b.stream}]

ApplyTip(b) ==
  /\ session.open /\ TipAccepted(session, b)
  /\ session' = [session EXCEPT !.caughtUp = @ \cup {b.stream}]
  /\ UNCHANGED <<exports, sessions, last>>

ApplyBatch(b) ==
  /\ session.open /\ Fits(session, b)
  /\ session' = Commit(session, b)
  /\ last' = [last EXCEPT ![b.stream] = b]
  /\ UNCHANGED <<exports, sessions>>

\* faulty: the receipt is written before the ledger has accepted the batch
RefusedKeepsReceipt(b) ==
  /\ session.open /\ Fits(session, b)
  /\ session' = [session EXCEPT !.receipts = WithReceipt(session, b), !.seen = @ \cup {b.stream}]
  /\ UNCHANGED <<exports, sessions, last>>

\* a duplicate, or an error from the checks or from the ledger's own replay of the events
AnswerOnly(b) ==
  /\ session.open /\ (Repeated(session, b) \/ ~TipAccepted(session, b))
  /\ UNCHANGED vars

-----------------------------------------------------------------------------
(* Sessions begin, are exported and end *)

\* open_wallet_session, from nothing or from any checkpoint the host still has
OpenSession ==
  /\ ~session.open /\ sessions < MaxSessions
  /\ \E S \in exports \cup {Empty} : Valid(S) /\ session' = S
  /\ sessions' = sessions + 1
  /\ last' = [s \in Streams |-> NoBatch] /\ UNCHANGED exports

\* export_wallet_checkpoint; the host may replace what it has, or lose some of it
ExportCheckpoint ==
  /\ session.open
  /\ exports' \in SUBSET (exports \cup {session}) /\ Cardinality(exports') <= MaxExports
  /\ UNCHANGED <<session, sessions, last>>

\* close_wallet_session, or the process ends; the last session explored stays open
EndSession ==
  /\ session.open /\ sessions < MaxSessions /\ session' = NoSession
  /\ last' = [s \in Streams |-> NoBatch] /\ UNCHANGED <<exports, sessions>>

Init ==
  /\ session = NoSession /\ exports = {} /\ sessions = 0
  /\ last = [s \in Streams |-> NoBatch]

Deliver(b) == ApplyTip(b) \/ ApplyBatch(b) \/ AnswerOnly(b)
Next == (\E b \in Batches : Deliver(b)) \/ OpenSession \/ ExportCheckpoint \/ EndSession
Spec == Init /\ [][Next]_vars

-----------------------------------------------------------------------------
(* Properties *)

Reachable == {session} \cup exports        \* what runs now or may be opened again

Digests == (Forms \cup {"tip"}) \X SUBSET Offsets

SessionTypeOK(S) ==
  /\ S \in [open : BOOLEAN, offsets : [Streams -> Offsets], seen : SUBSET Streams,
            wallet : [Streams -> [Ids -> Nat]], receipts : {S.receipts}, caughtUp : SUBSET Streams]
  /\ DOMAIN S.receipts \subseteq Keys /\ S.receipts \in [DOMAIN S.receipts -> Digests]

TypeOK ==
  /\ SessionTypeOK(session) /\ \A S \in exports : SessionTypeOK(S) /\ S.open
  /\ sessions \in 0..MaxSessions
  /\ last \in [Streams -> Batches \cup {NoBatch}]

\* README.md:150 and session.rs:155-205: whatever arrives in whatever order, and however
\* a batch's payload fits its offsets, no event is applied to a wallet a second time,
\* also not after a restart from any checkpoint
NoEventTwice ==
  \A S \in Reachable, s \in Streams, id \in Ids : S.wallet[s][id] <= 1

\* session.rs:170 and 181: a batch that would be answered as a duplicate is in the wallet
\* to its end, so the host may go on from there
ReceiptsAreApplied ==
  \A S \in Reachable : \A k \in DOMAIN S.receipts :
    /\ k.to <= S.offsets[k.stream]
    /\ S.receipts[k][1] # "v2" => \A id \in S.receipts[k][2] : S.wallet[k.stream][id] = 1

\* checkpoint.rs:121-185: open_wallet_session accepts every checkpoint that
\* export_wallet_checkpoint can write
CheckpointReopens == \A S \in Reachable : Valid(S)

\* session.rs:206-207: the batch that a stream applied last is recognised if it comes again,
\* unless the receipts kept are all of other streams and of batches that end no earlier:
\* prune_batch_receipts compares offsets across streams
LastIsRecognised ==
  \A s \in Streams : last[s] # NoBatch =>
    \/ Repeated(session, last[s])
    \/ /\ Cardinality(DOMAIN session.receipts) = MaxReceipts
       /\ \A k \in DOMAIN session.receipts : k.stream # s /\ k.to >= last[s].to

Place(S) == [position |-> S.offsets, caughtUp |-> S.caughtUp]

Feed == INSTANCE ChainFeed WITH
  running     <- session.open,
  place       <- Place(session),
  applied     <- session.wallet,
  checkpoints <- {Place(S) : S \in exports}

\* README.md:150, session.rs:163, 194-205: when payloads are what their offsets say, a
\* session is a position per stream and exactly the events up to it, and "ready" only
\* since the tips were announced there, through every repetition, re-cut, loss, restart
\* and checkpoint
ImplementsFeed == Feed!Spec

\* The host asks for what follows the offset (CreateSyncRequest) until an answer fits, and
\* announces the tip when nothing follows; it opens a session again when one has ended.
AtEnd(s) == \A id \in Events[s] : id <= session.offsets[s]
Progress(s) == \E b \in Batches : b.stream = s /\ Honest(b) /\ b.to > b.from /\ ApplyBatch(b)
Tip(s)   == session.open /\ AtEnd(s) /\ \E b \in Batches : b.stream = s /\ ApplyTip(b)

FairSpec ==
  /\ Spec /\ WF_vars(OpenSession)
  /\ \A s \in Streams : WF_vars(Progress(s)) /\ WF_vars(Tip(s))

\* README.md:169: the wallet becomes ready and stays so when the chain ends: no
\* repetition, receipt, restored checkpoint or refused batch keeps a stream from it
SyncSettles == <>[](session.open /\ session.caughtUp = Streams)

=============================================================================
