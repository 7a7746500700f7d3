--------------------------- MODULE SyncStreamProofs ---------------------------
(***************************************************************************)
(* What SyncStream guarantees for every feed, number of streams, sessions, *)
(* checkpoints and receipts.  A step leaves the session as it is, opens or *)
(* ends one, announces a tip or commits a batch, and exports nothing but   *)
(* the session (SessionSteps); so each invariant speaks of one session,    *)
(* and its proof is a lemma about Commit.                                  *)
(* Keys of receipts are totally ordered, and of a set of them those with   *)
(* fewer than MaxReceipts newer ones are kept: never more, and as many     *)
(* if one is dropped (NewestBounded, NewestFull).                          *)
(***************************************************************************)
EXTENDS SyncStream, FiniteSetTheorems, WellFoundedInduction, TLAPS

WithTip(S, s) == [S EXCEPT !.caughtUp = @ \cup {s}]

\* the fields of a batch, and what its payload is made of
LEMMA BatchFields ==
  ASSUME NEW b \in Batches
  PROVE  /\ b.stream \in Streams /\ b.form \in Forms \cup {"tip"}
         /\ b.from \in Offsets /\ b.to \in Offsets /\ b.lo \in Offsets /\ b.hi \in Offsets
         /\ KeyOf(b) \in Keys /\ KeyOf(b).stream = b.stream /\ KeyOf(b).to = b.to
         /\ Digest(b) \in Digests /\ Digest(b)[1] = b.form /\ Digest(b)[2] = Payload(b)
  <1>1. b \in Batch
    BY DEF Batches
  <1>2. /\ b.stream \in Streams /\ b.form \in Forms \cup {"tip"}
        /\ b.from \in Offsets /\ b.to \in Offsets /\ b.lo \in Offsets /\ b.hi \in Offsets
    BY <1>1 DEF Batch
  <1>3. Payload(b) \in SUBSET Offsets
    BY <1>2, FeedAssumption DEF Payload, Ids, Offsets
  <1> QED
    BY <1>2, <1>3 DEF KeyOf, Keys, Digest, Digests

LEMMA SessionSteps ==
  ASSUME [Next]_vars
  PROVE  /\ \/ session' \in Reachable \cup {Empty, NoSession}
            \/ session.open /\ \E b \in Batches : session' = WithTip(session, b.stream)
            \/ session.open /\ \E b \in Batches : Fits(session, b) /\ session' = Commit(session, b)
         /\ exports' \subseteq Reachable
  <1>1. CASE \E b \in Batches : Deliver(b)
    BY <1>1 DEF Deliver, ApplyTip, ApplyBatch, AnswerOnly, vars, Reachable, WithTip
  <1>2. CASE OpenSession
    BY <1>2 DEF OpenSession, Reachable
  <1>3. CASE ExportCheckpoint
    BY <1>3 DEF ExportCheckpoint, Reachable
  <1>4. CASE EndSession
    BY <1>4 DEF EndSession, Reachable
  <1>5. CASE UNCHANGED vars
    BY <1>5 DEF vars, Reachable
  <1> QED
    BY <1>1, <1>2, <1>3, <1>4, <1>5 DEF Next

-----------------------------------------------------------------------------
(* Types *)

LEMMA EmptyTyped == SessionTypeOK(Empty) /\ SessionTypeOK(NoSession)
  <1>1. Empty.receipts \in [DOMAIN Empty.receipts -> Digests] /\ DOMAIN Empty.receipts \subseteq Keys
    BY DEF Empty
  <1>2. Nothing \in [Ids -> Nat] /\ [s \in Streams |-> 0] \in [Streams -> Offsets]
    BY FeedAssumption DEF Nothing, Offsets
  <1>3. SessionTypeOK(Empty)
    BY <1>1, <1>2 DEF SessionTypeOK, Empty
  <1>4. NoSession.receipts = Empty.receipts
    BY DEF NoSession, Empty
  <1> QED
    BY <1>1, <1>2, <1>3, <1>4 DEF SessionTypeOK, NoSession, Empty

LEMMA TipTyped ==
  ASSUME NEW S, SessionTypeOK(S), NEW s \in Streams
  PROVE  SessionTypeOK(WithTip(S, s))
  BY DEF SessionTypeOK, WithTip

LEMMA CommitTyped ==
  ASSUME NEW S, SessionTypeOK(S), NEW b \in Batches
  PROVE  SessionTypeOK(Commit(S, b))
  <1> DEFINE C == Commit(S, b)
  <1>1. C.offsets \in [Streams -> Offsets] /\ C.seen \subseteq Streams /\ C.caughtUp \subseteq Streams
    BY BatchFields DEF Commit, SessionTypeOK
  <1>2. C.wallet \in [Streams -> [Ids -> Nat]]
    BY BatchFields DEF Commit, Applied, SessionTypeOK
  <1>3. DOMAIN WithReceipt(S, b) \subseteq Keys /\ WithReceipt(S, b) \in [DOMAIN WithReceipt(S, b) -> Digests]
    <2>1. DOMAIN WithReceipt(S, b) \subseteq DOMAIN S.receipts \cup {KeyOf(b)}
      BY DEF WithReceipt, Newest
    <2>2. \A k \in DOMAIN WithReceipt(S, b) : WithReceipt(S, b)[k] \in Digests
      BY <2>1, BatchFields DEF WithReceipt, SessionTypeOK
    <2> QED
      BY <2>1, <2>2, BatchFields DEF WithReceipt, SessionTypeOK
  <1> QED
    BY <1>1, <1>2, <1>3 DEF Commit, SessionTypeOK

\* the types of every session and checkpoint (session.rs:60-107, checkpoint.rs:121-185):
\* offsets, receipts and caught-up streams stay under the canonical names
Typed == \A S \in Reachable : SessionTypeOK(S)

LEMMA TypesStep == TypeOK /\ [Next]_vars => TypeOK'
  <1> SUFFICES ASSUME TypeOK, [Next]_vars PROVE TypeOK'
    OBVIOUS
  <1>1. \A S \in Reachable \cup {Empty, NoSession} : SessionTypeOK(S)
    BY EmptyTyped DEF TypeOK, Reachable
  <1>2. SessionTypeOK(session')
    <2>1. CASE \E b \in Batches : session' = WithTip(session, b.stream)
      BY <2>1, <1>1, BatchFields, TipTyped DEF Reachable
    <2>2. CASE \E b \in Batches : session' = Commit(session, b)
      BY <2>2, <1>1, CommitTyped DEF Reachable
    <2> QED
      BY <1>1, <2>1, <2>2, SessionSteps
  <1>3. \A S \in exports' : SessionTypeOK(S) /\ S.open
    <2>1. \A S \in exports' : SessionTypeOK(S)
      BY <1>1, SessionSteps
    <2>2. \A S \in exports' : S \in exports \/ (S = session /\ session.open)
      BY DEF Next, Deliver, ApplyTip, ApplyBatch, AnswerOnly, OpenSession, ExportCheckpoint,
             EndSession, vars
    <2> QED
      BY <2>1, <2>2 DEF TypeOK
  <1>4. sessions' \in 0..MaxSessions
    <2>1. sessions' = sessions \/ (sessions < MaxSessions /\ sessions' = sessions + 1)
      BY DEF Next, Deliver, ApplyTip, ApplyBatch, AnswerOnly, OpenSession, ExportCheckpoint,
             EndSession, vars
    <2> QED
      BY <2>1, FeedAssumption DEF TypeOK
  <1>5. last' \in [Streams -> Batches \cup {NoBatch}]
    <2>1. CASE \E b \in Batches : Deliver(b)
      BY <2>1 DEF Deliver, ApplyTip, ApplyBatch, AnswerOnly, vars, TypeOK
    <2>2. CASE OpenSession \/ EndSession
      BY <2>2 DEF OpenSession, EndSession
    <2>3. CASE ExportCheckpoint \/ UNCHANGED vars
      BY <2>3 DEF ExportCheckpoint, vars, TypeOK
    <2> QED
      BY <2>1, <2>2, <2>3 DEF Next
  <1> QED
    BY <1>2, <1>3, <1>4, <1>5 DEF TypeOK

\* every session and every checkpoint has its type (session.rs:60-107, 239-257), however
\* batches, sessions and exports follow each other
THEOREM TypeCorrect == Spec => []TypeOK
  <1>1. Init => TypeOK
    BY EmptyTyped, FeedAssumption DEF Init, TypeOK
  <1> QED
    BY <1>1, TypesStep, PTL DEF Spec

LEMMA TypedSessions == TypeOK => Typed
  BY DEF TypeOK, Typed, Reachable

-----------------------------------------------------------------------------
(* No event twice *)

\* what the wallet holds lies before the stream's offset, and is held once
Once(S) ==
  \A s \in Streams, id \in Ids :
    S.wallet[s][id] <= 1 /\ (S.wallet[s][id] # 0 => id <= S.offsets[s])

OnceInv == TypeOK /\ \A S \in Reachable : Once(S)

\* a batch that fits begins at the offset; a plain one is honest, a wire one has ids after
\* its start, so neither brings an event the wallet has
LEMMA PayloadIsNew ==
  ASSUME NEW S, SessionTypeOK(S), NEW b \in Batches, Fits(S, b), b.form # "v2"
  PROVE  /\ \A id \in Payload(b) : S.offsets[b.stream] < id /\ id <= b.to
         /\ S.offsets[b.stream] <= b.to
  <1>1. b.from = S.offsets[b.stream] /\ b.from <= b.to /\ WireOffsets(b) /\ b.form # "tip"
    BY DEF Fits
  <1>2. CASE b.form = "wire"
    BY <1>1, <1>2, BatchFields DEF WireOffsets
  <1>3. CASE b.form = "plain"
    <2>1. b.lo = b.from /\ b.hi = b.to
      BY <1>3, FeedAssumption DEF Batches, Sent, Honest
    <2> QED
      BY <2>1, <1>1, <1>3 DEF Payload
  <1>4. b.form \in {"plain", "wire"}
    BY <1>1, BatchFields, FeedAssumption
  <1> QED
    BY <1>1, <1>2, <1>3, <1>4

\* what Commit does to the wallet and the offset of each stream
LEMMA CommitEffect ==
  ASSUME NEW S, SessionTypeOK(S), NEW b \in Batches, NEW s \in Streams, NEW id \in Ids
  PROVE  LET C == Commit(S, b) IN
         /\ s # b.stream => C.wallet[s] = S.wallet[s] /\ C.offsets[s] = S.offsets[s]
         /\ s = b.stream => C.offsets[s] = b.to
         /\ s = b.stream /\ b.form = "v2" =>
              C.wallet[s][id] = IF id \in Events[s] /\ id <= b.hi THEN 1 ELSE 0
         /\ s = b.stream /\ b.form # "v2" =>
              C.wallet[s][id] = IF id \in Payload(b) THEN S.wallet[s][id] + 1 ELSE S.wallet[s][id]
  BY BatchFields DEF Commit, Applied, SessionTypeOK

LEMMA CommitOnce ==
  ASSUME NEW S, SessionTypeOK(S), Once(S), NEW b \in Batches, Fits(S, b)
  PROVE  Once(Commit(S, b))
  <1> DEFINE C == Commit(S, b)
  <1> SUFFICES ASSUME NEW s \in Streams, NEW id \in Ids
               PROVE  C.wallet[s][id] <= 1 /\ (C.wallet[s][id] # 0 => id <= C.offsets[s])
    BY DEF Once
  <1>1. S.wallet[s][id] \in Nat /\ S.offsets[s] \in Nat /\ id \in Nat /\ b.to \in Nat
    BY BatchFields, FeedAssumption DEF SessionTypeOK, Ids, Offsets
  <1>2. S.wallet[s][id] <= 1 /\ (S.wallet[s][id] # 0 => id <= S.offsets[s])
    BY DEF Once
  <1>3. CASE s # b.stream
    BY <1>2, <1>3, CommitEffect
  <1>4. CASE s = b.stream /\ b.form = "v2"
    <2>1. b.hi = b.to
      BY <1>4 DEF Fits, V2Trailer
    <2> QED
      BY <1>4, <2>1, CommitEffect
  <1>5. CASE s = b.stream /\ b.form # "v2"
    <2>1. C.wallet[s][id] = (IF id \in Payload(b) THEN S.wallet[s][id] + 1 ELSE S.wallet[s][id])
          /\ C.offsets[s] = b.to
      BY <1>5, CommitEffect
    <2>2. /\ id \in Payload(b) => S.offsets[s] < id /\ id <= b.to
          /\ S.offsets[s] <= b.to
      BY <1>5, PayloadIsNew
    <2> QED
      BY <1>1, <1>2, <2>1, <2>2
  <1> QED
    BY <1>3, <1>4, <1>5

LEMMA EmptyOnce == Once(Empty) /\ Once(NoSession)
  BY FeedAssumption DEF Once, Empty, NoSession, Nothing

LEMMA OnceStep == OnceInv /\ [Next]_vars => OnceInv'
  <1> SUFFICES ASSUME OnceInv, [Next]_vars PROVE OnceInv'
    OBVIOUS
  <1>1. \A S \in Reachable : SessionTypeOK(S) /\ Once(S)
    BY TypedSessions DEF OnceInv, Typed
  <1>2. Once(session')
    <2>1. CASE \E b \in Batches : session' = WithTip(session, b.stream)
      BY <2>1, <1>1 DEF Once, WithTip, Reachable, SessionTypeOK
    <2>2. CASE \E b \in Batches : Fits(session, b) /\ session' = Commit(session, b)
      BY <2>2, <1>1, CommitOnce DEF Reachable
    <2> QED
      BY <1>1, <2>1, <2>2, EmptyOnce, SessionSteps
  <1>3. \A S \in exports' : Once(S)
    BY <1>1, SessionSteps
  <1> QED
    BY <1>2, <1>3, TypesStep DEF OnceInv, Reachable

\* No event is applied to a wallet twice (README.md:150, session.rs:155-205), whatever
\* arrives, however a wire or snapshot payload fits its offsets, through every restart.
THEOREM EventsAreAppliedOnce == Spec => []NoEventTwice
  <1>1. Init => OnceInv
    BY EmptyTyped, EmptyOnce, FeedAssumption DEF Init, OnceInv, TypeOK, Reachable
  <1>2. OnceInv => NoEventTwice
    BY DEF OnceInv, Once, NoEventTwice
  <1> QED
    BY <1>1, <1>2, OnceStep, PTL DEF Spec

-----------------------------------------------------------------------------
(* Receipts *)

\* what a receipt says: where its batch ended, and which events it brought
Told(S) ==
  \A k \in DOMAIN S.receipts :
    /\ k.to <= S.offsets[k.stream]
    /\ S.receipts[k][1] # "v2" => \A id \in S.receipts[k][2] :
         id \in Events[k.stream] /\ id <= k.to /\ S.wallet[k.stream][id] = 1

ReceiptInv == OnceInv /\ \A S \in Reachable : Told(S)

LEMMA CommitTold ==
  ASSUME NEW S, SessionTypeOK(S), Once(S), Told(S), NEW b \in Batches, Fits(S, b)
  PROVE  Told(Commit(S, b))
  <1> DEFINE C == Commit(S, b)
  <1>1. DOMAIN C.receipts \subseteq DOMAIN S.receipts \cup {KeyOf(b)}
    BY DEF Commit, WithReceipt, Newest
  <1>2. b.from = S.offsets[b.stream] /\ b.from <= b.to /\ b.form # "tip"
    BY DEF Fits
  <1>3. ASSUME NEW k \in DOMAIN C.receipts, k = KeyOf(b)
        PROVE  /\ k.to <= C.offsets[k.stream]
               /\ C.receipts[k][1] # "v2" => \A id \in C.receipts[k][2] :
                    id \in Events[k.stream] /\ id <= k.to /\ C.wallet[k.stream][id] = 1
    <2>1. C.receipts[k] = Digest(b)
      BY <1>3 DEF Commit, WithReceipt
    <2>2. k.stream = b.stream /\ k.to = b.to /\ C.offsets[b.stream] = b.to /\ b.to \in Nat
      BY <1>3, BatchFields, FeedAssumption DEF Commit, SessionTypeOK, Offsets
    <2>3. ASSUME b.form # "v2", NEW id \in Payload(b)
          PROVE  id \in Events[b.stream] /\ id <= b.to /\ C.wallet[b.stream][id] = 1
      <3>1. id \in Events[b.stream] /\ id \in Ids /\ b.stream \in Streams
        BY <2>3, BatchFields, FeedAssumption DEF Payload
      <3>2. S.offsets[b.stream] < id /\ id <= b.to
        BY <2>3, PayloadIsNew
      <3>3. S.wallet[b.stream][id] = 0
        BY <3>1, <3>2, FeedAssumption DEF Once, SessionTypeOK, Ids, Offsets
      <3> QED
        BY <3>1, <3>2, <3>3, <2>3, CommitEffect
    <2> QED
      BY <2>1, <2>2, <2>3, BatchFields
  <1>4. ASSUME NEW k \in DOMAIN C.receipts, k # KeyOf(b)
        PROVE  /\ k.to <= C.offsets[k.stream]
               /\ C.receipts[k][1] # "v2" => \A id \in C.receipts[k][2] :
                    id \in Events[k.stream] /\ id <= k.to /\ C.wallet[k.stream][id] = 1
    <2>1. k \in DOMAIN S.receipts /\ C.receipts[k] = S.receipts[k]
      BY <1>1, <1>4 DEF Commit, WithReceipt
    <2>2. k.stream \in Streams /\ k.to \in Nat /\ S.offsets[k.stream] \in Nat /\ b.to \in Nat
      BY <2>1, BatchFields, FeedAssumption DEF SessionTypeOK, Keys, Offsets
    <2>3. k.to <= C.offsets[k.stream]
      <3>1. k.to <= S.offsets[k.stream]
        BY <2>1 DEF Told
      <3>2. C.offsets[k.stream] = IF k.stream = b.stream THEN b.to ELSE S.offsets[k.stream]
        BY <2>2, BatchFields DEF Commit, SessionTypeOK
      <3> QED
        BY <3>1, <3>2, <2>2, <1>2
    <2>4. ASSUME S.receipts[k][1] # "v2", NEW id \in S.receipts[k][2]
          PROVE  id \in Events[k.stream] /\ id <= k.to /\ C.wallet[k.stream][id] = 1
      <3>1. /\ id \in Events[k.stream] /\ id <= k.to /\ S.wallet[k.stream][id] = 1
            /\ k.to <= S.offsets[k.stream]
        BY <2>1, <2>4 DEF Told
      <3>2. id \in Ids /\ id \in Nat
        BY <3>1, <2>2, FeedAssumption DEF Ids
      <3>3. CASE k.stream # b.stream
        BY <3>1, <3>2, <3>3, <2>2, CommitEffect
      <3>4. CASE k.stream = b.stream /\ b.form = "v2"
        <4>1. b.hi = b.to
          BY <3>4 DEF Fits, V2Trailer
        <4>2. id <= b.hi
          BY <4>1, <3>1, <3>2, <3>4, <2>2, <1>2
        <4> QED
          BY <4>2, <3>1, <3>2, <3>4, <2>2, CommitEffect
      <3>5. CASE k.stream = b.stream /\ b.form # "v2"
        <4>1. id \notin Payload(b)
          BY <3>1, <3>2, <3>5, <2>2, PayloadIsNew
        <4> QED
          BY <4>1, <3>1, <3>2, <3>5, <2>2, CommitEffect
      <3> QED
        BY <3>3, <3>4, <3>5
    <2> QED
      BY <2>1, <2>3, <2>4
  <1> QED
    BY <1>3, <1>4 DEF Told

LEMMA EmptyTold == Told(Empty) /\ Told(NoSession)
  BY DEF Told, Empty, NoSession

LEMMA ReceiptStep == ReceiptInv /\ [Next]_vars => ReceiptInv'
  <1> SUFFICES ASSUME ReceiptInv, [Next]_vars PROVE ReceiptInv'
    OBVIOUS
  <1>1. \A S \in Reachable : SessionTypeOK(S) /\ Once(S) /\ Told(S)
    BY TypedSessions DEF ReceiptInv, OnceInv, Typed
  <1>2. Told(session')
    <2>1. CASE \E b \in Batches : session' = WithTip(session, b.stream)
      BY <2>1, <1>1 DEF Told, WithTip, Reachable, SessionTypeOK
    <2>2. CASE \E b \in Batches : Fits(session, b) /\ session' = Commit(session, b)
      BY <2>2, <1>1, CommitTold DEF Reachable
    <2> QED
      BY <1>1, <2>1, <2>2, EmptyTold, SessionSteps
  <1>3. \A S \in exports' : Told(S)
    BY <1>1, SessionSteps
  <1> QED
    BY <1>2, <1>3, OnceStep DEF ReceiptInv, Reachable

\* A batch whose receipt is kept is in the wallet to its end (session.rs:170, 181), so an
\* answer "duplicate" never hides a batch that is missing.
THEOREM DuplicatesAreApplied == Spec => []ReceiptsAreApplied
  <1>1. Init => ReceiptInv
    BY EmptyTyped, EmptyOnce, EmptyTold, FeedAssumption
       DEF Init, ReceiptInv, OnceInv, TypeOK, Reachable
  <1>2. ReceiptInv => ReceiptsAreApplied
    BY DEF ReceiptInv, Told, ReceiptsAreApplied
  <1> QED
    BY <1>1, <1>2, ReceiptStep, PTL DEF Spec

-----------------------------------------------------------------------------
(* The receipts that are kept *)

LEMMA LeastOfNat ==
  ASSUME NEW T \in SUBSET Nat, T # {} PROVE \E x \in T : \A y \in T : x <= y
  <1>1. PICK x \in T : \A y \in T : ~(<<y, x>> \in OpToRel(<, Nat))
    BY NatLessThanWellFounded, WFMin
  <1>2. \A y \in T : ~(y < x)
    BY <1>1 DEF OpToRel
  <1> QED
    BY <1>2

LEMMA KeyFields ==
  ASSUME NEW k \in Keys
  PROVE  /\ k.stream \in Streams /\ k.from \in Nat /\ k.to \in Nat /\ Rank[k.stream] \in Nat
         /\ k = [stream |-> k.stream, from |-> k.from, to |-> k.to]
  BY FeedAssumption DEF Keys, Offsets, Rank

\* keys are ordered by where they end, their stream and where they begin
LEMMA OlderIsOrder ==
  /\ \A k \in Keys : ~Older(k, k)
  /\ \A j, k \in Keys : j # k => Older(j, k) \/ Older(k, j)
  /\ \A i, j, k \in Keys : Older(i, j) /\ Older(j, k) => Older(i, k)
  <1>1. ASSUME NEW k \in Keys PROVE ~Older(k, k)
    BY KeyFields DEF Older
  <1>2. ASSUME NEW j \in Keys, NEW k \in Keys, ~Older(j, k), ~Older(k, j) PROVE j = k
    <2>1. /\ j.to \in Nat /\ k.to \in Nat /\ j.from \in Nat /\ k.from \in Nat
          /\ j.stream \in DOMAIN Rank /\ k.stream \in DOMAIN Rank
      BY KeyFields, FeedAssumption
    <2>2. j.to = k.to
      BY <1>2, <2>1 DEF Older
    <2>3. j.stream = k.stream
      BY <1>2, <2>1, <2>2 DEF Older, Rank
    <2>4. j.from = k.from
      BY <1>2, <2>1, <2>2, <2>3 DEF Older
    <2> QED
      BY <2>2, <2>3, <2>4, KeyFields
  <1>3. ASSUME NEW i \in Keys, NEW j \in Keys, NEW k \in Keys, Older(i, j), Older(j, k)
        PROVE  Older(i, k)
    <2>1. \A m \in {i, j, k} : m.to \in Nat /\ m.from \in Nat /\ Rank[m.stream] \in Nat
      BY KeyFields
    <2> QED
      BY <1>3, <2>1 DEF Older
  <1> QED
    BY <1>1, <1>2, <1>3

\* the newer ones of a key among K
Newer(K, k) == {j \in K : Older(k, j)}

LEMMA NewerCounts ==
  ASSUME NEW K \in SUBSET Keys, IsFiniteSet(K), NEW k \in K
  PROVE  /\ IsFiniteSet(Newer(K, k)) /\ Cardinality(Newer(K, k)) \in Nat
         /\ \A j \in Newer(K, k) : Cardinality(Newer(K, j)) < Cardinality(Newer(K, k))
  <1>1. \A j \in K : IsFiniteSet(Newer(K, j)) /\ Cardinality(Newer(K, j)) \in Nat
    BY FS_Subset, FS_CardinalityType DEF Newer
  <1>2. ASSUME NEW j \in Newer(K, k) PROVE Cardinality(Newer(K, j)) < Cardinality(Newer(K, k))
    <2>1. j \in K /\ Older(k, j) /\ j \notin Newer(K, j)
      BY OlderIsOrder DEF Newer
    <2>2. Newer(K, j) \cup {j} \subseteq Newer(K, k)
      BY <2>1, OlderIsOrder DEF Newer
    <2>3. Cardinality(Newer(K, j) \cup {j}) = Cardinality(Newer(K, j)) + 1
      BY <1>1, <2>1, FS_AddElement
    <2>4. Cardinality(Newer(K, j) \cup {j}) <= Cardinality(Newer(K, k))
      BY <1>1, <2>2, FS_Subset
    <2> QED
      BY <1>1, <2>1, <2>3, <2>4
  <1> QED
    BY <1>1, <1>2

\* prune_batch_receipts keeps what is newer than anything it keeps
LEMMA NewestClosed ==
  ASSUME NEW K \in SUBSET Keys, IsFiniteSet(K), NEW k \in Newest(K), NEW j \in K, Older(k, j)
  PROVE  j \in Newest(K)
  <1>1. k \in K /\ Cardinality(Newer(K, k)) < MaxReceipts
    BY DEF Newest, Newer
  <1>2. /\ Cardinality(Newer(K, j)) < Cardinality(Newer(K, k))
        /\ Cardinality(Newer(K, j)) \in Nat /\ Cardinality(Newer(K, k)) \in Nat
    BY <1>1, NewerCounts DEF Newer
  <1> QED
    BY <1>1, <1>2, FeedAssumption DEF Newest, Newer

\* it keeps no more than MAX_SYNC_BATCH_RECEIPTS
LEMMA NewestBounded ==
  ASSUME NEW K \in SUBSET Keys, IsFiniteSet(K)
  PROVE  IsFiniteSet(Newest(K)) /\ Cardinality(Newest(K)) <= MaxReceipts
  <1>1. IsFiniteSet(Newest(K))
    BY FS_Subset DEF Newest
  <1>2. CASE Newest(K) = {}
    BY <1>1, <1>2, FS_EmptySet, FeedAssumption
  <1>3. CASE Newest(K) # {}
    <2> DEFINE count(k) == Cardinality(Newer(K, k))
               Left == {MaxReceipts - count(k) : k \in Newest(K)}
    <2>1. \A k \in Newest(K) : k \in K /\ count(k) \in Nat /\ count(k) < MaxReceipts
      BY NewerCounts DEF Newest, Newer
    <2>2. Left \in SUBSET Nat /\ Left # {}
      BY <1>3, <2>1, FeedAssumption
    <2>3. PICK x \in Left : \A y \in Left : x <= y
      BY <2>2, LeastOfNat
    <2>4. PICK m \in Newest(K) : x = MaxReceipts - count(m)
      BY <2>3
    <2>5. \A k \in Newest(K) : count(k) <= count(m)
      <3> HIDE DEF count
      <3> SUFFICES ASSUME NEW k \in Newest(K) PROVE count(k) <= count(m)
        OBVIOUS
      <3>1. MaxReceipts - count(m) <= MaxReceipts - count(k)
        BY <2>3, <2>4
      <3> QED
        BY <2>1, <3>1, FeedAssumption
    <2>6. Newest(K) \ {m} \subseteq Newer(K, m)
      <3> SUFFICES ASSUME NEW k \in Newest(K), k # m PROVE Older(m, k)
        BY <2>1 DEF Newer
      <3>1. ASSUME Older(k, m) PROVE FALSE
        <4>1. count(m) < count(k)
          BY <2>1, <3>1, NewerCounts DEF Newer
        <4> QED
          BY <2>1, <2>5, <4>1
      <3> QED
        BY <2>1, <3>1, OlderIsOrder
    <2>7. Cardinality(Newest(K) \ {m}) <= count(m)
      BY <2>1, <2>6, NewerCounts, FS_Subset
    <2>8. /\ Cardinality(Newest(K) \ {m}) = Cardinality(Newest(K)) - 1
          /\ Cardinality(Newest(K)) \in Nat
      BY <1>1, FS_RemoveElement, FS_CardinalityType
    <2> HIDE DEF count
    <2> QED
      BY <1>1, <2>1, <2>7, <2>8, FeedAssumption
  <1> QED
    BY <1>2, <1>3

\* and as many, if it drops one
LEMMA NewestFull ==
  ASSUME NEW K \in SUBSET Keys, IsFiniteSet(K), NEW d \in K, d \notin Newest(K)
  PROVE  Cardinality(Newest(K)) = MaxReceipts
  <1> DEFINE count(k) == Cardinality(Newer(K, k))
             Dropped == {count(k) : k \in K \ Newest(K)}
  <1>1. \A k \in K : count(k) \in Nat /\ IsFiniteSet(Newer(K, k))
    BY NewerCounts
  <1>2. Dropped \in SUBSET Nat /\ Dropped # {}
    BY <1>1
  <1>3. PICK x \in Dropped : \A y \in Dropped : x <= y
    BY <1>2, LeastOfNat
  <1>4. PICK m \in K \ Newest(K) : x = count(m)
    BY <1>3
  <1>5. count(m) >= MaxReceipts
    BY <1>1, <1>4, FeedAssumption DEF Newest, Newer
  <1>6. Newer(K, m) \subseteq Newest(K)
    <2> SUFFICES ASSUME NEW k \in Newer(K, m), k \notin Newest(K) PROVE FALSE
      OBVIOUS
    <2>1. k \in K \ Newest(K) /\ count(k) < count(m)
      BY NewerCounts DEF Newer
    <2>2. count(m) <= count(k)
      BY <1>3, <1>4, <2>1
    <2> HIDE DEF count
    <2> QED
      BY <1>1, <2>1, <2>2
  <1>7. IsFiniteSet(Newest(K)) /\ Cardinality(Newest(K)) <= MaxReceipts
    BY NewestBounded
  <1>8. count(m) <= Cardinality(Newest(K)) /\ Cardinality(Newest(K)) \in Nat
    BY <1>6, <1>7, FS_Subset, FS_CardinalityType
  <1> HIDE DEF count
  <1> QED
    BY <1>1, <1>5, <1>7, <1>8, FeedAssumption

-----------------------------------------------------------------------------
(* Checkpoints open again *)

\* what open_wallet_session asks of the streams and receipts of a checkpoint
Sound(S) ==
  /\ IsFiniteSet(DOMAIN S.receipts)
  /\ \A k \in DOMAIN S.receipts : k.from <= k.to /\ k.stream \in S.seen

SoundInv == ReceiptInv /\ \A S \in Reachable : Sound(S) /\ Valid(S)

LEMMA CommitSound ==
  ASSUME NEW S, SessionTypeOK(S), Sound(S), NEW b \in Batches, Fits(S, b)
  PROVE  /\ Sound(Commit(S, b))
         /\ Cardinality(DOMAIN Commit(S, b).receipts) <= MaxReceipts
  <1> DEFINE K == DOMAIN S.receipts \cup {KeyOf(b)}
             C == Commit(S, b)
  <1>1. K \in SUBSET Keys /\ IsFiniteSet(K)
    BY BatchFields, FS_AddElement DEF SessionTypeOK, Sound
  <1>2. DOMAIN C.receipts = Newest(K) /\ C.seen = S.seen \cup {b.stream}
    BY DEF Commit, WithReceipt
  <1>3. IsFiniteSet(Newest(K)) /\ Cardinality(Newest(K)) <= MaxReceipts /\ Newest(K) \subseteq K
    BY <1>1, NewestBounded DEF Newest
  <1>4. KeyOf(b).from <= KeyOf(b).to /\ KeyOf(b).stream = b.stream
    BY DEF KeyOf, Fits
  <1> HIDE DEF C
  <1>5. ASSUME NEW k \in DOMAIN C.receipts PROVE k.from <= k.to /\ k.stream \in C.seen
    <2>1. CASE k = KeyOf(b)
      BY <1>2, <1>4, <2>1
    <2>2. CASE k \in DOMAIN S.receipts
      BY <1>2, <2>2 DEF Sound
    <2> QED
      BY <1>2, <1>3, <1>5, <2>1, <2>2
  <1> QED
    BY <1>2, <1>3, <1>5 DEF Sound, C

\* a session whose receipts are told is one that open_wallet_session accepts
LEMMA SoundIsValid ==
  ASSUME NEW S, Told(S), Sound(S), Cardinality(DOMAIN S.receipts) <= MaxReceipts
  PROVE  Valid(S)
  BY DEF Told, Sound, Valid

LEMMA EmptySound == /\ Sound(Empty) /\ Valid(Empty) /\ Sound(NoSession) /\ Valid(NoSession)
  <1>1. DOMAIN Empty.receipts = {} /\ DOMAIN NoSession.receipts = {}
    BY DEF Empty, NoSession
  <1> QED
    BY <1>1, FS_EmptySet, FeedAssumption DEF Sound, Valid

LEMMA SoundStep == SoundInv /\ [Next]_vars => SoundInv'
  <1> SUFFICES ASSUME SoundInv, [Next]_vars PROVE SoundInv'
    OBVIOUS
  <1>1. \A S \in Reachable : SessionTypeOK(S) /\ Told(S) /\ Sound(S) /\ Valid(S)
    BY TypedSessions DEF SoundInv, ReceiptInv, OnceInv, Typed
  <1>2. ReceiptInv'
    BY ReceiptStep DEF SoundInv
  <1>3. Sound(session') /\ Valid(session')
    <2>1. CASE \E b \in Batches : session' = WithTip(session, b.stream)
      BY <2>1, <1>1 DEF Sound, Valid, WithTip, Reachable, SessionTypeOK
    <2>2. CASE \E b \in Batches : Fits(session, b) /\ session' = Commit(session, b)
      <3>1. Sound(session') /\ Cardinality(DOMAIN session'.receipts) <= MaxReceipts
        BY <2>2, <1>1, CommitSound DEF Reachable
      <3>2. Told(session')
        BY <1>2 DEF ReceiptInv, Reachable
      <3> QED
        BY <3>1, <3>2, SoundIsValid
    <2> QED
      BY <1>1, <2>1, <2>2, EmptySound, SessionSteps
  <1>4. \A S \in exports' : Sound(S) /\ Valid(S)
    BY <1>1, SessionSteps
  <1> QED
    BY <1>2, <1>3, <1>4 DEF SoundInv, Reachable

LEMMA SoundInit == Init => SoundInv
  BY EmptyTyped, EmptyOnce, EmptyTold, EmptySound, FeedAssumption
     DEF Init, SoundInv, ReceiptInv, OnceInv, TypeOK, Reachable

\* validate_checkpoint (checkpoint.rs:121-185) accepts every checkpoint that a session can
\* export, whatever was applied, pruned and restored before
THEOREM CheckpointsReopen == Spec => []CheckpointReopens
  <1>1. SoundInv => CheckpointReopens
    BY DEF SoundInv, CheckpointReopens
  <1> QED
    BY <1>1, SoundInit, SoundStep, PTL DEF Spec

-----------------------------------------------------------------------------
(* The last batch is recognised *)

\* the receipt of the last batch b of stream s is kept and no receipt of its stream is newer, or
\* only as many receipts as are kept, of other streams and no older than it
Remembered(S, s, b) ==
  /\ b.stream = s /\ b.form # "tip" /\ b.from <= b.to /\ b.to = S.offsets[s]
  /\ \/ /\ KeyOf(b) \in DOMAIN S.receipts /\ S.receipts[KeyOf(b)] = Digest(b)
        /\ \A k \in DOMAIN S.receipts : k.stream = s => k = KeyOf(b) \/ Older(k, KeyOf(b))
     \/ /\ Cardinality(DOMAIN S.receipts) = MaxReceipts
        /\ \A k \in DOMAIN S.receipts : k.stream # s /\ k.to >= b.to

LastInv == \A s \in Streams : last[s] # NoBatch => Remembered(session, s, last[s])

\* what is kept of a list of receipts when the one of b is dropped from it
LEMMA DroppedFor ==
  ASSUME NEW K \in SUBSET Keys, IsFiniteSet(K), NEW d \in K, d \notin Newest(K), NEW s,
         \A k \in K : k.stream = s => k = d \/ Older(k, d)
  PROVE  /\ Cardinality(Newest(K)) = MaxReceipts
         /\ \A k \in Newest(K) : k.stream # s /\ k.to >= d.to
  <1>1. ASSUME NEW k \in Newest(K) PROVE k.stream # s /\ k.to >= d.to
    <2>1. k \in K /\ k # d
      BY DEF Newest
    <2>2. ~Older(k, d)
      BY NewestClosed
    <2>3. Older(d, k) /\ k \in Keys /\ d \in Keys
      BY <2>1, <2>2, OlderIsOrder
    <2> QED
      BY <2>1, <2>2, <2>3, KeyFields DEF Older
  <1> QED
    BY <1>1, NewestFull

\* a batch that is applied is remembered
LEMMA CommitRemembers ==
  ASSUME NEW S, SessionTypeOK(S), Told(S), Sound(S), NEW b \in Batches, Fits(S, b)
  PROVE  Remembered(Commit(S, b), b.stream, b)
  <1> DEFINE d == KeyOf(b)
             K == DOMAIN S.receipts \cup {d}
             C == Commit(S, b)
  <1>1. K \in SUBSET Keys /\ IsFiniteSet(K) /\ d \in Keys /\ d.stream = b.stream /\ d.to = b.to
    BY BatchFields, FS_AddElement DEF SessionTypeOK, Sound
  <1>2. /\ DOMAIN C.receipts = Newest(K) /\ (d \in Newest(K) => C.receipts[d] = Digest(b))
        /\ C.offsets[b.stream] = b.to
    BY BatchFields DEF Commit, WithReceipt, SessionTypeOK
  <1>3. /\ b.form # "tip" /\ b.from <= b.to /\ b.from = S.offsets[b.stream] /\ d.from = b.from
        /\ d \notin DOMAIN S.receipts
    BY DEF Fits, KeyOf
  <1>4. ASSUME NEW k \in K, k.stream = b.stream PROVE k = d \/ Older(k, d)
    <2> SUFFICES ASSUME k # d PROVE Older(k, d)
      OBVIOUS
    <2>1. k \in DOMAIN S.receipts /\ k \in Keys
      BY <1>1
    <2>2. k.to <= b.from /\ k.from <= k.to
      BY <1>3, <1>4, <2>1 DEF Told, Sound
    <2>3. ~Older(d, k)
      BY <1>1, <1>3, <1>4, <2>1, <2>2, KeyFields DEF Older
    <2> QED
      BY <1>1, <2>1, <2>3, OlderIsOrder
  <1>5. Newest(K) \subseteq K
    BY DEF Newest
  <1> HIDE DEF d, K, C
  <1>6. CASE d \in Newest(K)
    BY <1>2, <1>3, <1>4, <1>5, <1>6 DEF Remembered, C, d
  <1>7. CASE d \notin Newest(K)
    <2>1. d \in K
      BY DEF K
    <2>2. /\ Cardinality(Newest(K)) = MaxReceipts
          /\ \A k \in Newest(K) : k.stream # b.stream /\ k.to >= d.to
      BY <1>1, <1>4, <1>7, <2>1, DroppedFor
    <2> QED
      BY <1>1, <1>2, <1>3, <2>2 DEF Remembered, C
  <1> QED
    BY <1>6, <1>7

\* and stays so when a batch of another stream is applied
LEMMA CommitKeepsRemembered ==
  ASSUME NEW S, SessionTypeOK(S), Sound(S), NEW c \in Batches, Fits(S, c),
         NEW s \in Streams, s # c.stream, NEW b \in Batches, Remembered(S, s, b)
  PROVE  Remembered(Commit(S, c), s, b)
  <1> DEFINE d == KeyOf(b)
             e == KeyOf(c)
             K == DOMAIN S.receipts \cup {e}
             C == Commit(S, c)
  <1>1. /\ K \in SUBSET Keys /\ IsFiniteSet(K) /\ e \in Keys /\ d \in Keys
        /\ e.stream = c.stream /\ d.to = b.to /\ d.stream = b.stream
    BY BatchFields, FS_AddElement DEF SessionTypeOK, Sound
  <1>2. /\ DOMAIN C.receipts = Newest(K) /\ C.offsets[s] = S.offsets[s]
        /\ \A k \in Newest(K) : k # e => C.receipts[k] = S.receipts[k]
    BY BatchFields DEF Commit, WithReceipt, SessionTypeOK
  <1>3. /\ b.stream = s /\ b.form # "tip" /\ b.from <= b.to /\ b.to = S.offsets[s]
        /\ e \notin DOMAIN S.receipts /\ Newest(K) \subseteq K
    BY DEF Remembered, Fits, Newest
  <1> HIDE DEF d, e, C
  <1>4. CASE /\ d \in DOMAIN S.receipts /\ S.receipts[d] = Digest(b)
             /\ \A k \in DOMAIN S.receipts : k.stream = s => k = d \/ Older(k, d)
    <2>1. d # e /\ d \in K /\ \A k \in K : k.stream = s => k = d \/ Older(k, d)
      BY <1>1, <1>3, <1>4
    <2> HIDE DEF K
    <2>2. CASE d \in Newest(K)
      BY <1>2, <1>3, <1>4, <2>1, <2>2 DEF Remembered, C, d
    <2>3. CASE d \notin Newest(K)
      <3>1. /\ Cardinality(Newest(K)) = MaxReceipts
            /\ \A k \in Newest(K) : k.stream # s /\ k.to >= d.to
        BY <1>1, <2>1, <2>3, DroppedFor
      <3> QED
        BY <1>1, <1>2, <1>3, <3>1 DEF Remembered, C
    <2> QED
      BY <2>2, <2>3
  <1>5. CASE /\ Cardinality(DOMAIN S.receipts) = MaxReceipts
             /\ \A k \in DOMAIN S.receipts : k.stream # s /\ k.to >= b.to
    <2>1. PICK g \in K : g \notin Newest(K)
      <3>1. IsFiniteSet(DOMAIN S.receipts) /\ Cardinality(K) = MaxReceipts + 1
        BY <1>3, <1>5, FS_AddElement DEF Sound
      <3> HIDE DEF K
      <3>2. Cardinality(Newest(K)) <= MaxReceipts
        BY <1>1, NewestBounded
      <3>3. Newest(K) # K
        BY <3>1, <3>2, FeedAssumption
      <3> QED
        BY <1>3, <3>3
    <2>2. Cardinality(Newest(K)) = MaxReceipts
      BY <1>1, <2>1, NewestFull
    <2>3. e \in Newest(K) => e.to >= b.to
      <3> SUFFICES ASSUME e \in Newest(K), ~(e.to >= b.to) PROVE FALSE
        OBVIOUS
      <3>1. \A k \in DOMAIN S.receipts : Older(e, k)
        <4> SUFFICES ASSUME NEW k \in DOMAIN S.receipts PROVE e.to < k.to
          BY DEF Older
        <4>1. k \in Keys /\ k.to >= b.to
          BY <1>1, <1>5
        <4> QED
          BY <1>1, <4>1, KeyFields
      <3>2. DOMAIN S.receipts \subseteq Newest(K)
        BY <1>1, <3>1, NewestClosed
      <3>3. Newest(K) = K
        BY <1>3, <3>2
      <3> QED
        BY <2>1, <3>3
    <2>4. \A k \in Newest(K) : k.stream # s /\ k.to >= b.to
      BY <1>1, <1>3, <1>5, <2>3
    <2> HIDE DEF K
    <2> QED
      BY <1>2, <1>3, <2>2, <2>4 DEF Remembered, C
  <1> QED
    BY <1>4, <1>5 DEF Remembered, d

LEMMA NothingLast ==
  ASSUME last = [s \in Streams |-> NoBatch] PROVE LastInv
  BY DEF LastInv

LEMMA LastStep == SoundInv /\ LastInv /\ [Next]_vars => LastInv'
  <1> SUFFICES ASSUME SoundInv, LastInv, [Next]_vars PROVE LastInv'
    OBVIOUS
  <1>1. /\ SessionTypeOK(session) /\ Told(session) /\ Sound(session)
        /\ last \in [Streams -> Batches \cup {NoBatch}]
    BY TypedSessions DEF SoundInv, ReceiptInv, OnceInv, TypeOK, Typed, Reachable
  <1>2. CASE \E b \in Batches : ApplyTip(b)
    <2>1. PICK b \in Batches : ApplyTip(b)
      BY <1>2
    <2>2. /\ session'.receipts = session.receipts /\ session'.offsets = session.offsets
          /\ last' = last
      BY <1>1, <2>1 DEF ApplyTip, SessionTypeOK
    <2> QED
      BY <2>2 DEF LastInv, Remembered
  <1>3. CASE \E b \in Batches : ApplyBatch(b)
    <2>1. PICK b \in Batches : ApplyBatch(b)
      BY <1>3
    <2>2. /\ Fits(session, b) /\ session' = Commit(session, b)
          /\ last' = [last EXCEPT ![b.stream] = b] /\ b.stream \in Streams
      BY <2>1, BatchFields DEF ApplyBatch
    <2>3. Remembered(Commit(session, b), b.stream, b)
      BY <1>1, <2>2, CommitRemembers
    <2>4. ASSUME NEW s \in Streams, s # b.stream, last[s] # NoBatch
          PROVE  Remembered(Commit(session, b), s, last[s])
      <3>1. last[s] \in Batches /\ Remembered(session, s, last[s])
        BY <1>1, <2>4 DEF LastInv
      <3> QED
        BY <1>1, <2>2, <2>4, <3>1, CommitKeepsRemembered
    <2> QED
      BY <1>1, <2>2, <2>3, <2>4 DEF LastInv
  <1>4. CASE OpenSession \/ EndSession
    BY <1>4 DEF OpenSession, EndSession, LastInv
  <1>5. CASE UNCHANGED <<session, last>>
    BY <1>5 DEF LastInv
  <1>6. ExportCheckpoint \/ (\E b \in Batches : AnswerOnly(b)) \/ UNCHANGED vars
          => UNCHANGED <<session, last>>
    BY DEF ExportCheckpoint, AnswerOnly, vars
  <1> QED
    BY <1>2, <1>3, <1>4, <1>5, <1>6 DEF Next, Deliver

\* The batch a stream applied last is answered as a duplicate if it comes again
\* (session.rs:206-207), unless all receipts kept are of other streams and of batches that
\* end no earlier: prune_batch_receipts compares offsets across streams.
THEOREM LastBatchIsRecognised == Spec => []LastIsRecognised
  <1>1. Init => LastInv
    BY NothingLast DEF Init
  <1>2. SoundInv /\ LastInv => LastIsRecognised
    <2> SUFFICES ASSUME SoundInv, LastInv, NEW s \in Streams, last[s] # NoBatch,
                        ~Repeated(session, last[s])
                 PROVE  /\ Cardinality(DOMAIN session.receipts) = MaxReceipts
                        /\ \A k \in DOMAIN session.receipts : k.stream # s /\ k.to >= last[s].to
      BY DEF LastIsRecognised
    <2>1. Remembered(session, s, last[s])
      BY DEF LastInv
    <2> QED
      BY <2>1 DEF Remembered, Repeated
  <1> QED
    BY <1>1, <1>2, SoundInit, SoundStep, LastStep, PTL DEF Spec

-----------------------------------------------------------------------------
(* The abstract feed *)

\* exactly the stream's events up to its offset
Faithful(S) == \A s \in Streams : S.wallet[s] = Feed!Prefix(s, S.offsets[s])

FaithfulInv == TypeOK /\ \A S \in Reachable : Faithful(S)

LEMMA EmptyFaithful == Faithful(Empty) /\ Faithful(NoSession)
  <1>1. ASSUME NEW s \in Streams PROVE Nothing = Feed!Prefix(s, 0)
    BY FeedAssumption DEF Nothing, Feed!Prefix, Feed!Ids, Ids
  <1> QED
    BY <1>1 DEF Faithful, Empty, NoSession

LEMMA CommitFaithful ==
  ASSUME Mislabelled = {}, NEW S, SessionTypeOK(S), Faithful(S), NEW b \in Batches, Fits(S, b)
  PROVE  Commit(S, b).wallet = [S.wallet EXCEPT ![b.stream] = Feed!Prefix(b.stream, b.to)]
  <1>1. b.lo = b.from /\ b.hi = b.to /\ b.from = S.offsets[b.stream] /\ b.from <= b.to
    BY DEF Batches, Sent, Honest, Fits
  <1>2. /\ b.stream \in Streams /\ b.from \in Nat /\ b.to \in Nat
    BY BatchFields, FeedAssumption DEF Offsets
  <1>3. S.wallet[b.stream] = Feed!Prefix(b.stream, b.from)
    BY <1>1, <1>2 DEF Faithful
  <1>4. CASE b.form = "v2"
    BY <1>1, <1>2, <1>4 DEF Commit, Applied, SessionTypeOK, Feed!Prefix, Feed!Ids, Ids
  <1>5. CASE b.form # "v2"
    <2> DEFINE W == [id \in Ids |-> IF id \in Payload(b) THEN S.wallet[b.stream][id] + 1
                                                         ELSE S.wallet[b.stream][id]]
    <2>1. Commit(S, b).wallet = [S.wallet EXCEPT ![b.stream] = W]
      BY <1>2, <1>5 DEF Commit, Applied, SessionTypeOK
    <2>2. ASSUME NEW id \in Ids
          PROVE  W[id] = IF id \in Events[b.stream] /\ id <= b.to THEN 1 ELSE 0
      <3>1. id \in Payload(b) <=> id \in Events[b.stream] /\ b.from < id /\ id <= b.to
        BY <1>1, <1>5 DEF Payload
      <3>2. S.wallet[b.stream][id] = IF id \in Events[b.stream] /\ id <= b.from THEN 1 ELSE 0
        BY <1>3 DEF Feed!Prefix, Feed!Ids, Ids
      <3>3. id \in Nat
        BY FeedAssumption DEF Ids
      <3> QED
        BY <3>1, <3>2, <3>3, <1>1, <1>2
    <2>3. W = Feed!Prefix(b.stream, b.to)
      BY <2>2 DEF Feed!Prefix, Feed!Ids, Ids
    <2> QED
      BY <2>1, <2>3
  <1> QED
    BY <1>4, <1>5

LEMMA FaithfulStep == Mislabelled = {} /\ FaithfulInv /\ [Next]_vars => FaithfulInv'
  <1> SUFFICES ASSUME Mislabelled = {}, FaithfulInv, [Next]_vars PROVE FaithfulInv'
    OBVIOUS
  <1>1. \A S \in Reachable : SessionTypeOK(S) /\ Faithful(S)
    BY TypedSessions DEF FaithfulInv, Typed
  <1>2. Faithful(session')
    <2>1. CASE \E b \in Batches : session' = WithTip(session, b.stream)
      BY <2>1, <1>1 DEF Faithful, WithTip, Reachable, SessionTypeOK
    <2>2. CASE \E b \in Batches : Fits(session, b) /\ session' = Commit(session, b)
      <3>1. PICK b \in Batches : Fits(session, b) /\ session' = Commit(session, b)
        BY <2>2
      <3>2. SessionTypeOK(session) /\ Faithful(session)
        BY <1>1 DEF Reachable
      <3>3. session'.wallet = [session.wallet EXCEPT ![b.stream] = Feed!Prefix(b.stream, b.to)]
        BY <3>1, <3>2, CommitFaithful
      <3>4. session'.offsets = [session.offsets EXCEPT ![b.stream] = b.to]
        BY <3>1 DEF Commit
      <3> QED
        BY <3>2, <3>3, <3>4, BatchFields DEF Faithful, SessionTypeOK
    <2> QED
      BY <1>1, <2>1, <2>2, EmptyFaithful, SessionSteps
  <1>3. \A S \in exports' : Faithful(S)
    BY <1>1, SessionSteps
  <1> QED
    BY <1>2, <1>3, TypesStep DEF FaithfulInv, Reachable

\* what a faithful session holds is what the feed promises at its place
LEMMA FaithfulContents ==
  ASSUME NEW S, SessionTypeOK(S), Faithful(S)
  PROVE  S.wallet = Feed!Contents(Place(S))
  <1>1. S.wallet = [s \in Streams |-> S.wallet[s]]
    BY DEF SessionTypeOK
  <1> QED
    BY <1>1 DEF Faithful, Feed!Contents, Place

LEMMA BatchAdvances ==
  ASSUME Mislabelled = {}, FaithfulInv, NEW b \in Batches, ApplyBatch(b)
  PROVE  Feed!Advance
  <1>1. /\ session.open /\ session' = Commit(session, b) /\ exports' = exports
        /\ SessionTypeOK(session) /\ Faithful(session) /\ Fits(session, b)
    BY TypedSessions DEF ApplyBatch, FaithfulInv, Reachable, Typed
  <1>2. b.stream \in Streams /\ b.from \in Nat /\ b.to \in Nat /\ b.to <= MaxOffset
    BY BatchFields, FeedAssumption DEF Offsets
  <1>3. b.from = session.offsets[b.stream] /\ b.from <= b.to
    BY <1>1 DEF Fits
  <1>4. b.to # 0
    <2>1. CASE b.form = "wire"
      BY <2>1, <1>1, <1>2 DEF Fits, WireOffsets
    <2>2. CASE b.form = "v2"
      BY <2>2, <1>1 DEF Fits, V2Trailer
    <2>3. CASE b.form = "plain"
      BY <2>3, <1>2, <1>3 DEF Batches, Sent
    <2> QED
      BY <2>1, <2>2, <2>3, <1>1, BatchFields, FeedAssumption DEF Fits
  <1>5. session'.wallet = [session.wallet EXCEPT ![b.stream] = Feed!Prefix(b.stream, b.to)]
    BY <1>1, CommitFaithful
  <1>6. Place(session') = [position |-> [Place(session).position EXCEPT ![b.stream] = b.to],
                           caughtUp |-> Place(session).caughtUp \ {b.stream}]
    BY <1>1 DEF Place, Commit
  <1>7. session'.open /\ b.to \in Feed!Ids /\ b.to >= Place(session).position[b.stream]
    BY <1>1, <1>2, <1>3, <1>4, FeedAssumption DEF Commit, Feed!Ids, Place
  <1> QED
    BY <1>1, <1>2, <1>5, <1>6, <1>7 DEF Feed!Advance

LEMMA OpeningStarts ==
  ASSUME FaithfulInv, FaithfulInv', OpenSession
  PROVE  Feed!Start
  <1>1. PICK S \in exports \cup {Empty} : session' = S
    BY DEF OpenSession
  <1>2. S.open /\ ~session.open /\ exports' = exports
    BY <1>1 DEF OpenSession, FaithfulInv, TypeOK, Empty
  <1>3. Place(S) \in {Place(T) : T \in exports} \cup {Feed!Genesis}
    <2>1. CASE S \in exports
      BY <2>1
    <2>2. CASE S = Empty
      BY <2>2 DEF Place, Empty, Feed!Genesis
    <2> QED
      BY <1>1, <2>1, <2>2
  <1>4. SessionTypeOK(session') /\ Faithful(session')
    BY DEF FaithfulInv, TypeOK, Reachable
  <1>5. session'.wallet = Feed!Contents(Place(session'))
    BY <1>4, FaithfulContents
  <1> QED
    BY <1>1, <1>2, <1>3, <1>5 DEF Feed!Start

LEMMA EndingStops ==
  ASSUME FaithfulInv', EndSession
  PROVE  Feed!Stop
  <1>1. session.open /\ session' = NoSession /\ exports' = exports
    BY DEF EndSession
  <1>2. ~NoSession.open /\ Place(NoSession) = Feed!Genesis
    BY DEF NoSession, Empty, Place, Feed!Genesis
  <1>3. session'.wallet = Feed!Contents(Place(session'))
    BY FaithfulContents DEF FaithfulInv, TypeOK, Reachable
  <1> QED
    BY <1>1, <1>2, <1>3 DEF Feed!Stop

LEMMA ExportCheckpoints ==
  ASSUME ExportCheckpoint
  PROVE  Feed!Checkpoint
  <1>1. session.open /\ session' = session /\ exports' \subseteq exports \cup {session}
    BY DEF ExportCheckpoint
  <1> QED
    BY <1>1 DEF Feed!Checkpoint

LEMMA TipAnnounces ==
  ASSUME FaithfulInv, NEW b \in Batches, ApplyTip(b)
  PROVE  Feed!AnnounceTip
  <1>1. /\ session.open /\ exports' = exports /\ SessionTypeOK(session)
        /\ session' = WithTip(session, b.stream)
    BY DEF ApplyTip, FaithfulInv, TypeOK, WithTip
  <1>2. /\ session'.open = session.open /\ session'.wallet = session.wallet
        /\ session'.offsets = session.offsets
        /\ session'.caughtUp = session.caughtUp \cup {b.stream}
    BY <1>1 DEF WithTip, SessionTypeOK
  <1>3. Place(session') = [Place(session) EXCEPT !.caughtUp = @ \cup {b.stream}]
    BY <1>2 DEF Place
  <1> QED
    BY <1>1, <1>2, <1>3, BatchFields DEF Feed!AnnounceTip

LEMMA FeedStep ==
  Mislabelled = {} /\ FaithfulInv /\ FaithfulInv' /\ [Next]_vars => [Feed!Next]_Feed!vars
  <1> SUFFICES ASSUME Mislabelled = {}, FaithfulInv, FaithfulInv', [Next]_vars
               PROVE  [Feed!Next]_Feed!vars
    OBVIOUS
  <1>1. CASE \E b \in Batches : Deliver(b)
    <2>1. PICK b \in Batches : Deliver(b)
      BY <1>1
    <2>2. CASE ApplyTip(b)
      BY <2>2, TipAnnounces DEF Feed!Next
    <2>3. CASE ApplyBatch(b)
      BY <2>3, BatchAdvances DEF Feed!Next
    <2>4. CASE AnswerOnly(b)
      BY <2>4 DEF AnswerOnly, vars, Feed!vars
    <2> QED
      BY <2>1, <2>2, <2>3, <2>4 DEF Deliver
  <1>2. CASE OpenSession
    BY <1>2, OpeningStarts DEF Feed!Next
  <1>3. CASE ExportCheckpoint
    BY <1>3, ExportCheckpoints DEF Feed!Next
  <1>4. CASE EndSession
    BY <1>4, EndingStops DEF Feed!Next
  <1>5. CASE UNCHANGED vars
    BY <1>5 DEF vars, Feed!vars
  <1> QED
    BY <1>1, <1>2, <1>3, <1>4, <1>5 DEF Next

\* When payloads are what their offsets say, a session implements ChainFeed (README.md:150,
\* session.rs:163 and 194-205): per stream exactly the events up to its position, and
\* caught up only where its tip was announced, for any number of restarts and checkpoints.
THEOREM SessionImplementsFeed == Mislabelled = {} => (Spec => ImplementsFeed)
  <1> SUFFICES ASSUME Mislabelled = {} PROVE Spec => ImplementsFeed
    OBVIOUS
  <1>1. Init => FaithfulInv
    BY EmptyTyped, EmptyFaithful, FeedAssumption DEF Init, FaithfulInv, TypeOK, Reachable
  <1>2. Init => Feed!Init
    <2> SUFFICES ASSUME Init PROVE Feed!Init
      OBVIOUS
    <2>1. session = NoSession /\ exports = {}
      BY DEF Init
    <2>2. ~NoSession.open /\ Place(NoSession) = Feed!Genesis
      BY DEF NoSession, Empty, Place, Feed!Genesis
    <2>3. NoSession.wallet = Feed!Contents(Place(NoSession))
      BY EmptyTyped, EmptyFaithful, FaithfulContents
    <2> QED
      BY <2>1, <2>2, <2>3 DEF Feed!Init
  <1>3. FaithfulInv /\ [Next]_vars => FaithfulInv'
    BY FaithfulStep
  <1>4. FaithfulInv /\ FaithfulInv' /\ [Next]_vars => [Feed!Next]_Feed!vars
    BY FeedStep
  <1> QED
    BY <1>1, <1>2, <1>3, <1>4, PTL DEF Spec, ImplementsFeed, Feed!Spec

=============================================================================
