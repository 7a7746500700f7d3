----------------------------- MODULE ProofRounds -----------------------------
(***************************************************************************)
(* A transaction whose proofs are made elsewhere (transaction.rs,          *)
(* transaction/remote_proof.rs, runtime/resume/transaction.rs).  Proving   *)
(* starts again from the beginning in each round, with the answers         *)
(* collected so far, and stops at every request that has none; these are   *)
(* handed out, at most MaxBatch of them, under the effect ids of the       *)
(* round.  A host resumes the operation with results for these ids.        *)
(*                                                                         *)
(* A body is the key it hashes to.  A host labels truthfully: a result     *)
(* that carries a proof carries it under an id that was advertised for the *)
(* request it proves, now or in an earlier round.  Other than that it may  *)
(* resume with anything at any time: results of an old round, too few, too *)
(* many, twice, in any order, refused or garbled ones.                     *)
(*                                                                         *)
(* One resume is one action: the operation is outside the registry and its *)
(* session locked meanwhile, and OperationLifecycle has the calls that     *)
(* meet it there.  What follows a proved transaction (balancing, another   *)
(* round of proofs for its fee) is also there.                             *)
(***************************************************************************)
EXTENDS Integers, Sequences, FiniteSets

CONSTANTS
  Requests,   \* the proofs that the transaction asks for (the ledger's)
  Needs,      \* the requests whose answers a request's preimage is made from (the ledger's)
  Key,        \* remote_key of each request: the hash of its kind and body, in hash order
  Kind,       \* "check" or "prove", of each key
  MayRefuse,  \* keys whose answers the ledger may find wrong when it replays them
  MaxBatch,   \* MAX_PROOF_BATCH
  NoAnswer,   \* no answer in responses, or a result without a body
  Garbage     \* a body that is no proof

Keys == {Key[r] : r \in Requests}

ASSUME RequestAssumption ==
  /\ IsFiniteSet(Requests)
  /\ Key \in [Requests -> Nat] /\ Kind \in [Keys -> {"check", "prove"}] /\ MayRefuse \subseteq Keys
  /\ Needs \in [Requests -> SUBSET Requests]
  \* requests with one body are one preimage, made from the same answers
  /\ \A r, s \in Requests : Key[r] = Key[s] => Needs[r] = Needs[s]
  /\ MaxBatch \in Nat \ {0}
  /\ NoAnswer \notin Keys /\ Garbage \notin Keys /\ NoAnswer # Garbage

VARIABLES
  status,      \* of the operation: "pending" in the registry, or how it left it
  seq,         \* the last part of its effect id
  pending,     \* its outstanding requests, in the order of their effect ids
  responses,   \* RemoteProofResponses: the answer memoized for each key
  refused,     \* the ledger's: keys whose answers it finds wrong
  advertised   \* history: which key each effect id was handed out for

vars == <<status, seq, pending, responses, refused, advertised>>

-----------------------------------------------------------------------------
(* One replay of the transaction: PausingProver under transaction.prove *)

Has(resp, r) == resp[Key[r]] # NoAnswer

\* a request is reached if nothing it is made from is missing or refused
Reached(resp) ==
  {r \in Requests : \A n \in Needs[r] : Has(resp, n) /\ Key[n] \notin refused}

\* check and prove: captured under its key unless it is answered
Captured(resp) == {Key[r] : r \in {q \in Reached(resp) : ~Has(resp, q)}}

Proved(resp) == refused = {} /\ \A r \in Requests : Has(resp, r)

Least(a, b) == IF a <= b THEN a ELSE b

\* captured_batch: the first MaxBatch of the captured requests, in the order of their keys
IsBatch(keys, b) ==
  /\ b \in [1..Least(Cardinality(keys), MaxBatch) -> keys]
  /\ \A i, j \in DOMAIN b : i < j => b[i] < b[j]
  /\ \A k \in keys : (\A i \in DOMAIN b : b[i] # k) => \A i \in DOMAIN b : b[i] < k

BatchesOf(keys) ==
  {b \in [1..Least(Cardinality(keys), MaxBatch) -> keys] : IsBatch(keys, b)}

-----------------------------------------------------------------------------
(* Effect ids and results *)

\* faulty: the ids of a batch do not say of which round they are
EffectIdUnversioned(s, i, n) == IF n <= 1 THEN <<s>> ELSE <<0, i>>

\* proof_effect_id: a round of one keeps the operation's bare id
EffectId(s, i, n) == IF n <= 1 THEN <<s>> ELSE <<s, i>>

Advertised(s, b) == {<<EffectId(s, i, Len(b)), b[i]>> : i \in DOMAIN b}

Outcomes == {"accepted", "rejected", "other"}    \* "statusUnknown" is taken as "rejected"

\* what a truthful host may send: under an id it was given, the answer to that request,
\* something that is no answer, or nothing
Deliverable ==
  UNION {     [id : {a[1]}, outcome : {"accepted"}, body : {a[2], NoAnswer, Garbage}]
         \cup [id : {a[1]}, outcome : Outcomes, body : {NoAnswer}] : a \in advertised}

-----------------------------------------------------------------------------
(* decode_proof_batch and accept_proof_batch *)

\* resume_operation, before the operation's own handler: one result carries the bare id,
\* several make sense only for a batch
Addressed(rs) ==
  /\ Len(rs) \in 1..MaxBatch
  /\ IF Len(rs) > 1 THEN Len(pending) >= 2 ELSE rs[1].id = <<seq>>

SetMatches(rs) ==
  /\ Len(rs) = Len(pending)
  /\ \A i, j \in DOMAIN rs : rs[i].id = rs[j].id => i = j

For(rs, i) == {j \in DOMAIN rs : rs[j].id = EffectId(seq, i, Len(pending))}

\* how the decoding of the i-th outstanding request ends
Decoded(rs, i) ==
  IF For(rs, i) = {} THEN "invalid"
  ELSE LET r == rs[CHOOSE j \in For(rs, i) : TRUE]
       IN  IF r.outcome = "accepted" THEN IF r.body = NoAnswer THEN "failed" ELSE "ok"
           ELSE IF r.outcome = "other" THEN "invalid" ELSE "failed"

Body(rs, i) == rs[CHOOSE j \in For(rs, i) : TRUE].body

\* accept: a body must parse as an answer of the request's kind
Parses(rs, i) == Body(rs, i) \in Keys /\ Kind[Body(rs, i)] = Kind[pending[i]]

\* the first request that does not decode decides how the resume ends
Verdict(rs) ==
  IF ~SetMatches(rs) THEN "invalid"
  ELSE LET bad == {i \in DOMAIN pending : Decoded(rs, i) # "ok"}
       IN  IF bad # {} THEN Decoded(rs, CHOOSE i \in bad : \A j \in bad : i <= j)
           ELSE IF \A i \in DOMAIN pending : Parses(rs, i) THEN "ok" ELSE "failed"

Memoized(rs) ==
  [k \in Keys |-> IF \E i \in DOMAIN pending : pending[i] = k
                  THEN Body(rs, CHOOSE i \in DOMAIN pending : pending[i] = k)
                  ELSE responses[k]]

-----------------------------------------------------------------------------
(* The operation *)

\* a replay ends proved, with requests to hand out, or with an error and none
StatusAfter(resp) ==
  IF Proved(resp) THEN "complete" ELSE IF Captured(resp) = {} THEN "failed" ELSE "pending"

\* the requests of the next round and its effect ids
NextRound(s, resp) ==
  \E b \in BatchesOf(Captured(resp)) :
    /\ pending' = b /\ seq' = s
    /\ advertised' = advertised \cup Advertised(s, b)

Unanswered == [k \in Keys |-> NoAnswer]

\* the command that builds the transaction and registers the operation
Init ==
  /\ refused \in SUBSET MayRefuse
  /\ responses = Unanswered /\ status = StatusAfter(Unanswered) /\ seq = 1
  /\ IF status = "pending"
     THEN pending \in BatchesOf(Captured(Unanswered)) /\ advertised = Advertised(1, pending)
     ELSE pending = <<>> /\ advertised = {}

\* INVALID_ARGUMENT and STALE_SESSION: the operation is as it was
IsRefused(rs) == status # "pending" \/ ~Addressed(rs) \/ Verdict(rs) = "invalid"

Retire(how) == status' = how /\ UNCHANGED <<seq, pending, responses, refused, advertised>>

\* FinalizeTransactionProof resumed with results that match its round
Advance(rs) ==
  /\ ~IsRefused(rs) /\ Verdict(rs) = "ok"
  /\ responses' = Memoized(rs) /\ status' = StatusAfter(responses')
  /\ IF status' = "pending" THEN NextRound(seq + 1, responses')
     ELSE UNCHANGED <<seq, pending, advertised>>
  /\ UNCHANGED refused

Resume(rs) ==
  \/ IsRefused(rs) /\ UNCHANGED vars
  \/ ~IsRefused(rs) /\ Verdict(rs) = "failed" /\ Retire("failed")
  \/ Advance(rs)

\* cancel_operation, or the close of its session
Cancel == status = "pending" /\ Retire("cancelled")

\* a list of another length is refused whatever it holds
ResultLists == [1..Len(pending) -> Deliverable]

\* a host that keeps every id it was ever given; a refused list leaves everything as it is
HostResume == status = "pending" /\ \E rs \in ResultLists : ~IsRefused(rs) /\ Resume(rs)

Next == HostResume \/ Cancel
Spec == Init /\ [][Next]_vars

-----------------------------------------------------------------------------
(* Properties *)

TypeOK ==
  /\ status \in {"pending", "complete", "failed", "cancelled"}
  /\ seq \in Nat \ {0} /\ pending \in Seq(Keys)
  /\ responses \in [Keys -> Keys \cup {NoAnswer}] /\ refused \subseteq Keys

Proving == INSTANCE ProvingOrder WITH
  Own <- Key,
  answers <- [r \in Requests |-> responses[Key[r]]],
  outcome <- IF status = "pending" THEN "open" ELSE IF status = "complete" THEN status ELSE "failed"

\* transaction.rs:58, operation_helpers.rs:167 and transaction.rs:28 ("emitting a subset is
\* always correct"): however proving is cut into rounds, replayed and disturbed by a host,
\* it is proving each request once, with its own answer, in a possible order
ImplementsProving == Proving!Spec

=============================================================================
