--------------------------- MODULE ProofRoundsProofs ---------------------------
(***************************************************************************)
(* However many requests a transaction has, however they depend on each    *)
(* other and whatever a host resumes with, proving in rounds is proving    *)
(* each request once with its own answer (ProvingOrder).                   *)
(*                                                                         *)
(* An effect id says of which round it is; those of the round that is open *)
(* belong to its requests, one each, so an answer that is addressed to a   *)
(* request is the answer to that request or none.  A request that is open  *)
(* was captured under the answers that are there, so all it depends on is  *)
(* answered.                                                               *)
(***************************************************************************)
EXTENDS ProofRounds, FiniteSetTheorems, WellFoundedInduction, TLAPS

USE RequestAssumption

AnswersMatch == \A k \in Keys : responses[k] \in {k, NoAnswer}

\* what is open was captured under the answers that are there
OpenIsCaptured ==
  status = "pending" =>
    /\ DOMAIN pending # {}
    /\ \A i \in DOMAIN pending : pending[i] \in Captured(responses)

\* ids of this round belong to its requests
AdvertisedByRound ==
  \A a \in advertised :
    /\ a[1][1] \in 1..seq
    /\ a[1][1] = seq => \E i \in DOMAIN pending : a = <<EffectId(seq, i, Len(pending)), pending[i]>>

Inv == TypeOK /\ AnswersMatch /\ OpenIsCaptured /\ AdvertisedByRound

-----------------------------------------------------------------------------
LEMMA KeysFinite == IsFiniteSet(Keys)
  <1>1. Key \in Surjection(Requests, Keys)
    BY DEF Surjection, Keys
  <1> QED
    BY <1>1, FS_Surjection DEF ExistsSurjection

LEMMA LeastOfNat ==
  ASSUME NEW S \in SUBSET Nat, S # {} PROVE \E x \in S : \A y \in S : x <= y
  <1>1. PICK x \in S : \A y \in S : ~(<<y, x>> \in OpToRel(<, Nat))
    BY NatLessThanWellFounded, WFMin
  <1>2. \A y \in S : ~(y < x)
    BY <1>1 DEF OpToRel
  <1> QED
    BY <1>2

LEMMA NoAnswerIsNoKey == NoAnswer \notin Keys /\ Garbage \notin Keys
  BY DEF Keys

LEMMA CapturedKeys ==
  ASSUME NEW resp
  PROVE  /\ Captured(resp) \subseteq Keys /\ IsFiniteSet(Captured(resp))
         /\ \A k \in Captured(resp) : resp[k] = NoAnswer
         /\ \A k \in Captured(resp), r \in Requests :
              Key[r] = k => \A n \in Needs[r] : resp[Key[n]] # NoAnswer
  <1>1. Captured(resp) \subseteq Keys
    BY DEF Captured, Reached, Keys
  <1>2. IsFiniteSet(Captured(resp))
    BY <1>1, KeysFinite, FS_Subset
  <1>3. \A k \in Captured(resp) : resp[k] = NoAnswer
    BY DEF Captured, Has
  <1>4. ASSUME NEW k \in Captured(resp), NEW r \in Requests, Key[r] = k, NEW n \in Needs[r]
        PROVE  resp[Key[n]] # NoAnswer
    <2>1. PICK q \in Reached(resp) : Key[q] = k
      BY DEF Captured
    <2>2. q \in Requests /\ \A m \in Needs[q] : Has(resp, m)
      BY <2>1 DEF Reached
    <2>3. Needs[q] = Needs[r]
      BY <1>4, <2>1, <2>2
    <2> QED
      BY <1>4, <2>2, <2>3 DEF Has
  <1> QED
    BY <1>1, <1>2, <1>3, <1>4

\* a batch is a list of what was captured, and is empty only if nothing was
LEMMA BatchIsList ==
  ASSUME NEW resp, NEW b \in BatchesOf(Captured(resp))
  PROVE  /\ b \in Seq(Keys) /\ DOMAIN b = 1..Len(b)
         /\ \A i \in DOMAIN b : b[i] \in Captured(resp)
         /\ Captured(resp) # {} => DOMAIN b # {}
  <1> DEFINE n == Least(Cardinality(Captured(resp)), MaxBatch)
  <1>1. Cardinality(Captured(resp)) \in Nat
    BY CapturedKeys, FS_CardinalityType
  <1>2. n \in Nat
    BY <1>1 DEF Least
  <1>3. b \in [1..n -> Captured(resp)]
    BY DEF BatchesOf
  <1>4. b \in Seq(Keys) /\ Len(b) = n
    BY <1>2, <1>3, CapturedKeys
  <1>5. ASSUME Captured(resp) # {} PROVE DOMAIN b # {}
    <2>1. Cardinality(Captured(resp)) # 0
      BY <1>5, CapturedKeys, FS_EmptySet
    <2>2. n >= 1
      BY <1>1, <2>1 DEF Least
    <2> QED
      BY <1>2, <1>3, <2>2
  <1> QED
    BY <1>3, <1>4, <1>5

LEMMA EffectIdFirst ==
  ASSUME NEW s, NEW i, NEW n PROVE EffectId(s, i, n)[1] = s
  BY DEF EffectId

\* within a round an id stands for one request
LEMMA EffectIdUnique ==
  ASSUME NEW s, NEW n \in Nat, NEW i \in 1..n, NEW j \in 1..n, EffectId(s, i, n) = EffectId(s, j, n)
  PROVE  i = j
  <1>1. CASE n <= 1
    BY <1>1
  <1>2. CASE ~(n <= 1)
    BY <1>2 DEF EffectId
  <1> QED
    BY <1>1, <1>2

-----------------------------------------------------------------------------
(* What a resume takes in *)

LEMMA DeliverableFields ==
  ASSUME NEW r \in Deliverable
  PROVE  \E a \in advertised : r.id = a[1] /\ r.body \in {a[2], NoAnswer, Garbage}
  BY DEF Deliverable

LEMMA AddressedAnswer ==
  ASSUME Inv, NEW rs \in ResultLists, NEW i \in DOMAIN pending, For(rs, i) # {}, Parses(rs, i)
  PROVE  Body(rs, i) = pending[i]
  <1> DEFINE j == CHOOSE j \in For(rs, i) : TRUE
  <1>1. j \in DOMAIN rs /\ rs[j].id = EffectId(seq, i, Len(pending)) /\ rs[j] \in Deliverable
    BY DEF For, ResultLists
  <1>2. PICK a \in advertised : rs[j].id = a[1] /\ rs[j].body \in {a[2], NoAnswer, Garbage}
    BY <1>1, DeliverableFields
  <1>3. a[1][1] = seq
    <2>1. a[1] = EffectId(seq, i, Len(pending))
      BY <1>1, <1>2
    <2>2. EffectId(seq, i, Len(pending))[1] = seq
      BY EffectIdFirst
    <2> QED
      BY <2>1, <2>2
  <1>4. PICK m \in DOMAIN pending : a = <<EffectId(seq, m, Len(pending)), pending[m]>>
    BY <1>3 DEF Inv, AdvertisedByRound
  <1>5. Len(pending) \in Nat /\ DOMAIN pending = 1..Len(pending)
    BY DEF Inv, TypeOK
  <1>6. m = i
    <2>1. a[1] = EffectId(seq, m, Len(pending))
      BY <1>4
    <2>2. EffectId(seq, m, Len(pending)) = EffectId(seq, i, Len(pending))
      BY <1>1, <1>2, <2>1
    <2> QED
      BY <1>5, <2>2, EffectIdUnique
  <1>7. Body(rs, i) \in {pending[i], NoAnswer, Garbage}
    BY <1>2, <1>4, <1>6 DEF Body
  <1>8. Body(rs, i) \in Keys
    BY DEF Parses
  <1> QED
    BY <1>7, <1>8, NoAnswerIsNoKey

LEMMA DecodedIsFor ==
  ASSUME NEW rs, NEW i \in DOMAIN pending, Decoded(rs, i) = "ok"
  PROVE  For(rs, i) # {}
  BY DEF Decoded

LEMMA AcceptedAnswers ==
  ASSUME Inv, NEW rs \in ResultLists, Verdict(rs) = "ok", NEW i \in DOMAIN pending
  PROVE  Body(rs, i) = pending[i]
  <1> DEFINE bad == {j \in DOMAIN pending : Decoded(rs, j) # "ok"}
  <1>1. SetMatches(rs)
    BY DEF Verdict
  <1>2. ASSUME bad # {} PROVE FALSE
    <2> DEFINE f == CHOOSE j \in bad : \A k \in bad : j <= k
    <2>1. Verdict(rs) = Decoded(rs, f)
      BY <1>1, <1>2 DEF Verdict
    <2>2. \E j \in bad : \A k \in bad : j <= k
      <3>1. bad \subseteq Nat
        BY DEF Inv, TypeOK
      <3> QED
        BY <1>2, <3>1, LeastOfNat
    <2>3. f \in bad
      BY <2>2
    <2> QED
      BY <2>1, <2>3
  <1>3. Decoded(rs, i) = "ok"
    BY <1>2
  <1>4. \A j \in DOMAIN pending : Parses(rs, j)
    BY <1>1, <1>2 DEF Verdict
  <1> QED
    BY <1>3, <1>4, DecodedIsFor, AddressedAnswer

LEMMA MemoizedIs ==
  ASSUME Inv, NEW rs \in ResultLists, Verdict(rs) = "ok"
  PROVE  Memoized(rs) = [k \in Keys |-> IF \E i \in DOMAIN pending : pending[i] = k
                                         THEN k ELSE responses[k]]
  <1>1. ASSUME NEW k \in Keys, \E i \in DOMAIN pending : pending[i] = k
        PROVE  Body(rs, CHOOSE i \in DOMAIN pending : pending[i] = k) = k
    BY <1>1, AcceptedAnswers
  <1> QED
    BY <1>1 DEF Memoized

-----------------------------------------------------------------------------
(* The invariant *)

\* the ids of a round name it
LEMMA AdvertisedNow ==
  ASSUME NEW s, NEW b, NEW a \in Advertised(s, b)
  PROVE  a[1][1] = s /\ \E i \in DOMAIN b : a = <<EffectId(s, i, Len(b)), b[i]>>
  <1>1. PICK i \in DOMAIN b : a = <<EffectId(s, i, Len(b)), b[i]>>
    BY DEF Advertised
  <1>2. a[1] = EffectId(s, i, Len(b))
    BY <1>1
  <1> QED
    BY <1>1, <1>2, EffectIdFirst

\* the state of an operation that has just been started or resumed
LEMMA RoundOpens ==
  ASSUME NEW s \in Nat \ {0}, NEW resp, NEW b \in BatchesOf(Captured(resp)), NEW adv,
         \A a \in adv : a[1][1] \in 1..(s - 1)
  PROVE  \A a \in adv \cup Advertised(s, b) :
           /\ a[1][1] \in 1..s
           /\ a[1][1] = s => \E i \in DOMAIN b : a = <<EffectId(s, i, Len(b)), b[i]>>
  <1>1. ASSUME NEW a \in adv PROVE a[1][1] \in 1..s /\ a[1][1] # s
    <2>1. a[1][1] \in 1..(s - 1)
      BY <1>1
    <2> QED
      BY <2>1
  <1>2. \A a \in Advertised(s, b) :
          a[1][1] = s /\ \E i \in DOMAIN b : a = <<EffectId(s, i, Len(b)), b[i]>>
    BY AdvertisedNow
  <1>3. s \in 1..s
    OBVIOUS
  <1> QED
    BY <1>1, <1>2, <1>3

LEMMA StatusOf ==
  ASSUME NEW resp
  PROVE  /\ StatusAfter(resp) \in {"pending", "complete", "failed"}
         /\ StatusAfter(resp) = "pending" => Captured(resp) # {}
         /\ StatusAfter(resp) = "complete" => \A r \in Requests : resp[Key[r]] # NoAnswer
  BY DEF StatusAfter, Proved, Has

LEMMA InitInv == Init => Inv
  <1> SUFFICES ASSUME Init PROVE Inv
    OBVIOUS
  <1>1. /\ responses = Unanswered /\ status = StatusAfter(responses) /\ seq = 1
        /\ refused \subseteq Keys
    BY DEF Init
  <1>2. responses \in [Keys -> Keys \cup {NoAnswer}] /\ AnswersMatch
    BY <1>1 DEF Unanswered, AnswersMatch
  <1>3. CASE status = "pending"
    <2>1. pending \in BatchesOf(Captured(responses)) /\ advertised = Advertised(1, pending)
      BY <1>1, <1>3 DEF Init
    <2>2. TypeOK
      BY <1>1, <1>2, <1>3, <2>1, BatchIsList DEF TypeOK
    <2>3. OpenIsCaptured
      BY <1>1, <1>3, <2>1, BatchIsList, StatusOf DEF OpenIsCaptured
    <2>4. \A a \in Advertised(1, pending) :
            a[1][1] = 1 /\ \E i \in DOMAIN pending : a = <<EffectId(1, i, Len(pending)), pending[i]>>
      BY AdvertisedNow
    <2>5. AdvertisedByRound
      BY <1>1, <2>1, <2>4 DEF AdvertisedByRound
    <2> QED
      BY <1>2, <2>2, <2>3, <2>5 DEF Inv
  <1>4. CASE status # "pending"
    <2>1. pending = <<>> /\ advertised = {}
      BY <1>4 DEF Init
    <2> QED
      BY <1>1, <1>2, <1>4, <2>1, StatusOf DEF Inv, TypeOK, OpenIsCaptured, AdvertisedByRound
  <1> QED
    BY <1>3, <1>4

LEMMA AdvanceInv ==
  ASSUME Inv, NEW rs \in ResultLists, Advance(rs)
  PROVE  Inv'
  <1>1. responses' = [k \in Keys |-> IF \E i \in DOMAIN pending : pending[i] = k
                                     THEN k ELSE responses[k]]
    BY MemoizedIs DEF Advance
  <1>2. responses' \in [Keys -> Keys \cup {NoAnswer}] /\ AnswersMatch'
    BY <1>1 DEF Inv, TypeOK, AnswersMatch
  <1>3. status' = StatusAfter(responses') /\ UNCHANGED refused /\ seq \in Nat \ {0}
    BY DEF Advance, Inv, TypeOK
  <1>4. status' \in {"pending", "complete", "failed"} /\ refused' \subseteq Keys
    BY <1>3, StatusOf DEF Inv, TypeOK
  <1>5. CASE status' = "pending"
    <2>1. PICK b \in BatchesOf(Captured(responses')) :
            /\ pending' = b /\ seq' = seq + 1
            /\ advertised' = advertised \cup Advertised(seq + 1, b)
      BY <1>5 DEF Advance, NextRound
    <2>2. TypeOK'
      BY <1>2, <1>3, <1>4, <2>1, BatchIsList DEF TypeOK
    <2>3. Captured(responses)' = Captured(responses')
      BY <1>3 DEF Captured, Reached, Has
    <2>4. /\ \A i \in DOMAIN b : b[i] \in Captured(responses')
          /\ Captured(responses') # {}
          /\ DOMAIN b # {}
      BY <1>3, <1>5, <2>1, BatchIsList, StatusOf
    <2>5. OpenIsCaptured'
      BY <2>1, <2>3, <2>4 DEF OpenIsCaptured
    <2>6. \A a \in advertised : a[1][1] \in 1..((seq + 1) - 1)
      BY <1>3 DEF Inv, AdvertisedByRound
    <2>7. \A a \in advertised \cup Advertised(seq + 1, b) :
           /\ a[1][1] \in 1..(seq + 1)
           /\ a[1][1] = seq + 1 => \E i \in DOMAIN b : a = <<EffectId(seq + 1, i, Len(b)), b[i]>>
      BY <1>3, <2>1, <2>6, RoundOpens
    <2>8. AdvertisedByRound'
      BY <2>1, <2>7 DEF AdvertisedByRound
    <2> QED
      BY <1>2, <2>2, <2>5, <2>8 DEF Inv
  <1>6. CASE status' # "pending"
    <2>1. UNCHANGED <<seq, pending, advertised>>
      BY <1>6 DEF Advance
    <2>2. TypeOK'
      BY <1>2, <1>4, <2>1 DEF Inv, TypeOK
    <2> QED
      BY <1>2, <1>6, <2>1, <2>2 DEF Inv, OpenIsCaptured, AdvertisedByRound
  <1> QED
    BY <1>5, <1>6

LEMMA RetireInv ==
  ASSUME Inv, NEW how \in {"failed", "cancelled"}, Retire(how)
  PROVE  Inv'
  <1>1. status' = how /\ UNCHANGED <<seq, pending, responses, refused, advertised>>
    BY DEF Retire
  <1> QED
    BY <1>1 DEF Inv, TypeOK, AnswersMatch, OpenIsCaptured, AdvertisedByRound

\* what a step is
LEMMA Steps ==
  ASSUME Next
  PROVE  \/ UNCHANGED vars
         \/ status = "pending" /\ \E how \in {"failed", "cancelled"} : Retire(how)
         \/ status = "pending" /\ \E rs \in ResultLists : Advance(rs)
  BY DEF Next, HostResume, Resume, Cancel, IsRefused

LEMMA StutterInv == Inv /\ UNCHANGED vars => Inv'
  BY DEF vars, Inv, TypeOK, AnswersMatch, OpenIsCaptured, AdvertisedByRound, Captured, Reached, Has

LEMMA InvStep == Inv /\ [Next]_vars => Inv'
  BY Steps, StutterInv, RetireInv, AdvanceInv

\* TypeOK of ProofRounds, for any transaction and any host
THEOREM ProofRoundsTyped == Spec => []TypeOK
  <1>1. Inv => TypeOK
    BY DEF Inv
  <1> QED
    BY <1>1, InitInv, InvStep, PTL DEF Spec

\* an answer that is memoized for a request is the answer to it (decode_proof_batch,
\* accept_proof_batch), whatever a host sent before, late or twice
THEOREM AnswersStayWithTheirRequests == Spec => []AnswersMatch
  <1>1. Inv => AnswersMatch
    BY DEF Inv
  <1> QED
    BY <1>1, InitInv, InvStep, PTL DEF Spec

-----------------------------------------------------------------------------
(* The refinement *)

Outcome(s) == IF s = "pending" THEN "open" ELSE IF s = "complete" THEN s ELSE "failed"
AnswersOf(resp) == [r \in Requests |-> resp[Key[r]]]

LEMMA InitProves == Init => Proving!Init
  <1> SUFFICES ASSUME Init PROVE Proving!Init
    OBVIOUS
  <1>1. responses = Unanswered /\ status = StatusAfter(responses)
    BY DEF Init
  <1>2. \A r \in Requests : Key[r] \in Keys
    BY DEF Keys
  <1>3. [r \in Requests |-> responses[Key[r]]] = [r \in Requests |-> NoAnswer]
    BY <1>1, <1>2 DEF Unanswered
  <1>4. status = "complete" => Requests = {}
    BY <1>1, <1>2, StatusOf DEF Unanswered
  <1>5. status \in {"pending", "complete", "failed"}
    BY <1>1, StatusOf
  <1> QED
    BY <1>3, <1>4, <1>5 DEF Proving!Init

LEMMA AdvanceProves ==
  ASSUME Inv, status = "pending", NEW rs \in ResultLists, Advance(rs)
  PROVE  Proving!Next
  <1> DEFINE S == {r \in Requests : \E i \in DOMAIN pending : pending[i] = Key[r]}
  <1>1. responses' = [k \in Keys |-> IF \E i \in DOMAIN pending : pending[i] = k
                                     THEN k ELSE responses[k]]
    BY MemoizedIs DEF Advance
  <1>2. \A r \in Requests : Key[r] \in Keys
    BY DEF Keys
  <1>3. DOMAIN pending # {} /\ \A i \in DOMAIN pending : pending[i] \in Captured(responses)
    BY DEF Inv, OpenIsCaptured
  <1>4. S # {}
    <2>1. PICK i \in DOMAIN pending : TRUE
      BY <1>3
    <2>2. pending[i] \in Keys
      BY <1>3, <2>1, CapturedKeys
    <2> QED
      BY <2>1, <2>2 DEF Keys
  <1>5. ASSUME NEW r \in S
        PROVE  /\ responses[Key[r]] = NoAnswer
               /\ \A n \in Needs[r] : n \in Requests /\ responses[Key[n]] # NoAnswer
    BY <1>3, <1>5, CapturedKeys
  <1>6. S \subseteq Proving!Unblocked \ Proving!Answered
    BY <1>5 DEF Proving!Unblocked, Proving!Answered
  <1>7. [r \in Requests |-> responses'[Key[r]]]
          = [r \in Requests |-> IF r \in S THEN Key[r] ELSE responses[Key[r]]]
    BY <1>1, <1>2
  <1>8. status' \in {"pending", "complete", "failed"}
        /\ (status' = "complete" => \A r \in Requests : responses'[Key[r]] # NoAnswer)
    BY StatusOf DEF Advance
  <1>9. PICK T \in SUBSET (Proving!Unblocked \ Proving!Answered) : T = S
    BY <1>6
  <1>10. [r \in Requests |-> responses[Key[r]]]'
           = [r \in Requests |-> IF r \in T THEN Key[r] ELSE responses[Key[r]]]
    BY <1>7, <1>9
  <1>11. Proving!Answer(T)
    BY <1>4, <1>6, <1>8, <1>9, <1>10 DEF Proving!Answer
  <1> QED
    BY <1>11 DEF Proving!Next

LEMMA RetireFails ==
  ASSUME status = "pending", NEW how \in {"failed", "cancelled"}, Retire(how)
  PROVE  Proving!Next
  <1>1. status' = how /\ responses' = responses
    BY DEF Retire
  <1> QED
    BY <1>1 DEF Proving!Next, Proving!Fail

LEMMA StepProves == Inv /\ [Next]_vars => [Proving!Next]_Proving!vars
  <1>1. ASSUME UNCHANGED vars PROVE UNCHANGED Proving!vars
    BY <1>1 DEF vars, Proving!vars
  <1> QED
    BY <1>1, Steps, AdvanceProves, RetireFails

\* proving in rounds is proving: for every transaction, batch size and host
THEOREM RoundsImplementProving == Spec => ImplementsProving
  <1> QED
    BY InitInv, InvStep, InitProves, StepProves, PTL DEF Spec, ImplementsProving, Proving!Spec

=============================================================================
