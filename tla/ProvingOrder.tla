----------------------------- MODULE ProvingOrder -----------------------------
(***************************************************************************)
(* What it means to prove a transaction: each of its requests gets its own *)
(* answer, once, after the answers it depends on; the transaction is       *)
(* complete with the last one, or it fails.  Nothing is said of rounds,    *)
(* batches, effect ids or hosts.  ProofRounds implements this.             *)
(***************************************************************************)
CONSTANTS
  Requests,   \* the proofs the transaction asks for
  Needs,      \* what each of them depends on
  Own,        \* the answer that belongs to each of them
  NoAnswer

VARIABLES
  answers,    \* the answer each request has got
  outcome     \* "open", "complete" or "failed"

vars == <<answers, outcome>>

Answered  == {r \in Requests : answers[r] # NoAnswer}
Unblocked == {r \in Requests : Needs[r] \subseteq Answered}

Init ==
  /\ answers = [r \in Requests |-> NoAnswer]
  /\ \/ outcome \in {"open", "failed"}
     \/ Requests = {} /\ outcome = "complete"

Answer(S) ==
  /\ outcome = "open" /\ S # {} /\ S \subseteq Unblocked \ Answered
  /\ answers' = [r \in Requests |-> IF r \in S THEN Own[r] ELSE answers[r]]
  /\ \/ outcome' \in {"open", "failed"}
     \/ outcome' = "complete" /\ \A r \in Requests : answers'[r] # NoAnswer

Fail == outcome = "open" /\ outcome' = "failed" /\ UNCHANGED answers

Next == (\E S \in SUBSET (Unblocked \ Answered) : Answer(S)) \/ Fail
Spec == Init /\ [][Next]_vars

===============================================================================
