--------------------------- MODULE MCProofTransport ---------------------------
(* An instance of ProofTransport for TLC *)
EXTENDS ProofTransport

\* a round of three, one of two and one of one: "b" and "c" have one body, "e" and "f" need
\* what the first round brings, and "g" the check of the second
MCRequests == {"a", "b", "c", "d", "e", "f", "g"}
MCNeeds == [r \in MCRequests |->
  CASE r = "e" -> {"a"} [] r = "f" -> {"a", "b"} [] r = "g" -> {"e"} [] OTHER -> {}]
MCKey  == [a |-> 1, b |-> 2, c |-> 2, d |-> 3, e |-> 4, f |-> 5, g |-> 6]
MCKind == [k \in 1..6 |-> IF k = 4 THEN "check" ELSE "prove"]

===============================================================================
