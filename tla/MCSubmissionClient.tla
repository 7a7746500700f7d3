------------------------- MODULE MCSubmissionClient -------------------------
(* Instances of SubmissionClient for TLC *)
EXTENDS SubmissionClient, TLC

\* two calls at once meet every pair of places in a call
CONSTANTS c1, c2, h1

TwoCalls == {c1, c2}
OneHash  == {h1}

=============================================================================
