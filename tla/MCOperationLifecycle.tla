------------------------ MODULE MCOperationLifecycle ------------------------
(* Instances of OperationLifecycle for TLC *)
EXTENDS OperationLifecycle, TLC

\* no checkpoint; one that another session of this process may have written; one
\* whose generation leaves no room for a later session
MCCheckpoints ==
  { [generation |-> 0, offset |-> 0, pending |-> [h \in Hashes |-> "absent"]],
    [generation |-> 2, offset |-> 1, pending |-> [h \in Hashes |-> "unknown"]],
    [generation |-> MaxCounter - 1, offset |-> 1, pending |-> [h \in Hashes |-> "rejected"]] }

NoCheckpoint == {[generation |-> 0, offset |-> 0, pending |-> [h \in Hashes |-> "absent"]]}

ThreadSymmetry == Permutations(Threads)

=============================================================================
