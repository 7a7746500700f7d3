---------------------------- MODULE MCSyncStream ----------------------------
(* Instances of SyncStream for TLC *)
EXTENDS SyncStream

\* shielded and DUST events share one id sequence, so a stream's ids have gaps
TwoFeeds == [shielded |-> {2}, unshielded |-> {1, 2}]
WireFeeds == [dust |-> {1, 3}, shielded |-> {2}]

=============================================================================
