------------------------------ MODULE ChainFeed ------------------------------
(***************************************************************************)
(* What a wallet promises about the chain it follows: of each stream it    *)
(* holds every event up to a position, each of them once, and nothing      *)
(* else.  A position only moves forward, except that a wallet opened again *)
(* continues from a checkpoint, and a stream is caught up only from the    *)
(* announcement of its tip until it moves again.  SyncStream implements    *)
(* this with offsets, receipts, forms of batches and checkpoints.          *)
(***************************************************************************)
EXTENDS Naturals

CONSTANTS
  Streams,     \* the streams a wallet follows
  Events,      \* the ids of each stream's events
  MaxOffset    \* the largest event id

VARIABLES
  running,     \* whether a wallet is open
  place,       \* how far each stream has been applied, and which are caught up
  applied,     \* how often each event has been applied to the wallet
  checkpoints  \* places a wallet may be reopened at

vars == <<running, place, applied, checkpoints>>

Ids     == 1..MaxOffset
Genesis == [position |-> [s \in Streams |-> 0], caughtUp |-> {}]

\* every event of the stream up to the position, once
Prefix(s, n) == [id \in Ids |-> IF id \in Events[s] /\ id <= n THEN 1 ELSE 0]
Contents(p)  == [s \in Streams |-> Prefix(s, p.position[s])]

Init ==
  /\ ~running /\ checkpoints = {}
  /\ place = Genesis /\ applied = Contents(Genesis)

Start ==
  /\ ~running /\ running' = TRUE
  /\ place' \in checkpoints \cup {Genesis} /\ applied' = Contents(place')
  /\ UNCHANGED checkpoints

\* a stream moves on, or is read again from its start to where it was
Advance ==
  /\ running
  /\ \E s \in Streams, n \in Ids :
       /\ n >= place.position[s]
       /\ place' = [position |-> [place.position EXCEPT ![s] = n],
                    caughtUp |-> place.caughtUp \ {s}]
       /\ applied' = [applied EXCEPT ![s] = Prefix(s, n)]
  /\ UNCHANGED <<running, checkpoints>>

AnnounceTip ==
  /\ running
  /\ \E s \in Streams : place' = [place EXCEPT !.caughtUp = @ \cup {s}]
  /\ UNCHANGED <<running, applied, checkpoints>>

Checkpoint ==
  /\ running /\ checkpoints' \in SUBSET (checkpoints \cup {place})
  /\ UNCHANGED <<running, place, applied>>

Stop ==
  /\ running /\ running' = FALSE
  /\ place' = Genesis /\ applied' = Contents(Genesis)
  /\ UNCHANGED checkpoints

Next == Start \/ Advance \/ AnnounceTip \/ Checkpoint \/ Stop
Spec == Init /\ [][Next]_vars

=============================================================================
