------------------------ MODULE SubmissionClientProofs ------------------------
(***************************************************************************)
(* Theorems about SubmissionClient, for any number of calls, transactions  *)
(* and sessions.  Whatever the host promises, every status that is written *)
(* is what the node said, and no call leaves the session occupied.  Under  *)
(* the host's two promises no transaction is sent twice, what is sent is   *)
(* awaited, and what was reported is saved.                                *)
(***************************************************************************)
EXTENDS SubmissionClient, TLAPS

-----------------------------------------------------------------------------
(* The inductive invariant                                                 *)

Known(R, h)   == R[h] # "absent"
InProgress(c) == pc[c] # "idle"
Opening(c)    == pc[c] \in {"load", "open"}
Closing(c)    == InProgress(c) /\ call[c].kind = "close"
Commanding(c) == InProgress(c) /\ call[c].kind = "submit" /\ ~call[c].aborted

\* which session a call belongs to, and what a command that was not aborted may rely on
CallRight(c) ==
  /\ call[c].session <= opened
  /\ InProgress(c) => (Opening(c) <=> call[c].kind = "open")
  /\ Opening(c) => record = 0 /\ opened < MaxSessions
  /\ InProgress(c) /\ ~Opening(c) => call[c].session # 0
  /\ InProgress(c) /\ call[c].kind = "submit" => call[c].hash \in Hashes
  /\ pc[c] \in {"step", "saved", "waiting", "resume", "cancel"} => call[c].kind = "submit"
  /\ pc[c] \in {"closing", "closed"} => call[c].kind = "close"
  /\ pc[c] = "cancelAll" => call[c].kind # "submit"
  /\ pc[c] = "closed" => native.session # call[c].session
  /\ Commanding(c) => call[c].session = record /\ native.session = record

SessionsRight ==
  /\ native.session \in {0, record} /\ record <= opened
  /\ record # 0 /\ native.session # record =>
       \E u \in Calls : pc[u] = "closed" /\ call[u].session = record
  /\ \A c \in Calls : CallRight(c)
  /\ \A c, u \in Calls : Commanding(c) => ~Closing(u)
  /\ \A c, u \in Calls : Opening(c) /\ Opening(u) => c = u

\* older is the order in which the checkpoints that are being saved were exported
Saving(c)  == pc[c] = "save"
OrderRight ==
  \A c, u, v \in Calls :
    Saving(v) /\ v \in call[c].older /\ Saving(c) /\ c \in call[u].older /\ Saving(u)
      => v \in call[u].older

\* a save that will replace what is in the store
Fresh(c) == Saving(c) /\ c \notin superseded
Settles(h) == Known(store, h) /\ \A u \in Calls : Fresh(u) => Known(call[u].checkpoint, h)

\* a command that may still send h
MaySend(c, h) ==
  /\ Commanding(c) /\ call[c].step = "network" /\ call[c].hash = h
  /\ pc[c] \in {"step", "export", "save", "saved"}

\* what was sent is known wherever the next session may come from
SentKnown ==
  \A h \in Hashes : sent[h] > 0 =>
    /\ Settles(h)
    /\ native.session # 0 => Known(native.pending, h)
    /\ \A c \in Calls : pc[c] = "open" => Known(call[c].checkpoint, h)

\* what may be sent is new, and known in the session and to every later checkpoint
New(c, h) ==
  /\ sent[h] = 0 /\ Known(native.pending, h)
  /\ \A u \in Calls \ {c} : ~MaySend(u, h)
  /\ Saving(c) /\ c \notin superseded =>
       /\ Known(call[c].checkpoint, h)
       /\ \A u \in Calls : Fresh(u) /\ u \notin call[c].older => Known(call[u].checkpoint, h)
  /\ Saving(c) => \A u \in Calls : Saving(u) /\ c \in call[u].older => Known(call[u].checkpoint, h)
  /\ Saving(c) /\ c \in superseded => Settles(h)
  /\ pc[c] = "saved" => Settles(h)
NewKnown == \A c \in Calls, h \in Hashes : MaySend(c, h) => New(c, h)

SendInv       == SessionsRight /\ OrderRight /\ SentKnown /\ NewKnown /\ NeverSentTwice
SubmissionInv == TypeOK /\ SendInv

Promised == HostRules = {"keepNewest", "closeLast"}

USE HostAssumption

-----------------------------------------------------------------------------
(* What the actions do to the calls                                        *)

LEMMA BlankTyped ==
  /\ Blank \in CallType /\ Blank.kind = "submit" /\ Blank.session = 0
  /\ Blank.step = "network" /\ Blank.hash = NoHash /\ ~Blank.aborted
BY DEF Blank, CallType, Kinds, Checkpoints, NoStatus, Statuses, NoHash

LEMMA ClosedTyped ==
  /\ Closed.session = 0
  /\ Closed \in [session : Nat, pending : Checkpoints, active : Hashes \cup {NoHash}]
BY DEF Closed, NoStatus, Checkpoints, Statuses

\* a call that moves on, and one that ends
LEMMA GotoTyped ==
  ASSUME TypeOK, NEW c \in Calls, NEW next \in PCs, Goto(c, next)
  PROVE  /\ pc' \in [Calls -> PCs] /\ pc'[c] = next
         /\ \A u \in Calls \ {c} : pc'[u] = pc[u]
BY DEF TypeOK, Goto

LEMMA EndTyped ==
  ASSUME TypeOK, NEW c \in Calls, End(c)
  PROVE  /\ pc' \in [Calls -> PCs] /\ pc'[c] = "idle"
         /\ \A u \in Calls \ {c} : pc'[u] = pc[u]
         /\ call' \in [Calls -> CallType] /\ call'[c] = Blank
         /\ \A u \in Calls \ {c} : call'[u] = call[u]
BY BlankTyped DEF TypeOK, End, Goto, PCs

LEMMA CancelledTyped ==
  ASSUME TypeOK, NEW s, NEW h \in Hashes
  PROVE  /\ Cancelled(s, h) \in [session : Nat, pending : Checkpoints, active : Hashes \cup {NoHash}]
         /\ Cancelled(s, h).session = native.session
         /\ \A g \in Hashes : Known(native.pending, g) => Known(Cancelled(s, h).pending, g)
BY DEF TypeOK, Cancelled, Checkpoints, Statuses, Known

LEMMA StartedTyped ==
  ASSUME TypeOK, NEW kind \in Kinds, NEW operations \in SUBSET Hashes
  PROVE  /\ Started(kind, operations) \in CallType
         /\ Started(kind, operations).kind = kind
         /\ Started(kind, operations).session = record
         /\ ~Started(kind, operations).aborted
BY BlankTyped DEF TypeOK, Started, CallType, Blank

Command(h, signal) == [Blank EXCEPT !.hash = h, !.session = record, !.signal = signal]

LEMMA CommandTyped ==
  ASSUME TypeOK, NEW h \in Hashes, NEW signal \in BOOLEAN
  PROVE  /\ Command(h, signal) \in CallType
         /\ Command(h, signal).kind = "submit" /\ Command(h, signal).hash = h
         /\ Command(h, signal).session = record
BY BlankTyped DEF TypeOK, CallType, Blank, Command

\* one call is replaced by another record
LEMMA CallReplaced ==
  ASSUME TypeOK, NEW c \in Calls, NEW r \in CallType, call' = [call EXCEPT ![c] = r]
  PROVE  call' \in [Calls -> CallType] /\ call'[c] = r /\ \A u \in Calls \ {c} : call'[u] = call[u]
BY DEF TypeOK

\* one or two fields of a call are written
LEMMA AnswerWritten ==
  ASSUME NEW r \in CallType, NEW answer \in Settled \cup {"unknown"}
  PROVE  /\ [r EXCEPT !.answer = answer] \in CallType
         /\ LET n == [r EXCEPT !.answer = answer]
            IN  n.kind = r.kind /\ n.session = r.session /\ n.hash = r.hash /\ n.step = r.step
                /\ n.aborted = r.aborted /\ n.checkpoint = r.checkpoint /\ n.older = r.older
BY DEF CallType

LEMMA CompletedWritten ==
  ASSUME NEW r \in CallType
  PROVE  /\ [r EXCEPT !.step = "complete"] \in CallType
         /\ LET n == [r EXCEPT !.step = "complete"]
            IN  n.kind = r.kind /\ n.session = r.session /\ n.hash = r.hash /\ n.step = "complete"
                /\ n.aborted = r.aborted /\ n.checkpoint = r.checkpoint /\ n.older = r.older
BY DEF CallType

LEMMA SignalWritten ==
  ASSUME NEW r \in CallType
  PROVE  /\ [r EXCEPT !.signal = TRUE, !.aborted = TRUE] \in CallType
         /\ LET n == [r EXCEPT !.signal = TRUE, !.aborted = TRUE]
            IN  n.kind = r.kind /\ n.session = r.session /\ n.hash = r.hash /\ n.step = r.step
                /\ n.aborted /\ n.checkpoint = r.checkpoint /\ n.older = r.older
BY DEF CallType

LEMMA OperationsWritten ==
  ASSUME NEW r \in CallType, NEW h
  PROVE  /\ [r EXCEPT !.operations = @ \ {h}] \in CallType
         /\ LET n == [r EXCEPT !.operations = @ \ {h}]
            IN  n.kind = r.kind /\ n.session = r.session /\ n.hash = r.hash /\ n.step = r.step
                /\ n.aborted = r.aborted /\ n.checkpoint = r.checkpoint /\ n.older = r.older
BY DEF CallType

LEMMA OlderWritten ==
  ASSUME NEW r \in CallType, NEW c
  PROVE  /\ [r EXCEPT !.older = @ \ {c}] \in CallType
         /\ LET n == [r EXCEPT !.older = @ \ {c}]
            IN  n.kind = r.kind /\ n.session = r.session /\ n.hash = r.hash /\ n.step = r.step
                /\ n.aborted = r.aborted /\ n.checkpoint = r.checkpoint /\ n.older = r.older \ {c}
BY DEF CallType

-----------------------------------------------------------------------------
(* Steps of one call                                                       *)

\* the other calls stay, and so does what they share
Only(c) == \A u \in Calls \ {c} : pc'[u] = pc[u] /\ call'[u] = call[u]

SharedStays ==
  /\ record' = record /\ opened' = opened /\ store' = store /\ superseded' = superseded
  /\ sent' = sent /\ native'.session = native.session
  /\ \A h \in Hashes : Known(native.pending, h) => Known(native'.pending, h)

\* the same, but for the order of the saves
Apart(c) ==
  \A u \in Calls \ {c} :
    /\ pc'[u] = pc[u] /\ call'[u].kind = call[u].kind /\ call'[u].session = call[u].session
    /\ call'[u].hash = call[u].hash /\ call'[u].step = call[u].step
    /\ call'[u].aborted = call[u].aborted /\ call'[u].checkpoint = call[u].checkpoint

LEMMA ApartSessions ==
  ASSUME TypeOK, SessionsRight, NEW c \in Calls, Apart(c), pc[c] # "closed",
         record' = record, opened' = opened, native'.session = native.session,
         CallRight(c)',
         Commanding(c)' => Commanding(c) \/ \A u \in Calls : ~Closing(u),
         Closing(c)' => Closing(c),
         Opening(c)' => Opening(c) \/ \A u \in Calls : ~Opening(u)
  PROVE  SessionsRight'
<1>1. \A u \in Calls \ {c} : /\ CallRight(u)' /\ Commanding(u)' = Commanding(u)
                             /\ Closing(u)' = Closing(u) /\ Opening(u)' = Opening(u)
  BY DEF SessionsRight, CallRight, Apart, InProgress, Opening, Closing, Commanding
<1>2. /\ native'.session \in {0, record'} /\ record' <= opened'
      /\ record' # 0 /\ native'.session # record' =>
           \E u \in Calls : pc'[u] = "closed" /\ call'[u].session = record'
  BY DEF SessionsRight, Apart
<1>3. \A u \in Calls : CallRight(u)'
  BY <1>1
<1>4. \A u, v \in Calls : Commanding(u)' => ~Closing(v)'
  <2> SUFFICES ASSUME NEW u \in Calls, NEW v \in Calls, Commanding(u)', Closing(v)' PROVE FALSE
    OBVIOUS
  <2>1. Closing(v)
    BY <1>1
  <2>2. Commanding(u) \/ \A w \in Calls : ~Closing(w)
    BY <1>1
  <2> QED BY <2>1, <2>2 DEF SessionsRight
<1>5. \A u, v \in Calls : Opening(u)' /\ Opening(v)' => u = v
  <2> SUFFICES ASSUME NEW u \in Calls, NEW v \in Calls, Opening(u)', Opening(v)', u # v PROVE FALSE
    OBVIOUS
  <2>1. Opening(u) \/ Opening(v)
    BY <1>1
  <2>2. Opening(u) /\ Opening(v)
    BY <1>1, <2>1
  <2> QED BY <2>2 DEF SessionsRight
<1> QED BY <1>2, <1>3, <1>4, <1>5 DEF SessionsRight

LEMMA LocalSessions ==
  ASSUME TypeOK, SessionsRight, NEW c \in Calls, Only(c), pc[c] # "closed",
         record' = record, opened' = opened, native'.session = native.session,
         CallRight(c)',
         Commanding(c)' => Commanding(c) \/ \A u \in Calls : ~Closing(u),
         Closing(c)' => Closing(c),
         Opening(c)' => Opening(c) \/ \A u \in Calls : ~Opening(u)
  PROVE  SessionsRight'
BY ApartSessions DEF Only, Apart

\* what a call that does not export or save leaves of the saves
Keeps(c) ==
  /\ pc'[c] = "save" => /\ pc[c] = "save" /\ call'[c].checkpoint = call[c].checkpoint
                        /\ call'[c].older = call[c].older
  /\ pc'[c] = "saved" => pc[c] = "saved"
  /\ pc'[c] = "open" => pc[c] = "open" /\ call'[c].checkpoint = call[c].checkpoint

\* a command that may send h from now on
Begun(c, h) ==
  /\ pc'[c] = "step" /\ sent[h] = 0 /\ Known(native'.pending, h)
  /\ \A u \in Calls : ~MaySend(u, h)

LEMMA LocalSaves ==
  ASSUME OrderRight, SentKnown, NewKnown, NeverSentTwice, NEW c \in Calls,
         Only(c), SharedStays, Keeps(c),
         \A h \in Hashes : MaySend(c, h)' => MaySend(c, h) \/ Begun(c, h)
  PROVE  OrderRight' /\ SentKnown' /\ NewKnown' /\ NeverSentTwice'
<1>1. \A u \in Calls :
        /\ Saving(u)' => /\ Saving(u) /\ call'[u].checkpoint = call[u].checkpoint
                         /\ call'[u].older = call[u].older
        /\ pc'[u] = "saved" => pc[u] = "saved"
        /\ pc'[u] = "open" => pc[u] = "open" /\ call'[u].checkpoint = call[u].checkpoint
        /\ \A h \in Hashes : MaySend(u, h)' => MaySend(u, h) \/ (u = c /\ Begun(c, h))
        /\ Fresh(u)' => Fresh(u)
  BY DEF Only, Keeps, Saving, Fresh, MaySend, Commanding, InProgress, SharedStays
<1>2. OrderRight'
  BY <1>1 DEF OrderRight
<1>3. \A h \in Hashes : Settles(h) => Settles(h)'
  BY <1>1 DEF Settles, SharedStays, Known, Fresh
<1>4. SentKnown'
  BY <1>1, <1>3 DEF SentKnown, SharedStays, Known
<1>5. ASSUME NEW u \in Calls, NEW h \in Hashes, MaySend(u, h)', MaySend(u, h)
      PROVE  New(u, h)'
  <2>1. New(u, h)
    BY <1>5 DEF NewKnown
  <2>2. /\ sent'[h] = 0 /\ Known(native'.pending, h)
        /\ \A v \in Calls \ {u} : ~MaySend(v, h)'
    BY <1>1, <1>5, <2>1 DEF New, SharedStays, Begun
  <2>3. ASSUME Saving(u)', u \notin superseded'
        PROVE  /\ Known(call'[u].checkpoint, h)
               /\ \A v \in Calls : Fresh(v)' /\ v \notin call'[u].older
                                     => Known(call'[v].checkpoint, h)
    BY <1>1, <2>1, <2>3 DEF New, SharedStays, Fresh
  <2>4. ASSUME Saving(u)', NEW v \in Calls, Saving(v)', u \in call'[v].older
        PROVE  Known(call'[v].checkpoint, h)
    BY <1>1, <2>1, <2>4 DEF New
  <2>5. Saving(u)' /\ u \in superseded' => Settles(h)'
    BY <1>1, <1>3, <2>1 DEF New, SharedStays
  <2>6. pc'[u] = "saved" => Settles(h)'
    BY <1>1, <1>3, <2>1 DEF New
  <2> QED BY <2>2, <2>3, <2>4, <2>5, <2>6 DEF New, Known
<1>6. ASSUME NEW h \in Hashes, MaySend(c, h)', Begun(c, h)
      PROVE  New(c, h)'
  <2>1. \A v \in Calls \ {c} : ~MaySend(v, h)'
    BY <1>1, <1>6 DEF Begun
  <2>2. sent'[h] = 0 /\ Known(native'.pending, h) /\ pc'[c] = "step"
    BY <1>6 DEF Begun, SharedStays
  <2> QED BY <2>1, <2>2 DEF New, Saving
<1>7. NeverSentTwice'
  BY DEF NeverSentTwice, SharedStays
<1> QED BY <1>1, <1>2, <1>4, <1>5, <1>6, <1>7 DEF NewKnown
\* a call that moves on within its kind
Alike(n, r) ==
  /\ n.kind = r.kind /\ n.session = r.session /\ n.hash = r.hash
  /\ n.step \in {r.step, "complete"} /\ (r.aborted => n.aborted)

MovesOn(c) ==
  /\ Alike(call'[c], call[c]) /\ pc[c] \notin {"idle", "closed"}
  /\ pc'[c] \notin {"idle", "closed"} /\ (Opening(c)' <=> Opening(c))
  /\ pc'[c] \in {"step", "saved", "waiting", "resume", "cancel"} => call[c].kind = "submit"
  /\ pc'[c] = "closing" => call[c].kind = "close"
  /\ pc'[c] = "cancelAll" => pc[c] = "cancelAll"
  /\ pc'[c] \in {"step", "export", "save", "saved"} =>
       \/ pc[c] \in {"step", "export", "save", "saved"}
       \/ call[c].kind # "submit" \/ call'[c].step = "complete"

LEMMA MovesOnKeeps ==
  ASSUME SubmissionInv, NEW c \in Calls, Only(c), SharedStays, Keeps(c), MovesOn(c)
  PROVE  SendInv'
<1> USE DEF SubmissionInv, SendInv
<1>1. CallRight(c)
  BY DEF SessionsRight
<1>2. CallRight(c)'
  BY <1>1 DEF CallRight, MovesOn, Alike, SharedStays, InProgress, Opening, Commanding
<1>3. (Commanding(c)' => Commanding(c)) /\ (Closing(c)' => Closing(c)) /\ (Opening(c)' => Opening(c))
  BY DEF MovesOn, Alike, Commanding, Closing, InProgress
<1>4. SessionsRight'
  BY <1>2, <1>3, LocalSessions DEF MovesOn, SharedStays
<1>5. \A h \in Hashes : MaySend(c, h)' => MaySend(c, h)
  BY DEF MovesOn, Alike, MaySend, Commanding, InProgress
<1> QED BY <1>4, <1>5, LocalSaves

LEMMA EndKeeps ==
  ASSUME SubmissionInv, NEW c \in Calls, End(c), SharedStays, pc[c] # "closed"
  PROVE  SendInv'
<1> USE DEF SubmissionInv, SendInv
<1>1. pc'[c] = "idle" /\ call'[c] = Blank /\ Only(c)
  BY EndTyped DEF Only
<1>2. CallRight(c)'
  BY <1>1, BlankTyped DEF CallRight, InProgress, Opening, Commanding, SharedStays, TypeOK
<1>3. ~Commanding(c)' /\ ~Closing(c)' /\ ~Opening(c)'
  BY <1>1 DEF Commanding, Closing, Opening, InProgress
<1>4. SessionsRight'
  BY <1>1, <1>2, <1>3, LocalSessions DEF SharedStays
<1>5. \A h \in Hashes : ~MaySend(c, h)'
  BY <1>3 DEF MaySend
<1>6. Keeps(c)
  BY <1>1 DEF Keeps
<1> QED BY <1>1, <1>4, <1>5, <1>6, LocalSaves

\* where an error leaves a call
LEMMA FailKeeps ==
  ASSUME SubmissionInv, NEW c \in Calls, Fail(c), SharedStays, pc[c] \in {"export", "save"}
  PROVE  SendInv'
<1>1. CASE End(c)
  BY <1>1, EndKeeps
<1>2. CASE ~End(c)
  <2>1. CallRight(c) /\ pc[c] \notin {"idle", "load", "open"}
    BY DEF SubmissionInv, SendInv, SessionsRight
  <2>2. call[c].kind \in {"submit", "close"}
    BY <1>2, <2>1 DEF Fail, CallRight, InProgress, Opening, SubmissionInv, TypeOK, CallType, Kinds
  <2>3. /\ pc' \in [Calls -> PCs] /\ Only(c) /\ call' = call
        /\ pc'[c] = IF call[c].kind = "submit" THEN "cancel" ELSE "closing"
    BY <1>2, GotoTyped DEF Fail, Only, PCs, SubmissionInv
  <2>4. MovesOn(c) /\ Keeps(c)
    BY <2>1, <2>2, <2>3 DEF MovesOn, Keeps, Alike, Opening
  <2> QED BY <2>3, <2>4, MovesOnKeeps
<1> QED BY <1>1, <1>2

-----------------------------------------------------------------------------
(* The actions that write more than one call, or more than a field          *)

\* the other calls stay, but for the order of the saves and what is aborted
Aside(c) ==
  \A u \in Calls \ {c} :
    /\ pc'[u] = pc[u] /\ call'[u].kind = call[u].kind /\ call'[u].session = call[u].session
    /\ call'[u].hash = call[u].hash /\ call'[u].step = call[u].step
    /\ call'[u].checkpoint = call[u].checkpoint /\ call'[u].answer = call[u].answer
    /\ call'[u].operations = call[u].operations

\* what a new record of a call holds
LEMMA NewRecords ==
  /\ Blank.answer = "unknown" /\ Blank.checkpoint = NoStatus /\ Blank.operations = {}
  /\ \A h, signal : /\ Command(h, signal).answer = "unknown" /\ Command(h, signal).step = "network"
                    /\ Command(h, signal).checkpoint = NoStatus
                    /\ Command(h, signal).operations = {}
  /\ \A kind, operations : /\ Started(kind, operations).answer = "unknown"
                           /\ Started(kind, operations).step = "network"
                           /\ Started(kind, operations).checkpoint = NoStatus
                           /\ Started(kind, operations).operations = operations
BY DEF Blank, Command, Started

\* what pause and close leave of the other calls
LEMMA SuspendFacts ==
  ASSUME TypeOK, NEW c \in Calls, NEW kind \in {"pause", "close"}, Suspend(c, kind)
  PROVE  /\ pc[c] = "idle" /\ pc'[c] = "cancelAll" /\ record # 0 /\ tracked' = {}
         /\ record' = record /\ opened' = opened /\ native' = native /\ store' = store
         /\ superseded' = superseded /\ sent' = sent /\ node' = node /\ reported' = reported
         /\ call'[c].kind = kind /\ call'[c].session = record /\ call'[c].operations = tracked
         /\ call'[c].answer = "unknown" /\ call'[c].checkpoint = NoStatus
         /\ Aside(c) /\ pc' \in [Calls -> PCs] /\ call' \in [Calls -> CallType]
         /\ \A u \in Calls \ {c} : call'[u].older = call[u].older
<1>1. /\ pc[c] = "idle" /\ record # 0 /\ Goto(c, "cancelAll") /\ tracked' = {}
      /\ record' = record /\ opened' = opened /\ native' = native /\ store' = store
      /\ superseded' = superseded /\ sent' = sent /\ node' = node /\ reported' = reported
      /\ tracked \in SUBSET Hashes
  BY DEF Suspend, world, TypeOK
<1>2. /\ pc' \in [Calls -> PCs] /\ pc'[c] = "cancelAll" /\ \A u \in Calls \ {c} : pc'[u] = pc[u]
  BY <1>1, GotoTyped DEF PCs
<1>3. /\ Started(kind, tracked) \in CallType /\ Started(kind, tracked).kind = kind
      /\ Started(kind, tracked).session = record
  BY <1>1, StartedTyped DEF Kinds
<1>4. call'[c] = Started(kind, tracked)
  BY DEF Suspend
<1>5. \A u \in Calls \ {c} : /\ call'[u] \in CallType /\ call'[u].kind = call[u].kind
        /\ call'[u].session = call[u].session /\ call'[u].hash = call[u].hash
        /\ call'[u].checkpoint = call[u].checkpoint /\ call'[u].older = call[u].older
        /\ call'[u].step = call[u].step /\ call'[u].answer = call[u].answer
        /\ call'[u].operations = call[u].operations
  <2> TAKE u \in Calls \ {c}
  <2> DEFINE r == [call[u] EXCEPT !.aborted = TRUE]
  <2>1. call[u] \in CallType
    BY DEF TypeOK
  <2>2. /\ r \in CallType /\ r.kind = call[u].kind /\ r.session = call[u].session
        /\ r.hash = call[u].hash /\ r.checkpoint = call[u].checkpoint
        /\ r.older = call[u].older /\ r.step = call[u].step /\ r.answer = call[u].answer
        /\ r.operations = call[u].operations
    BY <2>1 DEF CallType
  <2>3. call'[u] = r \/ call'[u] = call[u]
    BY DEF Suspend
  <2> HIDE DEF r
  <2> QED BY <2>1, <2>2, <2>3
<1>6. call' \in [Calls -> CallType]
  BY <1>3, <1>4, <1>5 DEF Suspend
<1> QED BY <1>1, <1>2, <1>3, <1>4, <1>5, <1>6, NewRecords DEF Aside

\* the export: of the other calls only the order of the saves changes
LEMMA NativeExportFacts ==
  ASSUME TypeOK, NEW c \in Calls, NativeExport(c), IsOpen(c)
  PROVE  /\ pc[c] = "export" /\ pc'[c] = "save" /\ superseded' = superseded \ {c}
         /\ native' = native /\ store' = store /\ sent' = sent /\ record' = record
         /\ opened' = opened /\ tracked' = tracked /\ node' = node /\ reported' = reported
         /\ call'[c].kind = call[c].kind /\ call'[c].session = call[c].session
         /\ call'[c].hash = call[c].hash /\ call'[c].step = call[c].step
         /\ call'[c].aborted = call[c].aborted /\ call'[c].answer = call[c].answer
         /\ call'[c].operations = call[c].operations
         /\ call'[c].checkpoint = native.pending /\ call'[c].older = {v \in Calls : pc[v] = "save"}
         /\ Aside(c) /\ pc' \in [Calls -> PCs] /\ call' \in [Calls -> CallType]
         /\ \A u \in Calls \ {c} : /\ call'[u].older = call[u].older \ {c}
                                   /\ call'[u].aborted = call[u].aborted
<1> DEFINE saving == {v \in Calls : pc[v] = "save"}
           r == [call[c] EXCEPT !.checkpoint = native.pending, !.older = saving]
<1>1. /\ pc[c] = "export" /\ Goto(c, "save") /\ superseded' = superseded \ {c}
      /\ call' = [u \in Calls |-> IF u = c THEN r ELSE [call[u] EXCEPT !.older = @ \ {c}]]
      /\ native' = native /\ store' = store /\ sent' = sent /\ record' = record
      /\ opened' = opened /\ tracked' = tracked /\ node' = node /\ reported' = reported
  BY DEF NativeExport, session, world
<1>2. /\ pc' \in [Calls -> PCs] /\ pc'[c] = "save" /\ \A u \in Calls \ {c} : pc'[u] = pc[u]
  BY <1>1, GotoTyped DEF PCs
<1>3. /\ r \in CallType /\ r.kind = call[c].kind /\ r.session = call[c].session
      /\ r.hash = call[c].hash /\ r.step = call[c].step /\ r.aborted = call[c].aborted
      /\ r.answer = call[c].answer /\ r.operations = call[c].operations
      /\ r.checkpoint = native.pending /\ r.older = saving
  <2>1. call[c] \in CallType /\ native.pending \in Checkpoints /\ saving \in SUBSET Calls
    BY DEF TypeOK
  <2> HIDE DEF saving
  <2> QED BY <2>1 DEF CallType
<1>4. call'[c] = r
  BY <1>1
<1>5. \A u \in Calls \ {c} : /\ call'[u] \in CallType /\ call'[u].kind = call[u].kind
        /\ call'[u].session = call[u].session /\ call'[u].hash = call[u].hash
        /\ call'[u].step = call[u].step /\ call'[u].aborted = call[u].aborted
        /\ call'[u].checkpoint = call[u].checkpoint /\ call'[u].older = call[u].older \ {c}
        /\ call'[u].answer = call[u].answer /\ call'[u].operations = call[u].operations
  <2> TAKE u \in Calls \ {c}
  <2>1. call'[u] = [call[u] EXCEPT !.older = @ \ {c}] /\ call[u] \in CallType
    BY <1>1 DEF TypeOK
  <2> HIDE DEF r
  <2> QED BY <2>1 DEF CallType
<1> HIDE DEF r
<1>6. call' \in [Calls -> CallType]
  BY <1>1, <1>3, <1>5
<1>7. Aside(c)
  BY <1>2, <1>5 DEF Aside
<1> QED BY <1>1, <1>2, <1>3, <1>4, <1>5, <1>6, <1>7

\* load: the call holds what the store held
LEMMA LoadFacts ==
  ASSUME TypeOK, NEW c \in Calls, Load(c)
  PROVE  /\ pc[c] = "load" /\ pc'[c] = "open" /\ native' = native
         /\ record' = record /\ opened' = opened /\ tracked' = tracked /\ store' = store
         /\ superseded' = superseded /\ sent' = sent /\ node' = node /\ reported' = reported
         /\ call'[c].kind = call[c].kind /\ call'[c].session = call[c].session
         /\ call'[c].hash = call[c].hash /\ call'[c].answer = call[c].answer
         /\ call'[c].checkpoint = store
         /\ Only(c) /\ pc' \in [Calls -> PCs] /\ call' \in [Calls -> CallType]
<1> DEFINE r == [call[c] EXCEPT !.checkpoint = store]
<1>1. /\ r \in CallType /\ r.kind = call[c].kind /\ r.session = call[c].session
      /\ r.hash = call[c].hash /\ r.answer = call[c].answer /\ r.checkpoint = store
  <2>1. call[c] \in CallType /\ store \in Checkpoints
    BY DEF TypeOK
  <2> QED BY <2>1 DEF CallType
<1>2. call' = [call EXCEPT ![c] = r]
  BY DEF Load, TypeOK
<1> HIDE DEF r
<1>3. /\ call' \in [Calls -> CallType] /\ call'[c] = r /\ \A u \in Calls \ {c} : call'[u] = call[u]
  BY <1>1, <1>2, CallReplaced
<1>4. /\ pc' \in [Calls -> PCs] /\ pc'[c] = "open" /\ \A u \in Calls \ {c} : pc'[u] = pc[u]
  BY GotoTyped DEF Load, PCs
<1> QED BY <1>1, <1>3, <1>4 DEF Load, Only, session, world

-----------------------------------------------------------------------------
(* The actions that leave what is shared alone                             *)

LEMMA BeginKeeps ==
  ASSUME SubmissionInv, NEW c \in Calls, Only(c), SharedStays, pc[c] = "idle",
         \/ pc'[c] = "begin" /\ record # 0 /\ call'[c].kind = "sync"
         \/ /\ pc'[c] = "begin" /\ record # 0 /\ call'[c].kind = "submit" /\ call'[c].hash \in Hashes
            /\ \A u \in Calls : InProgress(u) => call[u].kind # "close"
         \/ /\ pc'[c] = "load" /\ record = 0 /\ opened < MaxSessions /\ call'[c].kind = "open"
            /\ \A u \in Calls : ~Opening(u),
         call'[c].session = record
  PROVE  SendInv'
<1> USE DEF SubmissionInv, SendInv
<1>1. Keeps(c) /\ \A h \in Hashes : ~MaySend(c, h)'
  BY DEF Keeps, MaySend
<1>2. record # 0 /\ pc'[c] = "begin" /\ call'[c].kind = "submit" => native.session = record
  BY DEF SessionsRight, CallRight, InProgress
<1>3. CallRight(c)'
  BY <1>2 DEF SharedStays, SessionsRight, CallRight, InProgress, Opening, Commanding, TypeOK
<1>4. /\ Commanding(c)' => \A u \in Calls : ~Closing(u)
      /\ ~Closing(c)'
      /\ Opening(c)' => \A u \in Calls : ~Opening(u)
  BY DEF Commanding, Closing, Opening, InProgress
<1>5. SessionsRight'
  BY <1>3, <1>4, LocalSessions DEF SharedStays
<1> QED BY <1>1, <1>5, LocalSaves

LEMMA RunCommandStep ==
  ASSUME SubmissionInv, Promised, NEW c \in Calls, NEW h \in Hashes, RunCommand(c, h)
  PROVE  SubmissionInv'
<1> USE DEF RunCommand
<1>1. PICK signal \in BOOLEAN : call' = [call EXCEPT ![c] = Command(h, signal)]
  BY DEF Command
<1>2. /\ Command(h, signal) \in CallType /\ Command(h, signal).kind = "submit"
      /\ Command(h, signal).hash = h /\ Command(h, signal).session = record
  BY CommandTyped DEF SubmissionInv
<1>3. /\ call' \in [Calls -> CallType] /\ call'[c] = Command(h, signal)
      /\ \A u \in Calls \ {c} : call'[u] = call[u]
  BY <1>1, <1>2, CallReplaced DEF SubmissionInv
<1>4. /\ pc' \in [Calls -> PCs] /\ pc'[c] = "begin" /\ \A u \in Calls \ {c} : pc'[u] = pc[u]
  BY GotoTyped DEF PCs, SubmissionInv
<1>5. TypeOK'
  BY <1>3, <1>4 DEF SubmissionInv, TypeOK, session, world
<1>6. \A u \in Calls : InProgress(u) => call[u].kind # "close"
  BY DEF Promised, MayBegin, InProgress
<1>7. Only(c) /\ SharedStays
  BY <1>3, <1>4 DEF Only, SharedStays, session, world
<1>8. SendInv'
  <2>1. /\ pc[c] = "idle" /\ pc'[c] = "begin" /\ record # 0 /\ call'[c].kind = "submit"
        /\ call'[c].hash \in Hashes /\ call'[c].session = record
    BY <1>2, <1>3, <1>4
  <2> HIDE DEF RunCommand
  <2> QED BY <1>6, <1>7, <2>1, BeginKeeps
<1> QED BY <1>5, <1>8 DEF SubmissionInv

\* the other calls that begin and leave the commands alone
LEMMA StartedStep ==
  ASSUME SubmissionInv, NEW c \in Calls, ApplySyncBatch(c) \/ OpenSession(c)
  PROVE  SubmissionInv'
<1> DEFINE kind == IF ApplySyncBatch(c) THEN "sync" ELSE "open"
<1>1. Started(kind, {}) \in CallType /\ Started(kind, {}).kind = kind
      /\ Started(kind, {}).session = record
  BY StartedTyped DEF Kinds, SubmissionInv
<1>2. call' = [call EXCEPT ![c] = Started(kind, {})]
  BY DEF ApplySyncBatch, OpenSession
<1>3. /\ call' \in [Calls -> CallType] /\ call'[c] = Started(kind, {})
      /\ \A u \in Calls \ {c} : call'[u] = call[u]
  BY <1>1, <1>2, CallReplaced DEF SubmissionInv
<1>4. /\ pc' \in [Calls -> PCs] /\ \A u \in Calls \ {c} : pc'[u] = pc[u]
      /\ pc'[c] = IF ApplySyncBatch(c) THEN "begin" ELSE "load"
  BY GotoTyped DEF PCs, ApplySyncBatch, OpenSession, SubmissionInv
<1>5. TypeOK'
  BY <1>3, <1>4 DEF SubmissionInv, TypeOK, session, world, ApplySyncBatch, OpenSession
<1>6. Only(c) /\ SharedStays
  BY <1>3, <1>4 DEF Only, SharedStays, session, world, ApplySyncBatch, OpenSession
<1>7. SendInv'
  <2>1. CASE ApplySyncBatch(c)
    BY <1>1, <1>3, <1>4, <1>6, <2>1, BeginKeeps DEF ApplySyncBatch
  <2>2. CASE ~ApplySyncBatch(c)
    BY <1>1, <1>3, <1>4, <1>6, <2>2, BeginKeeps DEF OpenSession, Opening
  <2> QED BY <2>1, <2>2
<1> QED BY <1>5, <1>7 DEF SubmissionInv

\* a call that ends: its result, and the errors that are its result
LEMMA EndStep ==
  ASSUME SubmissionInv, NEW c \in Calls, End(c), SharedStays, pc[c] # "closed",
         tracked' \subseteq Hashes, reported' \subseteq Hashes, node' = node,
         native' \in [session : Nat, pending : Checkpoints, active : Hashes \cup {NoHash}]
  PROVE  SubmissionInv'
<1>1. TypeOK'
  BY EndTyped DEF SubmissionInv, TypeOK, SharedStays
<1> QED BY <1>1, EndKeeps DEF SubmissionInv

\* a call that moves on, with or without a field of it written
LEMMA MoveStep ==
  ASSUME SubmissionInv, NEW c \in Calls, SharedStays, Keeps(c), MovesOn(c),
         NEW next \in PCs, Goto(c, next),
         NEW r \in CallType, call' = [call EXCEPT ![c] = r],
         tracked' \subseteq Hashes, reported' = reported, node' = node,
         native' \in [session : Nat, pending : Checkpoints, active : Hashes \cup {NoHash}]
  PROVE  SubmissionInv'
<1>1. /\ pc' \in [Calls -> PCs] /\ \A u \in Calls \ {c} : pc'[u] = pc[u]
      /\ call' \in [Calls -> CallType] /\ \A u \in Calls \ {c} : call'[u] = call[u]
  BY GotoTyped, CallReplaced DEF SubmissionInv
<1>2. TypeOK'
  BY <1>1 DEF SubmissionInv, TypeOK, SharedStays
<1>3. SendInv'
  BY <1>1, MovesOnKeeps DEF Only
<1> QED BY <1>2, <1>3 DEF SubmissionInv

LEMMA GotoStep ==
  ASSUME SubmissionInv, NEW c \in Calls, SharedStays, NEW next \in PCs, Goto(c, next), call' = call,
         pc[c] \notin {"idle", "load", "open", "closed"},
         next \in {"export", "waiting", "cancel", "closing", "resume"},
         next \in {"waiting", "cancel", "resume"} => call[c].kind = "submit",
         next = "closing" => call[c].kind = "close",
         next = "export" => pc[c] = "step" \/ call[c].kind # "submit",
         tracked' \subseteq Hashes, reported' = reported, node' = node,
         native' \in [session : Nat, pending : Checkpoints, active : Hashes \cup {NoHash}]
  PROVE  SubmissionInv'
<1>1. call[c] \in CallType /\ call' = [call EXCEPT ![c] = call[c]]
  BY DEF SubmissionInv, TypeOK
<1>2. pc'[c] = next
  BY GotoTyped DEF SubmissionInv
<1>3. Keeps(c) /\ MovesOn(c)
  BY <1>2 DEF Keeps, MovesOn, Alike, Opening
<1> QED BY <1>1, <1>3, MoveStep

LEMMA NotifyStepStep ==
  ASSUME SubmissionInv, NEW c \in Calls, NotifyStep(c)
  PROVE  SubmissionInv'
<1>1. SharedStays /\ call' = call /\ native' = native /\ node' = node /\ reported' = reported
  BY DEF NotifyStep, SharedStays, world
<1>2. pc[c] = "step" /\ call[c].kind = "submit"
  BY DEF NotifyStep, SubmissionInv, SendInv, SessionsRight, CallRight
<1>3. tracked' \subseteq Hashes
  BY <1>2 DEF NotifyStep, SubmissionInv, SendInv, TypeOK, SessionsRight, CallRight, InProgress
<1>4. Goto(c, "cancel") \/ Goto(c, "export")
  BY DEF NotifyStep
<1> QED BY <1>1, <1>2, <1>3, <1>4, GotoStep DEF PCs, SubmissionInv, TypeOK

LEMMA StopAbortedStep ==
  ASSUME SubmissionInv, NEW c \in Calls, StopAborted(c)
  PROVE  SubmissionInv'
<1>1. /\ SharedStays /\ call' = call /\ Goto(c, "cancel") /\ pc[c] = "saved"
      /\ call[c].kind = "submit"
  BY DEF StopAborted, Is, SharedStays, session, world
<1> QED BY <1>1, GotoStep DEF StopAborted, PCs, SubmissionInv, TypeOK, session, world

LEMMA ReturnResultStep ==
  ASSUME SubmissionInv, NEW c \in Calls, ReturnResult(c)
  PROVE  SubmissionInv'
<1>1. SharedStays /\ End(c) /\ pc[c] = "saved" /\ call[c].kind = "submit"
  BY DEF ReturnResult, Is, SharedStays, session, world
<1>2. call[c].hash \in Hashes
  BY <1>1 DEF SubmissionInv, SendInv, SessionsRight, CallRight, InProgress
<1> QED BY <1>1, <1>2, EndStep DEF ReturnResult, SubmissionInv, TypeOK, session, world

\* a request that is answered, or that fails
Answered(c, answer) == call' = [call EXCEPT ![c].answer = answer]

LEMMA AnswerKeeps ==
  ASSUME SubmissionInv, NEW c \in Calls, NEW answer \in Settled \cup {"unknown"},
         Answered(c, answer), Goto(c, "resume"),
         pc[c] \in {"waiting", "saved"},
         UNCHANGED <<session, native, store, superseded, world, reported>>
  PROVE  SubmissionInv'
<1> DEFINE r == [call[c] EXCEPT !.answer = answer]
<1>1. call[c] \in CallType /\ call[c].kind = "submit"
  BY DEF SubmissionInv, SendInv, TypeOK, SessionsRight, CallRight
<1>2. /\ r \in CallType /\ r.kind = call[c].kind /\ r.session = call[c].session
      /\ r.hash = call[c].hash /\ r.step = call[c].step /\ r.aborted = call[c].aborted
  BY <1>1, AnswerWritten
<1>3. call' = [call EXCEPT ![c] = r]
  BY DEF SubmissionInv, TypeOK, Answered
<1> HIDE DEF r
<1>4. SharedStays /\ pc'[c] = "resume" /\ call'[c] = r
  <2>1. SharedStays
    BY DEF SharedStays, session, world
  <2>2. pc'[c] = "resume"
    BY GotoTyped DEF SubmissionInv, PCs
  <2>3. call'[c] = r
    BY <1>2, <1>3, CallReplaced DEF SubmissionInv
  <2> QED BY <2>1, <2>2, <2>3
<1>5. Keeps(c) /\ MovesOn(c)
  BY <1>1, <1>2, <1>4 DEF Keeps, MovesOn, Alike, Opening
<1>6. /\ tracked' \subseteq Hashes /\ reported' = reported /\ node' = node
      /\ native' \in [session : Nat, pending : Checkpoints, active : Hashes \cup {NoHash}]
  BY DEF SubmissionInv, TypeOK, session, world
<1>7. "resume" \in PCs
  BY DEF PCs
<1> QED BY <1>2, <1>3, <1>4, <1>5, <1>6, <1>7, MoveStep

LEMMA AnswerStep ==
  ASSUME SubmissionInv, NEW c \in Calls, Answer(c)
  PROVE  SubmissionInv'
BY AnswerKeeps DEF Answer, Answered

LEMMA RequestFailsStep ==
  ASSUME SubmissionInv, NEW c \in Calls, RequestFails(c)
  PROVE  SubmissionInv'
<1>1. pc[c] \in {"waiting", "saved"} /\ call[c].kind = "submit"
  BY DEF RequestFails, Is, SubmissionInv, SendInv, SessionsRight, CallRight
<1>2. CASE call[c].aborted
  <2>1. SharedStays /\ call' = call /\ Goto(c, "cancel")
    BY <1>2 DEF RequestFails, SharedStays, session, world
  <2> QED BY <1>1, <2>1, GotoStep DEF RequestFails, PCs, SubmissionInv, TypeOK, session, world
<1>3. CASE ~call[c].aborted
  BY <1>1, <1>3, AnswerKeeps DEF RequestFails, Answered
<1> QED BY <1>2, <1>3

LEMMA NativeResumeStep ==
  ASSUME SubmissionInv, NEW c \in Calls, NativeResume(c)
  PROVE  SubmissionInv'
<1>1. pc[c] = "resume" /\ call[c].kind = "submit" /\ call[c].hash \in Hashes /\ call[c] \in CallType
  BY DEF NativeResume, SubmissionInv, SendInv, TypeOK, SessionsRight, CallRight, InProgress
<1>2. call[c].answer \in Settled \cup {"unknown"}
  BY <1>1 DEF CallType
<1>3. /\ native' \in [session : Nat, pending : Checkpoints, active : Hashes \cup {NoHash}]
      /\ native'.session = native.session
      /\ \A h \in Hashes : Known(native.pending, h) => Known(native'.pending, h)
  <2> DEFINE h == call[c].hash
             s == call[c].answer
             resumed == [native EXCEPT !.pending[h] = s,
                           !.active = IF s = "unknown" THEN h ELSE NoHash]
  <2>1. native' = native \/ native' = resumed
    BY DEF NativeResume
  <2>2. h \in Hashes /\ s \in {"accepted", "rejected", "unknown"}
    BY <1>1, <1>2 DEF Settled
  <2>3. native \in [session : Nat, pending : Checkpoints, active : Hashes \cup {NoHash}]
    BY DEF SubmissionInv, TypeOK
  <2> HIDE DEF h, s
  <2>4. /\ resumed \in [session : Nat, pending : Checkpoints, active : Hashes \cup {NoHash}]
        /\ resumed.session = native.session
        /\ \A g \in Hashes : Known(native.pending, g) => Known(resumed.pending, g)
    BY <2>2, <2>3 DEF Checkpoints, Statuses, Known
  <2> HIDE DEF resumed
  <2> QED BY <2>1, <2>3, <2>4
<1>4. SharedStays /\ tracked' = tracked /\ reported' = reported /\ node' = node
  BY <1>3 DEF NativeResume, SharedStays, session, world
<1> DEFINE r == [call[c] EXCEPT !.step = "complete"]
<1>5. CASE Goto(c, "step")
  <2>1. /\ r \in CallType /\ r.kind = call[c].kind /\ r.session = call[c].session
        /\ r.hash = call[c].hash /\ r.step = "complete" /\ r.aborted = call[c].aborted
    BY <1>1, CompletedWritten
  <2>2. "step" \in PCs
    BY DEF PCs
  <2>3. pc'[c] = "step"
    BY <1>5, <2>2, GotoTyped DEF SubmissionInv
  <2>4. call' = [call EXCEPT ![c] = r]
    BY <1>1, <1>5, <2>3, GotoTyped DEF NativeResume, SubmissionInv, TypeOK, PCs
  <2>5. call'[c] = r
    BY <2>1, <2>4, CallReplaced DEF SubmissionInv
  <2> HIDE DEF r
  <2>6. Keeps(c) /\ MovesOn(c)
    BY <1>1, <2>1, <2>3, <2>5 DEF Keeps, MovesOn, Alike, Opening
  <2> QED BY <1>3, <1>4, <1>5, <2>1, <2>2, <2>4, <2>6, MoveStep DEF SubmissionInv, TypeOK
<1>6. CASE Goto(c, "cancel") /\ call' = call
  <2>1. "cancel" \in PCs
    BY DEF PCs
  <2> QED BY <1>1, <1>3, <1>4, <1>6, <2>1, GotoStep DEF SubmissionInv, TypeOK
<1> QED BY <1>5, <1>6 DEF NativeResume

LEMMA NativeCancelStep ==
  ASSUME SubmissionInv, NEW c \in Calls, NativeCancel(c)
  PROVE  SubmissionInv'
<1>1. pc[c] = "cancel" /\ call[c].hash \in Hashes
  BY DEF NativeCancel, SubmissionInv, SendInv, SessionsRight, CallRight, InProgress
<1>2. native' = Cancelled(call[c].session, call[c].hash) /\ End(c)
  BY DEF NativeCancel
<1>3. /\ native' \in [session : Nat, pending : Checkpoints, active : Hashes \cup {NoHash}]
      /\ SharedStays
  BY <1>1, <1>2, CancelledTyped DEF NativeCancel, SharedStays, session, world, SubmissionInv
<1> QED BY <1>1, <1>2, <1>3, EndStep DEF NativeCancel, SubmissionInv, TypeOK, session, world

LEMMA AbortCommandStep ==
  ASSUME SubmissionInv, NEW c \in Calls, AbortCommand(c)
  PROVE  SubmissionInv'
<1> DEFINE r == [call[c] EXCEPT !.signal = TRUE, !.aborted = TRUE]
<1>1. call[c] \in CallType /\ pc[c] \in PCs /\ pc[c] # "idle" /\ call[c].kind = "submit"
  BY DEF AbortCommand, SubmissionInv, TypeOK
<1>2. pc[c] \notin {"load", "open", "closing", "closed", "cancelAll"}
  BY <1>1 DEF SubmissionInv, SendInv, SessionsRight, CallRight, InProgress, Opening
<1>3. /\ r \in CallType /\ r.kind = call[c].kind /\ r.session = call[c].session /\ r.aborted
      /\ r.hash = call[c].hash /\ r.step = call[c].step
      /\ r.checkpoint = call[c].checkpoint /\ r.older = call[c].older
  BY <1>1, SignalWritten
<1>4. call' = [call EXCEPT ![c] = r] /\ pc' = pc
  BY DEF AbortCommand, SubmissionInv, TypeOK
<1>5. call'[c] = r
  BY <1>3, <1>4, CallReplaced DEF SubmissionInv
<1> HIDE DEF r
<1>6. Keeps(c) /\ MovesOn(c)
  BY <1>1, <1>2, <1>3, <1>4, <1>5 DEF Keeps, MovesOn, Alike, Opening, PCs
<1>7. Goto(c, pc[c])
  BY <1>4 DEF Goto, SubmissionInv, TypeOK
<1>8. /\ SharedStays /\ tracked' = tracked /\ reported' = reported /\ node' = node
      /\ native' = native
  BY DEF AbortCommand, SharedStays, session, world
<1> QED BY <1>1, <1>3, <1>4, <1>6, <1>7, <1>8, MoveStep DEF SubmissionInv, TypeOK

LEMMA FailStep ==
  ASSUME SubmissionInv, NEW c \in Calls, Fail(c), pc[c] \in {"export", "save"},
         UNCHANGED <<session, native, store, superseded, world, reported>>
  PROVE  SubmissionInv'
<1>1. SharedStays
  BY DEF SharedStays, session, world
<1>2. CASE End(c)
  BY <1>1, <1>2, EndStep DEF SubmissionInv, TypeOK, session, world
<1>3. CASE ~End(c)
  <2>1. pc' \in [Calls -> PCs] /\ call' = call
    BY <1>3, GotoTyped DEF Fail, PCs, SubmissionInv
  <2>2. TypeOK'
    BY <2>1 DEF SubmissionInv, TypeOK, session, world
  <2> QED BY <1>1, <2>2, FailKeeps DEF SubmissionInv
<1> QED BY <1>2, <1>3

LEMMA SaveFailsStep ==
  ASSUME SubmissionInv, NEW c \in Calls, SaveFails(c)
  PROVE  SubmissionInv'
BY FailStep DEF SaveFails

LEMMA NativeApplyStep ==
  ASSUME SubmissionInv, NEW c \in Calls, NativeApply(c)
  PROVE  SubmissionInv'
<1>1. /\ pc[c] = "begin" /\ call[c].kind = "sync" /\ SharedStays /\ native' = native
      /\ tracked' = tracked /\ reported' = reported /\ node' = node
  BY DEF NativeApply, Is, SharedStays, session, world
<1>2. CASE End(c)
  BY <1>1, <1>2, EndStep DEF SubmissionInv, TypeOK
<1>3. CASE Goto(c, "export") /\ call' = call
  BY <1>1, <1>3, GotoStep DEF PCs, SubmissionInv, TypeOK
<1> QED BY <1>2, <1>3 DEF NativeApply

LEMMA NativeCancelTrackedStep ==
  ASSUME SubmissionInv, NEW c \in Calls, NativeCancelTracked(c)
  PROVE  SubmissionInv'
<1>1. /\ pc[c] = "cancelAll" /\ call[c] \in CallType /\ tracked' = tracked /\ reported' = reported
      /\ node' = node /\ call[c].kind # "submit"
  BY DEF NativeCancelTracked, SubmissionInv, SendInv, SessionsRight, CallRight, TypeOK, session, world
<1>2. CASE Goto(c, "export") /\ native' = native /\ call' = call
  <2>1. SharedStays
    BY <1>2 DEF NativeCancelTracked, SharedStays, session, world
  <2> QED BY <1>1, <1>2, <2>1, GotoStep DEF PCs, SubmissionInv, TypeOK
<1>3. ASSUME NEW h \in call[c].operations, native' = Cancelled(call[c].session, h),
             call' = [call EXCEPT ![c].operations = @ \ {h}], pc' = pc
      PROVE  SubmissionInv'
  <2> DEFINE r == [call[c] EXCEPT !.operations = @ \ {h}]
  <2>1. h \in Hashes
    BY <1>1 DEF CallType
  <2>2. /\ native' \in [session : Nat, pending : Checkpoints, active : Hashes \cup {NoHash}]
        /\ SharedStays
    BY <1>3, <2>1, CancelledTyped DEF NativeCancelTracked, SharedStays, session, world, SubmissionInv
  <2>3. /\ r \in CallType /\ r.kind = call[c].kind /\ r.session = call[c].session
        /\ r.hash = call[c].hash /\ r.step = call[c].step /\ r.aborted = call[c].aborted
    BY <1>1, OperationsWritten
  <2>4. call' = [call EXCEPT ![c] = r]
    BY <1>3 DEF SubmissionInv, TypeOK
  <2>5. call'[c] = r
    BY <2>3, <2>4, CallReplaced DEF SubmissionInv
  <2> HIDE DEF r
  <2>6. Keeps(c) /\ MovesOn(c)
    BY <1>1, <1>3, <2>3, <2>5 DEF Keeps, MovesOn, Alike, Opening
  <2>7. Goto(c, "cancelAll") /\ "cancelAll" \in PCs
    BY <1>1, <1>3 DEF Goto, SubmissionInv, TypeOK, PCs
  <2> QED BY <1>1, <2>2, <2>3, <2>4, <2>6, <2>7, MoveStep DEF SubmissionInv, TypeOK
<1> QED BY <1>2, <1>3 DEF NativeCancelTracked

-----------------------------------------------------------------------------
(* The actions that begin, save and send                                   *)

LEMMA NativeBeginStep ==
  ASSUME SubmissionInv, NEW c \in Calls, NativeBegin(c)
  PROVE  SubmissionInv'
<1> DEFINE h == call[c].hash
<1> USE DEF SubmissionInv, SendInv
<1>1. /\ pc[c] = "begin" /\ call[c].kind = "submit" /\ h \in Hashes /\ call[c] \in CallType
      /\ call[c].session # 0 /\ CallRight(c)
  BY DEF NativeBegin, Is, SessionsRight, CallRight, InProgress, Opening, TypeOK
<1>2. CASE End(c) /\ native' = native
  BY <1>1, <1>2, EndStep DEF NativeBegin, SharedStays, TypeOK, session, world
<1>3. CASE ~(End(c) /\ native' = native)
  <2>1. /\ IsOpen(c) /\ native.pending[h] = "absent" /\ call' = call /\ Goto(c, "step")
        /\ native' = [native EXCEPT !.active = h, !.pending[h] = "awaiting"]
    BY <1>3 DEF NativeBegin
  <2>2. /\ native' \in [session : Nat, pending : Checkpoints, active : Hashes \cup {NoHash}]
        /\ native'.session = native.session /\ Known(native'.pending, h)
        /\ \A g \in Hashes : Known(native.pending, g) => Known(native'.pending, g)
    BY <1>1, <2>1 DEF TypeOK, Checkpoints, Statuses, Known
  <2>3. SharedStays
    BY <2>2 DEF NativeBegin, SharedStays, session, world
  <2>4. /\ pc' \in [Calls -> PCs] /\ pc'[c] = "step" /\ \A u \in Calls \ {c} : pc'[u] = pc[u]
    BY <2>1, GotoTyped DEF PCs
  <2>5. Only(c) /\ Keeps(c)
    BY <2>1, <2>4 DEF Only, Keeps
  <2>6. TypeOK'
    BY <2>1, <2>2, <2>4 DEF NativeBegin, TypeOK, session, world
  <2>7. CallRight(c)'
    BY <1>1, <2>1, <2>3, <2>4 DEF CallRight, SharedStays, InProgress, Opening, Commanding
  <2>8. /\ Commanding(c)' => Commanding(c)
        /\ ~Closing(c)' /\ ~Opening(c)'
    BY <1>1, <2>1, <2>4 DEF Commanding, Closing, Opening, InProgress
  <2>9. SessionsRight'
    BY <1>1, <2>3, <2>5, <2>7, <2>8, LocalSessions DEF SharedStays
  <2>10. sent[h] = 0
    BY <1>1, <2>1 DEF SentKnown, IsOpen, Known, TypeOK
  <2>11. \A u \in Calls : ~MaySend(u, h)
    BY <1>1, <2>1 DEF NewKnown, New, Known
  <2>12. \A g \in Hashes : MaySend(c, g)' => Begun(c, g)
    BY <2>1, <2>2, <2>4, <2>10, <2>11 DEF MaySend, Begun
  <2> HIDE DEF h
  <2>13. OrderRight' /\ SentKnown' /\ NewKnown' /\ NeverSentTwice'
    BY <2>3, <2>5, <2>12, LocalSaves
  <2> QED BY <2>6, <2>9, <2>13
<1> QED BY <1>2, <1>3

\* what a command that is about to send may rely on
LEMMA SendStep ==
  ASSUME SubmissionInv, NEW c \in Calls, Send(c)
  PROVE  SubmissionInv'
<1> DEFINE h == call[c].hash
<1> USE DEF SubmissionInv, SendInv
<1>1. /\ pc[c] = "saved" /\ call[c].kind = "submit" /\ call[c].step = "network"
      /\ ~call[c].aborted /\ h \in Hashes /\ CallRight(c)
  BY DEF Send, Is, SessionsRight, CallRight, InProgress, Opening, TypeOK
<1>2. MaySend(c, h) /\ New(c, h)
  BY <1>1 DEF MaySend, Commanding, InProgress, NewKnown
<1>3. /\ pc' \in [Calls -> PCs] /\ pc'[c] = "waiting" /\ \A u \in Calls \ {c} : pc'[u] = pc[u]
  BY GotoTyped DEF Send, PCs
<1>4. /\ call' = call /\ native' = native /\ store' = store /\ superseded' = superseded
      /\ record' = record /\ opened' = opened /\ tracked' = tracked
  BY DEF Send, session
<1>5. sent' = [sent EXCEPT ![h] = 1]
  BY <1>1, <1>2 DEF Send, New, TypeOK
<1>6. TypeOK'
  BY <1>1, <1>3, <1>4, <1>5 DEF Send, TypeOK
<1>7. SessionsRight'
  <2>1. CallRight(c)'
    BY <1>1, <1>3, <1>4 DEF CallRight, InProgress, Opening, Commanding
  <2>2. (Commanding(c)' => Commanding(c)) /\ ~Closing(c)' /\ ~Opening(c)'
    BY <1>1, <1>3, <1>4 DEF Commanding, Closing, Opening, InProgress
  <2> QED BY <1>1, <1>3, <1>4, <2>1, <2>2, LocalSessions DEF Only
<1> HIDE DEF h
<1>8. \A u \in Calls : /\ Saving(u)' = Saving(u) /\ Fresh(u)' = Fresh(u)
                       /\ (pc'[u] = "saved" => pc[u] = "saved") /\ (pc'[u] = "open") = (pc[u] = "open")
                       /\ \A g \in Hashes : MaySend(u, g)' => MaySend(u, g) /\ u # c
  BY <1>1, <1>3, <1>4 DEF Saving, Fresh, MaySend, Commanding, InProgress
<1>9. \A g \in Hashes : Settles(g)' = Settles(g)
  BY <1>4, <1>8 DEF Settles
<1>10. OrderRight'
  BY <1>4, <1>8 DEF OrderRight
<1>11. \A u \in Calls : pc[u] # "open"
  BY <1>2 DEF SessionsRight, CallRight, MaySend, Commanding, Opening, InProgress
<1>12. SentKnown'
  <2> SUFFICES ASSUME NEW g \in Hashes, sent'[g] > 0
               PROVE  /\ Settles(g)' /\ (native'.session # 0 => Known(native'.pending, g))
                      /\ \A u \in Calls : pc'[u] = "open" => Known(call'[u].checkpoint, g)
    BY DEF SentKnown
  <2>1. CASE g = h
    BY <1>1, <1>2, <1>4, <1>8, <1>9, <1>11, <2>1 DEF New
  <2>2. CASE g # h
    <3>1. sent[g] > 0
      BY <1>5, <2>2 DEF TypeOK
    <3> QED BY <1>4, <1>8, <1>9, <3>1 DEF SentKnown
  <2> QED BY <2>1, <2>2
<1>13. ASSUME NEW u \in Calls, NEW g \in Hashes, MaySend(u, g)'
       PROVE  New(u, g)'
  <2>1. MaySend(u, g) /\ New(u, g) /\ u # c
    BY <1>8, <1>13 DEF NewKnown
  <2>2. g # h
    BY <1>2, <2>1 DEF New
  <2>3. sent'[g] = 0
    BY <1>5, <2>1, <2>2 DEF New, TypeOK
  <2>4. \A v \in Calls \ {u} : ~MaySend(v, g)'
    BY <1>8, <2>1 DEF New
  <2> QED BY <1>4, <1>8, <1>9, <2>1, <2>3, <2>4 DEF New
<1>14. NeverSentTwice'
  BY <1>5 DEF NeverSentTwice, TypeOK
<1> QED BY <1>6, <1>7, <1>10, <1>12, <1>13, <1>14 DEF NewKnown

LEMMA NativeExportStep ==
  ASSUME SubmissionInv, NEW c \in Calls, NativeExport(c)
  PROVE  SubmissionInv'
<1> USE DEF SubmissionInv, SendInv
<1>1. CASE ~IsOpen(c)
  BY <1>1, FailStep DEF NativeExport
<1>2. CASE IsOpen(c)
  <2> DEFINE saving == {v \in Calls : pc[v] = "save"}
  <2>1. /\ pc[c] = "export" /\ pc'[c] = "save" /\ superseded' = superseded \ {c}
        /\ native' = native /\ store' = store /\ sent' = sent /\ record' = record
        /\ opened' = opened /\ tracked' = tracked /\ node' = node /\ reported' = reported
        /\ call'[c].kind = call[c].kind /\ call'[c].session = call[c].session
        /\ call'[c].hash = call[c].hash /\ call'[c].step = call[c].step
        /\ call'[c].aborted = call[c].aborted
        /\ call'[c].checkpoint = native.pending /\ call'[c].older = saving
        /\ Aside(c) /\ pc' \in [Calls -> PCs] /\ call' \in [Calls -> CallType]
        /\ \A u \in Calls \ {c} : /\ call'[u].older = call[u].older \ {c}
                                  /\ call'[u].aborted = call[u].aborted
    BY <1>2, NativeExportFacts
  <2>2. TypeOK'
    BY <2>1 DEF TypeOK
  <2>3. SessionsRight'
    <3>1. CallRight(c) /\ Apart(c)
      BY <2>1 DEF SessionsRight, Apart, Aside
    <3>2. CallRight(c)'
      BY <2>1, <3>1 DEF CallRight, InProgress, Opening, Commanding
    <3>3. /\ Commanding(c)' => Commanding(c)
          /\ Closing(c)' => Closing(c)
          /\ ~Opening(c)'
      BY <2>1 DEF Commanding, Closing, Opening, InProgress
    <3> QED BY <2>1, <3>1, <3>2, <3>3, ApartSessions
  <2>4. /\ native.session # 0
        /\ \A h \in Hashes : sent[h] > 0 => Known(native.pending, h)
    BY <1>2, <2>1 DEF SessionsRight, CallRight, SentKnown, IsOpen, InProgress, Opening
  <2>5. /\ Saving(c)' /\ c \notin superseded'
        /\ call'[c].checkpoint = native.pending /\ call'[c].older = saving
        /\ c \notin saving /\ \A u \in Calls : Saving(u) => u \in saving
    BY <2>1 DEF Saving
  <2>6. \A u \in Calls \ {c} :
           /\ Saving(u)' = Saving(u) /\ Fresh(u)' = Fresh(u)
           /\ (u \in superseded') = (u \in superseded)
           /\ (pc'[u] = "saved") = (pc[u] = "saved") /\ (pc'[u] = "open") = (pc[u] = "open")
           /\ call'[u].checkpoint = call[u].checkpoint /\ call'[u].older = call[u].older \ {c}
    <3> TAKE u \in Calls \ {c}
    <3>1. pc'[u] = pc[u] /\ (u \in superseded') = (u \in superseded)
      BY <2>1 DEF Aside
    <3>2. call'[u].checkpoint = call[u].checkpoint /\ call'[u].older = call[u].older \ {c}
      BY <2>1 DEF Aside
    <3> QED BY <3>1, <3>2 DEF Saving, Fresh
  <2>7. \A u \in Calls, h \in Hashes : MaySend(u, h)' => MaySend(u, h)
    BY <2>1 DEF Aside, MaySend, Commanding, InProgress
  <2> HIDE DEF saving
  <2>8. OrderRight'
    <3> SUFFICES ASSUME NEW b \in Calls, NEW u \in Calls, NEW v \in Calls, Saving(v)',
                        v \in call'[b].older, Saving(b)', b \in call'[u].older, Saving(u)'
                 PROVE  v \in call'[u].older
      BY DEF OrderRight
    <3>1. b # c
      BY <2>5, <2>6
    <3>2. v # c
      BY <2>6, <3>1
    <3>3. CASE u = c
      BY <2>5, <2>6, <3>2, <3>3
    <3>4. CASE u # c
      BY <2>6, <3>1, <3>2, <3>4 DEF OrderRight
    <3> QED BY <3>3, <3>4
  <2>9. \A h \in Hashes : Settles(h) /\ Known(native.pending, h) => Settles(h)'
    BY <2>1, <2>5, <2>6 DEF Settles
  <2>10. SentKnown'
    BY <2>1, <2>4, <2>6, <2>9 DEF SentKnown
  <2>11. ASSUME NEW u \in Calls, NEW h \in Hashes, MaySend(u, h)'
         PROVE  New(u, h)'
    <3>1. MaySend(u, h) /\ New(u, h)
      BY <2>7, <2>11 DEF NewKnown
    <3>2. /\ sent'[h] = 0 /\ Known(native'.pending, h) /\ Known(native.pending, h)
          /\ \A v \in Calls \ {u} : ~MaySend(v, h)'
      BY <2>1, <2>7, <3>1 DEF New
    <3>3. CASE u = c
      <4>1. \A v \in Calls : Fresh(v)' /\ v \notin call'[c].older => v = c
        BY <2>5, <2>6 DEF Fresh
      <4>2. \A v \in Calls : c \notin call'[v].older
        BY <2>5, <2>6
      <4>3. pc'[c] # "saved"
        BY <2>1
      <4> QED BY <2>5, <3>2, <3>3, <4>1, <4>2, <4>3 DEF New
    <3>4. CASE u # c
      <4>1. ASSUME Saving(u)', u \notin superseded'
            PROVE  /\ Known(call'[u].checkpoint, h)
                   /\ \A v \in Calls : Fresh(v)' /\ v \notin call'[u].older
                                         => Known(call'[v].checkpoint, h)
        BY <2>5, <2>6, <3>1, <3>2, <3>4, <4>1 DEF New
      <4>2. ASSUME Saving(u)', NEW v \in Calls, Saving(v)', u \in call'[v].older
            PROVE  Known(call'[v].checkpoint, h)
        BY <2>5, <2>6, <3>1, <3>2, <3>4, <4>2 DEF New
      <4>3. /\ Saving(u)' /\ u \in superseded' => Settles(h)'
            /\ pc'[u] = "saved" => Settles(h)'
        BY <2>6, <2>9, <3>1, <3>2, <3>4 DEF New
      <4> QED BY <3>2, <4>1, <4>2, <4>3 DEF New
    <3> QED BY <3>3, <3>4
  <2>12. NeverSentTwice'
    BY <2>1 DEF NeverSentTwice
  <2> QED BY <2>2, <2>3, <2>8, <2>10, <2>11, <2>12 DEF NewKnown
<1> QED BY <1>1, <1>2

LEMMA SaveStep ==
  ASSUME SubmissionInv, Promised, NEW c \in Calls, Save(c)
  PROVE  SubmissionInv'
<1> USE DEF SubmissionInv, SendInv
<1>1. /\ pc[c] = "save" /\ CallRight(c) /\ record' = record /\ opened' = opened
      /\ tracked' = tracked /\ native' = native /\ sent' = sent /\ node' = node
      /\ reported' = reported /\ call[c] \in CallType
  BY DEF Save, SessionsRight, TypeOK, session, world
<1>2. \/ c \in superseded /\ store' = store /\ superseded' = superseded
      \/ /\ c \notin superseded /\ store' = call[c].checkpoint
         /\ superseded' = superseded \cup call[c].older
  BY DEF Save, Promised
<1>3. /\ Only(c) /\ TypeOK' /\ pc'[c] \in {"saved", "closing", "idle"}
      /\ pc'[c] = "saved" => call[c].kind = "submit" /\ call'[c] = call[c]
      /\ pc'[c] = "closing" => call[c].kind = "close" /\ call'[c] = call[c]
      /\ pc'[c] = "idle" => call'[c] = Blank
  <2>1. store' \in Checkpoints /\ superseded' \subseteq Calls
    BY <1>1, <1>2 DEF TypeOK, CallType
  <2>2. CASE End(c)
    BY <1>1, <2>1, <2>2, EndTyped DEF Only, TypeOK
  <2>3. CASE ~End(c)
    <3>1. /\ call' = call
          /\ \/ Goto(c, "saved") /\ call[c].kind = "submit"
             \/ Goto(c, "closing") /\ call[c].kind = "close"
      BY <2>3 DEF Save, GoOn
    <3>2. "saved" \in PCs /\ "closing" \in PCs
      BY DEF PCs
    <3>3. /\ pc' \in [Calls -> PCs] /\ \A u \in Calls \ {c} : pc'[u] = pc[u]
          /\ \/ pc'[c] = "saved" /\ call[c].kind = "submit"
             \/ pc'[c] = "closing" /\ call[c].kind = "close"
      BY <3>1, <3>2, GotoTyped
    <3> QED BY <1>1, <2>1, <3>1, <3>3 DEF Only, TypeOK
  <2> QED BY <2>2, <2>3
<1>4. SessionsRight'
  <2>1. CallRight(c)'
    BY <1>1, <1>3, BlankTyped DEF CallRight, InProgress, Opening, Commanding, TypeOK
  <2>2. /\ Commanding(c)' => Commanding(c)
        /\ Closing(c)' => Closing(c)
        /\ ~Opening(c)'
    BY <1>1, <1>3 DEF Commanding, Closing, Opening, InProgress
  <2> QED BY <1>1, <1>3, <2>1, <2>2, LocalSessions
<1>5. \A u \in Calls : /\ Saving(u)' => Saving(u) /\ u # c /\ call'[u] = call[u]
                       /\ (pc'[u] = "saved" => pc[u] = "saved" \/ u = c)
                       /\ (pc'[u] = "open" => pc[u] = "open" /\ call'[u] = call[u])
                       /\ \A h \in Hashes : MaySend(u, h)' => MaySend(u, h)
  BY <1>1, <1>3 DEF Only, Saving, MaySend, Commanding, InProgress
<1>6. \A u \in Calls : Fresh(u)' => Fresh(u) /\ u # c /\ call'[u] = call[u]
  BY <1>2, <1>5 DEF Fresh
<1>7. OrderRight'
  BY <1>5 DEF OrderRight
<1>8. ASSUME NEW h \in Hashes, Settles(h)
      PROVE  Settles(h)'
  <2>1. Known(store', h)
    BY <1>1, <1>2, <1>8 DEF Settles, Fresh, Saving
  <2> QED BY <1>6, <1>8, <2>1 DEF Settles
<1>9. SentKnown'
  BY <1>1, <1>5, <1>8 DEF SentKnown
<1>10. ASSUME NEW u \in Calls, NEW h \in Hashes, MaySend(u, h)'
       PROVE  New(u, h)'
  <2>1. MaySend(u, h) /\ New(u, h)
    BY <1>5, <1>10 DEF NewKnown
  <2>2. /\ sent'[h] = 0 /\ Known(native'.pending, h)
        /\ \A v \in Calls \ {u} : ~MaySend(v, h)'
    BY <1>1, <1>5, <2>1 DEF New
  <2>3. ASSUME Saving(u)', u \notin superseded'
        PROVE  /\ Known(call'[u].checkpoint, h)
               /\ \A v \in Calls : Fresh(v)' /\ v \notin call'[u].older
                                     => Known(call'[v].checkpoint, h)
    BY <1>2, <1>5, <1>6, <2>1, <2>3 DEF New
  <2>4. ASSUME Saving(u)', NEW v \in Calls, Saving(v)', u \in call'[v].older
        PROVE  Known(call'[v].checkpoint, h)
    BY <1>5, <2>1, <2>4 DEF New
  <2>5. CASE Settles(h)
    BY <1>8, <2>2, <2>3, <2>4, <2>5 DEF New
  <2>6. CASE ~Settles(h)
    <3>1. Saving(u)' /\ u \in superseded' => Settles(h)'
      <4> SUFFICES ASSUME Saving(u)', u \in superseded' PROVE Settles(h)'
        OBVIOUS
      <4>1. Saving(u) /\ u # c /\ u \notin superseded
        BY <1>5, <2>1, <2>6 DEF New
      <4>2. c \notin superseded /\ store' = call[c].checkpoint /\ u \in call[c].older
        BY <1>2, <4>1
      <4>3. Known(store', h)
        BY <1>1, <2>1, <4>1, <4>2 DEF New, Saving
      <4>4. ASSUME NEW v \in Calls, Fresh(v)' PROVE Known(call'[v].checkpoint, h)
        <5>1. Fresh(v) /\ v # c /\ call'[v] = call[v] /\ v \notin call[c].older
          BY <1>2, <1>6, <4>2, <4>4 DEF Fresh
        <5>2. v \notin call[u].older
          BY <1>1, <4>1, <4>2, <5>1 DEF OrderRight, Fresh, Saving
        <5> QED BY <2>1, <4>1, <5>1, <5>2 DEF New
      <4> QED BY <4>3, <4>4 DEF Settles
    <3>2. pc'[u] = "saved" => Settles(h)'
      <4> SUFFICES ASSUME pc'[u] = "saved" PROVE Settles(h)'
        OBVIOUS
      <4>1. u = c /\ c \notin superseded
        BY <1>1, <1>5, <2>1, <2>6 DEF New, Saving
      <4>2. Known(store', h) /\ superseded' = superseded \cup call[c].older
        BY <1>1, <1>2, <2>1, <4>1 DEF New, Saving
      <4>3. ASSUME NEW v \in Calls, Fresh(v)' PROVE Known(call'[v].checkpoint, h)
        <5>1. Fresh(v) /\ call'[v] = call[v] /\ v \notin call[c].older
          BY <1>6, <4>2, <4>3 DEF Fresh
        <5> QED BY <1>1, <2>1, <4>1, <5>1 DEF New, Saving
      <4> QED BY <4>2, <4>3 DEF Settles
    <3> QED BY <2>2, <2>3, <2>4, <3>1, <3>2 DEF New
  <2> QED BY <2>5, <2>6
<1>11. NeverSentTwice'
  BY <1>1 DEF NeverSentTwice
<1> QED BY <1>3, <1>4, <1>7, <1>9, <1>10, <1>11 DEF NewKnown

LEMMA LoadStep ==
  ASSUME SubmissionInv, NEW c \in Calls, Load(c)
  PROVE  SubmissionInv'
<1> USE DEF SubmissionInv, SendInv
<1>1. /\ pc[c] = "load" /\ pc'[c] = "open" /\ CallRight(c) /\ native' = native
      /\ record' = record /\ opened' = opened /\ tracked' = tracked /\ store' = store
      /\ superseded' = superseded /\ sent' = sent /\ node' = node /\ reported' = reported
      /\ call'[c].kind = call[c].kind /\ call'[c].session = call[c].session
      /\ call'[c].hash = call[c].hash /\ call'[c].checkpoint = store
      /\ Only(c) /\ pc' \in [Calls -> PCs] /\ call' \in [Calls -> CallType]
  BY LoadFacts DEF SessionsRight
<1>2. call[c].kind = "open"
  BY <1>1 DEF CallRight, InProgress, Opening
<1>3. TypeOK'
  BY <1>1 DEF TypeOK
<1>4. SessionsRight'
  <2>1. CallRight(c)'
    BY <1>1, <1>2 DEF CallRight, InProgress, Opening, Commanding
  <2>2. ~Commanding(c)' /\ ~Closing(c)' /\ Opening(c)
    BY <1>1, <1>2 DEF Commanding, Closing, Opening
  <2> QED BY <1>1, <2>1, <2>2, LocalSessions
<1>5. \A u \in Calls : /\ Saving(u)' = Saving(u) /\ Fresh(u)' = Fresh(u)
                       /\ (pc'[u] = "saved") = (pc[u] = "saved")
                       /\ (Saving(u) => call'[u] = call[u])
                       /\ \A h \in Hashes : MaySend(u, h)' = MaySend(u, h)
  BY <1>1 DEF Only, Saving, Fresh, MaySend, Commanding, InProgress
<1>6. \A h \in Hashes : Settles(h) => Settles(h)'
  BY <1>1, <1>5 DEF Settles, Fresh
<1>7. OrderRight'
  BY <1>5 DEF OrderRight
<1>8. SentKnown'
  <2>1. \A u \in Calls : pc'[u] = "open" => u = c \/ (pc[u] = "open" /\ call'[u] = call[u])
    BY <1>1 DEF Only
  <2> QED BY <1>1, <1>6, <2>1 DEF SentKnown, Settles
<1>9. NewKnown'
  \* there is no command without a session
  BY <1>1, <1>5 DEF SessionsRight, CallRight, Opening, MaySend, Commanding, InProgress, NewKnown
<1>10. NeverSentTwice'
  BY <1>1 DEF NeverSentTwice
<1> QED BY <1>3, <1>4, <1>7, <1>8, <1>9, <1>10

-----------------------------------------------------------------------------
(* The actions after which no command goes on                              *)

LEMMA NoCommands ==
  ASSUME SubmissionInv, NEW c \in Calls, Closing(c) \/ Opening(c)
  PROVE  \A u \in Calls : ~Commanding(u)
BY DEF SubmissionInv, SendInv, SessionsRight, CallRight, Commanding, Opening, InProgress

\* with no command left it is enough to look at the session and the store
LEMMA SilentSaves ==
  ASSUME SubmissionInv, \A u \in Calls : ~Commanding(u)',
         sent' = sent, store' = store, superseded' = superseded,
         \A u \in Calls : /\ Saving(u)' => Saving(u) /\ call'[u].checkpoint = call[u].checkpoint
                                           /\ call'[u].older = call[u].older
                          /\ pc'[u] = "open" => pc[u] = "open" /\ call'[u] = call[u],
         \A h \in Hashes : sent[h] > 0 /\ native'.session # 0 => Known(native'.pending, h)
  PROVE  OrderRight' /\ SentKnown' /\ NewKnown' /\ NeverSentTwice'
<1> USE DEF SubmissionInv, SendInv
<1>1. OrderRight'
  BY DEF OrderRight
<1>2. \A h \in Hashes : Settles(h) => Settles(h)'
  BY DEF Settles, Fresh
<1>3. SentKnown'
  BY <1>2 DEF SentKnown
<1>4. NewKnown' /\ NeverSentTwice'
  BY DEF NewKnown, MaySend, NeverSentTwice
<1> QED BY <1>1, <1>3, <1>4

LEMMA NativeCloseStep ==
  ASSUME SubmissionInv, NEW c \in Calls, NativeClose(c)
  PROVE  SubmissionInv'
<1> USE DEF SubmissionInv, SendInv
<1>1. /\ pc[c] = "closing" /\ call[c].kind = "close" /\ CallRight(c) /\ Goto(c, "closed")
      /\ record' = record /\ opened' = opened /\ tracked' = tracked /\ store' = store
      /\ superseded' = superseded /\ sent' = sent /\ node' = node /\ reported' = reported
      /\ call' = call
  BY DEF NativeClose, SessionsRight, CallRight, session, world
<1>2. /\ pc' \in [Calls -> PCs] /\ pc'[c] = "closed" /\ \A u \in Calls \ {c} : pc'[u] = pc[u]
  BY <1>1, GotoTyped DEF PCs
<1>3. /\ native' \in [session : Nat, pending : Checkpoints, active : Hashes \cup {NoHash}]
      /\ \/ native' = native /\ native.session # call[c].session
         \/ native'.session = 0 /\ native.session = call[c].session
  BY ClosedTyped DEF NativeClose, IsOpen, TypeOK
<1>4. TypeOK'
  BY <1>1, <1>2, <1>3 DEF TypeOK
<1>5. \A u \in Calls : ~Commanding(u)
  BY <1>1, NoCommands DEF Closing, InProgress
<1>6. \A u \in Calls : ~Commanding(u)' /\ Opening(u)' = Opening(u)
  BY <1>1, <1>2, <1>5 DEF Commanding, InProgress, Opening
<1>7. \A u \in Calls : CallRight(u)'
  <2> SUFFICES ASSUME NEW u \in Calls PROVE CallRight(u)'
    OBVIOUS
  <2>1. CallRight(u) /\ call[c].session # 0
    BY <1>1 DEF SessionsRight, CallRight, InProgress, Opening
  <2>2. CASE u = c
    BY <1>1, <1>2, <1>3, <1>6, <2>1, <2>2 DEF CallRight, InProgress, Opening
  <2>3. CASE u # c
    <3>1. call[u].session # 0 \/ pc[u] # "closed"
      BY <2>1 DEF CallRight, InProgress, Opening
    <3> QED BY <1>1, <1>2, <1>3, <1>6, <2>1, <2>3, <3>1 DEF CallRight, InProgress, Opening
  <2> QED BY <2>2, <2>3
<1>8. /\ native'.session \in {0, record'} /\ record' <= opened'
      /\ record' # 0 /\ native'.session # record' =>
           \E u \in Calls : pc'[u] = "closed" /\ call'[u].session = record'
  BY <1>1, <1>2, <1>3 DEF SessionsRight, CallRight, InProgress, Opening
<1>9. SessionsRight'
  BY <1>6, <1>7, <1>8 DEF SessionsRight
<1>10. \A u \in Calls : /\ Saving(u)' => Saving(u)
                        /\ pc'[u] = "open" => pc[u] = "open"
  BY <1>2 DEF Saving
<1>11. \A h \in Hashes : sent[h] > 0 /\ native'.session # 0 => Known(native'.pending, h)
  BY <1>3 DEF SentKnown
<1> QED BY <1>1, <1>4, <1>6, <1>9, <1>10, <1>11, SilentSaves

LEMMA ForgetSessionStep ==
  ASSUME SubmissionInv, NEW c \in Calls, ForgetSession(c)
  PROVE  SubmissionInv'
<1> USE DEF SubmissionInv, SendInv
<1>1. /\ pc[c] = "closed" /\ call[c].kind = "close" /\ CallRight(c) /\ opened' = opened
      /\ native' = native /\ store' = store /\ superseded' = superseded /\ sent' = sent
      /\ node' = node /\ reported' = reported
      /\ record' = (IF record = call[c].session THEN 0 ELSE record)
      /\ tracked' \subseteq Hashes
  BY DEF ForgetSession, SessionsRight, CallRight, world, TypeOK
<1>2. /\ pc' \in [Calls -> PCs] /\ pc'[c] = "idle" /\ call' \in [Calls -> CallType]
      /\ call'[c] = Blank /\ Only(c)
  BY EndTyped DEF ForgetSession, Only
<1>3. TypeOK'
  BY <1>1, <1>2 DEF TypeOK
<1>4. \A u \in Calls : ~Commanding(u)
  BY <1>1, NoCommands DEF Closing, InProgress
<1>5. \A u \in Calls : ~Commanding(u)' /\ (Opening(u)' => Opening(u))
  BY <1>1, <1>2, <1>4 DEF Commanding, InProgress, Opening, Only
<1>6. \A u \in Calls : CallRight(u)'
  <2> SUFFICES ASSUME NEW u \in Calls PROVE CallRight(u)'
    OBVIOUS
  <2>1. CASE u = c
    BY <1>1, <1>2, <1>5, <2>1, BlankTyped DEF CallRight, InProgress, Opening, TypeOK
  <2>2. CASE u # c
    BY <1>1, <1>2, <1>5, <2>2 DEF Only, SessionsRight, CallRight, InProgress, Opening
  <2> QED BY <2>1, <2>2
<1>7. /\ native'.session \in {0, record'} /\ record' <= opened'
      /\ record' # 0 /\ native'.session # record' =>
           \E u \in Calls : pc'[u] = "closed" /\ call'[u].session = record'
  <2>1. CASE record = call[c].session
    BY <1>1, <2>1 DEF SessionsRight, CallRight, TypeOK
  <2>2. CASE record # call[c].session
    BY <1>1, <1>2, <2>2 DEF SessionsRight, Only
  <2> QED BY <2>1, <2>2
<1>8. SessionsRight'
  BY <1>5, <1>6, <1>7 DEF SessionsRight
<1>9. \A u \in Calls : /\ Saving(u)' => Saving(u) /\ call'[u] = call[u]
                       /\ pc'[u] = "open" => pc[u] = "open" /\ call'[u] = call[u]
  BY <1>2 DEF Saving, Only
<1>10. \A h \in Hashes : sent[h] > 0 /\ native'.session # 0 => Known(native'.pending, h)
  BY <1>1 DEF SentKnown
<1> QED BY <1>1, <1>3, <1>5, <1>8, <1>9, <1>10, SilentSaves

LEMMA SuspendStep ==
  ASSUME SubmissionInv, NEW c \in Calls, NEW kind \in {"pause", "close"}, Suspend(c, kind)
  PROVE  SubmissionInv'
<1> USE DEF SubmissionInv, SendInv
<1>1. /\ pc[c] = "idle" /\ pc'[c] = "cancelAll" /\ record # 0 /\ tracked' = {}
      /\ record' = record /\ opened' = opened /\ native' = native /\ store' = store
      /\ superseded' = superseded /\ sent' = sent /\ node' = node /\ reported' = reported
      /\ call'[c].kind = kind /\ call'[c].session = record
      /\ Aside(c) /\ pc' \in [Calls -> PCs] /\ call' \in [Calls -> CallType]
      /\ \A u \in Calls \ {c} : call'[u].older = call[u].older
  BY SuspendFacts
<1>2. \A u \in Calls \ {c} :
        call'[u].aborted = \/ call[u].aborted
                           \/ call[u].kind = "submit" /\ call[u].session = record
  <2> TAKE u \in Calls \ {c}
  <2>1. call[u] \in CallType /\ call[u].aborted \in BOOLEAN
    BY DEF TypeOK, CallType
  <2>2. call'[u] = IF call[u].kind = "submit" /\ call[u].session = record
                   THEN [call[u] EXCEPT !.aborted = TRUE] ELSE call[u]
    BY DEF Suspend
  <2>3. [call[u] EXCEPT !.aborted = TRUE].aborted = TRUE
    BY <2>1 DEF CallType
  <2>4. CASE call[u].kind = "submit" /\ call[u].session = record
    BY <2>2, <2>3, <2>4
  <2>5. CASE ~(call[u].kind = "submit" /\ call[u].session = record)
    BY <2>1, <2>2, <2>5
  <2> QED BY <2>4, <2>5
<1>3. TypeOK'
  BY <1>1 DEF TypeOK
<1>4. \A u \in Calls : ~Commanding(u)' /\ (Opening(u)' => Opening(u) /\ u # c)
  <2> TAKE u \in Calls
  <2>1. CASE u = c
    BY <1>1, <2>1 DEF Commanding, Opening
  <2>2. CASE u # c
    <3>1. /\ pc'[u] = pc[u] /\ call'[u].kind = call[u].kind /\ call'[u].session = call[u].session
          /\ call'[u].aborted = \/ call[u].aborted
                                \/ call[u].kind = "submit" /\ call[u].session = record
      BY <1>1, <1>2, <2>2 DEF Aside
    <3>2. CallRight(u)
      BY DEF SessionsRight
    <3> QED BY <2>2, <3>1, <3>2 DEF CallRight, Commanding, InProgress, Opening
  <2> QED BY <2>1, <2>2
<1>5. \A u \in Calls : CallRight(u)'
  <2> SUFFICES ASSUME NEW u \in Calls PROVE CallRight(u)'
    OBVIOUS
  <2>1. CASE u = c
    BY <1>1, <1>4, <2>1 DEF SessionsRight, CallRight, InProgress, Opening
  <2>2. CASE u # c
    <3>1. /\ CallRight(u) /\ ~Commanding(u)' /\ pc'[u] = pc[u] /\ call'[u].kind = call[u].kind
          /\ call'[u].session = call[u].session /\ call'[u].hash = call[u].hash
      BY <1>1, <1>4, <2>2 DEF SessionsRight, Aside
    <3> QED BY <1>1, <3>1 DEF CallRight, InProgress, Opening
  <2> QED BY <2>1, <2>2
<1>6. /\ native'.session \in {0, record'} /\ record' <= opened'
      /\ record' # 0 /\ native'.session # record' =>
           \E u \in Calls : pc'[u] = "closed" /\ call'[u].session = record'
  BY <1>1 DEF SessionsRight, Aside
<1>7. SessionsRight'
  BY <1>4, <1>5, <1>6 DEF SessionsRight
<1>8. \A u \in Calls : /\ Saving(u)' => Saving(u) /\ call'[u].checkpoint = call[u].checkpoint
                                          /\ call'[u].older = call[u].older
                       /\ pc'[u] # "open"
  <2> TAKE u \in Calls
  <2>1. pc[u] # "open"
    BY <1>1 DEF SessionsRight, CallRight, Opening
  <2>2. CASE u = c
    BY <1>1, <2>2 DEF Saving
  <2>3. CASE u # c
    BY <1>1, <2>1, <2>3 DEF Saving, Aside
  <2> QED BY <2>2, <2>3
<1>9. \A h \in Hashes : sent[h] > 0 /\ native'.session # 0 => Known(native'.pending, h)
  BY <1>1 DEF SentKnown
<1> QED BY <1>1, <1>3, <1>4, <1>7, <1>8, <1>9, SilentSaves

LEMMA NativeOpenStep ==
  ASSUME SubmissionInv, NEW c \in Calls, NativeOpen(c)
  PROVE  SubmissionInv'
<1> USE DEF SubmissionInv, SendInv
<1>1. /\ pc[c] = "open" /\ CallRight(c) /\ call[c].checkpoint \in Checkpoints
      /\ opened' = opened + 1 /\ record' = opened + 1 /\ tracked' = {} /\ store' = store
      /\ superseded' = superseded /\ sent' = sent /\ node' = node /\ reported' = reported
      /\ record = 0 /\ opened < MaxSessions /\ opened \in Nat /\ native.session = 0
  BY DEF NativeOpen, SessionsRight, CallRight, Opening, world, TypeOK, CallType
<1>2. /\ pc' \in [Calls -> PCs] /\ pc'[c] = "idle" /\ call' \in [Calls -> CallType]
      /\ call'[c] = Blank /\ Only(c)
  BY EndTyped DEF NativeOpen, Only
<1>3. /\ native' \in [session : Nat, pending : Checkpoints, active : Hashes \cup {NoHash}]
      /\ native'.session = opened + 1 /\ native'.pending = call[c].checkpoint
  BY <1>1 DEF NativeOpen
<1>4. TypeOK'
  BY <1>1, <1>2, <1>3 DEF TypeOK
<1>5. \A u \in Calls : ~Commanding(u)
  BY <1>1, NoCommands DEF Opening
<1>6. \A u \in Calls : ~Commanding(u)' /\ ~Opening(u)'
  BY <1>1, <1>2, <1>5 DEF Commanding, InProgress, Opening, Only, SessionsRight
<1>7. \A u \in Calls : CallRight(u)'
  <2> SUFFICES ASSUME NEW u \in Calls PROVE CallRight(u)'
    OBVIOUS
  <2>1. CASE u = c
    BY <1>1, <1>2, <1>6, <2>1, BlankTyped DEF CallRight, InProgress, Opening
  <2>2. CASE u # c
    <3>1. CallRight(u) /\ call[u].session \in Nat /\ call'[u] = call[u] /\ pc'[u] = pc[u]
      BY <1>2, <2>2 DEF SessionsRight, Only, TypeOK, CallType
    <3>2. call[u].session <= opened' /\ native'.session # call[u].session
      BY <1>1, <1>3, <3>1 DEF CallRight
    <3> QED BY <1>6, <3>1, <3>2 DEF CallRight, InProgress, Opening
  <2> QED BY <2>1, <2>2
<1>8. SessionsRight'
  BY <1>1, <1>3, <1>6, <1>7 DEF SessionsRight
<1>9. \A u \in Calls : /\ Saving(u)' => Saving(u) /\ call'[u] = call[u]
                       /\ pc'[u] = "open" => pc[u] = "open" /\ call'[u] = call[u]
  BY <1>2 DEF Saving, Only
<1>10. \A h \in Hashes : sent[h] > 0 /\ native'.session # 0 => Known(native'.pending, h)
  BY <1>1, <1>3 DEF SentKnown
<1> QED BY <1>1, <1>4, <1>6, <1>8, <1>9, <1>10, SilentSaves

LEMMA CrashStep ==
  ASSUME SubmissionInv, Crash
  PROVE  SubmissionInv'
<1> USE DEF SubmissionInv, SendInv
<1>1. /\ record' = 0 /\ tracked' = {} /\ native' = Closed /\ superseded' = {} /\ opened' = opened
      /\ store' = store /\ sent' = sent /\ node' = node /\ reported' = reported /\ opened \in Nat
      /\ \A u \in Calls : pc'[u] = "idle" /\ call'[u] = Blank
  BY DEF Crash, world, TypeOK
<1>2. TypeOK'
  BY <1>1, BlankTyped, ClosedTyped DEF Crash, TypeOK, PCs
<1>3. SessionsRight'
  BY <1>1, BlankTyped, ClosedTyped
     DEF SessionsRight, CallRight, Commanding, Opening, Closing, InProgress
<1>4. OrderRight' /\ NewKnown' /\ NeverSentTwice'
  BY <1>1 DEF OrderRight, Saving, NewKnown, MaySend, NeverSentTwice
<1>5. SentKnown'
  BY <1>1, ClosedTyped DEF SentKnown, Settles, Fresh, Saving
<1> QED BY <1>2, <1>3, <1>4, <1>5

\* the node's decision and a stuttering step are no business of the controller
LEMMA IdleStep ==
  ASSUME SubmissionInv, (\E h \in Hashes : NodeDecides(h)) \/ UNCHANGED vars
  PROVE  SubmissionInv'
<1> USE DEF SubmissionInv, SendInv
<1>1. /\ record' = record /\ tracked' = tracked /\ native' = native /\ superseded' = superseded
      /\ opened' = opened /\ store' = store /\ sent' = sent /\ reported' = reported
      /\ pc' = pc /\ call' = call /\ node' \in [Hashes -> Settled \cup {"none"}]
  BY DEF NodeDecides, vars, session, world, TypeOK
<1>2. TypeOK'
  BY <1>1 DEF TypeOK
<1>3. SessionsRight' /\ OrderRight' /\ NeverSentTwice'
  BY <1>1 DEF SessionsRight, CallRight, Commanding, Opening, Closing, InProgress, OrderRight,
              Saving, NeverSentTwice
<1>4. /\ \A u \in Calls : /\ Saving(u)' = Saving(u) /\ Fresh(u)' = Fresh(u)
                          /\ \A h \in Hashes : MaySend(u, h)' = MaySend(u, h)
      /\ \A h \in Hashes : Settles(h)' = Settles(h)
  BY <1>1 DEF MaySend, Commanding, InProgress, Settles, Fresh, Saving
<1>5. SentKnown'
  BY <1>1, <1>4 DEF SentKnown
<1>6. ASSUME NEW u \in Calls, NEW h \in Hashes, MaySend(u, h)'
      PROVE  New(u, h)'
  <2>1. New(u, h)
    BY <1>4, <1>6 DEF NewKnown
  <2> QED BY <1>1, <1>4, <2>1 DEF New
<1> QED BY <1>2, <1>3, <1>5, <1>6 DEF NewKnown

-----------------------------------------------------------------------------
(* No transaction is sent twice                                            *)

LEMMA InvInit == ASSUME Init PROVE SubmissionInv
<1> USE DEF Init
<1>1. TypeOK
  BY BlankTyped, ClosedTyped DEF TypeOK, PCs, NoStatus, Checkpoints, Statuses
<1>2. SessionsRight
  BY BlankTyped, ClosedTyped
     DEF SessionsRight, CallRight, Commanding, Opening, Closing, InProgress
<1>3. OrderRight /\ SentKnown /\ NewKnown /\ NeverSentTwice
  BY DEF OrderRight, Saving, SentKnown, NewKnown, MaySend, NeverSentTwice
<1> QED BY <1>1, <1>2, <1>3 DEF SubmissionInv, SendInv

LEMMA InvStep == ASSUME Promised, SubmissionInv, [Next]_vars PROVE SubmissionInv'
<1>1. ASSUME NEW c \in Calls, Begin(c) PROVE SubmissionInv'
  BY <1>1, RunCommandStep, StartedStep, SuspendStep DEF Begin, Pause, CloseSession
<1>2. ASSUME NEW c \in Calls, Submit(c) PROVE SubmissionInv'
  BY <1>2, NativeBeginStep, NotifyStepStep, SendStep, StopAbortedStep, ReturnResultStep,
     AnswerStep, RequestFailsStep, NativeResumeStep, NativeCancelStep DEF Submit
<1>3. ASSUME NEW c \in Calls, Persist(c) PROVE SubmissionInv'
  BY <1>3, NativeExportStep, SaveStep, SaveFailsStep DEF Persist
<1>4. ASSUME NEW c \in Calls, Control(c) PROVE SubmissionInv'
  BY <1>4, NativeApplyStep, NativeCancelTrackedStep, NativeCloseStep, ForgetSessionStep,
     LoadStep, NativeOpenStep DEF Control
<1> QED BY <1>1, <1>2, <1>3, <1>4, AbortCommandStep, CrashStep, IdleStep DEF Next, Continue

LEMMA Invariance == ASSUME Promised PROVE Spec => []SubmissionInv
<1>1. Init => SubmissionInv
  BY InvInit
<1>2. SubmissionInv /\ [Next]_vars => SubmissionInv'
  BY InvStep
<1> QED BY <1>1, <1>2, PTL DEF Spec

\* README.md:255, controller.ts:143-147: over every abort, pause, failed save, crash, restart
\* and repeated runCommand a transaction goes to the node at most once, if the host keeps the
\* newest checkpoint and begins nothing on a session that is being closed
THEOREM TransactionsAreSentOnce == ASSUME Promised PROVE Spec => []NeverSentTwice
<1>1. SubmissionInv => NeverSentTwice
  BY DEF SubmissionInv, SendInv
<1> QED BY <1>1, Invariance, PTL

-----------------------------------------------------------------------------
(* What holds whatever the host promises                                   *)

\* the calls whose operation the native session has begun
Began(c) == \/ pc[c] \in {"step", "saved", "waiting", "resume", "cancel"}
            \/ pc[c] \in {"export", "save"} /\ call[c].kind = "submit"

\* CallRight, but for what a command that was not aborted relies on
Place(c) ==
  /\ call[c].session <= opened
  /\ InProgress(c) => (Opening(c) <=> call[c].kind = "open")
  /\ Opening(c) => record = 0 /\ opened < MaxSessions
  /\ InProgress(c) /\ ~Opening(c) => call[c].session # 0
  /\ InProgress(c) /\ call[c].kind = "submit" => call[c].hash \in Hashes
  /\ pc[c] \in {"step", "saved", "waiting", "resume", "cancel"} => call[c].kind = "submit"
  /\ pc[c] \in {"closing", "closed"} => call[c].kind = "close"
  /\ pc[c] = "cancelAll" => call[c].kind # "submit"
  /\ pc[c] = "closed" => native.session # call[c].session
  /\ pc[c] = "begin" => call[c].step = "network"

Places ==
  /\ native.session \in {0, record} /\ record <= opened
  /\ record # 0 /\ native.session # record =>
       \E u \in Calls : pc[u] = "closed" /\ call[u].session = record
  /\ \A c \in Calls : Place(c)
  /\ \A c, u \in Calls : Opening(c) /\ Opening(u) => c = u

\* an answer is the node's, and so is every outcome that is written anywhere
TrueOf(R) == \A h \in Hashes : R[h] \in Settled => R[h] = node[h]
RecordsTrue == TrueOf(store) /\ TrueOf(native.pending) /\ \A c \in Calls : TrueOf(call[c].checkpoint)
AnswersTrue ==
  \A c \in Calls : call[c].answer \in Settled =>
    call[c].hash \in Hashes /\ call[c].answer = node[call[c].hash]

\* the operation of a call is known to the session, and an active one has a call that ends it
Owned ==
  /\ \A c \in Calls : Began(c) /\ IsOpen(c) =>
       /\ Known(native.pending, call[c].hash)
       /\ call[c].step = "complete" => native.pending[call[c].hash] \in Settled
  /\ native.active # NoHash =>
       /\ native.pending[native.active] \in {"awaiting", "unknown"}
       /\ \E c \in Calls : Began(c) /\ IsOpen(c) /\ call[c].hash = native.active

FreeInv == TypeOK /\ Places /\ RecordsTrue /\ AnswersTrue /\ Owned

-----------------------------------------------------------------------------
(* Steps of one call that leave the native session alone                   *)

\* what a call has begun stays begun
StaysBegun(c) ==
  /\ Began(c)' /\ IsOpen(c)' =>
       /\ Began(c) /\ IsOpen(c) /\ call'[c].hash = call[c].hash /\ call'[c].step = call[c].step
  /\ native.active # NoHash /\ Began(c) /\ IsOpen(c) /\ call[c].hash = native.active =>
       Began(c)' /\ IsOpen(c)' /\ call'[c].hash = call[c].hash

LEMMA AsidePlaces ==
  ASSUME TypeOK, Places, NEW c \in Calls, Aside(c), pc[c] # "closed",
         record' = record, opened' = opened, native'.session = native.session,
         Place(c)', Opening(c)' => Opening(c) \/ \A u \in Calls : ~Opening(u)
  PROVE  Places'
<1>1. \A u \in Calls \ {c} : Place(u)' /\ Opening(u)' = Opening(u)
  BY DEF Places, Place, Aside, InProgress, Opening
<1>2. /\ native'.session \in {0, record'} /\ record' <= opened'
      /\ record' # 0 /\ native'.session # record' =>
           \E u \in Calls : pc'[u] = "closed" /\ call'[u].session = record'
  BY DEF Places, Aside
<1>3. \A u, v \in Calls : Opening(u)' /\ Opening(v)' => u = v
  <2> SUFFICES ASSUME NEW u \in Calls, NEW v \in Calls, Opening(u)', Opening(v)', u # v PROVE FALSE
    OBVIOUS
  <2>1. Opening(u) \/ Opening(v)
    BY <1>1
  <2>2. Opening(u) /\ Opening(v)
    BY <1>1, <2>1
  <2> QED BY <2>2 DEF Places
<1> QED BY <1>1, <1>2, <1>3 DEF Places

LEMMA AsideFree ==
  ASSUME FreeInv, NEW c \in Calls, Aside(c), TypeOK', pc[c] # "closed",
         record' = record, opened' = opened, native' = native, node' = node,
         store' = store \/ store' = call[c].checkpoint,
         Place(c)', Opening(c)' => Opening(c) \/ \A u \in Calls : ~Opening(u),
         call'[c].answer \in Settled =>
           call'[c].hash \in Hashes /\ call'[c].answer = node[call'[c].hash],
         \/ call'[c].checkpoint \in {call[c].checkpoint, NoStatus}
         \/ call'[c].checkpoint \in {store, native.pending},
         StaysBegun(c)
  PROVE  FreeInv'
<1> USE DEF FreeInv
<1>1. Places'
  BY AsidePlaces
<1>2. RecordsTrue'
  BY DEF RecordsTrue, TrueOf, Aside, NoStatus, Settled
<1>3. AnswersTrue'
  BY DEF AnswersTrue, Aside
<1>4. \A u \in Calls \ {c} : /\ Began(u)' = Began(u) /\ IsOpen(u)' = IsOpen(u)
                             /\ call'[u].hash = call[u].hash /\ call'[u].step = call[u].step
  BY DEF Aside, Began, IsOpen
<1>5. Owned'
  BY <1>4 DEF Owned, StaysBegun, Known
<1> QED BY <1>1, <1>2, <1>3, <1>5

\* a call that ends
LEMMA EndFacts ==
  ASSUME TypeOK, NEW c \in Calls, End(c)
  PROVE  /\ Aside(c) /\ Only(c) /\ pc'[c] = "idle" /\ call'[c] = Blank
         /\ pc' \in [Calls -> PCs] /\ call' \in [Calls -> CallType]
BY EndTyped DEF Aside, Only

LEMMA EndPlace ==
  ASSUME TypeOK, NEW c \in Calls, pc'[c] = "idle", call'[c] = Blank, opened' \in Nat
  PROVE  Place(c)' /\ ~Opening(c)' /\ ~Began(c)'
BY BlankTyped DEF Place, InProgress, Opening, Began

LEMMA EndFree ==
  ASSUME FreeInv, NEW c \in Calls, End(c), pc[c] # "closed",
         record' = record, opened' = opened, native' = native, node' = node, sent' = sent,
         tracked' = tracked, superseded' \subseteq Calls, reported' \subseteq Hashes,
         store' = store \/ store' = call[c].checkpoint,
         Began(c) /\ IsOpen(c) => call[c].hash # native.active \/ native.active = NoHash
  PROVE  FreeInv'
<1> USE DEF FreeInv
<1>1. /\ Aside(c) /\ pc'[c] = "idle" /\ call'[c] = Blank
      /\ pc' \in [Calls -> PCs] /\ call' \in [Calls -> CallType]
  BY EndFacts
<1>2. TypeOK'
  BY <1>1 DEF TypeOK, CallType
<1>3. Place(c)' /\ ~Opening(c)' /\ ~Began(c)'
  BY <1>1, EndPlace DEF TypeOK
<1>4. StaysBegun(c)
  BY <1>3 DEF StaysBegun
<1>5. call'[c].answer \notin Settled /\ call'[c].checkpoint = NoStatus
  BY <1>1, NewRecords DEF Settled
<1> QED BY <1>1, <1>2, <1>3, <1>4, <1>5, AsideFree

\* a call that goes on, with the same record or with fields of it written that no other call sees
GoesOn(c) ==
  /\ Only(c) /\ pc' \in [Calls -> PCs] /\ call' \in [Calls -> CallType]
  /\ call'[c].kind = call[c].kind /\ call'[c].session = call[c].session
  /\ call'[c].hash = call[c].hash /\ call'[c].step = call[c].step
  /\ call'[c].checkpoint = call[c].checkpoint

LEMMA GotoFacts ==
  ASSUME TypeOK, NEW c \in Calls, NEW next \in PCs, Goto(c, next), call' = call
  PROVE  GoesOn(c) /\ pc'[c] = next
<1>1. pc' \in [Calls -> PCs] /\ pc'[c] = next /\ \A u \in Calls \ {c} : pc'[u] = pc[u]
  BY GotoTyped
<1> QED BY <1>1 DEF GoesOn, Only, TypeOK

LEMMA GoesOnFree ==
  ASSUME FreeInv, NEW c \in Calls, GoesOn(c), pc[c] \notin {"idle", "closed"},
         record' = record, opened' = opened, native' = native, node' = node,
         sent' \in [Hashes -> Nat],
         tracked' \subseteq Hashes, superseded' \subseteq Calls, reported' \subseteq Hashes,
         store' = store \/ store' = call[c].checkpoint,
         call'[c].answer \in Settled =>
           call[c].hash \in Hashes /\ call'[c].answer = node[call[c].hash],
         pc'[c] \notin {"idle", "closed"}, Opening(c)' <=> Opening(c),
         pc'[c] \in {"step", "saved", "waiting", "resume", "cancel"} => call[c].kind = "submit",
         pc'[c] = "closing" => call[c].kind = "close",
         pc'[c] = "cancelAll" => pc[c] = "cancelAll", pc'[c] = "begin" => pc[c] = "begin",
         Began(c)' <=> Began(c)
  PROVE  FreeInv'
<1> USE DEF FreeInv, GoesOn
<1>1. Aside(c)
  BY DEF Only, Aside
<1>2. TypeOK'
  BY DEF TypeOK, CallType
<1>3. Place(c)
  BY DEF Places
<1>4. Place(c)'
  BY <1>3 DEF Place, InProgress, Opening
<1>5. StaysBegun(c)
  BY DEF StaysBegun, IsOpen
<1> QED BY <1>1, <1>2, <1>4, <1>5, AsideFree

LEMMA GotoFree ==
  ASSUME FreeInv, NEW c \in Calls, NEW next \in PCs, Goto(c, next), call' = call,
         pc[c] \notin {"idle", "closed", "load", "open"}, next \notin {"idle", "closed", "load", "open"},
         record' = record, opened' = opened, native' = native, node' = node,
         sent' \in [Hashes -> Nat],
         tracked' \subseteq Hashes, superseded' \subseteq Calls, reported' \subseteq Hashes,
         store' = store \/ store' = call[c].checkpoint,
         next \in {"step", "saved", "waiting", "resume", "cancel"} => call[c].kind = "submit",
         next = "closing" => call[c].kind = "close",
         next \notin {"begin", "cancelAll"},
         \/ call[c].kind # "submit" /\ next \notin {"step", "saved", "waiting", "resume", "cancel"}
         \/ Began(c) /\ next \in {"step", "saved", "waiting", "resume", "cancel", "export", "save"}
  PROVE  FreeInv'
<1>1. GoesOn(c) /\ pc'[c] = next
  BY GotoFacts DEF FreeInv
<1>2. Opening(c)' <=> Opening(c)
  BY <1>1 DEF Opening
<1>3. Place(c) /\ call'[c].kind = call[c].kind
  BY <1>1 DEF FreeInv, Places, GoesOn
<1>4. Began(c)' <=> Began(c)
  BY <1>1, <1>3 DEF Began, Place
<1>5. call'[c].answer \in Settled =>
           call[c].hash \in Hashes /\ call'[c].answer = node[call[c].hash]
  BY DEF FreeInv, AnswersTrue
<1> QED BY <1>1, <1>2, <1>4, <1>5, GoesOnFree

-----------------------------------------------------------------------------
(* The actions, whatever the host promises                                 *)

LEMMA RunCommandFree ==
  ASSUME FreeInv, NEW c \in Calls, NEW h \in Hashes, RunCommand(c, h)
  PROVE  FreeInv'
<1> USE DEF FreeInv
<1>1. PICK signal \in BOOLEAN : call' = [call EXCEPT ![c] = Command(h, signal)]
  BY DEF Command, RunCommand
<1>2. /\ Command(h, signal) \in CallType /\ Command(h, signal).kind = "submit"
      /\ Command(h, signal).hash = h /\ Command(h, signal).session = record
  BY CommandTyped
<1>3. /\ call' \in [Calls -> CallType] /\ call'[c] = Command(h, signal)
      /\ \A u \in Calls \ {c} : call'[u] = call[u]
  BY <1>1, <1>2, CallReplaced
<1>4. /\ pc' \in [Calls -> PCs] /\ pc'[c] = "begin" /\ \A u \in Calls \ {c} : pc'[u] = pc[u]
  BY GotoTyped DEF PCs, RunCommand
<1>5. /\ pc[c] = "idle" /\ record # 0 /\ record' = record /\ opened' = opened
      /\ native' = native /\ node' = node /\ store' = store /\ sent' = sent
      /\ tracked' = tracked /\ superseded' = superseded /\ reported' = reported
  BY DEF RunCommand, session, world
<1>6. TypeOK'
  BY <1>3, <1>4, <1>5 DEF TypeOK
<1>7. Place(c)' /\ ~Opening(c)' /\ ~Began(c)' /\ ~Began(c)
  BY <1>2, <1>3, <1>4, <1>5, NewRecords DEF Place, Places, InProgress, Opening, Began
<1>8. Aside(c) /\ StaysBegun(c)
  BY <1>3, <1>4, <1>7 DEF Aside, StaysBegun
<1>9. call'[c].answer \notin Settled /\ call'[c].checkpoint = NoStatus
  BY <1>3, NewRecords DEF Settled
<1> QED BY <1>5, <1>6, <1>7, <1>8, <1>9, AsideFree

LEMMA StartedFree ==
  ASSUME FreeInv, NEW c \in Calls, ApplySyncBatch(c) \/ OpenSession(c)
  PROVE  FreeInv'
<1> USE DEF FreeInv
<1> DEFINE kind == IF ApplySyncBatch(c) THEN "sync" ELSE "open"
<1>1. Started(kind, {}) \in CallType /\ Started(kind, {}).kind = kind
      /\ Started(kind, {}).session = record
  BY StartedTyped DEF Kinds
<1>2. call' = [call EXCEPT ![c] = Started(kind, {})]
  BY DEF ApplySyncBatch, OpenSession
<1>3. /\ call' \in [Calls -> CallType] /\ call'[c] = Started(kind, {})
      /\ \A u \in Calls \ {c} : call'[u] = call[u]
  BY <1>1, <1>2, CallReplaced
<1>4. /\ pc' \in [Calls -> PCs] /\ \A u \in Calls \ {c} : pc'[u] = pc[u]
      /\ pc'[c] = IF ApplySyncBatch(c) THEN "begin" ELSE "load"
  BY GotoTyped DEF PCs, ApplySyncBatch, OpenSession
<1>5. /\ pc[c] = "idle" /\ record' = record /\ opened' = opened
      /\ native' = native /\ node' = node /\ store' = store /\ sent' = sent
      /\ tracked' = tracked /\ superseded' = superseded /\ reported' = reported
      /\ IF ApplySyncBatch(c) THEN record # 0
         ELSE record = 0 /\ opened < MaxSessions /\ \A u \in Calls : ~Opening(u)
  BY DEF ApplySyncBatch, OpenSession, session, world, Opening
<1>6. TypeOK'
  BY <1>3, <1>4, <1>5 DEF TypeOK
<1>7. Place(c)' /\ ~Began(c)' /\ ~Began(c) /\ (Opening(c)' => \A u \in Calls : ~Opening(u))
  BY <1>1, <1>3, <1>4, <1>5, NewRecords DEF Place, Places, InProgress, Opening, Began, TypeOK
<1>8. Aside(c) /\ StaysBegun(c)
  BY <1>3, <1>4, <1>7 DEF Aside, StaysBegun
<1>9. call'[c].answer \notin Settled /\ call'[c].checkpoint = NoStatus
  BY <1>3, NewRecords DEF Settled
<1> QED BY <1>5, <1>6, <1>7, <1>8, <1>9, AsideFree

LEMMA SuspendFree ==
  ASSUME FreeInv, NEW c \in Calls, NEW kind \in {"pause", "close"}, Suspend(c, kind)
  PROVE  FreeInv'
<1> USE DEF FreeInv
<1>1. /\ pc[c] = "idle" /\ pc'[c] = "cancelAll" /\ record # 0 /\ tracked' = {}
      /\ record' = record /\ opened' = opened /\ native' = native /\ store' = store
      /\ superseded' = superseded /\ sent' = sent /\ node' = node /\ reported' = reported
      /\ call'[c].kind = kind /\ call'[c].session = record
      /\ call'[c].answer = "unknown" /\ call'[c].checkpoint = NoStatus
      /\ Aside(c) /\ pc' \in [Calls -> PCs] /\ call' \in [Calls -> CallType]
  BY SuspendFacts
<1>2. TypeOK'
  BY <1>1 DEF TypeOK
<1>3. Place(c)' /\ ~Opening(c)' /\ ~Began(c)' /\ ~Began(c)
  BY <1>1 DEF Place, Places, InProgress, Opening, Began
<1> QED BY <1>1, <1>2, <1>3, AsideFree DEF StaysBegun, Settled

LEMMA NotifyStepFree ==
  ASSUME FreeInv, NEW c \in Calls, NotifyStep(c)
  PROVE  FreeInv'
<1>1. /\ pc[c] = "step" /\ call[c].kind = "submit" /\ call[c].hash \in Hashes /\ Began(c)
  BY DEF NotifyStep, FreeInv, Places, Place, InProgress, Began
<1>2. /\ Goto(c, "cancel") \/ Goto(c, "export")
      /\ tracked' \subseteq Hashes /\ call' = call
      /\ record' = record /\ opened' = opened /\ native' = native /\ store' = store
      /\ superseded' = superseded /\ sent' = sent /\ node' = node /\ reported' = reported
  BY <1>1 DEF NotifyStep, world, FreeInv, TypeOK
<1>3. "cancel" \in PCs /\ "export" \in PCs
  BY DEF PCs
<1> QED BY <1>1, <1>2, <1>3, GotoFree DEF FreeInv, TypeOK

LEMMA SendFree ==
  ASSUME FreeInv, NEW c \in Calls, Send(c) \/ StopAborted(c)
  PROVE  FreeInv'
<1>1. /\ pc[c] = "saved" /\ call[c].kind = "submit" /\ Began(c)
  BY DEF Send, StopAborted, Is, Began
<1>2. /\ Goto(c, "waiting") \/ Goto(c, "cancel")
      /\ call' = call /\ tracked' = tracked
      /\ record' = record /\ opened' = opened /\ native' = native /\ store' = store
      /\ superseded' = superseded /\ node' = node /\ reported' = reported
      /\ sent' \in [Hashes -> Nat]
  BY DEF Send, StopAborted, session, world, FreeInv, TypeOK
<1>3. "cancel" \in PCs /\ "waiting" \in PCs
  BY DEF PCs
<1> QED BY <1>1, <1>2, <1>3, GotoFree DEF FreeInv, TypeOK

LEMMA ReturnResultFree ==
  ASSUME FreeInv, NEW c \in Calls, ReturnResult(c)
  PROVE  FreeInv'
<1>1. /\ End(c) /\ pc[c] = "saved" /\ call[c].kind = "submit" /\ call[c].step = "complete"
      /\ record' = record /\ opened' = opened /\ native' = native /\ store' = store
      /\ superseded' = superseded /\ sent' = sent /\ node' = node /\ tracked' = tracked
      /\ reported' = reported \cup {call[c].hash}
  BY DEF ReturnResult, Is, session, world
<1>2. call[c].hash \in Hashes /\ Began(c)
  BY <1>1 DEF FreeInv, Places, Place, InProgress, Began
<1>3. IsOpen(c) => native.active = NoHash \/ call[c].hash # native.active
  BY <1>1, <1>2 DEF FreeInv, Owned, Settled
<1> QED BY <1>1, <1>2, <1>3, EndFree DEF FreeInv, TypeOK

\* a request that is answered, or that fails
LEMMA AnswerFree ==
  ASSUME FreeInv, NEW c \in Calls, Answer(c) \/ RequestFails(c)
  PROVE  FreeInv'
<1>1. /\ pc[c] \in {"waiting", "saved"} /\ call[c].kind = "submit" /\ Began(c)
      /\ call[c].hash \in Hashes /\ call[c] \in CallType
  BY DEF Answer, RequestFails, Is, FreeInv, Places, Place, InProgress, Began, TypeOK
<1>2. /\ record' = record /\ opened' = opened /\ native' = native /\ store' = store
      /\ superseded' = superseded /\ sent' = sent /\ node' = node /\ tracked' = tracked
      /\ reported' = reported
  BY DEF Answer, RequestFails, session, world
<1>3. CASE Goto(c, "cancel") /\ call' = call
  <2>1. "cancel" \in PCs
    BY DEF PCs
  <2> QED BY <1>1, <1>2, <1>3, <2>1, GotoFree DEF FreeInv, TypeOK
<1>4. ASSUME NEW answer \in Settled \cup {"unknown"}, Answered(c, answer), Goto(c, "resume"),
             answer \in Settled => answer = node[call[c].hash]
      PROVE  FreeInv'
  <2> DEFINE r == [call[c] EXCEPT !.answer = answer]
  <2>1. /\ r \in CallType /\ r.kind = call[c].kind /\ r.session = call[c].session
        /\ r.hash = call[c].hash /\ r.step = call[c].step /\ r.checkpoint = call[c].checkpoint
        /\ r.answer = answer
    BY <1>1, AnswerWritten DEF CallType
  <2>2. call' = [call EXCEPT ![c] = r]
    BY <1>4 DEF FreeInv, TypeOK, Answered
  <2> HIDE DEF r
  <2>3. /\ call' \in [Calls -> CallType] /\ call'[c] = r /\ \A u \in Calls \ {c} : call'[u] = call[u]
    BY <2>1, <2>2, CallReplaced DEF FreeInv
  <2>4. /\ pc' \in [Calls -> PCs] /\ pc'[c] = "resume" /\ \A u \in Calls \ {c} : pc'[u] = pc[u]
    BY <1>4, GotoTyped DEF PCs, FreeInv
  <2>5. GoesOn(c)
    BY <2>1, <2>3, <2>4 DEF GoesOn, Only
  <2>6. (Opening(c)' <=> Opening(c)) /\ (Began(c)' <=> Began(c))
    BY <1>1, <2>4 DEF Opening, Began
  <2> QED BY <1>1, <1>2, <1>4, <2>1, <2>3, <2>4, <2>5, <2>6, GoesOnFree DEF FreeInv, TypeOK
<1>5. \/ Goto(c, "cancel") /\ call' = call
      \/ Goto(c, "resume") /\ Answered(c, "unknown")
      \/ /\ Goto(c, "resume") /\ Answered(c, node[call[c].hash]) /\ node[call[c].hash] \in Settled
  BY DEF Answer, RequestFails, Answered
<1> QED BY <1>3, <1>4, <1>5 DEF Settled

LEMMA AbortCommandFree ==
  ASSUME FreeInv, NEW c \in Calls, AbortCommand(c)
  PROVE  FreeInv'
<1> DEFINE r == [call[c] EXCEPT !.signal = TRUE, !.aborted = TRUE]
<1>1. call[c] \in CallType /\ pc[c] \in PCs /\ pc[c] # "idle" /\ call[c].kind = "submit" /\ Place(c)
  BY DEF AbortCommand, FreeInv, TypeOK, Places
<1>2. pc[c] \notin {"load", "open", "closing", "closed", "cancelAll"}
  BY <1>1 DEF Place, InProgress, Opening
<1>3. /\ r \in CallType /\ r.kind = call[c].kind /\ r.session = call[c].session
      /\ r.hash = call[c].hash /\ r.step = call[c].step
      /\ r.checkpoint = call[c].checkpoint /\ r.answer = call[c].answer
  BY <1>1, SignalWritten DEF CallType
<1>4. call' = [call EXCEPT ![c] = r] /\ pc' = pc
  BY DEF AbortCommand, FreeInv, TypeOK
<1> HIDE DEF r
<1>5. /\ call' \in [Calls -> CallType] /\ call'[c] = r /\ \A u \in Calls \ {c} : call'[u] = call[u]
  BY <1>3, <1>4, CallReplaced DEF FreeInv
<1>6. GoesOn(c)
  BY <1>3, <1>4, <1>5 DEF GoesOn, Only, FreeInv, TypeOK
<1>7. (Opening(c)' <=> Opening(c)) /\ (Began(c)' <=> Began(c))
  BY <1>3, <1>4, <1>5 DEF Opening, Began
<1>8. /\ record' = record /\ opened' = opened /\ native' = native /\ store' = store
      /\ superseded' = superseded /\ sent' = sent /\ node' = node /\ tracked' = tracked
      /\ reported' = reported
  BY DEF AbortCommand, session, world
<1>9. call'[c].answer \in Settled =>
           call[c].hash \in Hashes /\ call'[c].answer = node[call[c].hash]
  BY <1>3, <1>5 DEF FreeInv, AnswersTrue
<1>10. pc[c] \in {"step", "saved", "waiting", "resume", "cancel"} => call[c].kind = "submit"
  BY <1>1
<1> QED BY <1>1, <1>2, <1>4, <1>6, <1>7, <1>8, <1>9, GoesOnFree DEF FreeInv, TypeOK

LEMMA FailFree ==
  ASSUME FreeInv, NEW c \in Calls, Fail(c), pc[c] \in {"export", "save"},
         UNCHANGED <<session, native, store, superseded, world, reported>>
  PROVE  FreeInv'
<1>1. /\ record' = record /\ opened' = opened /\ native' = native /\ store' = store
      /\ superseded' = superseded /\ sent' = sent /\ node' = node /\ tracked' = tracked
      /\ reported' = reported
  BY DEF session, world
<1>2. CASE call[c].kind \in {"sync", "pause"}
  <2>1. End(c) /\ ~Began(c)
    BY <1>2 DEF Fail, Began
  <2> QED BY <1>1, <2>1, EndFree DEF FreeInv, TypeOK
<1>3. CASE call[c].kind = "submit"
  <2>1. Goto(c, "cancel") /\ call' = call /\ Began(c) /\ "cancel" \in PCs
    BY <1>3 DEF Fail, Began, PCs
  <2> QED BY <1>1, <1>3, <2>1, GotoFree DEF FreeInv, TypeOK
<1>4. CASE call[c].kind = "close"
  <2>1. Goto(c, "closing") /\ call' = call /\ "closing" \in PCs
    BY <1>4 DEF Fail, PCs
  <2> QED BY <1>1, <1>4, <2>1, GotoFree DEF FreeInv, TypeOK
<1>5. call[c].kind \in Kinds \ {"open"}
  BY DEF FreeInv, TypeOK, CallType, Places, Place, InProgress, Opening
<1> QED BY <1>2, <1>3, <1>4, <1>5 DEF Kinds

LEMMA NativeExportFree ==
  ASSUME FreeInv, NEW c \in Calls, NativeExport(c)
  PROVE  FreeInv'
<1>1. CASE ~IsOpen(c)
  BY <1>1, FailFree DEF NativeExport
<1>2. CASE IsOpen(c)
  <2> USE DEF FreeInv
  <2>1. /\ pc[c] = "export" /\ pc'[c] = "save" /\ superseded' = superseded \ {c}
        /\ native' = native /\ store' = store /\ sent' = sent /\ record' = record
        /\ opened' = opened /\ tracked' = tracked /\ node' = node /\ reported' = reported
        /\ call'[c].kind = call[c].kind /\ call'[c].session = call[c].session
        /\ call'[c].hash = call[c].hash /\ call'[c].step = call[c].step
        /\ call'[c].answer = call[c].answer /\ call'[c].checkpoint = native.pending
        /\ Aside(c) /\ pc' \in [Calls -> PCs] /\ call' \in [Calls -> CallType]
    BY <1>2, NativeExportFacts
  <2>2. TypeOK'
    BY <2>1 DEF TypeOK
  <2>3. Place(c) /\ (Began(c)' <=> Began(c))
    BY <2>1 DEF Places, Began
  <2>4. Place(c)' /\ ~Opening(c)'
    BY <2>1, <2>3 DEF Place, InProgress, Opening
  <2>5. StaysBegun(c)
    BY <2>1, <2>3 DEF StaysBegun, IsOpen
  <2> QED BY <2>1, <2>2, <2>4, <2>5, AsideFree DEF AnswersTrue
<1> QED BY <1>1, <1>2

LEMMA SaveFree ==
  ASSUME FreeInv, NEW c \in Calls, Save(c)
  PROVE  FreeInv'
<1>1. /\ pc[c] = "save" /\ record' = record /\ opened' = opened
      /\ tracked' = tracked /\ native' = native /\ sent' = sent /\ node' = node
      /\ reported' = reported /\ call[c] \in CallType
  BY DEF Save, FreeInv, TypeOK, session, world
<1>2. /\ store' = store \/ store' = call[c].checkpoint
      /\ superseded' \subseteq Calls
  BY <1>1 DEF Save, FreeInv, TypeOK, CallType
<1>3. CASE call[c].kind = "submit"
  <2>1. Goto(c, "saved") /\ call' = call /\ Began(c) /\ "saved" \in PCs
    BY <1>1, <1>3 DEF Save, GoOn, Began, PCs
  <2> QED BY <1>1, <1>2, <1>3, <2>1, GotoFree DEF FreeInv, TypeOK
<1>4. CASE call[c].kind = "close"
  <2>1. Goto(c, "closing") /\ call' = call /\ "closing" \in PCs
    BY <1>4 DEF Save, GoOn, PCs
  <2> QED BY <1>1, <1>2, <1>4, <2>1, GotoFree DEF FreeInv, TypeOK
<1>5. CASE call[c].kind \notin {"submit", "close"}
  <2>1. End(c) /\ ~Began(c)
    BY <1>1, <1>5 DEF Save, GoOn, Began
  <2> QED BY <1>1, <1>2, <2>1, EndFree DEF FreeInv, TypeOK
<1> QED BY <1>3, <1>4, <1>5

LEMMA NativeApplyFree ==
  ASSUME FreeInv, NEW c \in Calls, NativeApply(c)
  PROVE  FreeInv'
<1>1. /\ pc[c] = "begin" /\ call[c].kind = "sync" /\ ~Began(c) /\ record' = record /\ opened' = opened
      /\ tracked' = tracked /\ native' = native /\ sent' = sent /\ node' = node /\ store' = store
      /\ superseded' = superseded /\ reported' = reported
  BY DEF NativeApply, Is, Began, session, world
<1>2. CASE End(c)
  BY <1>1, <1>2, EndFree DEF FreeInv, TypeOK
<1>3. CASE Goto(c, "export") /\ call' = call
  <2>1. "export" \in PCs
    BY DEF PCs
  <2> QED BY <1>1, <1>3, <2>1, GotoFree DEF FreeInv, TypeOK
<1> QED BY <1>2, <1>3 DEF NativeApply

LEMMA LoadFree ==
  ASSUME FreeInv, NEW c \in Calls, Load(c)
  PROVE  FreeInv'
<1> USE DEF FreeInv
<1>1. /\ pc[c] = "load" /\ pc'[c] = "open" /\ native' = native
      /\ record' = record /\ opened' = opened /\ tracked' = tracked /\ store' = store
      /\ superseded' = superseded /\ sent' = sent /\ node' = node /\ reported' = reported
      /\ call'[c].kind = call[c].kind /\ call'[c].session = call[c].session
      /\ call'[c].hash = call[c].hash /\ call'[c].answer = call[c].answer
      /\ call'[c].checkpoint = store
      /\ Only(c) /\ pc' \in [Calls -> PCs] /\ call' \in [Calls -> CallType]
  BY LoadFacts
<1>2. TypeOK' /\ Aside(c)
  BY <1>1 DEF TypeOK, Only, Aside
<1>3. Place(c) /\ Opening(c)
  BY <1>1 DEF Places, Opening
<1>4. Place(c)'
  BY <1>1, <1>3 DEF Place, InProgress, Opening
<1>5. StaysBegun(c)
  BY <1>1 DEF StaysBegun, Began
<1> QED BY <1>1, <1>2, <1>3, <1>4, <1>5, AsideFree DEF AnswersTrue

-----------------------------------------------------------------------------
(* The actions on the native session                                       *)

LEMMA NativeFree ==
  ASSUME FreeInv, NEW c \in Calls, Aside(c), TypeOK', pc[c] # "closed",
         record' = record, opened' = opened, node' = node, store' = store,
         native'.session = native.session, Place(c)', ~Opening(c)',
         \A h \in Hashes : native'.pending[h] \in Settled => native'.pending[h] = node[h],
         \/ call'[c].answer = call[c].answer /\ call'[c].hash = call[c].hash
         \/ call'[c].answer = "unknown",
         call'[c].checkpoint \in {call[c].checkpoint, NoStatus},
         Owned'
  PROVE  FreeInv'
<1> USE DEF FreeInv
<1>1. Places'
  BY AsidePlaces
<1>2. RecordsTrue'
  BY DEF RecordsTrue, TrueOf, Aside, NoStatus, Settled
<1>3. AnswersTrue'
  BY DEF AnswersTrue, Aside, Settled
<1> QED BY <1>1, <1>2, <1>3

LEMMA NativeBeginFree ==
  ASSUME FreeInv, NEW c \in Calls, NativeBegin(c)
  PROVE  FreeInv'
<1> DEFINE h == call[c].hash
<1> USE DEF FreeInv
<1>1. /\ pc[c] = "begin" /\ call[c].kind = "submit" /\ h \in Hashes /\ h # NoHash /\ Place(c)
      /\ ~Began(c) /\ call[c].step = "network"
      /\ record' = record /\ opened' = opened /\ tracked' = tracked /\ sent' = sent
      /\ node' = node /\ store' = store /\ superseded' = superseded /\ reported' = reported
  BY DEF NativeBegin, Is, Places, Place, InProgress, Began, session, world
<1>2. CASE End(c) /\ native' = native
  BY <1>1, <1>2, EndFree DEF TypeOK
<1>3. CASE ~(End(c) /\ native' = native)
  <2>1. /\ IsOpen(c) /\ native.pending[h] = "absent" /\ call' = call /\ Goto(c, "step")
        /\ native' = [native EXCEPT !.active = h, !.pending[h] = "awaiting"]
    BY <1>3 DEF NativeBegin
  <2>2. /\ native' \in [session : Nat, pending : Checkpoints, active : Hashes \cup {NoHash}]
        /\ native'.session = native.session /\ native'.active = h
        /\ native'.pending[h] = "awaiting"
        /\ \A g \in Hashes \ {h} : native'.pending[g] = native.pending[g]
    BY <1>1, <2>1 DEF TypeOK, Checkpoints, Statuses
  <2>3. "step" \in PCs
    BY DEF PCs
  <2>4. GoesOn(c) /\ pc'[c] = "step"
    BY <2>1, <2>3, GotoFacts
  <2>5. TypeOK' /\ Aside(c)
    BY <1>1, <2>2, <2>4 DEF TypeOK, GoesOn, Only, Aside
  <2>6. Place(c)' /\ ~Opening(c)' /\ Began(c)' /\ IsOpen(c)'
    BY <1>1, <2>1, <2>2, <2>4 DEF GoesOn, Place, InProgress, Opening, Began, IsOpen
  <2>7. \A u \in Calls \ {c} : Began(u)' /\ IsOpen(u)' =>
          Began(u) /\ IsOpen(u) /\ call[u].hash # h /\ call[u].hash \in Hashes
    BY <2>1, <2>2, <2>4 DEF GoesOn, Only, Began, IsOpen, Owned, Known, Places, Place, InProgress
  <2>8. Owned'
    BY <1>1, <2>1, <2>2, <2>6, <2>7 DEF Owned, Known
  <2>9. \A g \in Hashes : native'.pending[g] \in Settled => native'.pending[g] = node[g]
    BY <2>2 DEF RecordsTrue, TrueOf, Settled
  <2> QED BY <1>1, <2>1, <2>2, <2>5, <2>6, <2>8, <2>9, NativeFree
<1> QED BY <1>2, <1>3

LEMMA NativeResumeFree ==
  ASSUME FreeInv, NEW c \in Calls, NativeResume(c)
  PROVE  FreeInv'
<1> DEFINE h == call[c].hash
           s == call[c].answer
<1> USE DEF FreeInv
<1>1. /\ pc[c] = "resume" /\ call[c].kind = "submit" /\ h \in Hashes /\ h # NoHash /\ Place(c)
      /\ Began(c) /\ call[c] \in CallType
      /\ record' = record /\ opened' = opened /\ tracked' = tracked /\ sent' = sent
      /\ node' = node /\ store' = store /\ superseded' = superseded /\ reported' = reported
  BY DEF NativeResume, Places, Place, InProgress, Began, session, world, TypeOK
<1>2. s \in {"accepted", "rejected", "unknown"}
  BY <1>1 DEF CallType, Settled
<1>3. CASE ~(IsOpen(c) /\ native.active = h)
  <2>1. native' = native /\ Goto(c, "cancel") /\ call' = call /\ "cancel" \in PCs
    BY <1>3 DEF NativeResume, PCs
  <2> QED BY <1>1, <2>1, GotoFree DEF TypeOK
<1>4. CASE IsOpen(c) /\ native.active = h
  <2>1. native' = [native EXCEPT !.pending[h] = s, !.active = IF s = "unknown" THEN h ELSE NoHash]
    BY <1>4 DEF NativeResume
  <2>2. /\ native' \in [session : Nat, pending : Checkpoints, active : Hashes \cup {NoHash}]
        /\ native'.session = native.session /\ native'.pending[h] = s
        /\ native'.active = IF s = "unknown" THEN h ELSE NoHash
        /\ \A g \in Hashes \ {h} : native'.pending[g] = native.pending[g]
    <3> HIDE DEF h, s
    <3> QED BY <1>1, <1>2, <2>1 DEF TypeOK, Checkpoints, Statuses
  <2>3. native.pending[h] \in {"awaiting", "unknown"}
    BY <1>1, <1>4 DEF Owned
  <2>4. /\ Only(c) /\ pc' \in [Calls -> PCs] /\ call' \in [Calls -> CallType]
        /\ call'[c].kind = call[c].kind /\ call'[c].session = call[c].session
        /\ call'[c].hash = h /\ call'[c].checkpoint = call[c].checkpoint
        /\ call'[c].answer = s
        /\ IF s = "unknown" THEN pc'[c] = "cancel" /\ call'[c].step = call[c].step
           ELSE pc'[c] = "step" /\ call'[c].step = "complete"
    <3>1. CASE s = "unknown"
      <4>1. Goto(c, "cancel") /\ call' = call /\ "cancel" \in PCs
        BY <3>1 DEF NativeResume, PCs
      <4> QED BY <3>1, <4>1, GotoFacts DEF GoesOn
    <3>2. CASE s # "unknown"
      <4> DEFINE r == [call[c] EXCEPT !.step = "complete"]
      <4>1. Goto(c, "step") /\ "step" \in PCs /\ call' = [call EXCEPT ![c] = r]
        BY <1>4, <3>2 DEF NativeResume, PCs, TypeOK
      <4>2. /\ r \in CallType /\ r.kind = call[c].kind /\ r.session = call[c].session
            /\ r.hash = h /\ r.step = "complete" /\ r.checkpoint = call[c].checkpoint
            /\ r.answer = s
        BY <1>1, CompletedWritten DEF CallType
      <4> HIDE DEF r
      <4>3. /\ call' \in [Calls -> CallType] /\ call'[c] = r
            /\ \A u \in Calls \ {c} : call'[u] = call[u]
        BY <4>1, <4>2, CallReplaced
      <4>4. /\ pc' \in [Calls -> PCs] /\ pc'[c] = "step" /\ \A u \in Calls \ {c} : pc'[u] = pc[u]
        BY <4>1, GotoTyped
      <4> QED BY <3>2, <4>2, <4>3, <4>4 DEF Only
    <3> QED BY <3>1, <3>2
  <2>5. TypeOK' /\ Aside(c)
    BY <1>1, <2>2, <2>4 DEF TypeOK, Only, Aside
  <2>6. Place(c)' /\ ~Opening(c)' /\ Began(c)' /\ IsOpen(c)'
    BY <1>1, <1>4, <2>2, <2>4 DEF Place, InProgress, Opening, Began, IsOpen
  <2>7. \A u \in Calls \ {c} : /\ call'[u].hash = call[u].hash /\ call'[u].step = call[u].step
                               /\ Began(u)' /\ IsOpen(u)' =>
                                    Began(u) /\ IsOpen(u) /\ call[u].hash \in Hashes
    BY <2>2, <2>4 DEF Only, Began, IsOpen, Places, Place, InProgress
  <2>8. ASSUME NEW u \in Calls, Began(u)', IsOpen(u)'
        PROVE  /\ Known(native'.pending, call'[u].hash)
               /\ call'[u].step = "complete" => native'.pending[call'[u].hash] \in Settled
    <3>1. CASE u = c
      <4>1. call[c].step # "complete"
        BY <1>1, <1>4, <2>3 DEF Owned, Settled
      <4> QED BY <1>2, <2>2, <2>4, <3>1, <4>1 DEF Known, Settled
    <3>2. CASE u # c /\ call[u].hash = h
      <4>1. call[u].step # "complete"
        BY <2>3, <2>7, <2>8, <3>2 DEF Owned, Settled
      <4> QED BY <1>2, <2>2, <2>7, <3>2, <4>1 DEF Known
    <3>3. CASE u # c /\ call[u].hash # h
      BY <2>2, <2>7, <2>8, <3>3 DEF Owned, Known
    <3> QED BY <3>1, <3>2, <3>3
  <2>9. native'.active # NoHash =>
          native'.pending[native'.active] \in {"awaiting", "unknown"} /\ call'[c].hash = native'.active
    BY <1>1, <2>2, <2>4
  <2>10. Owned'
    BY <2>6, <2>8, <2>9 DEF Owned
  <2>11. \A g \in Hashes : native'.pending[g] \in Settled => native'.pending[g] = node[g]
    BY <2>2 DEF RecordsTrue, TrueOf, AnswersTrue
  <2> HIDE DEF h, s
  <2>12. call'[c].answer = call[c].answer /\ call'[c].hash = call[c].hash
    BY <2>4 DEF h, s
  <2> QED BY <1>1, <2>2, <2>4, <2>5, <2>6, <2>10, <2>11, <2>12, NativeFree
<1> QED BY <1>3, <1>4

\* a cancelled operation is one that was active, and its outcome was not known
LEMMA CancelledFacts ==
  ASSUME FreeInv, NEW s, NEW h \in Hashes, native' = Cancelled(s, h)
  PROVE  /\ native' \in [session : Nat, pending : Checkpoints, active : Hashes \cup {NoHash}]
         /\ native'.session = native.session
         /\ \/ native' = native /\ ~(native.session = s /\ native.active = h)
            \/ /\ native.session = s /\ native.active = h /\ native'.active = NoHash
               /\ native.pending[h] \in {"awaiting", "unknown"} /\ native'.pending[h] = "unknown"
               /\ \A g \in Hashes \ {h} : native'.pending[g] = native.pending[g]
<1>1. native \in [session : Nat, pending : Checkpoints, active : Hashes \cup {NoHash}]
  BY DEF FreeInv, TypeOK
<1>2. CASE native.session = s /\ native.active = h
  <2>1. native' = [native EXCEPT !.active = NoHash, !.pending[h] = "unknown"]
    BY <1>2 DEF Cancelled
  <2>2. native.pending[h] \in {"awaiting", "unknown"}
    BY <1>2 DEF FreeInv, Owned
  <2>3. /\ native' \in [session : Nat, pending : Checkpoints, active : Hashes \cup {NoHash}]
        /\ native'.session = native.session /\ native'.active = NoHash
        /\ native'.pending[h] = "unknown"
        /\ \A g \in Hashes \ {h} : native'.pending[g] = native.pending[g]
    <3>1. "unknown" \in Statuses
      BY DEF Statuses
    <3>2. native' = [native EXCEPT !.active = NoHash, !.pending = [@ EXCEPT ![h] = "unknown"]]
      BY <1>1, <2>1
    <3>3. [native.pending EXCEPT ![h] = "unknown"] \in Checkpoints
      BY <1>1, <3>1 DEF Checkpoints
    <3> HIDE DEF NoHash
    <3> QED BY <1>1, <3>2, <3>3 DEF Checkpoints
  <2> QED BY <1>2, <2>2, <2>3
<1>3. CASE ~(native.session = s /\ native.active = h)
  BY <1>1, <1>3 DEF Cancelled
<1> QED BY <1>2, <1>3

LEMMA CancelFree ==
  ASSUME FreeInv, NEW c \in Calls, NEW h \in Hashes, native' = Cancelled(call[c].session, h),
         Aside(c), pc' \in [Calls -> PCs], call' \in [Calls -> CallType], pc[c] # "closed",
         UNCHANGED <<session, store, superseded, world, reported>>,
         Place(c)', ~Opening(c)', ~Began(c)', Began(c) => call[c].hash = h,
         \/ call'[c].answer = call[c].answer /\ call'[c].hash = call[c].hash
         \/ call'[c].answer = "unknown",
         call'[c].checkpoint \in {call[c].checkpoint, NoStatus}
  PROVE  FreeInv'
<1> USE DEF FreeInv
<1>1. /\ native' \in [session : Nat, pending : Checkpoints, active : Hashes \cup {NoHash}]
      /\ native'.session = native.session
      /\ \/ native' = native /\ ~(native.session = call[c].session /\ native.active = h)
         \/ /\ native.session = call[c].session /\ native.active = h /\ native'.active = NoHash
            /\ native.pending[h] \in {"awaiting", "unknown"} /\ native'.pending[h] = "unknown"
            /\ \A g \in Hashes \ {h} : native'.pending[g] = native.pending[g]
  BY CancelledFacts
<1>2. TypeOK'
  BY <1>1 DEF TypeOK, session, world
<1>3. \A u \in Calls \ {c} : /\ call'[u].hash = call[u].hash /\ call'[u].step = call[u].step
                             /\ Began(u)' = Began(u) /\ IsOpen(u)' = IsOpen(u)
                             /\ Began(u) => call[u].hash \in Hashes
  BY <1>1 DEF Aside, Began, IsOpen, Places, Place, InProgress
<1>4. ASSUME NEW u \in Calls, Began(u)', IsOpen(u)'
      PROVE  /\ Known(native'.pending, call'[u].hash)
             /\ call'[u].step = "complete" => native'.pending[call'[u].hash] \in Settled
  BY <1>1, <1>3, <1>4 DEF Owned, Known, Settled
<1>5. native'.active # NoHash =>
        /\ native'.pending[native'.active] \in {"awaiting", "unknown"}
        /\ \E u \in Calls : Began(u)' /\ IsOpen(u)' /\ call'[u].hash = native'.active
  <2> SUFFICES ASSUME native'.active # NoHash
               PROVE  /\ native.pending[native.active] \in {"awaiting", "unknown"}
                      /\ \E u \in Calls : Began(u)' /\ IsOpen(u)' /\ call'[u].hash = native.active
    BY <1>1
  <2>1. native.active # NoHash /\ ~(native.session = call[c].session /\ native.active = h)
    BY <1>1
  <2>2. PICK u \in Calls : Began(u) /\ IsOpen(u) /\ call[u].hash = native.active
    BY <2>1 DEF Owned
  <2>3. u # c
    BY <2>1, <2>2 DEF IsOpen
  <2> QED BY <1>3, <2>1, <2>2, <2>3 DEF Owned
<1>6. Owned'
  BY <1>4, <1>5 DEF Owned
<1>7. \A g \in Hashes : native'.pending[g] \in Settled => native'.pending[g] = node[g]
  BY <1>1 DEF RecordsTrue, TrueOf, Settled
<1> QED BY <1>1, <1>2, <1>6, <1>7, NativeFree DEF session, world

LEMMA NativeCancelFree ==
  ASSUME FreeInv, NEW c \in Calls, NativeCancel(c)
  PROVE  FreeInv'
<1>1. pc[c] = "cancel" /\ call[c].hash \in Hashes
  BY DEF NativeCancel, FreeInv, Places, Place, InProgress
<1>2. /\ Aside(c) /\ pc'[c] = "idle" /\ call'[c] = Blank
      /\ pc' \in [Calls -> PCs] /\ call' \in [Calls -> CallType]
  BY EndFacts DEF NativeCancel, FreeInv
<1>3. Place(c)' /\ ~Opening(c)' /\ ~Began(c)'
  BY <1>2, EndPlace DEF NativeCancel, FreeInv, TypeOK, session
<1> QED BY <1>1, <1>2, <1>3, NewRecords, CancelFree DEF NativeCancel

LEMMA NativeCancelTrackedFree ==
  ASSUME FreeInv, NEW c \in Calls, NativeCancelTracked(c)
  PROVE  FreeInv'
<1>1. /\ pc[c] = "cancelAll" /\ call[c].kind # "submit" /\ call[c] \in CallType /\ Place(c) /\ ~Began(c)
  BY DEF NativeCancelTracked, FreeInv, Places, Place, TypeOK, Began
<1>2. CASE Goto(c, "export") /\ native' = native /\ call' = call
  <2>1. "export" \in PCs
    BY DEF PCs
  <2> QED BY <1>1, <1>2, <2>1, GotoFree DEF NativeCancelTracked, session, world, FreeInv, TypeOK
<1>3. ASSUME NEW h \in call[c].operations, native' = Cancelled(call[c].session, h),
             call' = [call EXCEPT ![c].operations = @ \ {h}], pc' = pc
      PROVE  FreeInv'
  <2> DEFINE r == [call[c] EXCEPT !.operations = @ \ {h}]
  <2>1. h \in Hashes
    BY <1>1 DEF CallType
  <2>2. /\ r \in CallType /\ r.kind = call[c].kind /\ r.session = call[c].session
        /\ r.hash = call[c].hash /\ r.checkpoint = call[c].checkpoint /\ r.answer = call[c].answer
    BY <1>1, OperationsWritten DEF CallType
  <2>3. call' = [call EXCEPT ![c] = r]
    BY <1>3 DEF FreeInv, TypeOK
  <2> HIDE DEF r
  <2>4. /\ call' \in [Calls -> CallType] /\ call'[c] = r /\ \A u \in Calls \ {c} : call'[u] = call[u]
    BY <2>2, <2>3, CallReplaced DEF FreeInv
  <2>5. Aside(c) /\ pc' \in [Calls -> PCs]
    BY <1>3, <2>4 DEF Aside, FreeInv, TypeOK
  <2>6. Place(c)' /\ ~Opening(c)' /\ ~Began(c)'
    BY <1>1, <1>3, <2>2, <2>4 DEF NativeCancelTracked, session, Place, InProgress, Opening, Began
  <2> QED BY <1>1, <1>3, <2>1, <2>2, <2>4, <2>5, <2>6, CancelFree DEF NativeCancelTracked
<1> QED BY <1>2, <1>3 DEF NativeCancelTracked

LEMMA NativeCloseFree ==
  ASSUME FreeInv, NEW c \in Calls, NativeClose(c)
  PROVE  FreeInv'
<1> USE DEF FreeInv
<1>1. /\ pc[c] = "closing" /\ call[c].kind = "close" /\ Place(c) /\ Goto(c, "closed")
      /\ record' = record /\ opened' = opened /\ tracked' = tracked /\ store' = store
      /\ superseded' = superseded /\ sent' = sent /\ node' = node /\ reported' = reported
      /\ call' = call
  BY DEF NativeClose, Places, Place, session, world
<1>2. pc' \in [Calls -> PCs] /\ pc'[c] = "closed" /\ \A u \in Calls \ {c} : pc'[u] = pc[u]
  BY <1>1, GotoTyped DEF PCs
<1>3. \/ native' = native /\ native.session # call[c].session
      \/ native' = Closed /\ native'.session = 0 /\ native.session = call[c].session
  BY ClosedTyped DEF NativeClose, IsOpen
<1>4. TypeOK'
  BY <1>1, <1>2, <1>3, ClosedTyped DEF TypeOK
<1>5. \A u \in Calls : Place(u)'
  <2> TAKE u \in Calls
  <2>1. Place(u) /\ (InProgress(u) /\ ~Opening(u) => call[u].session # 0)
    BY DEF Places, Place
  <2> QED BY <1>1, <1>2, <1>3, <2>1 DEF Place, InProgress, Opening
<1>6. /\ native'.session \in {0, record'} /\ record' <= opened'
      /\ record' # 0 /\ native'.session # record' =>
           \E u \in Calls : pc'[u] = "closed" /\ call'[u].session = record'
      /\ \A u, v \in Calls : Opening(u)' /\ Opening(v)' => u = v
  BY <1>1, <1>2, <1>3 DEF Places, Place, InProgress, Opening
<1>7. RecordsTrue' /\ AnswersTrue'
  BY <1>1, <1>3 DEF RecordsTrue, TrueOf, AnswersTrue, Closed, NoStatus, Settled
<1>8. Owned'
  <2>1. CASE native' = native
    BY <1>1, <1>2, <2>1 DEF Owned, Began, IsOpen, Known
  <2>2. CASE native' = Closed /\ native'.session = 0
    <3>1. \A u \in Calls : Began(u)' => call[u].session # 0
      BY <1>2, <1>1 DEF Places, Place, Began, InProgress, Opening
    <3> QED BY <1>1, <2>2, <3>1 DEF Owned, IsOpen, Closed
  <2> QED BY <1>3, <2>1, <2>2
<1> QED BY <1>4, <1>5, <1>6, <1>7, <1>8 DEF Places

LEMMA ForgetSessionFree ==
  ASSUME FreeInv, NEW c \in Calls, ForgetSession(c)
  PROVE  FreeInv'
<1> USE DEF FreeInv
<1>1. /\ pc[c] = "closed" /\ call[c].kind = "close" /\ Place(c) /\ opened' = opened
      /\ native' = native /\ store' = store /\ superseded' = superseded /\ sent' = sent
      /\ node' = node /\ reported' = reported
      /\ record' = (IF record = call[c].session THEN 0 ELSE record)
      /\ tracked' \subseteq Hashes
  BY DEF ForgetSession, Places, Place, world, TypeOK
<1>2. /\ Only(c) /\ pc'[c] = "idle" /\ call'[c] = Blank
      /\ pc' \in [Calls -> PCs] /\ call' \in [Calls -> CallType]
  BY EndFacts DEF ForgetSession
<1>3. TypeOK'
  BY <1>1, <1>2 DEF TypeOK
<1>4. Place(c)' /\ ~Opening(c)' /\ ~Began(c)' /\ ~Began(c)
  BY <1>1, <1>2, EndPlace DEF TypeOK, Began
<1>5. \A u \in Calls \ {c} : Place(u)' /\ Opening(u)' = Opening(u)
  BY <1>1, <1>2 DEF Only, Places, Place, InProgress, Opening
<1>6. /\ native'.session \in {0, record'} /\ record' <= opened'
      /\ record' # 0 /\ native'.session # record' =>
           \E u \in Calls : pc'[u] = "closed" /\ call'[u].session = record'
  <2>1. CASE record = call[c].session
    BY <1>1, <2>1 DEF Places, Place, TypeOK
  <2>2. CASE record # call[c].session
    BY <1>1, <1>2, <2>2 DEF Places, Only
  <2> QED BY <2>1, <2>2
<1>7. Places'
  BY <1>4, <1>5, <1>6 DEF Places
<1>8. RecordsTrue' /\ AnswersTrue'
  BY <1>1, <1>2, NewRecords DEF Only, RecordsTrue, TrueOf, AnswersTrue, NoStatus, Settled
<1>9. Owned'
  BY <1>1, <1>2, <1>4 DEF Only, Owned, Began, IsOpen, Known
<1> QED BY <1>3, <1>7, <1>8, <1>9

LEMMA NativeOpenFree ==
  ASSUME FreeInv, NEW c \in Calls, NativeOpen(c)
  PROVE  FreeInv'
<1> USE DEF FreeInv
<1>1. /\ pc[c] = "open" /\ Place(c) /\ call[c].checkpoint \in Checkpoints
      /\ opened' = opened + 1 /\ record' = opened + 1 /\ tracked' = {} /\ store' = store
      /\ superseded' = superseded /\ sent' = sent /\ node' = node /\ reported' = reported
      /\ record = 0 /\ opened < MaxSessions /\ opened \in Nat
  BY DEF NativeOpen, Places, Place, Opening, world, TypeOK, CallType
<1>2. /\ Only(c) /\ pc'[c] = "idle" /\ call'[c] = Blank
      /\ pc' \in [Calls -> PCs] /\ call' \in [Calls -> CallType]
  BY EndFacts DEF NativeOpen
<1>3. /\ native' \in [session : Nat, pending : Checkpoints, active : Hashes \cup {NoHash}]
      /\ native'.session = opened + 1 /\ native'.pending = call[c].checkpoint
      /\ native'.active = NoHash
  BY <1>1 DEF NativeOpen
<1>4. TypeOK'
  BY <1>1, <1>2, <1>3 DEF TypeOK
<1>5. Place(c)' /\ ~Opening(c)' /\ ~Began(c)'
  BY <1>1, <1>2, EndPlace
<1>6. \A u \in Calls \ {c} : Place(u)' /\ ~Opening(u)' /\ ~IsOpen(u)'
  <2> TAKE u \in Calls \ {c}
  <2>1. Place(u) /\ call[u].session \in Nat /\ call'[u] = call[u] /\ pc'[u] = pc[u]
    BY <1>2 DEF Places, Only, TypeOK, CallType
  <2>2. call[u].session <= opened' /\ native'.session # call[u].session
    BY <1>1, <1>3, <2>1 DEF Place
  <2>3. ~Opening(u)
    BY <1>1 DEF Places, Opening
  <2> QED BY <2>1, <2>2, <2>3 DEF Place, InProgress, Opening, IsOpen
<1>7. Places'
  BY <1>1, <1>3, <1>5, <1>6 DEF Places
<1>8. RecordsTrue' /\ AnswersTrue'
  BY <1>1, <1>2, <1>3, NewRecords DEF Only, RecordsTrue, TrueOf, AnswersTrue, NoStatus, Settled
<1>9. Owned'
  BY <1>3, <1>5, <1>6 DEF Owned
<1> QED BY <1>4, <1>7, <1>8, <1>9

LEMMA CrashFree == ASSUME FreeInv, Crash PROVE FreeInv'
<1> USE DEF FreeInv
<1>1. /\ record' = 0 /\ tracked' = {} /\ native' = Closed /\ superseded' = {} /\ opened' = opened
      /\ store' = store /\ sent' = sent /\ node' = node /\ reported' = reported /\ opened \in Nat
      /\ \A u \in Calls : pc'[u] = "idle" /\ call'[u] = Blank
  BY DEF Crash, world, TypeOK
<1>2. TypeOK'
  BY <1>1, BlankTyped, ClosedTyped DEF Crash, TypeOK, PCs
<1>3. \A u \in Calls : Place(u)' /\ ~Opening(u)' /\ ~Began(u)'
  BY <1>1, EndPlace
<1>4. Places'
  BY <1>1, <1>3, ClosedTyped DEF Places
<1>5. RecordsTrue' /\ AnswersTrue' /\ Owned'
  BY <1>1, <1>3, NewRecords
     DEF RecordsTrue, TrueOf, AnswersTrue, Owned, Closed, NoStatus, Settled
<1> QED BY <1>2, <1>4, <1>5

\* the node decides once, so what is written stays true
LEMMA NodeDecidesFree ==
  ASSUME FreeInv, (\E h \in Hashes : NodeDecides(h)) \/ UNCHANGED vars
  PROVE  FreeInv'
<1> USE DEF FreeInv
<1>1. /\ record' = record /\ tracked' = tracked /\ native' = native /\ superseded' = superseded
      /\ opened' = opened /\ store' = store /\ sent' = sent /\ reported' = reported
      /\ pc' = pc /\ call' = call /\ node' \in [Hashes -> Settled \cup {"none"}]
      /\ \A h \in Hashes : node[h] \in Settled => node'[h] = node[h]
  BY DEF NodeDecides, vars, session, world, TypeOK, Settled
<1>2. TypeOK'
  BY <1>1 DEF TypeOK
<1>3. Places' /\ Owned'
  BY <1>1 DEF Places, Place, Opening, InProgress, Owned, Began, IsOpen, Known
<1>4. RecordsTrue' /\ AnswersTrue'
  BY <1>1 DEF RecordsTrue, TrueOf, AnswersTrue
<1> QED BY <1>2, <1>3, <1>4

LEMMA FreeInit == ASSUME Init PROVE FreeInv
<1> USE DEF Init
<1>1. TypeOK
  BY BlankTyped, ClosedTyped DEF TypeOK, PCs, NoStatus, Checkpoints, Statuses
<1>2. Places
  BY BlankTyped, ClosedTyped DEF Places, Place, Opening, InProgress
<1>3. RecordsTrue /\ AnswersTrue /\ Owned
  BY NewRecords DEF RecordsTrue, TrueOf, AnswersTrue, Owned, Began, Closed, NoStatus, Settled
<1> QED BY <1>1, <1>2, <1>3 DEF FreeInv

LEMMA FreeStep == ASSUME FreeInv, [Next]_vars PROVE FreeInv'
<1>1. ASSUME NEW c \in Calls, Begin(c) PROVE FreeInv'
  BY <1>1, RunCommandFree, StartedFree, SuspendFree DEF Begin, Pause, CloseSession
<1>2. ASSUME NEW c \in Calls, Submit(c) PROVE FreeInv'
  BY <1>2, NativeBeginFree, NotifyStepFree, SendFree, ReturnResultFree, AnswerFree,
     NativeResumeFree, NativeCancelFree DEF Submit
<1>3. ASSUME NEW c \in Calls, Persist(c) PROVE FreeInv'
  BY <1>3, NativeExportFree, SaveFree, FailFree DEF Persist, SaveFails
<1>4. ASSUME NEW c \in Calls, Control(c) PROVE FreeInv'
  BY <1>4, NativeApplyFree, NativeCancelTrackedFree, NativeCloseFree, ForgetSessionFree,
     LoadFree, NativeOpenFree DEF Control
<1> QED BY <1>1, <1>2, <1>3, <1>4, AbortCommandFree, CrashFree, NodeDecidesFree DEF Next, Continue

LEMMA FreeInvariance == Spec => []FreeInv
<1>1. Init => FreeInv
  BY FreeInit
<1>2. FreeInv /\ [Next]_vars => FreeInv'
  BY FreeStep
<1> QED BY <1>1, <1>2, PTL DEF Spec

\* every variable keeps its type, whatever the host promises
THEOREM TypeCorrect == Spec => []TypeOK
<1>1. FreeInv => TypeOK
  BY DEF FreeInv
<1> QED BY <1>1, FreeInvariance, PTL

\* README.md:257-262: accepted and rejected are what the node said, in the store, in the
\* session and in every checkpoint on its way, whatever the host promises
THEOREM StatusesAreTrue == Spec => []StatusIsTrue
<1>1. FreeInv => StatusIsTrue
  BY DEF FreeInv, RecordsTrue, TrueOf, StatusIsTrue, Records
<1> QED BY <1>1, FreeInvariance, PTL

\* transport.ts:202-207, controller.ts:157-166: however the calls ended, when none is in
\* progress the session is free, and the controller's record is of the native session
THEOREM NothingIsLeftBehind == Spec => []NothingLeftBehind
<1>1. FreeInv => NothingLeftBehind
  <2> SUFFICES ASSUME FreeInv, \A c \in Calls : pc[c] = "idle"
               PROVE  native.active = NoHash /\ native.session = record
    BY DEF NothingLeftBehind
  <2>1. native.active = NoHash
    BY DEF FreeInv, Owned, Began
  <2>2. native.session = record
    BY DEF FreeInv, Places
  <2> QED BY <2>1, <2>2
<1> QED BY <1>1, FreeInvariance, PTL

-----------------------------------------------------------------------------
(* What a command sends, and what it reports                               *)

TrackedKnown == \A h \in tracked : native.session # 0 => Known(native.pending, h)

OneOwner ==
  \A c, u \in Calls :
    Began(c) /\ IsOpen(c) /\ Began(u) /\ IsOpen(u) /\ call[c].hash = call[u].hash => c = u

\* what pause and close cancel was begun, and no command that was not aborted sends it
CancelsOld ==
  \A u \in Calls : pc[u] = "cancelAll" /\ IsOpen(u) =>
    \A h \in call[u].operations : Known(native.pending, h) /\ \A c \in Calls : ~MaySend(c, h)

Awaits ==
  \A c \in Calls, h \in Hashes :
    MaySend(c, h) => native.active = h /\ native.pending[h] = "awaiting"

AwaitInv == TrackedKnown /\ OneOwner /\ CancelsOld /\ Awaits

\* a command that may still report h
MayReport(c, h) ==
  /\ Commanding(c) /\ call[c].step = "complete" /\ call[c].hash = h
  /\ pc[c] \in {"step", "export", "save", "saved"}

\* the outcome is in the store, and no save takes it away
Kept(h) == store[h] \in Settled /\ \A u \in Calls : Fresh(u) => call[u].checkpoint[h] \in Settled

\* the outcome is known in the session and to every later checkpoint
Done(c, h) ==
  /\ native.pending[h] \in Settled
  /\ Fresh(c) =>
       /\ call[c].checkpoint[h] \in Settled
       /\ \A u \in Calls : Fresh(u) /\ u \notin call[c].older => call[u].checkpoint[h] \in Settled
  /\ Saving(c) =>
       \A u \in Calls : Saving(u) /\ c \in call[u].older => call[u].checkpoint[h] \in Settled
  /\ Saving(c) /\ c \in superseded => Kept(h)
  /\ pc[c] = "saved" => Kept(h)

AllDone == \A c \in Calls, h \in Hashes : MayReport(c, h) => Done(c, h)
ReportedKept ==
  \A h \in reported :
    /\ Kept(h)
    /\ native.session # 0 => native.pending[h] \in Settled
    /\ \A c \in Calls : pc[c] = "open" => call[c].checkpoint[h] \in Settled
ReportInv == AllDone /\ ReportedKept

\* SendInv and FreeInv hold before the step and after it
Sound == SubmissionInv /\ FreeInv /\ SubmissionInv' /\ FreeInv'

-----------------------------------------------------------------------------
(* Steps that begin nothing, and steps that save nothing                   *)

Steady(c) ==
  \A u \in Calls \ {c} :
    /\ pc'[u] = pc[u] /\ call'[u].kind = call[u].kind /\ call'[u].session = call[u].session
    /\ call'[u].hash = call[u].hash /\ call'[u].step = call[u].step
    /\ call'[u].operations = call[u].operations /\ (call[u].aborted => call'[u].aborted)

Still(c) ==
  /\ Steady(c) /\ native'.session = native.session
  /\ Began(c)' /\ IsOpen(c)' => Began(c) /\ IsOpen(c) /\ call'[c].hash = call[c].hash
  /\ pc'[c] = "cancelAll" => /\ pc[c] = "cancelAll" /\ call'[c].session = call[c].session
                             /\ call'[c].operations \subseteq call[c].operations
  /\ \A h \in Hashes : MaySend(c, h)' => MaySend(c, h)

Quiet(c) ==
  /\ Steady(c)
  /\ \A u \in Calls \ {c} : /\ call'[u].checkpoint = call[u].checkpoint
                            /\ call'[u].older = call[u].older
  /\ Keeps(c) /\ store' = store /\ superseded' = superseded
  /\ \A h \in Hashes : MayReport(c, h)' => MayReport(c, h)

LEMMA EndCalm ==
  ASSUME TypeOK, NEW c \in Calls, End(c)
  PROVE  /\ native'.session = native.session => Still(c)
         /\ store' = store /\ superseded' = superseded => Quiet(c)
<1>1. Only(c) /\ pc'[c] = "idle"
  BY EndFacts
<1>2. Steady(c)
  BY <1>1 DEF Only, Steady
<1> QED BY <1>1, <1>2 DEF Only, Still, Quiet, Began, MaySend, MayReport, Keeps

LEMMA GotoCalm ==
  ASSUME TypeOK, NEW c \in Calls, NEW next \in PCs, Goto(c, next), call' = call,
         next \notin {"cancelAll", "save", "open"}, next = "saved" => pc[c] = "save",
         \/ call[c].kind # "submit" /\ next \notin {"step", "saved", "waiting", "resume", "cancel"}
         \/ Began(c) /\ next \notin {"step", "export", "saved"}
         \/ pc[c] \in {"step", "export", "save", "saved"} /\ Began(c)
  PROVE  /\ native'.session = native.session => Still(c)
         /\ store' = store /\ superseded' = superseded /\ next # "saved" => Quiet(c)
<1>1. Only(c) /\ pc'[c] = next
  BY GotoFacts DEF GoesOn
<1>2. Steady(c)
  BY <1>1 DEF Only, Steady
<1>3. /\ Began(c)' => Began(c)
      /\ \A h \in Hashes : MaySend(c, h)' => MaySend(c, h)
      /\ \A h \in Hashes : MayReport(c, h)' => MayReport(c, h)
  BY <1>1 DEF Began, MaySend, MayReport, Commanding, InProgress
<1> QED BY <1>1, <1>2, <1>3 DEF Only, Still, Quiet, Keeps, IsOpen

-----------------------------------------------------------------------------
LEMMA StillAwait ==
  ASSUME Sound, AwaitInv, NEW c \in Calls, Still(c),
         \A h \in Hashes : Known(native.pending, h) => Known(native'.pending, h),
         \A h \in tracked' : h \in tracked \/ native.session = 0 \/ Known(native.pending, h),
         \A u \in Calls, h \in Hashes : MaySend(u, h) /\ MaySend(u, h)' =>
           native'.active = native.active /\ native'.pending[h] = native.pending[h]
  PROVE  AwaitInv'
<1> USE DEF AwaitInv
<1>1. tracked' \subseteq Hashes /\ \A u \in Calls : call[u].operations \subseteq Hashes
  BY DEF Sound, FreeInv, TypeOK, CallType
<1>2. \A u \in Calls :
        /\ Began(u)' /\ IsOpen(u)' => Began(u) /\ IsOpen(u) /\ call'[u].hash = call[u].hash
        /\ pc'[u] = "cancelAll" /\ IsOpen(u)' =>
             /\ pc[u] = "cancelAll" /\ IsOpen(u)
             /\ call'[u].operations \subseteq call[u].operations
        /\ \A h \in Hashes : MaySend(u, h)' => MaySend(u, h)
  BY DEF Still, Steady, Began, IsOpen, MaySend, Commanding, InProgress
<1>3. TrackedKnown'
  BY <1>1 DEF TrackedKnown, Still, Known
<1>4. OneOwner'
  BY <1>2 DEF OneOwner
<1>5. CancelsOld'
  BY <1>1, <1>2 DEF CancelsOld
<1>6. Awaits'
  BY <1>2 DEF Awaits
<1> QED BY <1>3, <1>4, <1>5, <1>6

LEMMA QuietReport ==
  ASSUME Sound, ReportInv, NEW c \in Calls, Quiet(c),
         \A h \in Hashes : native.pending[h] \in Settled => native'.pending[h] \in Settled,
         native'.session = native.session, reported' = reported
  PROVE  ReportInv'
<1> USE DEF ReportInv
<1>1. \A u \in Calls :
        /\ Saving(u)' => /\ Saving(u) /\ call'[u].checkpoint = call[u].checkpoint
                         /\ call'[u].older = call[u].older
        /\ pc'[u] = "saved" => pc[u] = "saved"
        /\ pc'[u] = "open" => pc[u] = "open" /\ call'[u].checkpoint = call[u].checkpoint
        /\ \A h \in Hashes : MayReport(u, h)' => MayReport(u, h)
        /\ Fresh(u)' => Fresh(u)
  BY DEF Quiet, Steady, Keeps, Saving, Fresh, MayReport, Commanding, InProgress
<1>2. store' = store /\ superseded' = superseded /\ reported \subseteq Hashes
  BY DEF Quiet, Sound, FreeInv, TypeOK
<1>3. \A h \in Hashes : Kept(h) => Kept(h)'
  BY <1>1, <1>2 DEF Kept, Fresh
<1>4. ReportedKept'
  <2> SUFFICES ASSUME NEW h \in reported
               PROVE  /\ Kept(h)' /\ (native'.session # 0 => native'.pending[h] \in Settled)
                      /\ \A u \in Calls : pc'[u] = "open" => call'[u].checkpoint[h] \in Settled
    BY DEF ReportedKept
  <2>1. /\ h \in Hashes /\ Kept(h) /\ (native.session # 0 => native.pending[h] \in Settled)
        /\ \A u \in Calls : pc[u] = "open" => call[u].checkpoint[h] \in Settled
    BY <1>2 DEF ReportedKept
  <2> QED BY <1>1, <1>3, <2>1
<1>5. ASSUME NEW u \in Calls, NEW h \in Hashes, MayReport(u, h)'
      PROVE  Done(u, h)'
  <2>1. Done(u, h)
    BY <1>1, <1>5 DEF AllDone
  <2>2. native'.pending[h] \in Settled
    BY <2>1 DEF Done
  <2>3. ASSUME Fresh(u)'
        PROVE  /\ call'[u].checkpoint[h] \in Settled
               /\ \A v \in Calls : Fresh(v)' /\ v \notin call'[u].older
                                     => call'[v].checkpoint[h] \in Settled
    BY <1>1, <2>1, <2>3 DEF Done, Fresh
  <2>4. ASSUME Saving(u)', NEW v \in Calls, Saving(v)', u \in call'[v].older
        PROVE  call'[v].checkpoint[h] \in Settled
    BY <1>1, <2>1, <2>4 DEF Done
  <2>5. Saving(u)' /\ u \in superseded' => Kept(h)'
    BY <1>1, <1>2, <1>3, <2>1 DEF Done
  <2>6. pc'[u] = "saved" => Kept(h)'
    BY <1>1, <1>3, <2>1 DEF Done
  <2> QED BY <2>2, <2>3, <2>4, <2>5, <2>6 DEF Done
<1> QED BY <1>4, <1>5 DEF AllDone

CommandInv == AwaitInv /\ ReportInv

\* both at once, when the native session is left alone
LEMMA CalmKeeps ==
  ASSUME Sound, CommandInv, NEW c \in Calls, Still(c), Quiet(c),
         native' = native, reported' = reported,
         \A h \in tracked' : h \in tracked \/ native.session = 0 \/ Known(native.pending, h)
  PROVE  CommandInv'
BY StillAwait, QuietReport DEF CommandInv

LEMMA BeginCommand ==
  ASSUME Sound, CommandInv, NEW c \in Calls,
         (\E h \in Hashes : RunCommand(c, h)) \/ ApplySyncBatch(c) \/ OpenSession(c)
  PROVE  CommandInv'
<1>1. /\ native' = native /\ reported' = reported /\ tracked' = tracked /\ store' = store
      /\ superseded' = superseded
      /\ Goto(c, "begin") \/ Goto(c, "load")
      /\ \A u \in Calls \ {c} : call'[u] = call[u]
  BY DEF RunCommand, ApplySyncBatch, OpenSession, session, Sound, FreeInv, TypeOK
<1>2. pc'[c] \in {"begin", "load"} /\ \A u \in Calls \ {c} : pc'[u] = pc[u]
  BY <1>1, GotoTyped DEF PCs, Sound, FreeInv
<1>3. Still(c) /\ Quiet(c)
  BY <1>1, <1>2 DEF Still, Quiet, Steady, Began, MaySend, MayReport, Keeps
<1> QED BY <1>1, <1>3, CalmKeeps

LEMMA NotifyStepCommand ==
  ASSUME Sound, CommandInv, NEW c \in Calls, NotifyStep(c)
  PROVE  CommandInv'
<1>1. /\ pc[c] = "step" /\ Began(c) /\ (Goto(c, "cancel") \/ Goto(c, "export"))
      /\ call' = call /\ native' = native /\ store' = store /\ superseded' = superseded
      /\ reported' = reported
  BY DEF NotifyStep, Began
<1>2. "cancel" \in PCs /\ "export" \in PCs
  BY DEF PCs
<1>3. Still(c) /\ Quiet(c)
  BY <1>1, <1>2, GotoCalm DEF Sound, FreeInv, NotifyStep, Began
<1>4. \A h \in tracked' : h \in tracked \/ native.session = 0 \/ Known(native.pending, h)
  <2>1. \A h \in tracked' : h \in tracked \/ (call[c].session = record /\ h = call[c].hash)
    BY DEF NotifyStep
  <2>2. native.session \in {0, record} /\ Began(c)
    BY DEF Sound, FreeInv, Places, NotifyStep, Began
  <2> QED BY <2>1, <2>2 DEF Sound, FreeInv, Owned, IsOpen
<1> QED BY <1>1, <1>3, <1>4, CalmKeeps

LEMMA SendCommand ==
  ASSUME Sound, CommandInv, NEW c \in Calls, Send(c) \/ StopAborted(c)
  PROVE  CommandInv'
<1>1. /\ Began(c) /\ (Goto(c, "waiting") \/ Goto(c, "cancel"))
      /\ call' = call /\ native' = native /\ store' = store /\ superseded' = superseded
      /\ reported' = reported /\ tracked' = tracked
  BY DEF Send, StopAborted, Is, Began, session
<1>2. "cancel" \in PCs /\ "waiting" \in PCs
  BY DEF PCs
<1>3. Still(c) /\ Quiet(c)
  BY <1>1, <1>2, GotoCalm DEF Sound, FreeInv
<1> QED BY <1>1, <1>3, CalmKeeps

LEMMA AnswerCommand ==
  ASSUME Sound, CommandInv, NEW c \in Calls, Answer(c) \/ RequestFails(c)
  PROVE  CommandInv'
<1>1. /\ Began(c) /\ (Goto(c, "resume") \/ Goto(c, "cancel"))
      /\ native' = native /\ store' = store /\ superseded' = superseded
      /\ reported' = reported /\ tracked' = tracked
      /\ call' = call \/ \E answer : Answered(c, answer)
  BY DEF Answer, RequestFails, Is, Began, session, Answered
<1>2. /\ call'[c].session = call[c].session /\ call'[c].hash = call[c].hash
      /\ \A u \in Calls \ {c} : call'[u] = call[u]
  BY <1>1 DEF Answered, Sound, FreeInv, TypeOK, CallType
<1>3. pc'[c] \in {"resume", "cancel"} /\ \A u \in Calls \ {c} : pc'[u] = pc[u]
  BY <1>1, GotoTyped DEF PCs, Sound, FreeInv
<1>4. Still(c) /\ Quiet(c)
  BY <1>1, <1>2, <1>3 DEF Still, Quiet, Steady, IsOpen, MaySend, MayReport, Keeps
<1> QED BY <1>1, <1>4, CalmKeeps

LEMMA AbortCommandCommand ==
  ASSUME Sound, CommandInv, NEW c \in Calls, AbortCommand(c)
  PROVE  CommandInv'
<1> DEFINE r == [call[c] EXCEPT !.signal = TRUE, !.aborted = TRUE]
<1>1. /\ native' = native /\ store' = store /\ superseded' = superseded
      /\ reported' = reported /\ tracked' = tracked /\ pc' = pc
      /\ call' = [call EXCEPT ![c] = r] /\ call[c].kind = "submit" /\ call[c] \in CallType
  BY DEF AbortCommand, session, Sound, FreeInv, TypeOK
<1>2. /\ r \in CallType /\ r.session = call[c].session /\ r.hash = call[c].hash /\ r.aborted
      /\ r.kind = call[c].kind /\ r.checkpoint = call[c].checkpoint /\ r.older = call[c].older
  BY <1>1, SignalWritten
<1> HIDE DEF r
<1>3. call'[c] = r /\ \A u \in Calls \ {c} : call'[u] = call[u]
  BY <1>1, <1>2, CallReplaced DEF Sound, FreeInv
<1>4. pc[c] # "cancelAll"
  BY <1>1 DEF Sound, FreeInv, Places, Place
<1>5. Still(c) /\ Quiet(c)
  BY <1>1, <1>2, <1>3, <1>4
     DEF Still, Quiet, Steady, IsOpen, Began, MaySend, MayReport, Commanding, Keeps
<1> QED BY <1>1, <1>5, CalmKeeps

LEMMA FailCommand ==
  ASSUME Sound, CommandInv, NEW c \in Calls, Fail(c), pc[c] \in {"export", "save"},
         UNCHANGED <<session, native, store, superseded, world, reported>>
  PROVE  CommandInv'
<1>1. CASE End(c)
  BY <1>1, EndCalm, CalmKeeps DEF Sound, FreeInv, session
<1>2. CASE ~End(c)
  <2>1. /\ call' = call
        /\ \/ call[c].kind = "submit" /\ Began(c) /\ Goto(c, "cancel")
           \/ call[c].kind # "submit" /\ Goto(c, "closing")
    BY <1>2 DEF Fail, Began
  <2>2. "cancel" \in PCs /\ "closing" \in PCs
    BY DEF PCs
  <2>3. Still(c) /\ Quiet(c)
    BY <2>1, <2>2, GotoCalm DEF Sound, FreeInv
  <2> QED BY <2>3, CalmKeeps DEF session
<1> QED BY <1>1, <1>2

LEMMA NativeApplyCommand ==
  ASSUME Sound, CommandInv, NEW c \in Calls, NativeApply(c)
  PROVE  CommandInv'
<1>1. /\ native' = native /\ store' = store /\ superseded' = superseded
      /\ reported' = reported /\ tracked' = tracked /\ call[c].kind = "sync"
  BY DEF NativeApply, Is, session
<1>2. CASE End(c)
  BY <1>1, <1>2, EndCalm, CalmKeeps DEF Sound, FreeInv
<1>3. CASE Goto(c, "export") /\ call' = call
  <2>1. "export" \in PCs
    BY DEF PCs
  <2>2. Still(c) /\ Quiet(c)
    BY <1>1, <1>3, <2>1, GotoCalm DEF Sound, FreeInv
  <2> QED BY <1>1, <2>2, CalmKeeps
<1> QED BY <1>2, <1>3 DEF NativeApply

-----------------------------------------------------------------------------
(* The actions that write the outcome of an operation                      *)

\* a command that may send has an open session, and its operation is the active one
LEMMA SenderOwns ==
  ASSUME Sound, AwaitInv, NEW u \in Calls, NEW h \in Hashes, MaySend(u, h)
  PROVE  /\ Began(u) /\ IsOpen(u) /\ native.active = h /\ native.pending[h] = "awaiting"
         /\ native.session = record
BY DEF Sound, SubmissionInv, SendInv, SessionsRight, CallRight, MaySend, Commanding, Began, IsOpen,
       AwaitInv, Awaits

LEMMA OwnerSends ==
  ASSUME Sound, AwaitInv, NEW c \in Calls, Began(c), IsOpen(c), native.active = call[c].hash,
         pc[c] \in {"resume", "cancel"}
  PROVE  \A u \in Calls, h \in Hashes : ~MaySend(u, h)
<1> SUFFICES ASSUME NEW u \in Calls, NEW h \in Hashes, MaySend(u, h) PROVE FALSE
  OBVIOUS
<1>1. Began(u) /\ IsOpen(u) /\ call[u].hash = call[c].hash
  BY SenderOwns DEF MaySend
<1>2. u = c
  BY <1>1 DEF AwaitInv, OneOwner
<1> QED BY <1>2 DEF MaySend

LEMMA NativeBeginCommand ==
  ASSUME Sound, CommandInv, NEW c \in Calls, NativeBegin(c)
  PROVE  CommandInv'
<1> DEFINE h == call[c].hash
<1>1. /\ pc[c] = "begin" /\ call[c].kind = "submit" /\ h \in Hashes /\ call[c].step = "network"
      /\ store' = store /\ superseded' = superseded /\ reported' = reported /\ tracked' = tracked
  BY DEF NativeBegin, Is, Sound, FreeInv, Places, Place, InProgress, session
<1>2. CASE End(c) /\ native' = native
  BY <1>1, <1>2, EndCalm, CalmKeeps DEF Sound, FreeInv
<1>3. CASE ~(End(c) /\ native' = native)
  <2>1. /\ IsOpen(c) /\ native.active = NoHash /\ native.pending[h] = "absent" /\ call' = call
        /\ Goto(c, "step") /\ native' = [native EXCEPT !.active = h, !.pending[h] = "awaiting"]
    BY <1>3 DEF NativeBegin
  <2>2. /\ native'.session = native.session /\ native'.active = h
        /\ native'.pending[h] = "awaiting"
        /\ \A g \in Hashes \ {h} : native'.pending[g] = native.pending[g]
    BY <1>1, <2>1 DEF Sound, FreeInv, TypeOK, Checkpoints
  <2>3. pc'[c] = "step" /\ \A u \in Calls \ {c} : pc'[u] = pc[u]
    BY <2>1, GotoTyped DEF PCs, Sound, FreeInv
  <2>4. Steady(c) /\ Quiet(c)
    BY <1>1, <2>1, <2>3 DEF Steady, Quiet, MayReport, Keeps
  <2>5. ReportInv'
    BY <1>1, <2>1, <2>2, <2>4, QuietReport DEF CommandInv, Settled
  <2>6. \A u \in Calls, g \in Hashes : ~MaySend(u, g)
    BY <1>1, <2>1, SenderOwns DEF CommandInv
  <2>7. \A u \in Calls, g \in Hashes : MaySend(u, g)' => u = c /\ g = h
    BY <2>1, <2>3, <2>6 DEF MaySend, Commanding, InProgress
  <2>8. \A u \in Calls \ {c} : Began(u)' /\ IsOpen(u)' => Began(u) /\ IsOpen(u) /\ call[u].hash # h
    BY <2>1, <2>2, <2>3 DEF Began, IsOpen, Sound, FreeInv, Owned, Known
  <2>9. \A g \in Hashes : Known(native.pending, g) => Known(native'.pending, g) /\ g # h
    BY <2>1, <2>2 DEF Known
  <2>10. TrackedKnown'
    BY <1>1, <2>2, <2>9 DEF CommandInv, AwaitInv, TrackedKnown, Sound, FreeInv, TypeOK
  <2>11. OneOwner'
    <3> SUFFICES ASSUME NEW b \in Calls, NEW u \in Calls, Began(b)', IsOpen(b)', Began(u)', IsOpen(u)',
                        call[b].hash = call[u].hash, b # u
                 PROVE  FALSE
      BY <2>1 DEF OneOwner
    <3>1. b # c /\ u # c
      BY <2>8
    <3> QED BY <2>8, <3>1 DEF CommandInv, AwaitInv, OneOwner
  <2>12. CancelsOld'
    <3> SUFFICES ASSUME NEW u \in Calls, pc'[u] = "cancelAll", IsOpen(u)', NEW g \in call'[u].operations
                 PROVE  Known(native'.pending, g) /\ \A b \in Calls : ~MaySend(b, g)'
      BY DEF CancelsOld
    <3>1. pc[u] = "cancelAll" /\ IsOpen(u) /\ g \in call[u].operations /\ g \in Hashes
      BY <2>1, <2>2, <2>3 DEF IsOpen, Sound, FreeInv, TypeOK, CallType
    <3>2. Known(native.pending, g)
      BY <3>1 DEF CommandInv, AwaitInv, CancelsOld
    <3> QED BY <2>7, <2>9, <3>1, <3>2
  <2>13. Awaits'
    BY <2>2, <2>7 DEF Awaits
  <2> QED BY <2>5, <2>10, <2>11, <2>12, <2>13 DEF CommandInv, AwaitInv
<1> QED BY <1>2, <1>3

LEMMA NativeResumeCommand ==
  ASSUME Sound, CommandInv, NEW c \in Calls, NativeResume(c)
  PROVE  CommandInv'
<1> DEFINE h == call[c].hash
           s == call[c].answer
<1>1. /\ pc[c] = "resume" /\ Began(c) /\ h \in Hashes /\ call[c] \in CallType
      /\ store' = store /\ superseded' = superseded /\ reported' = reported /\ tracked' = tracked
  BY DEF NativeResume, Began, Sound, FreeInv, Places, Place, InProgress, session, TypeOK
<1>2. s \in {"accepted", "rejected", "unknown"}
  BY <1>1 DEF CallType, Settled
<1>3. CASE ~(IsOpen(c) /\ native.active = h)
  <2>1. native' = native /\ Goto(c, "cancel") /\ call' = call /\ "cancel" \in PCs
    BY <1>3 DEF NativeResume, PCs
  <2>2. Still(c) /\ Quiet(c)
    BY <1>1, <2>1, GotoCalm DEF Sound, FreeInv
  <2> QED BY <1>1, <2>1, <2>2, CalmKeeps
<1>4. CASE IsOpen(c) /\ native.active = h
  <2>1. native' = [native EXCEPT !.pending[h] = s, !.active = IF s = "unknown" THEN h ELSE NoHash]
    BY <1>4 DEF NativeResume
  <2>2. /\ native'.session = native.session /\ native'.pending[h] = s
        /\ \A g \in Hashes \ {h} : native'.pending[g] = native.pending[g]
    <3> HIDE DEF h, s
    <3> QED BY <1>1, <2>1 DEF Sound, FreeInv, TypeOK, Checkpoints
  <2>3. native.pending[h] \in {"awaiting", "unknown"}
    BY <1>1, <1>4 DEF Sound, FreeInv, Owned
  <2>4. \A g \in Hashes : /\ Known(native.pending, g) => Known(native'.pending, g)
                          /\ native.pending[g] \in Settled => native'.pending[g] \in Settled
    BY <1>2, <2>2, <2>3 DEF Known, Settled
  <2>5. \A u \in Calls, g \in Hashes : ~MaySend(u, g)
    BY <1>1, <1>4, OwnerSends DEF CommandInv
  <2>6. CASE s = "unknown"
    <3>1. Goto(c, "cancel") /\ call' = call /\ "cancel" \in PCs
      BY <2>6 DEF NativeResume, PCs
    <3>2. Still(c) /\ Quiet(c)
      BY <1>1, <2>2, <3>1, GotoCalm DEF Sound, FreeInv
    <3> QED BY <1>1, <2>2, <2>4, <2>5, <3>2, StillAwait, QuietReport DEF CommandInv
  <2>7. CASE s # "unknown"
    <3> DEFINE r == [call[c] EXCEPT !.step = "complete"]
    <3>1. Goto(c, "step") /\ "step" \in PCs /\ call' = [call EXCEPT ![c] = r]
      BY <1>4, <2>7 DEF NativeResume, PCs, Sound, FreeInv, TypeOK
    <3>2. /\ r \in CallType /\ r.kind = call[c].kind /\ r.session = call[c].session
          /\ r.hash = h /\ r.step = "complete"
      BY <1>1, CompletedWritten
    <3> HIDE DEF r
    <3>3. /\ call'[c] = r /\ \A u \in Calls \ {c} : call'[u] = call[u]
          /\ pc'[c] = "step" /\ \A u \in Calls \ {c} : pc'[u] = pc[u]
      BY <3>1, <3>2, CallReplaced, GotoTyped DEF Sound, FreeInv
    <3>4. Still(c)
      BY <1>1, <2>2, <3>2, <3>3 DEF Still, Steady, IsOpen, MaySend
    <3>5. AwaitInv'
      BY <1>1, <2>4, <2>5, <3>4, StillAwait DEF CommandInv
    <3>6. \A u \in Calls :
            /\ Saving(u)' => Saving(u) /\ call'[u] = call[u]
            /\ Fresh(u)' => Fresh(u) /\ call'[u] = call[u]
            /\ pc'[u] = "saved" => pc[u] = "saved"
            /\ pc'[u] = "open" => pc[u] = "open" /\ call'[u] = call[u]
            /\ \A g \in Hashes : MayReport(u, g)' => MayReport(u, g) \/ (u = c /\ g = h)
      BY <1>1, <3>2, <3>3 DEF Saving, Fresh, MayReport, Commanding, InProgress
    <3>7. \A g \in Hashes : Kept(g) => Kept(g)'
      BY <1>1, <3>6 DEF Kept
    <3>8. ReportedKept'
      BY <1>1, <2>2, <2>4, <3>6, <3>7 DEF CommandInv, ReportInv, ReportedKept, Sound, FreeInv, TypeOK
    <3>9. ASSUME NEW u \in Calls, NEW g \in Hashes, MayReport(u, g)' PROVE Done(u, g)'
      <4>1. CASE u = c /\ g = h
        BY <1>2, <2>2, <2>7, <3>3, <4>1 DEF Done, Saving, Fresh, Settled
      <4>2. CASE ~(u = c /\ g = h)
        <5>1. Done(u, g)
          BY <3>6, <3>9, <4>2 DEF CommandInv, ReportInv, AllDone
        <5> QED BY <1>1, <2>4, <3>6, <3>7, <5>1 DEF Done
      <4> QED BY <4>1, <4>2
    <3> QED BY <3>5, <3>8, <3>9 DEF CommandInv, ReportInv, AllDone
  <2> QED BY <2>6, <2>7
<1> QED BY <1>3, <1>4

\* an operation that is cancelled is one that no command may send
LEMMA CancelCommand ==
  ASSUME Sound, CommandInv, NEW c \in Calls, NEW h \in Hashes,
         native' = Cancelled(call[c].session, h), Still(c), Quiet(c),
         UNCHANGED <<session, store, superseded, world, reported>>,
         IsOpen(c) /\ native.active = h => \A u \in Calls, g \in Hashes : ~MaySend(u, g)
  PROVE  CommandInv'
<1>1. /\ native'.session = native.session
      /\ \/ native' = native /\ ~(native.session = call[c].session /\ native.active = h)
         \/ /\ native.session = call[c].session /\ native.active = h /\ native'.active = NoHash
            /\ native.pending[h] \in {"awaiting", "unknown"} /\ native'.pending[h] = "unknown"
            /\ \A g \in Hashes \ {h} : native'.pending[g] = native.pending[g]
  BY CancelledFacts DEF Sound
<1>2. \A g \in Hashes : /\ Known(native.pending, g) => Known(native'.pending, g)
                        /\ native.pending[g] \in Settled => native'.pending[g] \in Settled
  BY <1>1 DEF Known, Settled
<1>3. \A u \in Calls, g \in Hashes : MaySend(u, g) /\ MaySend(u, g)' =>
        native'.active = native.active /\ native'.pending[g] = native.pending[g]
  BY <1>1 DEF IsOpen
<1> QED BY <1>1, <1>2, <1>3, StillAwait, QuietReport DEF CommandInv, session

LEMMA NativeCancelCommand ==
  ASSUME Sound, CommandInv, NEW c \in Calls, NativeCancel(c)
  PROVE  CommandInv'
<1>1. pc[c] = "cancel" /\ call[c].hash \in Hashes /\ Began(c)
  BY DEF NativeCancel, Sound, FreeInv, Places, Place, InProgress, Began
<1>2. /\ native' = Cancelled(call[c].session, call[c].hash) /\ End(c)
      /\ UNCHANGED <<session, store, superseded, world, reported>>
  BY DEF NativeCancel
<1>3. native'.session = native.session
  BY <1>1, <1>2, CancelledFacts DEF Sound
<1>4. Still(c) /\ Quiet(c)
  BY <1>2, <1>3, EndCalm DEF Sound, FreeInv
<1> QED BY <1>1, <1>2, <1>4, OwnerSends, CancelCommand DEF CommandInv

LEMMA NativeCancelTrackedCommand ==
  ASSUME Sound, CommandInv, NEW c \in Calls, NativeCancelTracked(c)
  PROVE  CommandInv'
<1>1. /\ pc[c] = "cancelAll" /\ call[c].kind # "submit" /\ call[c] \in CallType
      /\ UNCHANGED <<session, store, superseded, world, reported>>
  BY DEF NativeCancelTracked, Sound, FreeInv, Places, Place, TypeOK
<1>2. CASE Goto(c, "export") /\ native' = native /\ call' = call
  <2>1. "export" \in PCs
    BY DEF PCs
  <2>2. Still(c) /\ Quiet(c)
    BY <1>1, <1>2, <2>1, GotoCalm DEF Sound, FreeInv
  <2> QED BY <1>1, <1>2, <2>2, CalmKeeps DEF session
<1>3. ASSUME NEW h \in call[c].operations, native' = Cancelled(call[c].session, h),
             call' = [call EXCEPT ![c].operations = @ \ {h}], pc' = pc
      PROVE  CommandInv'
  <2> DEFINE r == [call[c] EXCEPT !.operations = @ \ {h}]
  <2>1. h \in Hashes
    BY <1>1 DEF CallType
  <2>2. /\ r \in CallType /\ r.session = call[c].session /\ r.operations \subseteq call[c].operations
        /\ r.checkpoint = call[c].checkpoint /\ r.older = call[c].older
    BY <1>1, OperationsWritten
  <2>3. call' = [call EXCEPT ![c] = r]
    BY <1>3 DEF Sound, FreeInv, TypeOK
  <2> HIDE DEF r
  <2>4. call'[c] = r /\ \A u \in Calls \ {c} : call'[u] = call[u]
    BY <2>2, <2>3, CallReplaced DEF Sound, FreeInv
  <2>5. native'.session = native.session
    BY <1>3, <2>1, CancelledFacts DEF Sound
  <2>6. Still(c) /\ Quiet(c)
    BY <1>1, <1>3, <2>2, <2>4, <2>5
       DEF Still, Quiet, Steady, Began, MaySend, MayReport, Keeps
  <2>7. ASSUME IsOpen(c), native.active = h, NEW u \in Calls, NEW g \in Hashes, MaySend(u, g)
        PROVE  FALSE
    <3>1. g = h
      BY <2>7, SenderOwns DEF CommandInv
    <3> QED BY <1>1, <2>7, <3>1 DEF CommandInv, AwaitInv, CancelsOld
  <2> QED BY <1>1, <1>3, <2>1, <2>6, <2>7, CancelCommand
<1> QED BY <1>2, <1>3 DEF NativeCancelTracked

-----------------------------------------------------------------------------
(* The saves, and the steps after which no command goes on                 *)

\* what is settled stays so when no save is begun and none takes effect
LEMMA DoneStays ==
  ASSUME NEW u \in Calls, NEW h \in Hashes, Done(u, h), native' = native,
         superseded' = superseded, store' = store,
         \A v \in Calls : /\ Saving(v)' => Saving(v) /\ call'[v] = call[v]
                          /\ pc'[v] = "saved" => pc[v] = "saved"
  PROVE  Done(u, h)'
<1>1. \A v \in Calls : Fresh(v)' => Fresh(v) /\ Saving(v) /\ call'[v] = call[v]
  BY DEF Fresh
<1>2. Kept(h) => Kept(h)'
  BY <1>1 DEF Kept
<1>3. ASSUME Fresh(u)'
      PROVE  /\ call'[u].checkpoint[h] \in Settled
             /\ \A v \in Calls : Fresh(v)' /\ v \notin call'[u].older
                                   => call'[v].checkpoint[h] \in Settled
  BY <1>1, <1>3 DEF Done
<1>4. ASSUME Saving(u)', NEW v \in Calls, Saving(v)', u \in call'[v].older
      PROVE  call'[v].checkpoint[h] \in Settled
  BY <1>4 DEF Done
<1> QED BY <1>2, <1>3, <1>4 DEF Done

LEMMA ReturnResultCommand ==
  ASSUME Sound, CommandInv, NEW c \in Calls, ReturnResult(c)
  PROVE  CommandInv'
<1> DEFINE h == call[c].hash
<1>1. /\ pc[c] = "saved" /\ End(c) /\ native' = native /\ tracked' = tracked /\ store' = store
      /\ superseded' = superseded /\ reported' = reported \cup {h}
      /\ Commanding(c) /\ call[c].step = "complete" /\ h \in Hashes
  BY DEF ReturnResult, Is, session, Sound, FreeInv, Places, Place, Commanding, InProgress
<1>2. Still(c) /\ Quiet(c)
  BY <1>1, EndCalm DEF Sound, FreeInv
<1>3. AwaitInv'
  BY <1>1, <1>2, StillAwait DEF CommandInv
<1>4. MayReport(c, h) /\ Done(c, h)
  BY <1>1 DEF MayReport, CommandInv, ReportInv, AllDone
<1>5. \A u \in Calls : pc[u] # "open"
  BY <1>1 DEF Commanding, Sound, SubmissionInv, SendInv, SessionsRight, CallRight, Opening, InProgress
<1>6. \A u \in Calls : /\ Saving(u)' => Saving(u) /\ call'[u] = call[u]
                       /\ Fresh(u)' => Fresh(u) /\ call'[u] = call[u]
                       /\ pc'[u] # "open" /\ (pc'[u] = "saved" => pc[u] = "saved")
                       /\ \A g \in Hashes : MayReport(u, g)' => MayReport(u, g)
  <2>1. Only(c) /\ pc'[c] = "idle"
    BY <1>1, EndFacts DEF Sound, FreeInv
  <2> QED BY <1>1, <1>5, <2>1 DEF Only, Saving, Fresh, MayReport, Commanding, InProgress
<1>7. \A g \in Hashes : Kept(g) => Kept(g)'
  BY <1>1, <1>6 DEF Kept
<1>8. ReportedKept'
  <2> SUFFICES ASSUME NEW g \in reported'
               PROVE  Kept(g)' /\ (native'.session # 0 => native'.pending[g] \in Settled)
    BY <1>6 DEF ReportedKept
  <2>1. CASE g = h
    BY <1>1, <1>4, <1>7, <2>1 DEF Done
  <2>2. CASE g # h
    <3>1. g \in reported /\ g \in Hashes
      BY <1>1, <2>2 DEF Sound, FreeInv, TypeOK
    <3> QED BY <1>1, <1>7, <3>1 DEF CommandInv, ReportInv, ReportedKept
  <2> QED BY <2>1, <2>2
<1>9. AllDone'
  BY <1>1, <1>6, DoneStays DEF CommandInv, ReportInv, AllDone
<1> QED BY <1>3, <1>8, <1>9 DEF CommandInv, ReportInv

LEMMA NativeExportCommand ==
  ASSUME Sound, CommandInv, NEW c \in Calls, NativeExport(c)
  PROVE  CommandInv'
<1>1. CASE ~IsOpen(c)
  BY <1>1, FailCommand DEF NativeExport
<1>2. CASE IsOpen(c)
  <2>1. /\ pc[c] = "export" /\ pc'[c] = "save" /\ superseded' = superseded \ {c}
        /\ native' = native /\ store' = store /\ tracked' = tracked /\ reported' = reported
        /\ call'[c].kind = call[c].kind /\ call'[c].session = call[c].session
        /\ call'[c].hash = call[c].hash /\ call'[c].step = call[c].step
        /\ call'[c].aborted = call[c].aborted
        /\ call'[c].checkpoint = native.pending /\ call'[c].older = {v \in Calls : pc[v] = "save"}
        /\ Aside(c)
        /\ \A u \in Calls \ {c} : /\ call'[u].older = call[u].older \ {c}
                                  /\ call'[u].aborted = call[u].aborted
    BY <1>2, NativeExportFacts DEF Sound, FreeInv
  <2>2. Steady(c)
    BY <2>1 DEF Aside, Steady
  <2>3. Still(c)
    BY <2>1, <2>2 DEF Still, Began, IsOpen, MaySend, Commanding, InProgress
  <2>4. AwaitInv'
    BY <2>1, <2>3, StillAwait DEF CommandInv
  <2>5. /\ Saving(c)' /\ c \notin superseded'
        /\ c \notin call'[c].older /\ \A u \in Calls : Saving(u) => u \in call'[c].older
    BY <2>1 DEF Saving
  <2>6. \A u \in Calls \ {c} :
           /\ Saving(u)' = Saving(u) /\ Fresh(u)' = Fresh(u)
           /\ (u \in superseded') = (u \in superseded)
           /\ (pc'[u] = "saved") = (pc[u] = "saved") /\ (pc'[u] = "open") = (pc[u] = "open")
           /\ call'[u].checkpoint = call[u].checkpoint /\ call'[u].older = call[u].older \ {c}
    BY <2>1 DEF Aside, Saving, Fresh
  <2>7. \A u \in Calls, h \in Hashes : MayReport(u, h)' => MayReport(u, h)
    BY <2>1 DEF Aside, MayReport, Commanding, InProgress
  <2>8. \A h \in Hashes : Kept(h) /\ native.pending[h] \in Settled => Kept(h)'
    BY <2>1, <2>5, <2>6 DEF Kept
  <2>9. native.session # 0
    BY <1>2, <2>1 DEF Sound, FreeInv, Places, Place, IsOpen, InProgress, Opening
  <2>10. ReportedKept'
    <3> SUFFICES ASSUME NEW h \in reported
                 PROVE  /\ Kept(h)' /\ (native'.session # 0 => native'.pending[h] \in Settled)
                        /\ \A u \in Calls : pc'[u] = "open" => call'[u].checkpoint[h] \in Settled
      BY <2>1 DEF ReportedKept
    <3>1. /\ h \in Hashes /\ Kept(h) /\ native.pending[h] \in Settled
          /\ \A u \in Calls : pc[u] = "open" => call[u].checkpoint[h] \in Settled
      BY <2>9 DEF CommandInv, ReportInv, ReportedKept, Sound, FreeInv, TypeOK
    <3> QED BY <2>1, <2>6, <2>8, <3>1
  <2>11. ASSUME NEW u \in Calls, NEW h \in Hashes, MayReport(u, h)'
         PROVE  Done(u, h)'
    <3>1. MayReport(u, h) /\ Done(u, h) /\ native.pending[h] \in Settled
      BY <2>7, <2>11 DEF CommandInv, ReportInv, AllDone, Done
    <3>2. CASE u = c
      <4>1. \A v \in Calls : Fresh(v)' /\ v \notin call'[c].older => v = c
        BY <2>5, <2>6 DEF Fresh
      <4>2. \A v \in Calls : c \notin call'[v].older
        BY <2>5, <2>6
      <4> QED BY <2>1, <2>5, <3>1, <3>2, <4>1, <4>2 DEF Done
    <3>3. CASE u # c
      <4>1. ASSUME Fresh(u)'
            PROVE  /\ call'[u].checkpoint[h] \in Settled
                   /\ \A v \in Calls : Fresh(v)' /\ v \notin call'[u].older
                                         => call'[v].checkpoint[h] \in Settled
        BY <2>1, <2>6, <3>1, <3>3, <4>1 DEF Done
      <4>2. ASSUME Saving(u)', NEW v \in Calls, Saving(v)', u \in call'[v].older
            PROVE  call'[v].checkpoint[h] \in Settled
        BY <2>1, <2>5, <2>6, <3>1, <3>3, <4>2 DEF Done
      <4>3. /\ Saving(u)' /\ u \in superseded' => Kept(h)'
            /\ pc'[u] = "saved" => Kept(h)'
        BY <2>6, <2>8, <3>1, <3>3 DEF Done
      <4> QED BY <2>1, <3>1, <4>1, <4>2, <4>3 DEF Done
    <3> QED BY <3>2, <3>3
  <2> QED BY <2>4, <2>10, <2>11 DEF CommandInv, ReportInv, AllDone
<1> QED BY <1>1, <1>2

LEMMA SaveCommand ==
  ASSUME Sound, Promised, CommandInv, NEW c \in Calls, Save(c)
  PROVE  CommandInv'
<1>1. /\ pc[c] = "save" /\ tracked' = tracked /\ native' = native /\ reported' = reported
  BY DEF Save, session
<1>2. \/ c \in superseded /\ store' = store /\ superseded' = superseded
      \/ /\ c \notin superseded /\ store' = call[c].checkpoint
         /\ superseded' = superseded \cup call[c].older
  BY DEF Save, Promised
<1>3. /\ Only(c) /\ Still(c) /\ pc'[c] \in {"saved", "closing", "idle"}
      /\ pc'[c] = "saved" => call[c].kind = "submit" /\ call'[c] = call[c]
  <2>1. CASE End(c)
    <3>1. Still(c)
      BY <1>1, <2>1, EndCalm DEF Sound, FreeInv
    <3> QED BY <2>1, <3>1, EndFacts DEF Sound, FreeInv
  <2>2. CASE ~End(c)
    <3>1. /\ call' = call
          /\ \/ Goto(c, "saved") /\ call[c].kind = "submit" /\ Began(c)
             \/ Goto(c, "closing") /\ call[c].kind = "close"
      BY <1>1, <2>2 DEF Save, GoOn, Began
    <3>2. "saved" \in PCs /\ "closing" \in PCs
      BY DEF PCs
    <3>3. Still(c)
      BY <1>1, <3>1, <3>2, GotoCalm DEF Sound, FreeInv
    <3> QED BY <3>1, <3>2, <3>3, GotoFacts DEF GoesOn, Sound, FreeInv
  <2> QED BY <2>1, <2>2
<1>4. AwaitInv'
  BY <1>1, <1>3, StillAwait DEF CommandInv
<1>5. \A u \in Calls : /\ Saving(u)' => Saving(u) /\ u # c /\ call'[u] = call[u]
                       /\ (pc'[u] = "saved" => pc[u] = "saved" \/ u = c)
                       /\ (pc'[u] = "open" => pc[u] = "open" /\ call'[u] = call[u])
                       /\ \A h \in Hashes : MayReport(u, h)' => MayReport(u, h)
  BY <1>1, <1>3 DEF Only, Saving, MayReport, Commanding, InProgress
<1>6. \A u \in Calls : Fresh(u)' => Fresh(u) /\ u # c /\ call'[u] = call[u]
  BY <1>2, <1>5 DEF Fresh
<1>7. ASSUME NEW h \in Hashes, Kept(h)
      PROVE  Kept(h)'
  <2>1. store'[h] \in Settled
    BY <1>1, <1>2, <1>7 DEF Kept, Fresh, Saving
  <2> QED BY <1>6, <1>7, <2>1 DEF Kept
<1>8. ReportedKept'
  BY <1>1, <1>5, <1>7 DEF CommandInv, ReportInv, ReportedKept, Sound, FreeInv, TypeOK
<1>9. ASSUME NEW u \in Calls, NEW h \in Hashes, MayReport(u, h)'
      PROVE  Done(u, h)'
  <2>1. MayReport(u, h) /\ Done(u, h)
    BY <1>5, <1>9 DEF CommandInv, ReportInv, AllDone
  <2>2. native'.pending[h] \in Settled
    BY <1>1, <2>1 DEF Done
  <2>3. ASSUME Fresh(u)'
        PROVE  /\ call'[u].checkpoint[h] \in Settled
               /\ \A v \in Calls : Fresh(v)' /\ v \notin call'[u].older
                                     => call'[v].checkpoint[h] \in Settled
    BY <1>6, <2>1, <2>3 DEF Done
  <2>4. ASSUME Saving(u)', NEW v \in Calls, Saving(v)', u \in call'[v].older
        PROVE  call'[v].checkpoint[h] \in Settled
    BY <1>5, <2>1, <2>4 DEF Done
  <2>5. CASE Kept(h)
    BY <1>7, <2>2, <2>3, <2>4, <2>5 DEF Done
  <2>6. CASE ~Kept(h)
    <3>1. Saving(u)' /\ u \in superseded' => Kept(h)'
      \* the save of a newer checkpoint, which holds the outcome as well
      <4> SUFFICES ASSUME Saving(u)', u \in superseded' PROVE Kept(h)'
        OBVIOUS
      <4>1. Saving(u) /\ u # c /\ Fresh(u)
        BY <1>5, <2>1, <2>6 DEF Done, Fresh
      <4>2. c \notin superseded /\ store' = call[c].checkpoint /\ u \in call[c].older
        BY <1>2, <4>1 DEF Fresh
      <4>3. store'[h] \in Settled
        BY <1>1, <2>1, <4>1, <4>2 DEF Done, Saving
      <4>4. ASSUME NEW v \in Calls, Fresh(v)' PROVE call'[v].checkpoint[h] \in Settled
        <5>1. Fresh(v) /\ v # c /\ call'[v] = call[v] /\ v \notin call[c].older
          BY <1>2, <1>6, <4>2, <4>4 DEF Fresh
        <5>2. v \notin call[u].older
          BY <1>1, <4>1, <4>2, <5>1 DEF Sound, SubmissionInv, SendInv, OrderRight, Fresh, Saving
        <5> QED BY <2>1, <4>1, <5>1, <5>2 DEF Done
      <4> QED BY <4>3, <4>4 DEF Kept
    <3>2. pc'[u] = "saved" => Kept(h)'
      <4> SUFFICES ASSUME pc'[u] = "saved" PROVE Kept(h)'
        OBVIOUS
      <4>1. u = c /\ Fresh(c)
        BY <1>1, <1>5, <2>1, <2>6 DEF Done, Saving, Fresh
      <4>2. store'[h] \in Settled /\ superseded' = superseded \cup call[c].older
        BY <1>2, <2>1, <4>1 DEF Done, Fresh
      <4>3. ASSUME NEW v \in Calls, Fresh(v)' PROVE call'[v].checkpoint[h] \in Settled
        <5>1. Fresh(v) /\ call'[v] = call[v] /\ v \notin call[c].older
          BY <1>6, <4>2, <4>3 DEF Fresh
        <5> QED BY <2>1, <4>1, <5>1 DEF Done
      <4> QED BY <4>2, <4>3 DEF Kept
    <3> QED BY <2>2, <2>3, <2>4, <3>1, <3>2 DEF Done
  <2> QED BY <2>5, <2>6
<1> QED BY <1>4, <1>8, <1>9 DEF CommandInv, ReportInv, AllDone

LEMMA LoadCommand ==
  ASSUME Sound, CommandInv, NEW c \in Calls, Load(c)
  PROVE  CommandInv'
<1>1. /\ pc[c] = "load" /\ pc'[c] = "open" /\ native' = native /\ tracked' = tracked
      /\ store' = store /\ superseded' = superseded /\ reported' = reported
      /\ call'[c].checkpoint = store /\ Only(c)
  BY LoadFacts DEF Sound, FreeInv
<1>2. Still(c)
  BY <1>1 DEF Still, Only, Steady, Began, MaySend
<1>3. AwaitInv'
  BY <1>1, <1>2, StillAwait DEF CommandInv
<1>4. \A u \in Calls : /\ Saving(u)' => Saving(u) /\ call'[u] = call[u]
                       /\ Fresh(u)' => Fresh(u) /\ call'[u] = call[u]
                       /\ pc'[u] = "saved" => pc[u] = "saved"
                       /\ pc'[u] = "open" => u = c \/ (pc[u] = "open" /\ call'[u] = call[u])
                       /\ \A h \in Hashes : MayReport(u, h)' => MayReport(u, h)
  BY <1>1 DEF Only, Saving, Fresh, MayReport, Commanding, InProgress
<1>5. \A h \in Hashes : Kept(h) => Kept(h)'
  BY <1>1, <1>4 DEF Kept
<1>6. ReportedKept'
  BY <1>1, <1>4, <1>5 DEF CommandInv, ReportInv, ReportedKept, Kept, Sound, FreeInv, TypeOK
<1>7. AllDone'
  BY <1>1, <1>4, DoneStays DEF CommandInv, ReportInv, AllDone
<1> QED BY <1>3, <1>6, <1>7 DEF CommandInv, ReportInv

LEMMA SuspendCommand ==
  ASSUME Sound, CommandInv, NEW c \in Calls, NEW kind \in {"pause", "close"}, Suspend(c, kind)
  PROVE  CommandInv'
<1>1. /\ pc[c] = "idle" /\ pc'[c] = "cancelAll" /\ record # 0 /\ tracked' = {} /\ record' = record
      /\ native' = native /\ store' = store /\ superseded' = superseded /\ reported' = reported
      /\ call'[c].kind = kind /\ call'[c].session = record /\ call'[c].operations = tracked
      /\ Aside(c) /\ \A u \in Calls \ {c} : call'[u].older = call[u].older
  BY SuspendFacts DEF Sound, FreeInv
<1>2. \A u \in Calls \ {c} : call[u].aborted => call'[u].aborted
  <2> TAKE u \in Calls \ {c}
  <2>1. call[u] \in CallType
    BY DEF Sound, FreeInv, TypeOK
  <2>2. call'[u] = call[u] \/ call'[u] = [call[u] EXCEPT !.aborted = TRUE]
    BY DEF Suspend
  <2> QED BY <2>1, <2>2 DEF CallType
<1>3. Steady(c)
  BY <1>1, <1>2 DEF Steady, Aside
<1>4. Quiet(c)
  BY <1>1, <1>3 DEF Quiet, Aside, Keeps, MayReport
<1>5. ReportInv'
  BY <1>1, <1>4, QuietReport DEF CommandInv
\* every command of the session is aborted
<1>6. \A u \in Calls : ~Commanding(u)'
  <2> SUFFICES ASSUME NEW u \in Calls, Commanding(u)' PROVE FALSE
    OBVIOUS
  <2>1. u # c
    BY <1>1 DEF Commanding
  <2>2. Commanding(u)
    BY <1>1, <1>3, <2>1 DEF Commanding, InProgress, Steady
  <2>3. call[u].session = record /\ call[u].kind = "submit"
    BY <2>2 DEF Sound, SubmissionInv, SendInv, SessionsRight, CallRight, Commanding
  <2>4. call'[u] = [call[u] EXCEPT !.aborted = TRUE] /\ call[u] \in CallType
    BY <2>1, <2>3 DEF Suspend, Sound, FreeInv, TypeOK
  <2> QED BY <2>4 DEF Commanding, CallType
<1>7. TrackedKnown' /\ Awaits'
  BY <1>1, <1>6 DEF TrackedKnown, Awaits, MaySend
<1>8. OneOwner'
  <2>1. \A u \in Calls : Began(u)' /\ IsOpen(u)' =>
          Began(u) /\ IsOpen(u) /\ call'[u].hash = call[u].hash
    BY <1>1 DEF Aside, Began, IsOpen
  <2> QED BY <2>1 DEF OneOwner, CommandInv, AwaitInv
<1>9. CancelsOld'
  <2> SUFFICES ASSUME NEW u \in Calls, pc'[u] = "cancelAll", IsOpen(u)', NEW h \in call'[u].operations
               PROVE  Known(native'.pending, h)
    BY <1>6 DEF CancelsOld, MaySend
  <2>1. CASE u = c
    BY <1>1, <2>1 DEF CommandInv, AwaitInv, TrackedKnown, IsOpen
  <2>2. CASE u # c
    BY <1>1, <2>2 DEF CommandInv, AwaitInv, CancelsOld, IsOpen, Aside
  <2> QED BY <2>1, <2>2
<1> QED BY <1>5, <1>7, <1>8, <1>9 DEF CommandInv, AwaitInv

\* with no command left and no save begun, what was reported is what there is to keep
LEMMA SilentCommand ==
  ASSUME Sound, CommandInv, \A u \in Calls : ~Commanding(u)',
         store' = store, superseded' = superseded, reported' = reported,
         \A u \in Calls : /\ Saving(u)' => Saving(u) /\ call'[u] = call[u]
                          /\ pc'[u] = "open" => pc[u] = "open" /\ call'[u] = call[u],
         \A h \in reported : native'.session # 0 => native'.pending[h] \in Settled,
         TrackedKnown', OneOwner',
         \A u \in Calls : pc'[u] = "cancelAll" /\ IsOpen(u)' =>
           /\ pc[u] = "cancelAll" /\ IsOpen(u) /\ call'[u] = call[u] /\ native' = native
  PROVE  CommandInv'
<1>1. \A u \in Calls, h \in Hashes : ~MaySend(u, h)' /\ ~MayReport(u, h)'
  BY DEF MaySend, MayReport
<1>2. CancelsOld'
  BY DEF CancelsOld, MaySend, CommandInv, AwaitInv
<1>3. Awaits' /\ AllDone'
  BY <1>1 DEF Awaits, AllDone
<1>4. \A h \in Hashes : Kept(h) => Kept(h)'
  BY DEF Kept, Fresh
<1>5. ReportedKept'
  BY <1>4 DEF CommandInv, ReportInv, ReportedKept, Sound, FreeInv, TypeOK
<1> QED BY <1>2, <1>3, <1>5 DEF CommandInv, AwaitInv, ReportInv

LEMMA NativeCloseCommand ==
  ASSUME Sound, CommandInv, NEW c \in Calls, NativeClose(c)
  PROVE  CommandInv'
<1>1. /\ pc[c] = "closing" /\ call[c].kind = "close" /\ Goto(c, "closed") /\ call' = call
      /\ tracked' = tracked /\ store' = store /\ superseded' = superseded /\ reported' = reported
      /\ native' = native \/ native'.session = 0
  BY ClosedTyped DEF NativeClose, Sound, FreeInv, Places, Place, session
<1>2. pc'[c] = "closed" /\ \A u \in Calls \ {c} : pc'[u] = pc[u]
  BY <1>1, GotoTyped DEF PCs, Sound, FreeInv
<1>3. \A u \in Calls : ~Commanding(u)'
  BY <1>1, <1>2, NoCommands DEF Closing, InProgress, Sound, Commanding
<1>4. \A u \in Calls : /\ Saving(u)' => Saving(u) /\ call'[u] = call[u]
                       /\ pc'[u] = "open" => pc[u] = "open" /\ call'[u] = call[u]
  BY <1>1, <1>2 DEF Saving
<1>5. \A u \in Calls : (Began(u)' => Began(u)) /\ (pc'[u] = "cancelAll" => pc[u] = "cancelAll")
  BY <1>1, <1>2 DEF Began
<1>6. \A u \in Calls : (Began(u) \/ pc[u] = "cancelAll") /\ IsOpen(u)' => native' = native /\ IsOpen(u)
  <2> TAKE u \in Calls
  <2>1. Began(u) \/ pc[u] = "cancelAll" => call[u].session # 0
    BY DEF Sound, FreeInv, Places, Place, InProgress, Opening, Began
  <2> QED BY <1>1, <2>1 DEF IsOpen
<1>7. TrackedKnown' /\ OneOwner'
  BY <1>1, <1>5, <1>6 DEF CommandInv, AwaitInv, TrackedKnown, OneOwner
<1>8. \A h \in reported : native'.session # 0 => native'.pending[h] \in Settled
  BY <1>1 DEF CommandInv, ReportInv, ReportedKept
<1> QED BY <1>1, <1>3, <1>4, <1>5, <1>6, <1>7, <1>8, SilentCommand

LEMMA ForgetSessionCommand ==
  ASSUME Sound, CommandInv, NEW c \in Calls, ForgetSession(c)
  PROVE  CommandInv'
<1>1. /\ End(c) /\ native' = native /\ store' = store /\ superseded' = superseded
      /\ reported' = reported /\ tracked' \subseteq tracked
  BY DEF ForgetSession
<1>2. Still(c) /\ Quiet(c)
  BY <1>1, EndCalm DEF Sound, FreeInv
<1> QED BY <1>1, <1>2, CalmKeeps

LEMMA NativeOpenCommand ==
  ASSUME Sound, CommandInv, NEW c \in Calls, NativeOpen(c)
  PROVE  CommandInv'
<1>1. /\ pc[c] = "open" /\ End(c) /\ tracked' = {} /\ store' = store
      /\ superseded' = superseded /\ reported' = reported
      /\ native' = [session |-> opened + 1, pending |-> call[c].checkpoint, active |-> NoHash]
  BY DEF NativeOpen
<1>2. Only(c) /\ pc'[c] = "idle"
  BY <1>1, EndFacts DEF Sound, FreeInv
<1>3. \A u \in Calls : ~Commanding(u)'
  BY <1>1, <1>2, NoCommands DEF Opening, InProgress, Sound, Commanding, Only
<1>4. \A u \in Calls : /\ Saving(u)' => Saving(u) /\ call'[u] = call[u]
                       /\ pc'[u] = "open" => pc[u] = "open" /\ call'[u] = call[u]
  BY <1>2 DEF Saving, Only
<1>5. \A u \in Calls : (pc'[u] # "idle") => ~IsOpen(u)'
  <2> TAKE u \in Calls
  <2>1. call[u].session <= opened /\ opened \in Nat /\ call[u].session \in Nat
    BY DEF Sound, FreeInv, Places, Place, TypeOK, CallType
  <2> QED BY <1>1, <1>2, <2>1 DEF IsOpen, Only
<1>6. TrackedKnown' /\ OneOwner'
  BY <1>1, <1>5 DEF TrackedKnown, OneOwner, Began
<1>7. \A h \in reported : native'.session # 0 => native'.pending[h] \in Settled
  BY <1>1 DEF CommandInv, ReportInv, ReportedKept
<1> QED BY <1>1, <1>3, <1>4, <1>5, <1>6, <1>7, SilentCommand

LEMMA CrashCommand ==
  ASSUME Sound, CommandInv, Crash
  PROVE  CommandInv'
<1>1. /\ tracked' = {} /\ native'.session = 0 /\ store' = store /\ reported' = reported
      /\ \A u \in Calls : pc'[u] = "idle"
  BY ClosedTyped DEF Crash
<1>2. AwaitInv'
  BY <1>1 DEF AwaitInv, TrackedKnown, OneOwner, Began, CancelsOld, Awaits, MaySend
<1>3. ReportInv'
  BY <1>1 DEF CommandInv, ReportInv, AllDone, MayReport, ReportedKept, Kept, Fresh, Saving
<1> QED BY <1>2, <1>3 DEF CommandInv

LEMMA IdleCommand ==
  ASSUME Sound, CommandInv, (\E h \in Hashes : NodeDecides(h)) \/ UNCHANGED vars
  PROVE  CommandInv'
<1>1. /\ tracked' = tracked /\ native' = native /\ superseded' = superseded /\ store' = store
      /\ reported' = reported /\ pc' = pc /\ call' = call
  BY DEF NodeDecides, vars, session
<1>2. \A u \in Calls, h \in Hashes : MaySend(u, h)' = MaySend(u, h) /\ MayReport(u, h)' = MayReport(u, h)
  BY <1>1 DEF MaySend, MayReport, Commanding, InProgress
<1>3. AwaitInv'
  BY <1>1, <1>2 DEF CommandInv, AwaitInv, TrackedKnown, OneOwner, Began, IsOpen, CancelsOld, Awaits,
                    Known, MaySend, Commanding, InProgress
<1>4. ReportInv'
  BY <1>1, <1>2 DEF CommandInv, ReportInv, AllDone, Done, ReportedKept, Kept, Fresh, Saving
<1> QED BY <1>3, <1>4 DEF CommandInv

LEMMA CommandInit == ASSUME Init PROVE CommandInv
<1>1. tracked = {} /\ reported = {} /\ \A u \in Calls : pc[u] = "idle"
  BY DEF Init
<1>2. AwaitInv
  BY <1>1 DEF AwaitInv, TrackedKnown, OneOwner, Began, CancelsOld, Awaits, MaySend
<1>3. ReportInv
  BY <1>1 DEF ReportInv, AllDone, MayReport, ReportedKept
<1> QED BY <1>2, <1>3 DEF CommandInv

LEMMA CommandStep ==
  ASSUME Promised, SubmissionInv, FreeInv, CommandInv, [Next]_vars
  PROVE  CommandInv'
<1>1. Sound
  BY InvStep, FreeStep DEF Sound
<1>2. ASSUME NEW c \in Calls, Begin(c) PROVE CommandInv'
  BY <1>1, <1>2, BeginCommand, SuspendCommand DEF Begin, Pause, CloseSession
<1>3. ASSUME NEW c \in Calls, Submit(c) PROVE CommandInv'
  BY <1>1, <1>3, NativeBeginCommand, NotifyStepCommand, SendCommand, ReturnResultCommand,
     AnswerCommand, NativeResumeCommand, NativeCancelCommand DEF Submit
<1>4. ASSUME NEW c \in Calls, Persist(c) PROVE CommandInv'
  BY <1>1, <1>4, NativeExportCommand, SaveCommand, FailCommand DEF Persist, SaveFails
<1>5. ASSUME NEW c \in Calls, Control(c) PROVE CommandInv'
  BY <1>1, <1>5, NativeApplyCommand, NativeCancelTrackedCommand, NativeCloseCommand,
     ForgetSessionCommand, LoadCommand, NativeOpenCommand DEF Control
<1> QED BY <1>1, <1>2, <1>3, <1>4, <1>5, AbortCommandCommand, CrashCommand, IdleCommand
        DEF Next, Continue

LEMMA CommandInvariance == ASSUME Promised PROVE Spec => [](SubmissionInv /\ FreeInv /\ CommandInv)
<1> DEFINE Inv == SubmissionInv /\ FreeInv /\ CommandInv
<1>1. Init => Inv
  BY InvInit, FreeInit, CommandInit
<1>2. Inv /\ [Next]_vars => Inv'
  BY InvStep, FreeStep, CommandStep
<1> QED BY <1>1, <1>2, PTL DEF Spec

\* controller.ts:143-147: once runCommand has returned a result the store has the outcome, and
\* no save that arrives later takes it away
THEOREM ResultsAreSaved == ASSUME Promised PROVE Spec => []ReportedIsSaved
<1>1. CommandInv => ReportedIsSaved
  BY DEF CommandInv, ReportInv, ReportedKept, Kept, ReportedIsSaved
<1> QED BY <1>1, CommandInvariance, PTL

\* controller.ts:161-162: whatever pause, close and the caller cancel, a transaction goes out
\* only while the open session waits for its outcome
THEOREM OnlyAwaitedIsSent == ASSUME Promised PROVE Spec => SendsWhatIsAwaited
<1> DEFINE Inv == SubmissionInv /\ FreeInv /\ CommandInv
           Awaited == \A h \in Hashes : sent'[h] # sent[h] =>
             native.active = h /\ native.pending[h] = "awaiting" /\ native.session = record
<1>1. Inv /\ Inv' /\ [Next]_vars => [Awaited]_vars
  <2> SUFFICES ASSUME Inv, Inv', Next, NEW h \in Hashes, sent'[h] # sent[h]
               PROVE  native.active = h /\ native.pending[h] = "awaiting" /\ native.session = record
    OBVIOUS
  <2>1. PICK c \in Calls : Send(c)
    <3>1. ASSUME NEW c \in Calls, Begin(c) PROVE sent' = sent
      BY <3>1 DEF Begin, RunCommand, ApplySyncBatch, Pause, CloseSession, Suspend, OpenSession, world
    <3>2. ASSUME NEW c \in Calls, Submit(c) PROVE Send(c) \/ sent' = sent
      BY <3>2 DEF Submit, NativeBegin, NotifyStep, StopAborted, ReturnResult, Answer, RequestFails,
                  NativeResume, NativeCancel, world
    <3>3. ASSUME NEW c \in Calls, Persist(c) \/ Control(c) \/ AbortCommand(c) PROVE sent' = sent
      BY <3>3 DEF Persist, NativeExport, Save, SaveFails, Control, NativeApply, NativeCancelTracked,
                  NativeClose, ForgetSession, Load, NativeOpen, AbortCommand, world
    <3>4. Crash \/ (\E g \in Hashes : NodeDecides(g)) => sent' = sent
      BY DEF Crash, NodeDecides, world
    <3> QED BY <3>1, <3>2, <3>3, <3>4 DEF Next, Continue
  <2>2. MaySend(c, call[c].hash) /\ call[c].hash \in Hashes
    BY <2>1 DEF Send, Is, MaySend, Commanding, InProgress, FreeInv, Places, Place
  <2>3. h = call[c].hash
    BY <2>1 DEF Send, SubmissionInv, TypeOK
  <2>4. Sound
    BY DEF Sound
  <2> QED BY <2>2, <2>3, <2>4, SenderOwns DEF CommandInv
<1>2. Spec => []Inv
  BY CommandInvariance
<1> QED BY <1>1, <1>2, PTL DEF Spec, SendsWhatIsAwaited

=============================================================================
