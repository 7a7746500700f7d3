--------------------------- MODULE SubmissionClient ---------------------------
(***************************************************************************)
(* How a host submits transactions and keeps what it knows about them:     *)
(* the session controller (controller.ts) over the transport               *)
(* (transport.ts, transport-batch.ts), the native session and the          *)
(* checkpoint store.                                                       *)
(*                                                                         *)
(* JavaScript runs to its next await; then every other call may run.  So   *)
(* each await is a place in a call (pc), an action Native... is the        *)
(* awaited native call, and the rest of the awaiting code up to its next   *)
(* await is one action.  The native side is taken as OperationLifecycle    *)
(* shows it: one operation at a time, calls that take effect at once.      *)
(* Within a session a transaction is begun once, so an operation is known  *)
(* by its transaction.  A checkpoint is the statuses it holds.             *)
(***************************************************************************)
EXTENDS Naturals, FiniteSets

CONSTANTS
  Calls,        \* the controller calls that may be in progress at once
  Hashes,       \* the transactions submitted, by their hashes
  MaxSessions,  \* how many sessions are explored, each after a close or a crash
  HostRules     \* what the host promises, see below

Statuses == {"absent", "awaiting", "accepted", "rejected", "unknown"}
Settled  == {"accepted", "rejected"}
Kinds    == {"submit", "sync", "pause", "close", "open"}
PCs      == {"idle", "begin", "step", "export", "save", "saved", "waiting", "resume",
             "cancel", "cancelAll", "closing", "closed", "load", "open"}
NoHash   == "none"

(***************************************************************************)
(* "keepNewest": the store does not replace a checkpoint by an older one   *)
(* (README.md:274).  "closeLast": nothing is begun on a session that is    *)
(* being closed.                                                           *)
(***************************************************************************)
ASSUME HostAssumption ==
  /\ NoHash \notin Hashes /\ MaxSessions \in Nat
  /\ HostRules \subseteq {"keepNewest", "closeLast"}

VARIABLES
  record,      \* the session the controller has a SessionRecord of, or 0
  tracked,     \* its operations
  native,      \* the native session
  opened,      \* how many sessions have been opened
  store,       \* the checkpoint that load returns
  superseded,  \* the calls whose checkpoint is older than the one in the store
  pc, call,    \* the controller calls in progress
  sent,        \* how often each transaction was sent to the node
  node,        \* what the node made of it
  reported     \* history: the transactions whose runCommand returned a result

session  == <<record, tracked, opened>>
world    == <<sent, node>>
vars     == <<session, native, store, superseded, pc, call, world, reported>>

Checkpoints == [Hashes -> Statuses]
NoStatus    == [h \in Hashes |-> "absent"]
Closed      == [session |-> 0, pending |-> NoStatus, active |-> NoHash]

Blank == [kind |-> "submit", hash |-> NoHash, session |-> 0, signal |-> FALSE,
          aborted |-> FALSE, step |-> "network", operations |-> {},
          checkpoint |-> NoStatus, older |-> {}, answer |-> "unknown"]

-----------------------------------------------------------------------------
(* Helpers *)

Goto(c, next) == pc' = [pc EXCEPT ![c] = next]
Is(c, place, kinds) == pc[c] = place /\ call[c].kind \in kinds

\* the call is over: its record is forgotten
End(c) == Goto(c, "idle") /\ call' = [call EXCEPT ![c] = Blank]

\* where an error leaves a call: runCommand cancels its operation, close goes on
Fail(c) ==
  IF call[c].kind \in {"sync", "pause"} THEN End(c)
  ELSE /\ Goto(c, IF call[c].kind = "submit" THEN "cancel" ELSE "closing")
       /\ UNCHANGED call

IsOpen(c) == native.session = call[c].session

\* cancel_operation: an operation that is not there is an error, and no error is heard
Cancelled(s, h) ==
  IF native.session = s /\ native.active = h
    THEN [native EXCEPT !.active = NoHash, !.pending[h] = "unknown"]
    ELSE native

-----------------------------------------------------------------------------
(* runCommand: a transaction is submitted *)

MayBegin == "closeLast" \in HostRules =>
              \A u \in Calls : pc[u] # "idle" => call[u].kind # "close"

\* the controller relays the caller's signal by its event, which a signal that was aborted
\* before does not fire
RunCommand(c, h) ==
  /\ pc[c] = "idle" /\ record # 0 /\ MayBegin
  /\ Goto(c, "begin")
  /\ \E signal \in BOOLEAN :
       call' = [call EXCEPT ![c] = [Blank EXCEPT !.hash = h, !.session = record,
                                                 !.signal = signal]]
  /\ UNCHANGED <<session, native, store, superseded, world, reported>>

\* begin_command(SubmitFinalized): refused if the session is busy, or has ever begun it
NativeBegin(c) ==
  /\ Is(c, "begin", {"submit"})
  /\ LET h == call[c].hash
     IN  IF IsOpen(c) /\ native.active = NoHash /\ native.pending[h] = "absent"
         THEN /\ native' = [native EXCEPT !.active = h, !.pending[h] = "awaiting"]
              /\ Goto(c, "step") /\ UNCHANGED call
         ELSE End(c) /\ UNCHANGED native
  /\ UNCHANGED <<session, store, superseded, world, reported>>

\* faulty: the operation is known only after the first step was announced
NotifyStepUnknown(c) ==
  /\ pc[c] = "step"
  /\ IF call[c].aborted THEN End(c) /\ UNCHANGED tracked
     ELSE /\ Goto(c, "export") /\ UNCHANGED call
          /\ tracked' = IF call[c].session # record THEN tracked
                        ELSE IF call[c].step = "network" THEN tracked \cup {call[c].hash}
                        ELSE tracked \ {call[c].hash}
  /\ UNCHANGED <<record, opened, native, store, superseded, world, reported>>

\* faulty: a step that completes is not saved
NotifyStepUnsaved(c) ==
  /\ pc[c] = "step"
  /\ IF call[c].aborted THEN Goto(c, "cancel") /\ UNCHANGED tracked
     ELSE /\ Goto(c, IF call[c].step = "network" THEN "export" ELSE "saved")
          /\ tracked' = IF call[c].session # record THEN tracked
                        ELSE IF call[c].step = "network" THEN tracked \cup {call[c].hash}
                        ELSE tracked \ {call[c].hash}
  /\ UNCHANGED <<record, opened, native, store, superseded, call, world, reported>>

\* requireNotAborted, then onStep: #trackStep and #persist
NotifyStep(c) ==
  /\ pc[c] = "step"
  /\ IF call[c].aborted THEN Goto(c, "cancel") /\ UNCHANGED tracked
     ELSE /\ Goto(c, "export")
          /\ tracked' = IF call[c].session # record THEN tracked
                        ELSE IF call[c].step = "network" THEN tracked \cup {call[c].hash}
                        ELSE tracked \ {call[c].hash}
  /\ UNCHANGED <<record, opened, native, store, superseded, call, world, reported>>

\* requireNotAborted again; then the request, which a signal aborted meanwhile stops
Send(c) ==
  /\ Is(c, "saved", {"submit"}) /\ call[c].step = "network" /\ ~call[c].aborted
  /\ sent' = [sent EXCEPT ![call[c].hash] = @ + 1]
  /\ Goto(c, "waiting")
  /\ UNCHANGED <<session, native, store, superseded, call, node, reported>>

StopAborted(c) ==
  /\ Is(c, "saved", {"submit"}) /\ call[c].aborted
  /\ Goto(c, "cancel")
  /\ UNCHANGED <<session, native, store, superseded, call, world, reported>>

ReturnResult(c) ==
  /\ Is(c, "saved", {"submit"}) /\ call[c].step = "complete" /\ ~call[c].aborted
  /\ reported' = reported \cup {call[c].hash}
  /\ End(c)
  /\ UNCHANGED <<session, native, store, superseded, world>>

\* the node, which may never see what was sent
NodeDecides(h) ==
  /\ sent[h] > 0 /\ node[h] = "none"
  /\ \E status \in Settled : node' = [node EXCEPT ![h] = status]
  /\ UNCHANGED <<session, native, store, superseded, pc, call, sent, reported>>

\* HTTP 2xx and 4xx
Answer(c) ==
  /\ pc[c] = "waiting" /\ node[call[c].hash] \in Settled
  /\ call' = [call EXCEPT ![c].answer = node[call[c].hash]]
  /\ Goto(c, "resume")
  /\ UNCHANGED <<session, native, store, superseded, world, reported>>

\* faulty: every response that is not 2xx is a rejection
RequestFailsAsRejected(c) ==
  /\ pc[c] = "waiting" \/ (Is(c, "saved", {"submit"}) /\ call[c].step = "network")
  /\ IF call[c].aborted THEN Goto(c, "cancel") /\ UNCHANGED call
     ELSE Goto(c, "resume") /\ call' = [call EXCEPT ![c].answer = "rejected"]
  /\ UNCHANGED <<session, native, store, superseded, world, reported>>

\* faulty: a request has no timeout
RequestFailsOnAbort(c) ==
  /\ pc[c] = "waiting" /\ call[c].aborted
  /\ Goto(c, "cancel")
  /\ UNCHANGED <<session, native, store, superseded, call, world, reported>>

\* another status, a timeout, a lost connection, or headers that could not be made:
\* recoverNetworkFailure
RequestFails(c) ==
  /\ pc[c] = "waiting" \/ (Is(c, "saved", {"submit"}) /\ call[c].step = "network")
  /\ IF call[c].aborted THEN Goto(c, "cancel") /\ UNCHANGED call
     ELSE Goto(c, "resume") /\ call' = [call EXCEPT ![c].answer = "unknown"]
  /\ UNCHANGED <<session, native, store, superseded, world, reported>>

\* resume_operation: an unknown outcome is an error that leaves the operation
NativeResume(c) ==
  /\ pc[c] = "resume"
  /\ LET h == call[c].hash
     IN  IF IsOpen(c) /\ native.active = h
         THEN native' = [native EXCEPT !.pending[h] = call[c].answer,
                           !.active = IF call[c].answer = "unknown" THEN h ELSE NoHash]
         ELSE UNCHANGED native
  /\ IF IsOpen(c) /\ native.active = call[c].hash /\ call[c].answer # "unknown"
     THEN Goto(c, "step") /\ call' = [call EXCEPT ![c].step = "complete"]
     ELSE Goto(c, "cancel") /\ UNCHANGED call
  /\ UNCHANGED <<session, store, superseded, world, reported>>

\* the catch of runCommand
NativeCancel(c) ==
  /\ pc[c] = "cancel"
  /\ native' = Cancelled(call[c].session, call[c].hash)
  /\ End(c)
  /\ UNCHANGED <<session, store, superseded, world, reported>>

\* the caller's AbortSignal fires
AbortCommand(c) ==
  /\ pc[c] # "idle" /\ call[c].kind = "submit" /\ ~call[c].signal
  /\ call' = [call EXCEPT ![c].signal = TRUE, ![c].aborted = TRUE]
  /\ UNCHANGED <<session, native, store, superseded, pc, world, reported>>
-----------------------------------------------------------------------------
(* #persist: export, then save *)

\* export_wallet_checkpoint; of the saves in progress this one is the newest
NativeExport(c) ==
  /\ pc[c] = "export"
  /\ IF IsOpen(c)
     THEN /\ Goto(c, "save") /\ superseded' = superseded \ {c}
          /\ call' = [u \in Calls |->
               IF u = c THEN [call[c] EXCEPT !.checkpoint = native.pending,
                                             !.older = {v \in Calls : pc[v] = "save"}]
               ELSE [call[u] EXCEPT !.older = @ \ {c}]]
     ELSE Fail(c) /\ UNCHANGED superseded
  /\ UNCHANGED <<session, native, store, world, reported>>

\* where a call goes on after its save
GoOn(c) ==
  IF call[c].kind = "submit" THEN Goto(c, "saved") /\ UNCHANGED call
  ELSE IF call[c].kind = "close" THEN Goto(c, "closing") /\ UNCHANGED call
  ELSE End(c)

\* checkpointStore.save takes effect: in whatever order, if the host promises nothing
Save(c) ==
  /\ pc[c] = "save"
  /\ IF "keepNewest" \in HostRules /\ c \in superseded
     THEN UNCHANGED <<store, superseded>>
     ELSE /\ store' = call[c].checkpoint
          /\ superseded' = superseded \cup call[c].older
  /\ GoOn(c)
  /\ UNCHANGED <<session, native, world, reported>>

\* faulty: the error of a save is logged and forgotten
SaveFailsQuietly(c) ==
  /\ pc[c] = "save" /\ GoOn(c)
  /\ UNCHANGED <<session, native, store, superseded, world, reported>>

SaveFails(c) ==
  /\ pc[c] = "save" /\ Fail(c)
  /\ UNCHANGED <<session, native, store, superseded, world, reported>>

-----------------------------------------------------------------------------
(* applySyncBatch, pause, closeWalletSession, openWalletSession *)

\* a call of another kind on the controller's session, with the operations it cancels
Started(kind, operations) ==
  [Blank EXCEPT !.kind = kind, !.session = record, !.operations = operations]

ApplySyncBatch(c) ==
  /\ pc[c] = "idle" /\ record # 0 /\ MayBegin
  /\ Goto(c, "begin") /\ call' = [call EXCEPT ![c] = Started("sync", {})]
  /\ UNCHANGED <<session, native, store, superseded, world, reported>>

\* apply_sync_batch: a duplicate is not saved, an active operation or a gap is an error
NativeApply(c) ==
  /\ Is(c, "begin", {"sync"})
  /\ \/ IsOpen(c) /\ native.active = NoHash /\ Goto(c, "export") /\ UNCHANGED call
     \/ End(c)
  /\ UNCHANGED <<session, native, store, superseded, world, reported>>

\* faulty: running commands are not aborted, only their operations are cancelled
SuspendWithoutAbort(c, kind) ==
  /\ pc[c] = "idle" /\ record # 0
  /\ Goto(c, "cancelAll") /\ tracked' = {}
  /\ call' = [call EXCEPT ![c] = Started(kind, tracked)]
  /\ UNCHANGED <<record, opened, native, store, superseded, world, reported>>

\* #abort, and #cancel up to its calls
Suspend(c, kind) ==
  /\ pc[c] = "idle" /\ record # 0
  /\ Goto(c, "cancelAll") /\ tracked' = {}
  /\ call' = [u \in Calls |->
       IF u = c THEN Started(kind, tracked)
       ELSE IF call[u].kind = "submit" /\ call[u].session = record
            THEN [call[u] EXCEPT !.aborted = TRUE]
       ELSE call[u]]
  /\ UNCHANGED <<record, opened, native, store, superseded, world, reported>>

Pause(c) == Suspend(c, "pause")

\* the last session explored stays open
CloseSession(c) == opened < MaxSessions /\ Suspend(c, "close")

NativeCancelTracked(c) ==
  /\ pc[c] = "cancelAll"
  /\ \/ /\ call[c].operations = {} /\ Goto(c, "export") /\ UNCHANGED <<native, call>>
     \/ \E h \in call[c].operations :
          /\ native' = Cancelled(call[c].session, h)
          /\ call' = [call EXCEPT ![c].operations = @ \ {h}] /\ UNCHANGED pc
  /\ UNCHANGED <<session, store, superseded, world, reported>>

NativeClose(c) ==
  /\ pc[c] = "closing"
  /\ native' = IF IsOpen(c) THEN Closed ELSE native
  /\ Goto(c, "closed")
  /\ UNCHANGED <<session, store, superseded, call, world, reported>>

ForgetSession(c) ==
  /\ pc[c] = "closed"
  /\ IF record = call[c].session THEN record' = 0 /\ tracked' = {}
     ELSE UNCHANGED <<record, tracked>>
  /\ End(c)
  /\ UNCHANGED <<opened, native, store, superseded, world, reported>>

\* a host opens one session of a wallet at a time
OpenSession(c) ==
  /\ pc[c] = "idle" /\ record = 0 /\ opened < MaxSessions
  /\ \A u \in Calls : pc[u] \notin {"load", "open"}
  /\ Goto(c, "load") /\ call' = [call EXCEPT ![c] = Started("open", {})]
  /\ UNCHANGED <<session, native, store, superseded, world, reported>>

Load(c) ==
  /\ pc[c] = "load"
  /\ Goto(c, "open") /\ call' = [call EXCEPT ![c].checkpoint = store]
  /\ UNCHANGED <<session, native, store, superseded, world, reported>>

\* open_wallet_session
NativeOpen(c) ==
  /\ pc[c] = "open"
  /\ opened' = opened + 1 /\ record' = opened + 1 /\ tracked' = {}
  /\ native' = [session |-> opened + 1, pending |-> call[c].checkpoint, active |-> NoHash]
  /\ End(c)
  /\ UNCHANGED <<store, superseded, world, reported>>

\* the process ends: a save in progress has been made or has not
Crash ==
  /\ opened < MaxSessions /\ \E c \in Calls : record # 0 \/ pc[c] # "idle"
  /\ record' = 0 /\ tracked' = {} /\ native' = Closed /\ superseded' = {}
  /\ pc' = [c \in Calls |-> "idle"] /\ call' = [c \in Calls |-> Blank]
  /\ UNCHANGED <<opened, store, world, reported>>

-----------------------------------------------------------------------------
(* The specification *)

Init ==
  /\ record = 0 /\ tracked = {} /\ opened = 0 /\ native = Closed
  /\ store = NoStatus /\ superseded = {}
  /\ pc = [c \in Calls |-> "idle"] /\ call = [c \in Calls |-> Blank]
  /\ sent = [h \in Hashes |-> 0] /\ node = [h \in Hashes |-> "none"] /\ reported = {}

Begin(c) ==
  \/ \E h \in Hashes : RunCommand(c, h)
  \/ ApplySyncBatch(c) \/ Pause(c) \/ CloseSession(c) \/ OpenSession(c)

Submit(c) ==
  \/ NativeBegin(c) \/ NotifyStep(c) \/ Send(c) \/ StopAborted(c) \/ ReturnResult(c)
  \/ Answer(c) \/ RequestFails(c) \/ NativeResume(c) \/ NativeCancel(c)
Persist(c) == NativeExport(c) \/ Save(c) \/ SaveFails(c)
Control(c) ==
  \/ NativeApply(c) \/ NativeCancelTracked(c) \/ NativeClose(c) \/ ForgetSession(c)
  \/ Load(c) \/ NativeOpen(c)
Continue(c) == Submit(c) \/ Persist(c) \/ Control(c)

Next ==
  \/ \E c \in Calls : Begin(c) \/ Continue(c) \/ AbortCommand(c)
  \/ \E h \in Hashes : NodeDecides(h)
  \/ Crash

Spec     == Init /\ [][Next]_vars
FairSpec == Spec /\ \A c \in Calls : WF_vars(Continue(c))

-----------------------------------------------------------------------------
(* Properties *)

CallType == [kind : Kinds, hash : Hashes \cup {NoHash}, session : Nat, signal : BOOLEAN,
             aborted : BOOLEAN, step : {"network", "complete"}, operations : SUBSET Hashes,
             checkpoint : Checkpoints, older : SUBSET Calls,
             answer : Settled \cup {"unknown"}]

TypeOK ==
  /\ record \in Nat /\ tracked \subseteq Hashes /\ opened \in 0..MaxSessions
  /\ native \in [session : Nat, pending : Checkpoints, active : Hashes \cup {NoHash}]
  /\ store \in Checkpoints /\ superseded \subseteq Calls
  /\ pc \in [Calls -> PCs] /\ call \in [Calls -> CallType]
  /\ sent \in [Hashes -> Nat] /\ node \in [Hashes -> Settled \cup {"none"}]
  /\ reported \subseteq Hashes

\* README.md:255, controller.ts:143-147: a transaction goes to the node at most once, over
\* every abort, pause, failed save, crash, restart and repeated runCommand: a step is saved
\* before it is carried out, and what was begun is refused in every later session
NeverSentTwice == \A h \in Hashes : sent[h] <= 1

\* README.md:257-262: accepted and rejected are what the node said, wherever they are
\* written; what is not known is never settled
Records == {store, native.pending} \cup {call[c].checkpoint : c \in Calls}
StatusIsTrue ==
  \A R \in Records, h \in Hashes : R[h] \in Settled => R[h] = node[h]

\* controller.ts:143-147: once runCommand has returned a result the store has it, and no
\* save that arrives later takes it away
ReportedIsSaved == \A h \in reported : store[h] \in Settled

\* transport.ts:202-207, controller.ts:157-166: when no call is in progress the session is
\* free, however the calls ended
NothingLeftBehind ==
  (\A c \in Calls : pc[c] = "idle") => native.active = NoHash /\ native.session = record

\* controller.ts:161-162: a transaction goes out only while the native session waits for
\* its outcome: a command that pause or close has cancelled sends nothing
SendsWhatIsAwaited ==
  [][\A h \in Hashes : sent'[h] # sent[h] =>
       native.active = h /\ native.pending[h] = "awaiting" /\ native.session = record]_vars

\* README.md:262: a command whose caller has cancelled it sends nothing
CancelledSendsNothing ==
  [][\A c \in Calls : pc[c] = "saved" /\ pc'[c] = "waiting" => ~call[c].signal]_vars

\* transport-batch.ts:169: every controller call comes to an end, whether the node
\* answers or not
CallsEnd == \A c \in Calls : (pc[c] # "idle") ~> (pc[c] = "idle")

=============================================================================
