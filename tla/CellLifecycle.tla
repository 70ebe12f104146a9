---------------------------- MODULE CellLifecycle ----------------------------
(***************************************************************************)
(* Quiescing of BlindCellStorageEngine: captureControlSnapshotState and    *)
(* close, around the calls of CellEngine.  Both refuse new calls, and wait *)
(* until the calls counted in activeOperations have ended.  A staged       *)
(* atomic put is counted from its staging to the release of its claim, not *)
(* while its commit runs on after a cancellation.                          *)
(***************************************************************************)
EXTENDS CellEngine

CONSTANT MaxSnapshots   \* bound of the instance

ASSUME LifecycleConstants == MaxSnapshots \in Nat

VARIABLES snapshot,  \* snapshotting
          taken,     \* captures begun
          closing,
          doomed     \* the leases that close has listed and not cancelled yet

lifecycle == <<snapshot, taken, closing, doomed>>
allVars == <<vars, lifecycle>>

LInit == Init /\ snapshot = FALSE /\ taken = 0 /\ closing = FALSE /\ doomed = {}

\* Mutant: a staged lease is not counted.
BugActive == {c \in Callers : ~At(c, "idle") /\ call[c].op # "atomic"}

\* activeOperations, the capture itself left out.
Active == {c \in Callers : ~At(c, "idle") /\ (call[c].op = "atomic" => call[c].token # "none")}

Quiescing == snapshot \/ closing

\* Mutant: only close refuses new calls.
BugAdmitted == closing => \A c \in Callers : At(c, "idle") => call'[c].pc = "idle"

\* #runOperation and stageAtomicCellPut refuse new calls.
Admitted == Quiescing => \A c \in Callers : At(c, "idle") => call'[c].pc = "idle"

\* Mutant: the lease is issued although close has listed the leases already.
BugIssued(c) == call'[c].token = "staged"

\* What stageAtomicCellPut may do once the body is staged.
Issued(c) == call'[c].token = "staged" /\ ~closing

\* A step of the calls, of the timer, of the commit queue or of time; the start and
\* the end of a process are actions of their own.
EngineStep ==
  /\ Next /\ mode' \in {mode, "open"}
  /\ Admitted
  /\ \A c \in Callers : At(c, "astage") /\ call'[c].pc = "hold" => Issued(c)
  /\ UNCHANGED lifecycle

\* The next process.
Restart == Open /\ UNCHANGED lifecycle
Dies == Crash /\ snapshot' = FALSE /\ closing' = FALSE /\ doomed' = {} /\ UNCHANGED taken

\* captureControlSnapshotState up to its await.
BeginSnapshot ==
  /\ mode = "open" /\ ~Quiescing /\ taken < MaxSnapshots
  /\ snapshot' = TRUE /\ taken' = taken + 1
  /\ UNCHANGED <<vars, closing, doomed>>

\* The state is copied, and new calls are admitted again.
Capture ==
  /\ snapshot /\ Active = {}
  /\ snapshot' = FALSE
  /\ UNCHANGED <<vars, taken, closing, doomed>>

\* The interval fires during a capture: #runOperation refuses it, and the catch
\* makes the store read-only.
TickRefused ==
  /\ mode = "open" /\ snapshot /\ ~closing /\ "tick" \in Ops /\ readOnly = "none"
  /\ readOnly' = "timer"
  /\ UNCHANGED <<mode, st, queue, call, poisoned, inFlight, heap, broken, late, wall, files, faults, history>>
  /\ UNCHANGED lifecycle

\* close up to its first await: the timers end and the leases are listed.
BeginClose ==
  /\ mode = "open" /\ ~closing
  /\ closing' = TRUE
  /\ doomed' = {c \in Clients : call[c].token = "staged"}
  /\ UNCHANGED <<vars, snapshot, taken>>

\* The next lease of the list, if it is still staged.
CancelNext(c) ==
  /\ c \in doomed
  /\ doomed' = doomed \ {c}
  /\ IF call[c].token = "staged" THEN CancelAtomic(c) ELSE UNCHANGED vars
  /\ UNCHANGED <<snapshot, taken, closing>>

\* The engine has drained and closes the transaction store, which rejects the
\* frames it has not written.
Closed ==
  /\ closing /\ doomed = {} /\ Active = {} /\ ~snapshot
  /\ IF poisoned THEN Crash
     ELSE /\ mode' = "down" /\ call' = [c \in Callers |-> Idle] /\ queue' = <<>>
          /\ readOnly' = "none" /\ inFlight' = {} /\ heap' = {}
          /\ UNCHANGED <<st, poisoned, broken, late, wall, files, faults, history>>
  /\ closing' = FALSE /\ UNCHANGED <<snapshot, taken, doomed>>

LNext ==
  \/ EngineStep \/ Restart \/ Dies
  \/ BeginSnapshot \/ Capture \/ TickRefused
  \/ BeginClose \/ (\E c \in Clients : CancelNext(c)) \/ Closed

LSpec == LInit /\ [][LNext]_allVars

\* The event loop runs every call and commit that can proceed, keyed locks are
\* granted in the order they were asked for (hence SF), the interval timer keeps
\* firing and time passes.  Whoever staged a put commits or cancels it (the finally
\* block of the coordinator), but a close does not count on it; a capture and a close
\* go on, and a process that ended is started again.
LFairness ==
  /\ WF_allVars(Commit /\ EngineStep) /\ WF_allVars(StartTick /\ EngineStep)
  /\ SF_allVars(Step(Timer) /\ EngineStep) /\ SF_allVars(TimerStep /\ EngineStep) /\ WF_allVars(Restart)
  /\ \A c \in Clients : WF_allVars(CancelNext(c))
       /\ SF_allVars(Step(c) /\ EngineStep /\ ~(closing /\ At(c, "hold")))
  /\ \A spend \in Spends : WF_allVars(DeadlinePasses(spend) /\ EngineStep)
  /\ WF_allVars(Capture) /\ WF_allVars(Closed)

LFairSpec == LSpec /\ LFairness

-----------------------------------------------------------------------------
\* A capture sees no change half done: no claim of an atomic put, no attempt in
\* flight, and no frame on its way to the log but the clock frame of a commit whose
\* lease was cancelled.  (A poisoned log takes no frame any more.)
SnapshotQuiet ==
  [][snapshot /\ ~snapshot' /\ mode' = "open" =>
       /\ Claimed = 0 /\ inFlight = {}
       /\ \A i \in 1..Len(queue) : poisoned \/ queue[i].f.t \in {"floor", "unsafe"}]_allVars

\* A capture ends, although it refuses the sweep that would end the leases it
\* waits for.
SnapshotEnds == snapshot ~> ~snapshot

\* A close ends, though clients keep the leases they hold: close cancels those it
\* lists, and the puts being staged meanwhile get none.
CloseEnds == closing ~> mode = "down"

\* Every ingress reservation is committed or ended, by the sweep of the interval
\* timer or of the next open, whatever captures, closes and crashes come between;
\* unless the log is poisoned and waits for a restart.
ReservationsSettle ==
  \A spend \in Spends : Reserved(st, spend) ~> (~Reserved(st, spend) \/ poisoned)
==============================================================================
