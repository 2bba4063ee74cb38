---------------------------- MODULE RunLifecycle ----------------------------
(***************************************************************************)
(* The life of sessions and runs: internal/engine/engine.go, maintenance.go *)
(* and acp.go over the rows of internal/store/sessions.go, with the process *)
(* that hosts them (cmd/materialmind/main.go).                              *)
(*                                                                         *)
(* The SQLite rows survive the process; the engine's map of active runs,    *)
(* the goroutines and the requests being handled do not.  The store has one *)
(* connection and every method is one transaction, so a store call is one   *)
(* step.  The engine holds its mutex from the checks of StartRun to the     *)
(* entry in the active map, but DeleteSession releases it after its check:  *)
(* everything between two lock regions or two store calls interleaves.      *)
(***************************************************************************)
EXTENDS Integers, FiniteSets

CONSTANTS
  Sessions,     \* the session ids that may be created
  AcpSessions,  \* those that run on an external ACP agent
  Runs,         \* the run ids that may be created (bounds the number of runs)
  Deleters,     \* concurrent callers of DeleteSession: requests and retention
  Sweepers,     \* those of them that are calls of ApplyRetention
  NoSession,    \* no session
  NoRun,        \* no run
  MaxStops      \* bound on the number of times the process ends

ASSUME LifecycleAssumption ==
  /\ AcpSessions \subseteq Sessions
  /\ NoSession \notin Sessions
  /\ NoRun \notin Runs
  /\ Sweepers \subseteq Deleters
  /\ MaxStops \in Nat

VARIABLES
  row,         \* app_sessions.status; "none" before the insert, "gone" after the delete
  agentSide,   \* the sessions with an adk_sessions row, or with a stored acp_session_id
  expired,     \* the sessions whose updated_at is before the retention cutoff
  runRow,      \* runs.status; "none" before the insert, "gone" after the cascade
  runSession,  \* runs.session_id
  phase,       \* of the process
  stops,       \* how often the process has ended
  active,      \* Engine.active: the run each session is executing
  pc,          \* where each run's goroutine is in execute / executeACP
  cause,       \* context.Cause of the run's context
  outcome,     \* finalStatus of the run's goroutine
  told,        \* the status of the "done" event published for the run
  creating,    \* the sessions whose CreateSession request is still being handled
  delPc,       \* where each deleter is
  delSession,  \* the session each deleter is deleting
  delTodo,     \* the expired sessions ApplyRetention has listed and not handled yet
  draining     \* the runs Engine.Shutdown waits for

persistent == <<row, agentSide, expired, runRow, runSession>>
goroutine  == <<active, pc, cause, outcome, told>>
deleting   == <<delPc, delSession, delTodo>>
process    == <<phase, stops, draining>>
vars == <<persistent, goroutine, deleting, process, creating>>

Terminal   == {"completed", "failed", "cancelled", "interrupted"}
Unfinished == {"queued", "running"}
RunStored  == Unfinished \cup Terminal
RowStored  == {"idle", "queued", "running"}
Working    == {"setup", "loop", "returned", "decided", "stored", "announced"}
Serving    == {"up", "stopping", "drained"}

(* The run of session s that r's goroutine belongs to is still executing.  *)
Live(r) == pc[r] \in Working
RowExists(s) == row[s] \in RowStored

TypeOK ==
  /\ row \in [Sessions -> RowStored \cup {"none", "gone"}]
  /\ agentSide \subseteq Sessions
  /\ expired \subseteq Sessions
  /\ runRow \in [Runs -> RunStored \cup {"none", "gone"}]
  /\ runSession \in [Runs -> Sessions \cup {NoSession}]
  /\ phase \in {"booting", "down"} \cup Serving
  /\ stops \in 0 .. MaxStops
  /\ active \in [Sessions -> Runs \cup {NoRun}]
  /\ pc \in [Runs -> Working \cup {"none", "ended"}]
  /\ cause \in [Runs -> {"none", "cancelled", "failure"}]
  /\ outcome \in [Runs -> {"none"} \cup Terminal]
  /\ told \in [Runs -> {"none"} \cup Terminal]
  /\ creating \subseteq Sessions
  /\ delPc \in [Deleters -> {"idle", "sweep", "checked", "erased"}]
  /\ delSession \in [Deleters -> Sessions \cup {NoSession}]
  /\ delTodo \in [Deleters -> SUBSET Sessions]
  /\ draining \subseteq Runs

(* A fresh data directory: no rows, and main has not started yet.          *)
Init ==
  /\ row = [s \in Sessions |-> "none"]
  /\ agentSide = {}
  /\ expired = {}
  /\ runRow = [r \in Runs |-> "none"]
  /\ runSession = [r \in Runs |-> NoSession]
  /\ phase = "down"
  /\ stops = 0
  /\ active = [s \in Sessions |-> NoRun]
  /\ pc = [r \in Runs |-> "none"]
  /\ cause = [r \in Runs |-> "none"]
  /\ outcome = [r \in Runs |-> "none"]
  /\ told = [r \in Runs |-> "none"]
  /\ creating = {}
  /\ delPc = [d \in Deleters |-> "idle"]
  /\ delSession = [d \in Deleters |-> NoSession]
  /\ delTodo = [d \in Deleters |-> {}]
  /\ draining = {}

-----------------------------------------------------------------------------
(* The process: startup recovery, crash, shutdown.                         *)

(* The statuses InterruptRunningRuns selects.                              *)
RecoveredEveryStatus == RunStored
Recovered == {"queued", "running"}

(* main: store.Open, then InterruptRunningRuns before anything is served.  *)
InterruptRunningRuns ==
  /\ phase = "down"
  /\ phase' = "booting"
  /\ runRow' = [r \in Runs |-> IF runRow[r] \in Recovered THEN "interrupted" ELSE runRow[r]]
  /\ row' = [s \in Sessions |-> IF row[s] \in Unfinished THEN "idle" ELSE row[s]]
  /\ expired' = expired \ {s \in Sessions : row[s] \in Unfinished}
  /\ UNCHANGED <<agentSide, runSession, goroutine, deleting, creating, stops, draining>>

(* main goes on to serve once the startup ApplyRetention has returned.     *)
Serve ==
  /\ phase = "booting"
  /\ \A d \in Deleters : delPc[d] = "idle"
  /\ phase' = "up"
  /\ UNCHANGED <<persistent, goroutine, deleting, creating, stops, draining>>

(* Nothing volatile outlives the process: goroutines stop where they are.  *)
ProcessEnds ==
  /\ stops < MaxStops
  /\ stops' = stops + 1
  /\ phase' = "down"
  /\ active' = [s \in Sessions |-> NoRun]
  /\ pc' = [r \in Runs |-> IF Live(r) THEN "ended" ELSE pc[r]]
  /\ creating' = {}
  /\ delPc' = [d \in Deleters |-> "idle"]
  /\ delSession' = [d \in Deleters |-> NoSession]
  /\ delTodo' = [d \in Deleters |-> {}]
  /\ draining' = {}
  /\ UNCHANGED <<persistent, cause, outcome, told>>

(* Killed at any point, or Shutdown's ten seconds of grace are over.       *)
Crash == phase # "down" /\ ProcessEnds

ShutdownWithoutCancel ==
  /\ phase = "up"
  /\ phase' = "stopping"
  /\ draining' = {active[s] : s \in Sessions} \ {NoRun}
  /\ UNCHANGED <<persistent, goroutine, deleting, creating, stops>>

(* Engine.Shutdown: refuse new runs, cancel the active ones, wait.         *)
Shutdown ==
  /\ phase = "up"
  /\ phase' = "stopping"
  /\ draining' = {active[s] : s \in Sessions} \ {NoRun}
  /\ cause' = [r \in Runs |-> IF r \in draining' /\ cause[r] = "none" THEN "cancelled" ELSE cause[r]]
  /\ UNCHANGED <<persistent, active, pc, outcome, told, deleting, creating, stops>>

(* Every awaited done channel is closed; MCP and ACP processes are stopped.*)
Drained ==
  /\ phase = "stopping"
  /\ \A r \in draining : pc[r] = "ended"
  /\ phase' = "drained"
  /\ UNCHANGED <<persistent, goroutine, deleting, creating, stops, draining>>

Exit == phase = "drained" /\ ProcessEnds

-----------------------------------------------------------------------------
(* Sessions.                                                               *)

(* DELETE FROM app_sessions; ON DELETE CASCADE takes the runs.             *)
RemoveRow(s) ==
  /\ row' = [row EXCEPT ![s] = "gone"]
  /\ expired' = expired \ {s}
  /\ runRow' = [r \in Runs |-> IF runSession[r] = s THEN "gone" ELSE runRow[r]]

(* CreateSession / CreateACPSession, the insert.                           *)
CreateRow(s) ==
  /\ phase \in Serving
  /\ row[s] = "none"
  /\ row' = [row EXCEPT ![s] = "idle"]
  /\ creating' = creating \cup {s}
  /\ UNCHANGED <<agentSide, expired, runRow, runSession, goroutine, deleting, process>>

(* The ADK session is inserted whatever became of the row; the ACP session
   id is stored in the row, which fails when the row is gone.              *)
CreateAgentSide(s) ==
  /\ s \in creating
  /\ s \in AcpSessions => RowExists(s)
  /\ agentSide' = agentSide \cup {s}
  /\ creating' = creating \ {s}
  /\ UNCHANGED <<row, expired, runRow, runSession, goroutine, deleting, process>>

CreateFailsInRequestContext(s) ==
  /\ s \in creating
  /\ creating' = creating \ {s}
  /\ \/ RowExists(s) /\ RemoveRow(s)
     \/ UNCHANGED <<row, expired, runRow>>
  /\ UNCHANGED <<agentSide, runSession, goroutine, deleting, process>>

(* The agent refuses, or the request is abandoned.  The rollback of an ACP
   session runs under context.Background(); that of an ADK session runs under
   the request's context, so an abandoned request leaves the row behind.   *)
CreateFails(s) ==
  /\ s \in creating
  /\ creating' = creating \ {s}
  /\ \/ RowExists(s) /\ RemoveRow(s)
     \/ ~RowExists(s) /\ UNCHANGED <<row, expired, runRow>>
     \/ s \notin AcpSessions /\ UNCHANGED <<row, expired, runRow>>
  /\ UNCHANGED <<agentSide, runSession, goroutine, deleting, process>>

(* Time passes: the last update of an idle session is now before the cutoff.*)
Expire(s) ==
  /\ row[s] = "idle"
  /\ expired' = expired \cup {s}
  /\ UNCHANGED <<row, agentSide, runRow, runSession, goroutine, deleting, process, creating>>

-----------------------------------------------------------------------------
(* Starting and cancelling a run.                                          *)

(* ErrEngineShuttingDown from Shutdown on, ErrSessionBusy while one runs.  *)
MayStart(s) == phase = "up" /\ active[s] = NoRun

(* StartRun / startACPRun from Lock to Unlock.  What they read before the
   lock only refuses the request; the insert reads the row again.          *)
StartRun(s, r) ==
  /\ MayStart(s)
  /\ RowExists(s)                  \* else ErrNotFound, or the foreign key
  /\ s \in AcpSessions => s \in agentSide
  /\ runRow[r] = "none"
  /\ runRow' = [runRow EXCEPT ![r] = "queued"]
  /\ runSession' = [runSession EXCEPT ![r] = s]
  /\ row' = [row EXCEPT ![s] = "queued"]
  /\ expired' = expired \ {s}
  /\ active' = [active EXCEPT ![s] = r]
  /\ pc' = [pc EXCEPT ![r] = "setup"]
  /\ UNCHANGED <<agentSide, cause, outcome, told, deleting, process, creating>>

(* context.CancelCauseFunc: the first cause stays.                         *)
Cancelled(r, why) ==
  /\ cause[r] = "none"
  /\ cause' = [cause EXCEPT ![r] = why]

CancelRunAndForget(r) ==
  /\ phase \in Serving
  /\ runRow[r] \in RunStored
  /\ active[runSession[r]] = r
  /\ Cancelled(r, "cancelled")
  /\ active' = [active EXCEPT ![runSession[r]] = NoRun]
  /\ UNCHANGED <<persistent, pc, outcome, told, deleting, process, creating>>

(* CancelRun finds the run's row first, then the active entry of its session.*)
CancelRun(r) ==
  /\ phase \in Serving
  /\ runRow[r] \in RunStored
  /\ active[runSession[r]] = r
  /\ Cancelled(r, "cancelled")
  /\ UNCHANGED <<persistent, active, pc, outcome, told, deleting, process, creating>>

-----------------------------------------------------------------------------
(* The run's goroutine.                                                    *)

SessionStatusIdle(status) == "idle"

(* The session status UpdateRun writes beside a run's status.              *)
SessionStatus(status) == IF status \in Terminal THEN "idle" ELSE "running"

(* store.UpdateRun: both rows in one transaction, ErrNotFound without a run.*)
UpdateRun(r, status) ==
  IF runRow[r] \in RunStored
  THEN /\ runRow' = [runRow EXCEPT ![r] = status]
       /\ row' = [row EXCEPT ![runSession[r]] = SessionStatus(status)]
       /\ expired' = expired \ {runSession[r]}
       /\ UNCHANGED <<agentSide, runSession>>
  ELSE UNCHANGED persistent

Moves(r, from, to) ==
  /\ pc[r] = from
  /\ pc' = [pc EXCEPT ![r] = to]

Volatile == <<active, deleting, process, creating>>

(* A tool, model or server that cannot be set up, or a panic.              *)
SetupFails(r) ==
  /\ Moves(r, "setup", "returned")
  /\ outcome' = [outcome EXCEPT ![r] = "failed"]
  /\ UNCHANGED <<persistent, cause, told, Volatile>>

(* UpdateRun(ctx, "running"): an error, of which a cancelled context is one,
   ends the run as failed.                                                 *)
MarkRunning(r) ==
  /\ pc[r] = "setup"
  /\ IF cause[r] = "none" /\ runRow[r] \in RunStored
     THEN /\ Moves(r, "setup", "loop")
          /\ UpdateRun(r, "running")
          /\ UNCHANGED outcome
     ELSE /\ Moves(r, "setup", "returned")
          /\ outcome' = [outcome EXCEPT ![r] = "failed"]
          /\ UNCHANGED persistent
  /\ UNCHANGED <<cause, told, Volatile>>

(* The loop cancels its own context when too many approvals are pending.   *)
FailCause(r) ==
  /\ pc[r] = "loop"
  /\ Cancelled(r, "failure")
  /\ UNCHANGED <<persistent, active, pc, outcome, told, deleting, process, creating>>

(* The runner or the ACP prompt returns.                                   *)
LoopReturns(r) ==
  /\ Moves(r, "loop", "returned")
  /\ \E status \in {"completed", "failed", "cancelled"} :
       outcome' = [outcome EXCEPT ![r] = status]
  /\ UNCHANGED <<persistent, cause, told, Volatile>>

(* The deferred function, step by step.                                    *)
FinalRunOutcome(r) ==
  /\ Moves(r, "returned", "decided")
  /\ outcome' = [outcome EXCEPT ![r] =
       CASE cause[r] = "failure" -> "failed"
         [] cause[r] = "cancelled" /\ @ = "completed" -> "cancelled"
         [] OTHER -> @]
  /\ UNCHANGED <<persistent, cause, told, Volatile>>

StoreOutcomeInRunContext(r) ==
  /\ Moves(r, "decided", "stored")
  /\ IF cause[r] = "none" THEN UpdateRun(r, outcome[r]) ELSE UNCHANGED persistent
  /\ UNCHANGED <<cause, outcome, told, Volatile>>

(* Under context.Background(): a cancelled run is stored like any other.   *)
StoreOutcome(r) ==
  /\ Moves(r, "decided", "stored")
  /\ UpdateRun(r, outcome[r])
  /\ UNCHANGED <<cause, outcome, told, Volatile>>

PublishDone(r) ==
  /\ Moves(r, "stored", "announced")
  /\ told' = [told EXCEPT ![r] = outcome[r]]
  /\ UNCHANGED <<persistent, cause, outcome, Volatile>>

(* delete(e.active, session) whichever run is there, then close(done).     *)
Release(r) ==
  /\ Moves(r, "announced", "ended")
  /\ active' = [active EXCEPT ![runSession[r]] = NoRun]
  /\ UNCHANGED <<persistent, cause, outcome, told, deleting, process, creating>>

RunStep(r) ==
  \/ SetupFails(r) \/ MarkRunning(r) \/ LoopReturns(r)
  \/ FinalRunOutcome(r) \/ StoreOutcome(r) \/ PublishDone(r) \/ Release(r)

-----------------------------------------------------------------------------
(* Deleting sessions: a user's request, or a retention sweep.              *)

DelMoves(d, from, to) ==
  /\ delPc[d] = from
  /\ delPc' = [delPc EXCEPT ![d] = to]

AfterDelete(d) == IF delTodo[d] = {} THEN "idle" ELSE "sweep"

(* DeleteSession(s), its first lines: the check under the engine's mutex.  *)
CheckIdle(d, s) ==
  /\ active[s] = NoRun
  /\ delSession' = [delSession EXCEPT ![d] = s]

DeleteRequest(d, s) ==
  /\ phase \in Serving
  /\ row[s] # "none"               \* a client knows only ids it has seen
  /\ DelMoves(d, "idle", "checked")
  /\ CheckIdle(d, s)
  /\ UNCHANGED <<persistent, goroutine, delTodo, process, creating>>

(* ApplyRetention lists the idle sessions updated before the cutoff.       *)
ListExpiredSessions(d) ==
  /\ phase \in Serving \cup {"booting"}
  /\ phase = "booting" => \A e \in Deleters : delPc[e] = "idle"   \* main's own call
  /\ \E s \in expired : row[s] = "idle"
  /\ DelMoves(d, "idle", "sweep")
  /\ delTodo' = [delTodo EXCEPT ![d] = {s \in expired : row[s] = "idle"}]
  /\ UNCHANGED <<persistent, goroutine, delSession, process, creating>>

SweepNext(d, s) ==
  /\ s \in delTodo[d]
  /\ delTodo' = [delTodo EXCEPT ![d] = @ \ {s}]
  /\ IF active[s] = NoRun
     THEN DelMoves(d, "sweep", "checked") /\ CheckIdle(d, s)
     ELSE /\ delPc[d] = "sweep"    \* ErrSessionBusy: skipped
          /\ delPc' = [delPc EXCEPT ![d] = IF delTodo[d] = {s} THEN "idle" ELSE "sweep"]
          /\ UNCHANGED delSession
  /\ UNCHANGED <<persistent, goroutine, process, creating>>

(* GetSession, then the agent's side of the session and its MCP connections.*)
DeleteAgentSide(d) ==
  LET s == delSession[d] IN
  /\ delPc[d] = "checked"
  /\ IF RowExists(s)
     THEN /\ DelMoves(d, "checked", "erased")
          /\ agentSide' = IF s \in AcpSessions THEN agentSide ELSE agentSide \ {s}
          /\ UNCHANGED delSession
     ELSE /\ DelMoves(d, "checked", AfterDelete(d))   \* ErrNotFound
          /\ delSession' = [delSession EXCEPT ![d] = NoSession]
          /\ UNCHANGED agentSide
  /\ UNCHANGED <<row, expired, runRow, runSession, goroutine, delTodo, process, creating>>

DeleteRow(d) ==
  LET s == delSession[d] IN
  /\ DelMoves(d, "erased", AfterDelete(d))
  /\ IF RowExists(s) THEN RemoveRow(s) ELSE UNCHANGED <<row, expired, runRow>>
  /\ delSession' = [delSession EXCEPT ![d] = NoSession]
  /\ UNCHANGED <<agentSide, runSession, goroutine, delTodo, process, creating>>

-----------------------------------------------------------------------------
Next ==
  \/ InterruptRunningRuns \/ Serve \/ Crash \/ Shutdown \/ Drained \/ Exit
  \/ \E s \in Sessions : CreateRow(s) \/ CreateAgentSide(s) \/ CreateFails(s) \/ Expire(s)
  \/ \E s \in Sessions, r \in Runs : StartRun(s, r)
  \/ \E r \in Runs : CancelRun(r) \/ FailCause(r) \/ RunStep(r)
  \/ \E d \in Deleters : DeleteAgentSide(d) \/ DeleteRow(d)
  \/ \E d \in Deleters \ Sweepers, s \in Sessions : DeleteRequest(d, s)
  \/ \E d \in Sweepers : ListExpiredSessions(d)
  \/ \E d \in Sweepers, s \in Sessions : SweepNext(d, s)

Spec == Init /\ [][Next]_vars

(* A goroutine the scheduler runs makes its next step.  The loop returns on
   its own account only once its context is cancelled: the model, a command
   or the user may otherwise keep it waiting for ever.                     *)
Fairness ==
  \A r \in Runs :
    /\ WF_vars(RunStep(r) /\ pc[r] # "loop")
    /\ WF_vars(LoopReturns(r) /\ cause[r] # "none")

FairSpec == Spec /\ Fairness /\ WF_vars(Drained)

-----------------------------------------------------------------------------
(* Safety.                                                                 *)

(* A session never has two runs executing: they would append to one agent
   session.  Rests on the active map being kept over every step of execute,
   its unconditional delete included (engine.go:326, engine.go:534).       *)
OneLiveRunPerSession ==
  \A r, q \in Runs : Live(r) /\ Live(q) /\ runSession[r] = runSession[q] => r = q

(* CancelRun, Shutdown and the approval calls reach a run only through the
   active map: a goroutine is executing exactly when it is registered.     *)
ActiveMapIsExact ==
  /\ \A s \in Sessions : active[s] # NoRun => Live(active[s]) /\ runSession[active[s]] = s
  /\ \A r \in Runs : Live(r) => active[runSession[r]] = r

(* While the process serves, a run listed as queued or running has a goroutine
   that will finish it; what an earlier process left was interrupted.      *)
NoOrphanRun ==
  phase # "down" => \A r \in Runs : runRow[r] \in Unfinished => Live(r)

(* A session's status is that of its one unfinished run, and idle without one:
   retention lists sessions by this status alone (store/maintenance.go:65). *)
SessionStatusIsRunStatus ==
  \A s \in Sessions : RowExists(s) =>
    LET unfinished == {r \in Runs : runSession[r] = s /\ runRow[r] \in Unfinished} IN
    IF row[s] = "idle" THEN unfinished = {}
                       ELSE \E r \in unfinished : unfinished = {r} /\ runRow[r] = row[s]

(* The cascade leaves no run of a deleted session, and none is added later. *)
NoRunWithoutSession ==
  \A r \in Runs : runRow[r] \in RunStored => RowExists(runSession[r])

(* A client that was told a run is done finds that status in the run's row
   whatever happens next, a crash right after the event included.          *)
DoneIsStored ==
  \A r \in Runs : told[r] # "none" => runRow[r] \in {told[r], "gone"}

(* MCP and ACP processes are stopped only when no run can still use them.  *)
DrainedIsQuiescent ==
  phase = "drained" => \A r \in Runs : ~Live(r)

(* Unless the process ended meanwhile, an ACP session that is listed and not
   being created any more is connected to its agent (engine.go:203-236).   *)
AcpSessionIsConnected ==
  \A s \in AcpSessions : RowExists(s) /\ s \notin creating /\ stops = 0 => s \in agentSide

(* The active map, the rows and the goroutines tell the same story through
   deletions, crashes and a shutdown: what executes is registered, what is
   listed as unfinished executes, and after the drain nothing does.        *)
RunsAreAccountedFor == TypeOK /\ ActiveMapIsExact /\ NoOrphanRun /\ DrainedIsQuiescent

(* The rows of sessions and runs agree, whoever deletes what: a session shows
   the status of its unfinished run, and no run outlives its session.      *)
SessionRowsAgree == SessionStatusIsRunStatus /\ NoRunWithoutSession

(* A run that reached a final status keeps it: neither a late UpdateRun of its
   goroutine nor the recovery at the next start changes it.                *)
FinalStatusStays ==
  [][\A r \in Runs : runRow[r] \in Terminal => runRow'[r] \in {runRow[r], "gone"}]_vars

(* docs/usage.md:98, of the retention period: "Active sessions are not
   removed."  A sweep that deletes a row deletes that of an inactive session.*)
SweepSparesActiveSessions ==
  [][\A d \in Sweepers :
       LET s == delSession[d] IN
       delPc[d] = "erased" /\ delPc'[d] # "erased" /\ active[s] # NoRun => row'[s] = row[s]]_vars

(* Liveness.                                                               *)

(* A cancelled run ends and gives its session back.                        *)
CancelledRunEnds == \A r \in Runs : cause[r] # "none" ~> ~Live(r)

(* Shutdown is not held up by a run it did not cancel.                     *)
ShutdownDrains == phase = "stopping" ~> phase # "stopping"

(* Whoever stops runs is not kept waiting: the user or the process.        *)
StoppedRunsEnd == CancelledRunEnds /\ ShutdownDrains

-----------------------------------------------------------------------------
(* What makes the safety properties inductive.                             *)

(* How a run's row follows its goroutine: nothing but the deletion of the
   session takes the row away from the goroutine that owns it.             *)
RowFollowsGoroutine ==
  \A r \in Runs :
    /\ pc[r] = "none" <=> runRow[r] = "none"
    /\ pc[r] # "none" => runSession[r] \in Sessions
    /\ pc[r] = "none" => runSession[r] = NoSession
    /\ pc[r] = "setup" => runRow[r] \in {"queued", "gone"}
    /\ pc[r] = "loop" => runRow[r] \in {"running", "gone"}
    /\ pc[r] \in {"returned", "decided"} =>
         outcome[r] \in Terminal /\ runRow[r] \in Unfinished \cup {"gone"}
    /\ pc[r] \in {"stored", "announced"} =>
         outcome[r] \in Terminal /\ runRow[r] \in {outcome[r], "gone"}

(* Runs execute only while the process serves, and once it is stopping only
   those Shutdown waits for.                                               *)
LiveOnlyWhileServing ==
  /\ \A r \in Runs : Live(r) => phase \in {"up", "stopping"}
  /\ phase = "stopping" => \A r \in Runs : Live(r) => r \in draining

(* A deleter past its first check knows its session.                       *)
DeleterHasSession ==
  \A d \in Deleters : delPc[d] \in {"checked", "erased"} => delSession[d] \in Sessions

IInv ==
  /\ TypeOK
  /\ DeleterHasSession
  /\ ActiveMapIsExact
  /\ RowFollowsGoroutine
  /\ LiveOnlyWhileServing
  /\ NoOrphanRun
  /\ NoRunWithoutSession
  /\ SessionStatusIsRunStatus
  /\ DoneIsStored

=============================================================================
