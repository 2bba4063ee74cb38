------------------------ MODULE RunLifecycle_proofs ------------------------
(***************************************************************************)
(* Proofs of the safety properties of RunLifecycle, for any sets of         *)
(* sessions, runs and deleters and any number of restarts.                  *)
(***************************************************************************)
EXTENDS RunLifecycle, TLAPS

(* The type invariant: every action writes values of the declared sets.    *)
THEOREM TypeCorrect == Spec => []TypeOK
<1> USE LifecycleAssumption DEF TypeOK, Terminal, Unfinished, RunStored, RowStored, Working,
      Serving, persistent, goroutine, deleting, process, Volatile
<1>1. Init => TypeOK
  BY DEF Init
<1>2. TypeOK /\ [Next]_vars => TypeOK'
  <2> SUFFICES ASSUME TypeOK, [Next]_vars PROVE TypeOK'
    OBVIOUS
  <2>1. CASE InterruptRunningRuns
    BY <2>1 DEF InterruptRunningRuns
  <2>2. CASE Serve
    BY <2>2 DEF Serve
  <2>3. CASE Crash \/ Exit
    BY <2>3 DEF Crash, Exit, ProcessEnds
  <2>4. CASE Shutdown
    BY <2>4 DEF Shutdown
  <2>5. CASE Drained
    BY <2>5 DEF Drained
  <2>6. ASSUME NEW s \in Sessions, CreateRow(s) \/ CreateAgentSide(s) \/ Expire(s)
        PROVE TypeOK'
    BY <2>6 DEF CreateRow, CreateAgentSide, Expire
  <2>7. ASSUME NEW s \in Sessions, CreateFails(s) PROVE TypeOK'
    BY <2>7 DEF CreateFails, RemoveRow, RowExists
  <2>8. ASSUME NEW s \in Sessions, NEW r \in Runs, StartRun(s, r) PROVE TypeOK'
    BY <2>8 DEF StartRun
  <2>9. ASSUME NEW r \in Runs, CancelRun(r) \/ FailCause(r) PROVE TypeOK'
    BY <2>9 DEF CancelRun, FailCause, Cancelled
  <2>10. ASSUME NEW r \in Runs, SetupFails(r) \/ LoopReturns(r) PROVE TypeOK'
    BY <2>10 DEF SetupFails, LoopReturns, Moves
  <2>11. ASSUME NEW r \in Runs, MarkRunning(r) PROVE TypeOK'
    BY <2>11 DEF MarkRunning, UpdateRun, SessionStatus, Moves
  <2>12. ASSUME NEW r \in Runs, FinalRunOutcome(r) PROVE TypeOK'
    BY <2>12 DEF FinalRunOutcome, Moves
  <2>13. ASSUME NEW r \in Runs, StoreOutcome(r) PROVE TypeOK'
    BY <2>13 DEF StoreOutcome, UpdateRun, SessionStatus, Moves
  <2>14. ASSUME NEW r \in Runs, PublishDone(r) \/ Release(r) PROVE TypeOK'
    BY <2>14 DEF PublishDone, Release, Moves
  <2>15. ASSUME NEW d \in Deleters, DeleteAgentSide(d) PROVE TypeOK'
    BY <2>15 DEF DeleteAgentSide, DelMoves, AfterDelete
  <2>16. ASSUME NEW d \in Deleters, DeleteRow(d) PROVE TypeOK'
    BY <2>16 DEF DeleteRow, DelMoves, AfterDelete, RemoveRow, RowExists
  <2>17. ASSUME NEW d \in Deleters, ListExpiredSessions(d) PROVE TypeOK'
    BY <2>17 DEF ListExpiredSessions, DelMoves
  <2>18. ASSUME NEW d \in Deleters, NEW s \in Sessions, DeleteRequest(d, s) \/ SweepNext(d, s)
         PROVE TypeOK'
    BY <2>18 DEF DeleteRequest, SweepNext, CheckIdle, DelMoves
  <2>19. CASE UNCHANGED vars
    BY <2>19 DEF vars
  <2>20. QED
    BY <2>1, <2>2, <2>3, <2>4, <2>5, <2>6, <2>7, <2>8, <2>9, <2>10, <2>11, <2>12, <2>13,
       <2>14, <2>15, <2>16, <2>17, <2>18, <2>19 DEF Next, RunStep
<1>3. QED
  BY <1>1, <1>2, PTL DEF Spec

-----------------------------------------------------------------------------
(* The inductive invariant is preserved, conjunct by conjunct: the lemmas
   below take the whole invariant before a step and one of its parts after. *)

(* StartRun registers the run it starts, Release removes the run that ends: the
   only steps that change who is executing. *)
LEMMA ActiveMapIsExactStep == IInv /\ [Next]_vars => ActiveMapIsExact'
<1> SUFFICES ASSUME IInv, [Next]_vars PROVE ActiveMapIsExact'
  OBVIOUS
<1> USE LifecycleAssumption DEF IInv, ActiveMapIsExact, RowFollowsGoroutine, LiveOnlyWhileServing, TypeOK,
      Live, RowExists, Terminal, Unfinished, RunStored, RowStored, Working, Serving, persistent, goroutine, deleting, process, Volatile
<1>1. CASE InterruptRunningRuns
  BY <1>1 DEF InterruptRunningRuns, Recovered
<1>2. CASE Serve
  BY <1>2 DEF Serve
<1>3. CASE Crash \/ Exit
  BY <1>3 DEF Crash, Exit, ProcessEnds
<1>4. CASE Shutdown
  BY <1>4 DEF Shutdown
<1>5. CASE Drained
  BY <1>5 DEF Drained
<1>6. ASSUME NEW s \in Sessions, CreateRow(s)
      PROVE ActiveMapIsExact'
  BY <1>6 DEF CreateRow
<1>7. ASSUME NEW s \in Sessions, CreateAgentSide(s)
      PROVE ActiveMapIsExact'
  BY <1>7 DEF CreateAgentSide
<1>8. ASSUME NEW s \in Sessions, Expire(s)
      PROVE ActiveMapIsExact'
  BY <1>8 DEF Expire
<1>9. ASSUME NEW s \in Sessions, CreateFails(s)
      PROVE ActiveMapIsExact'
  BY <1>9 DEF CreateFails, RemoveRow
<1>10. ASSUME NEW s \in Sessions, NEW r \in Runs, StartRun(s, r)
      PROVE ActiveMapIsExact'
  BY <1>10 DEF StartRun, MayStart
<1>11. ASSUME NEW r \in Runs, CancelRun(r) \/ FailCause(r)
      PROVE ActiveMapIsExact'
  BY <1>11 DEF CancelRun, FailCause, Cancelled
<1>12. ASSUME NEW r \in Runs, SetupFails(r) \/ LoopReturns(r)
      PROVE ActiveMapIsExact'
  BY <1>12 DEF SetupFails, LoopReturns, Moves
<1>13. ASSUME NEW r \in Runs, MarkRunning(r)
      PROVE ActiveMapIsExact'
  BY <1>13 DEF MarkRunning, UpdateRun, SessionStatus, Moves
<1>14. ASSUME NEW r \in Runs, FinalRunOutcome(r)
      PROVE ActiveMapIsExact'
  BY <1>14 DEF FinalRunOutcome, Moves
<1>15. ASSUME NEW r \in Runs, StoreOutcome(r)
      PROVE ActiveMapIsExact'
  BY <1>15 DEF StoreOutcome, UpdateRun, SessionStatus, Moves
<1>16. ASSUME NEW r \in Runs, PublishDone(r)
      PROVE ActiveMapIsExact'
  BY <1>16 DEF PublishDone, Moves
<1>17. ASSUME NEW r \in Runs, Release(r)
      PROVE ActiveMapIsExact'
  BY <1>17 DEF Release, Moves
<1>18. ASSUME NEW d \in Deleters, DeleteAgentSide(d)
      PROVE ActiveMapIsExact'
  BY <1>18 DEF DeleteAgentSide, DelMoves
<1>19. ASSUME NEW d \in Deleters, DeleteRow(d)
      PROVE ActiveMapIsExact'
  BY <1>19 DEF DeleteRow, DelMoves, RemoveRow
<1>20. ASSUME NEW d \in Deleters, ListExpiredSessions(d)
      PROVE ActiveMapIsExact'
  BY <1>20 DEF ListExpiredSessions, DelMoves
<1>21. ASSUME NEW s \in Sessions, NEW d \in Deleters, DeleteRequest(d, s) \/ SweepNext(d, s)
      PROVE ActiveMapIsExact'
  BY <1>21 DEF DeleteRequest, SweepNext, CheckIdle, DelMoves
<1>22. CASE UNCHANGED vars
  BY <1>22 DEF vars
<1>23. QED
  BY <1>1, <1>2, <1>3, <1>4, <1>5, <1>6, <1>7, <1>8, <1>9, <1>10, <1>11, <1>12, <1>13, <1>14,
     <1>15, <1>16, <1>17, <1>18, <1>19, <1>20, <1>21, <1>22
     DEF Next, RunStep

(* CheckIdle sets the session, the end of the deletion clears it. *)
LEMMA DeleterHasSessionStep == IInv /\ [Next]_vars => DeleterHasSession'
<1> SUFFICES ASSUME IInv, [Next]_vars PROVE DeleterHasSession'
  OBVIOUS
<1> USE LifecycleAssumption DEF IInv, DeleterHasSession, TypeOK,
      Live, RowExists, Terminal, Unfinished, RunStored, RowStored, Working, Serving, persistent, goroutine, deleting, process, Volatile
<1>1. CASE InterruptRunningRuns
  BY <1>1 DEF InterruptRunningRuns, Recovered
<1>2. CASE Serve
  BY <1>2 DEF Serve
<1>3. CASE Crash \/ Exit
  BY <1>3 DEF Crash, Exit, ProcessEnds
<1>4. CASE Shutdown
  BY <1>4 DEF Shutdown
<1>5. CASE Drained
  BY <1>5 DEF Drained
<1>6. ASSUME NEW s \in Sessions, CreateRow(s)
      PROVE DeleterHasSession'
  BY <1>6 DEF CreateRow
<1>7. ASSUME NEW s \in Sessions, CreateAgentSide(s)
      PROVE DeleterHasSession'
  BY <1>7 DEF CreateAgentSide
<1>8. ASSUME NEW s \in Sessions, Expire(s)
      PROVE DeleterHasSession'
  BY <1>8 DEF Expire
<1>9. ASSUME NEW s \in Sessions, CreateFails(s)
      PROVE DeleterHasSession'
  BY <1>9 DEF CreateFails, RemoveRow
<1>10. ASSUME NEW s \in Sessions, NEW r \in Runs, StartRun(s, r)
      PROVE DeleterHasSession'
  BY <1>10 DEF StartRun, MayStart
<1>11. ASSUME NEW r \in Runs, CancelRun(r) \/ FailCause(r)
      PROVE DeleterHasSession'
  BY <1>11 DEF CancelRun, FailCause, Cancelled
<1>12. ASSUME NEW r \in Runs, SetupFails(r) \/ LoopReturns(r)
      PROVE DeleterHasSession'
  BY <1>12 DEF SetupFails, LoopReturns, Moves
<1>13. ASSUME NEW r \in Runs, MarkRunning(r)
      PROVE DeleterHasSession'
  BY <1>13 DEF MarkRunning, UpdateRun, SessionStatus, Moves
<1>14. ASSUME NEW r \in Runs, FinalRunOutcome(r)
      PROVE DeleterHasSession'
  BY <1>14 DEF FinalRunOutcome, Moves
<1>15. ASSUME NEW r \in Runs, StoreOutcome(r)
      PROVE DeleterHasSession'
  BY <1>15 DEF StoreOutcome, UpdateRun, SessionStatus, Moves
<1>16. ASSUME NEW r \in Runs, PublishDone(r)
      PROVE DeleterHasSession'
  BY <1>16 DEF PublishDone, Moves
<1>17. ASSUME NEW r \in Runs, Release(r)
      PROVE DeleterHasSession'
  BY <1>17 DEF Release, Moves
<1>18. ASSUME NEW d \in Deleters, DeleteAgentSide(d)
      PROVE DeleterHasSession'
  BY <1>18 DEF DeleteAgentSide, DelMoves, AfterDelete
<1>19. ASSUME NEW d \in Deleters, DeleteRow(d)
      PROVE DeleterHasSession'
  BY <1>19 DEF DeleteRow, DelMoves, AfterDelete, RemoveRow
<1>20. ASSUME NEW d \in Deleters, ListExpiredSessions(d)
      PROVE DeleterHasSession'
  BY <1>20 DEF ListExpiredSessions, DelMoves
<1>21. ASSUME NEW s \in Sessions, NEW d \in Deleters, DeleteRequest(d, s) \/ SweepNext(d, s)
      PROVE DeleterHasSession'
  BY <1>21 DEF DeleteRequest, SweepNext, CheckIdle, DelMoves
<1>22. CASE UNCHANGED vars
  BY <1>22 DEF vars
<1>23. QED
  BY <1>1, <1>2, <1>3, <1>4, <1>5, <1>6, <1>7, <1>8, <1>9, <1>10, <1>11, <1>12, <1>13, <1>14,
     <1>15, <1>16, <1>17, <1>18, <1>19, <1>20, <1>21, <1>22
     DEF Next, RunStep

(* A goroutine's row changes only by its own UpdateRun or the cascade. *)
LEMMA RowFollowsGoroutineStep == IInv /\ [Next]_vars => RowFollowsGoroutine'
<1> SUFFICES ASSUME IInv, [Next]_vars PROVE RowFollowsGoroutine'
  OBVIOUS
<1> USE LifecycleAssumption DEF IInv, DeleterHasSession, RowFollowsGoroutine, LiveOnlyWhileServing, TypeOK,
      Live, RowExists, Terminal, Unfinished, RunStored, RowStored, Working, Serving, persistent, goroutine, deleting, process, Volatile
<1>1. CASE InterruptRunningRuns
  BY <1>1 DEF InterruptRunningRuns, Recovered
<1>2. CASE Serve
  BY <1>2 DEF Serve
<1>3. CASE Crash \/ Exit
  BY <1>3 DEF Crash, Exit, ProcessEnds
<1>4. CASE Shutdown
  BY <1>4 DEF Shutdown
<1>5. CASE Drained
  BY <1>5 DEF Drained
<1>6. ASSUME NEW s \in Sessions, CreateRow(s)
      PROVE RowFollowsGoroutine'
  BY <1>6 DEF CreateRow
<1>7. ASSUME NEW s \in Sessions, CreateAgentSide(s)
      PROVE RowFollowsGoroutine'
  BY <1>7 DEF CreateAgentSide
<1>8. ASSUME NEW s \in Sessions, Expire(s)
      PROVE RowFollowsGoroutine'
  BY <1>8 DEF Expire
<1>9. ASSUME NEW s \in Sessions, CreateFails(s)
      PROVE RowFollowsGoroutine'
  BY <1>9 DEF CreateFails, RemoveRow
<1>10. ASSUME NEW s \in Sessions, NEW r \in Runs, StartRun(s, r)
      PROVE RowFollowsGoroutine'
  BY <1>10 DEF StartRun, MayStart
<1>11. ASSUME NEW r \in Runs, CancelRun(r) \/ FailCause(r)
      PROVE RowFollowsGoroutine'
  BY <1>11 DEF CancelRun, FailCause, Cancelled
<1>12. ASSUME NEW r \in Runs, SetupFails(r) \/ LoopReturns(r)
      PROVE RowFollowsGoroutine'
  BY <1>12 DEF SetupFails, LoopReturns, Moves
<1>13. ASSUME NEW r \in Runs, MarkRunning(r)
      PROVE RowFollowsGoroutine'
  BY <1>13 DEF MarkRunning, UpdateRun, SessionStatus, Moves
<1>14. ASSUME NEW r \in Runs, FinalRunOutcome(r)
      PROVE RowFollowsGoroutine'
  BY <1>14 DEF FinalRunOutcome, Moves
<1>15. ASSUME NEW r \in Runs, StoreOutcome(r)
      PROVE RowFollowsGoroutine'
  BY <1>15 DEF StoreOutcome, UpdateRun, SessionStatus, Moves
<1>16. ASSUME NEW r \in Runs, PublishDone(r)
      PROVE RowFollowsGoroutine'
  BY <1>16 DEF PublishDone, Moves
<1>17. ASSUME NEW r \in Runs, Release(r)
      PROVE RowFollowsGoroutine'
  BY <1>17 DEF Release, Moves
<1>18. ASSUME NEW d \in Deleters, DeleteAgentSide(d)
      PROVE RowFollowsGoroutine'
  BY <1>18 DEF DeleteAgentSide, DelMoves
<1>19. ASSUME NEW d \in Deleters, DeleteRow(d)
      PROVE RowFollowsGoroutine'
  BY <1>19 DEF DeleteRow, DelMoves, RemoveRow
<1>20. ASSUME NEW d \in Deleters, ListExpiredSessions(d)
      PROVE RowFollowsGoroutine'
  BY <1>20 DEF ListExpiredSessions, DelMoves
<1>21. ASSUME NEW s \in Sessions, NEW d \in Deleters, DeleteRequest(d, s) \/ SweepNext(d, s)
      PROVE RowFollowsGoroutine'
  BY <1>21 DEF DeleteRequest, SweepNext, CheckIdle, DelMoves
<1>22. CASE UNCHANGED vars
  BY <1>22 DEF vars
<1>23. QED
  BY <1>1, <1>2, <1>3, <1>4, <1>5, <1>6, <1>7, <1>8, <1>9, <1>10, <1>11, <1>12, <1>13, <1>14,
     <1>15, <1>16, <1>17, <1>18, <1>19, <1>20, <1>21, <1>22
     DEF Next, RunStep

(* StartRun is refused from Shutdown on, so no run joins those it waits for. *)
LEMMA LiveOnlyWhileServingStep == IInv /\ [Next]_vars => LiveOnlyWhileServing'
<1> SUFFICES ASSUME IInv, [Next]_vars PROVE LiveOnlyWhileServing'
  OBVIOUS
<1> USE LifecycleAssumption DEF IInv, ActiveMapIsExact, RowFollowsGoroutine, LiveOnlyWhileServing, TypeOK,
      Live, RowExists, Terminal, Unfinished, RunStored, RowStored, Working, Serving, persistent, goroutine, deleting, process, Volatile
<1>1. CASE InterruptRunningRuns
  BY <1>1 DEF InterruptRunningRuns, Recovered
<1>2. CASE Serve
  BY <1>2 DEF Serve
<1>3. CASE Crash \/ Exit
  BY <1>3 DEF Crash, Exit, ProcessEnds
<1>4. CASE Shutdown
  BY <1>4 DEF Shutdown
<1>5. CASE Drained
  BY <1>5 DEF Drained
<1>6. ASSUME NEW s \in Sessions, CreateRow(s)
      PROVE LiveOnlyWhileServing'
  BY <1>6 DEF CreateRow
<1>7. ASSUME NEW s \in Sessions, CreateAgentSide(s)
      PROVE LiveOnlyWhileServing'
  BY <1>7 DEF CreateAgentSide
<1>8. ASSUME NEW s \in Sessions, Expire(s)
      PROVE LiveOnlyWhileServing'
  BY <1>8 DEF Expire
<1>9. ASSUME NEW s \in Sessions, CreateFails(s)
      PROVE LiveOnlyWhileServing'
  BY <1>9 DEF CreateFails, RemoveRow
<1>10. ASSUME NEW s \in Sessions, NEW r \in Runs, StartRun(s, r)
      PROVE LiveOnlyWhileServing'
  BY <1>10 DEF StartRun, MayStart
<1>11. ASSUME NEW r \in Runs, CancelRun(r) \/ FailCause(r)
      PROVE LiveOnlyWhileServing'
  BY <1>11 DEF CancelRun, FailCause, Cancelled
<1>12. ASSUME NEW r \in Runs, SetupFails(r) \/ LoopReturns(r)
      PROVE LiveOnlyWhileServing'
  BY <1>12 DEF SetupFails, LoopReturns, Moves
<1>13. ASSUME NEW r \in Runs, MarkRunning(r)
      PROVE LiveOnlyWhileServing'
  BY <1>13 DEF MarkRunning, UpdateRun, SessionStatus, Moves
<1>14. ASSUME NEW r \in Runs, FinalRunOutcome(r)
      PROVE LiveOnlyWhileServing'
  BY <1>14 DEF FinalRunOutcome, Moves
<1>15. ASSUME NEW r \in Runs, StoreOutcome(r)
      PROVE LiveOnlyWhileServing'
  BY <1>15 DEF StoreOutcome, UpdateRun, SessionStatus, Moves
<1>16. ASSUME NEW r \in Runs, PublishDone(r)
      PROVE LiveOnlyWhileServing'
  BY <1>16 DEF PublishDone, Moves
<1>17. ASSUME NEW r \in Runs, Release(r)
      PROVE LiveOnlyWhileServing'
  BY <1>17 DEF Release, Moves
<1>18. ASSUME NEW d \in Deleters, DeleteAgentSide(d)
      PROVE LiveOnlyWhileServing'
  BY <1>18 DEF DeleteAgentSide, DelMoves
<1>19. ASSUME NEW d \in Deleters, DeleteRow(d)
      PROVE LiveOnlyWhileServing'
  BY <1>19 DEF DeleteRow, DelMoves, RemoveRow
<1>20. ASSUME NEW d \in Deleters, ListExpiredSessions(d)
      PROVE LiveOnlyWhileServing'
  BY <1>20 DEF ListExpiredSessions, DelMoves
<1>21. ASSUME NEW s \in Sessions, NEW d \in Deleters, DeleteRequest(d, s) \/ SweepNext(d, s)
      PROVE LiveOnlyWhileServing'
  BY <1>21 DEF DeleteRequest, SweepNext, CheckIdle, DelMoves
<1>22. CASE UNCHANGED vars
  BY <1>22 DEF vars
<1>23. QED
  BY <1>1, <1>2, <1>3, <1>4, <1>5, <1>6, <1>7, <1>8, <1>9, <1>10, <1>11, <1>12, <1>13, <1>14,
     <1>15, <1>16, <1>17, <1>18, <1>19, <1>20, <1>21, <1>22
     DEF Next, RunStep

(* Recovery at startup, and StoreOutcome before Release. *)
LEMMA NoOrphanRunStep == IInv /\ [Next]_vars => NoOrphanRun'
<1> SUFFICES ASSUME IInv, [Next]_vars PROVE NoOrphanRun'
  OBVIOUS
<1> USE LifecycleAssumption DEF IInv, NoOrphanRun, RowFollowsGoroutine, LiveOnlyWhileServing, TypeOK,
      Live, RowExists, Terminal, Unfinished, RunStored, RowStored, Working, Serving, persistent, goroutine, deleting, process, Volatile
<1>1. CASE InterruptRunningRuns
  BY <1>1 DEF InterruptRunningRuns, Recovered
<1>2. CASE Serve
  BY <1>2 DEF Serve
<1>3. CASE Crash \/ Exit
  BY <1>3 DEF Crash, Exit, ProcessEnds
<1>4. CASE Shutdown
  BY <1>4 DEF Shutdown
<1>5. CASE Drained
  BY <1>5 DEF Drained
<1>6. ASSUME NEW s \in Sessions, CreateRow(s)
      PROVE NoOrphanRun'
  BY <1>6 DEF CreateRow
<1>7. ASSUME NEW s \in Sessions, CreateAgentSide(s)
      PROVE NoOrphanRun'
  BY <1>7 DEF CreateAgentSide
<1>8. ASSUME NEW s \in Sessions, Expire(s)
      PROVE NoOrphanRun'
  BY <1>8 DEF Expire
<1>9. ASSUME NEW s \in Sessions, CreateFails(s)
      PROVE NoOrphanRun'
  BY <1>9 DEF CreateFails, RemoveRow
<1>10. ASSUME NEW s \in Sessions, NEW r \in Runs, StartRun(s, r)
      PROVE NoOrphanRun'
  BY <1>10 DEF StartRun, MayStart
<1>11. ASSUME NEW r \in Runs, CancelRun(r) \/ FailCause(r)
      PROVE NoOrphanRun'
  BY <1>11 DEF CancelRun, FailCause, Cancelled
<1>12. ASSUME NEW r \in Runs, SetupFails(r) \/ LoopReturns(r)
      PROVE NoOrphanRun'
  BY <1>12 DEF SetupFails, LoopReturns, Moves
<1>13. ASSUME NEW r \in Runs, MarkRunning(r)
      PROVE NoOrphanRun'
  BY <1>13 DEF MarkRunning, UpdateRun, SessionStatus, Moves
<1>14. ASSUME NEW r \in Runs, FinalRunOutcome(r)
      PROVE NoOrphanRun'
  BY <1>14 DEF FinalRunOutcome, Moves
<1>15. ASSUME NEW r \in Runs, StoreOutcome(r)
      PROVE NoOrphanRun'
  BY <1>15 DEF StoreOutcome, UpdateRun, SessionStatus, Moves
<1>16. ASSUME NEW r \in Runs, PublishDone(r)
      PROVE NoOrphanRun'
  BY <1>16 DEF PublishDone, Moves
<1>17. ASSUME NEW r \in Runs, Release(r)
      PROVE NoOrphanRun'
  BY <1>17 DEF Release, Moves
<1>18. ASSUME NEW d \in Deleters, DeleteAgentSide(d)
      PROVE NoOrphanRun'
  BY <1>18 DEF DeleteAgentSide, DelMoves
<1>19. ASSUME NEW d \in Deleters, DeleteRow(d)
      PROVE NoOrphanRun'
  BY <1>19 DEF DeleteRow, DelMoves, RemoveRow
<1>20. ASSUME NEW d \in Deleters, ListExpiredSessions(d)
      PROVE NoOrphanRun'
  BY <1>20 DEF ListExpiredSessions, DelMoves
<1>21. ASSUME NEW s \in Sessions, NEW d \in Deleters, DeleteRequest(d, s) \/ SweepNext(d, s)
      PROVE NoOrphanRun'
  BY <1>21 DEF DeleteRequest, SweepNext, CheckIdle, DelMoves
<1>22. CASE UNCHANGED vars
  BY <1>22 DEF vars
<1>23. QED
  BY <1>1, <1>2, <1>3, <1>4, <1>5, <1>6, <1>7, <1>8, <1>9, <1>10, <1>11, <1>12, <1>13, <1>14,
     <1>15, <1>16, <1>17, <1>18, <1>19, <1>20, <1>21, <1>22
     DEF Next, RunStep

(* The foreign key of runs.session_id. *)
LEMMA NoRunWithoutSessionStep == IInv /\ [Next]_vars => NoRunWithoutSession'
<1> SUFFICES ASSUME IInv, [Next]_vars PROVE NoRunWithoutSession'
  OBVIOUS
<1> USE LifecycleAssumption DEF IInv, NoRunWithoutSession, RowFollowsGoroutine, TypeOK,
      Live, RowExists, Terminal, Unfinished, RunStored, RowStored, Working, Serving, persistent, goroutine, deleting, process, Volatile
<1>1. CASE InterruptRunningRuns
  BY <1>1 DEF InterruptRunningRuns, Recovered
<1>2. CASE Serve
  BY <1>2 DEF Serve
<1>3. CASE Crash \/ Exit
  BY <1>3 DEF Crash, Exit, ProcessEnds
<1>4. CASE Shutdown
  BY <1>4 DEF Shutdown
<1>5. CASE Drained
  BY <1>5 DEF Drained
<1>6. ASSUME NEW s \in Sessions, CreateRow(s)
      PROVE NoRunWithoutSession'
  BY <1>6 DEF CreateRow
<1>7. ASSUME NEW s \in Sessions, CreateAgentSide(s)
      PROVE NoRunWithoutSession'
  BY <1>7 DEF CreateAgentSide
<1>8. ASSUME NEW s \in Sessions, Expire(s)
      PROVE NoRunWithoutSession'
  BY <1>8 DEF Expire
<1>9. ASSUME NEW s \in Sessions, CreateFails(s)
      PROVE NoRunWithoutSession'
  BY <1>9 DEF CreateFails, RemoveRow
<1>10. ASSUME NEW s \in Sessions, NEW r \in Runs, StartRun(s, r)
      PROVE NoRunWithoutSession'
  BY <1>10 DEF StartRun, MayStart
<1>11. ASSUME NEW r \in Runs, CancelRun(r) \/ FailCause(r)
      PROVE NoRunWithoutSession'
  BY <1>11 DEF CancelRun, FailCause, Cancelled
<1>12. ASSUME NEW r \in Runs, SetupFails(r) \/ LoopReturns(r)
      PROVE NoRunWithoutSession'
  BY <1>12 DEF SetupFails, LoopReturns, Moves
<1>13. ASSUME NEW r \in Runs, MarkRunning(r)
      PROVE NoRunWithoutSession'
  BY <1>13 DEF MarkRunning, UpdateRun, SessionStatus, Moves
<1>14. ASSUME NEW r \in Runs, FinalRunOutcome(r)
      PROVE NoRunWithoutSession'
  BY <1>14 DEF FinalRunOutcome, Moves
<1>15. ASSUME NEW r \in Runs, StoreOutcome(r)
      PROVE NoRunWithoutSession'
  BY <1>15 DEF StoreOutcome, UpdateRun, SessionStatus, Moves
<1>16. ASSUME NEW r \in Runs, PublishDone(r)
      PROVE NoRunWithoutSession'
  BY <1>16 DEF PublishDone, Moves
<1>17. ASSUME NEW r \in Runs, Release(r)
      PROVE NoRunWithoutSession'
  BY <1>17 DEF Release, Moves
<1>18. ASSUME NEW d \in Deleters, DeleteAgentSide(d)
      PROVE NoRunWithoutSession'
  BY <1>18 DEF DeleteAgentSide, DelMoves
<1>19. ASSUME NEW d \in Deleters, DeleteRow(d)
      PROVE NoRunWithoutSession'
  BY <1>19 DEF DeleteRow, DelMoves, RemoveRow
<1>20. ASSUME NEW d \in Deleters, ListExpiredSessions(d)
      PROVE NoRunWithoutSession'
  BY <1>20 DEF ListExpiredSessions, DelMoves
<1>21. ASSUME NEW s \in Sessions, NEW d \in Deleters, DeleteRequest(d, s) \/ SweepNext(d, s)
      PROVE NoRunWithoutSession'
  BY <1>21 DEF DeleteRequest, SweepNext, CheckIdle, DelMoves
<1>22. CASE UNCHANGED vars
  BY <1>22 DEF vars
<1>23. QED
  BY <1>1, <1>2, <1>3, <1>4, <1>5, <1>6, <1>7, <1>8, <1>9, <1>10, <1>11, <1>12, <1>13, <1>14,
     <1>15, <1>16, <1>17, <1>18, <1>19, <1>20, <1>21, <1>22
     DEF Next, RunStep

(* UpdateRun and the insert of a run write both rows. *)
LEMMA SessionStatusIsRunStatusStep == IInv /\ [Next]_vars => SessionStatusIsRunStatus'
<1> SUFFICES ASSUME IInv, [Next]_vars PROVE SessionStatusIsRunStatus'
  OBVIOUS
<1> USE LifecycleAssumption DEF IInv, SessionStatusIsRunStatus, RowFollowsGoroutine, ActiveMapIsExact, NoOrphanRun, NoRunWithoutSession, TypeOK,
      Live, RowExists, Terminal, Unfinished, RunStored, RowStored, Working, Serving, persistent, goroutine, deleting, process, Volatile
<1>1. CASE InterruptRunningRuns
  BY <1>1 DEF InterruptRunningRuns, Recovered
<1>2. CASE Serve
  BY <1>2 DEF Serve
<1>3. CASE Crash \/ Exit
  BY <1>3 DEF Crash, Exit, ProcessEnds
<1>4. CASE Shutdown
  BY <1>4 DEF Shutdown
<1>5. CASE Drained
  BY <1>5 DEF Drained
<1>6. ASSUME NEW s \in Sessions, CreateRow(s)
      PROVE SessionStatusIsRunStatus'
  BY <1>6 DEF CreateRow
<1>7. ASSUME NEW s \in Sessions, CreateAgentSide(s)
      PROVE SessionStatusIsRunStatus'
  BY <1>7 DEF CreateAgentSide
<1>8. ASSUME NEW s \in Sessions, Expire(s)
      PROVE SessionStatusIsRunStatus'
  BY <1>8 DEF Expire
<1>9. ASSUME NEW s \in Sessions, CreateFails(s)
      PROVE SessionStatusIsRunStatus'
  BY <1>9 DEF CreateFails, RemoveRow
<1>10. ASSUME NEW s \in Sessions, NEW r \in Runs, StartRun(s, r)
      PROVE SessionStatusIsRunStatus'
  BY <1>10 DEF StartRun, MayStart
<1>11. ASSUME NEW r \in Runs, CancelRun(r) \/ FailCause(r)
      PROVE SessionStatusIsRunStatus'
  BY <1>11 DEF CancelRun, FailCause, Cancelled
<1>12. ASSUME NEW r \in Runs, SetupFails(r) \/ LoopReturns(r)
      PROVE SessionStatusIsRunStatus'
  BY <1>12 DEF SetupFails, LoopReturns, Moves
<1>13. ASSUME NEW r \in Runs, MarkRunning(r)
      PROVE SessionStatusIsRunStatus'
  BY <1>13 DEF MarkRunning, UpdateRun, SessionStatus, Moves
<1>14. ASSUME NEW r \in Runs, FinalRunOutcome(r)
      PROVE SessionStatusIsRunStatus'
  BY <1>14 DEF FinalRunOutcome, Moves
<1>15. ASSUME NEW r \in Runs, StoreOutcome(r)
      PROVE SessionStatusIsRunStatus'
  BY <1>15 DEF StoreOutcome, UpdateRun, SessionStatus, Moves
<1>16. ASSUME NEW r \in Runs, PublishDone(r)
      PROVE SessionStatusIsRunStatus'
  BY <1>16 DEF PublishDone, Moves
<1>17. ASSUME NEW r \in Runs, Release(r)
      PROVE SessionStatusIsRunStatus'
  BY <1>17 DEF Release, Moves
<1>18. ASSUME NEW d \in Deleters, DeleteAgentSide(d)
      PROVE SessionStatusIsRunStatus'
  BY <1>18 DEF DeleteAgentSide, DelMoves
<1>19. ASSUME NEW d \in Deleters, DeleteRow(d)
      PROVE SessionStatusIsRunStatus'
  BY <1>19 DEF DeleteRow, DelMoves, RemoveRow
<1>20. ASSUME NEW d \in Deleters, ListExpiredSessions(d)
      PROVE SessionStatusIsRunStatus'
  BY <1>20 DEF ListExpiredSessions, DelMoves
<1>21. ASSUME NEW s \in Sessions, NEW d \in Deleters, DeleteRequest(d, s) \/ SweepNext(d, s)
      PROVE SessionStatusIsRunStatus'
  BY <1>21 DEF DeleteRequest, SweepNext, CheckIdle, DelMoves
<1>22. CASE UNCHANGED vars
  BY <1>22 DEF vars
<1>23. QED
  BY <1>1, <1>2, <1>3, <1>4, <1>5, <1>6, <1>7, <1>8, <1>9, <1>10, <1>11, <1>12, <1>13, <1>14,
     <1>15, <1>16, <1>17, <1>18, <1>19, <1>20, <1>21, <1>22
     DEF Next, RunStep

(* The outcome is stored before it is announced, and a final status stays. *)
LEMMA DoneIsStoredStep == IInv /\ [Next]_vars => DoneIsStored'
<1> SUFFICES ASSUME IInv, [Next]_vars PROVE DoneIsStored'
  OBVIOUS
<1> USE LifecycleAssumption DEF IInv, DoneIsStored, RowFollowsGoroutine, TypeOK,
      Live, RowExists, Terminal, Unfinished, RunStored, RowStored, Working, Serving, persistent, goroutine, deleting, process, Volatile
<1>1. CASE InterruptRunningRuns
  BY <1>1 DEF InterruptRunningRuns, Recovered
<1>2. CASE Serve
  BY <1>2 DEF Serve
<1>3. CASE Crash \/ Exit
  BY <1>3 DEF Crash, Exit, ProcessEnds
<1>4. CASE Shutdown
  BY <1>4 DEF Shutdown
<1>5. CASE Drained
  BY <1>5 DEF Drained
<1>6. ASSUME NEW s \in Sessions, CreateRow(s)
      PROVE DoneIsStored'
  BY <1>6 DEF CreateRow
<1>7. ASSUME NEW s \in Sessions, CreateAgentSide(s)
      PROVE DoneIsStored'
  BY <1>7 DEF CreateAgentSide
<1>8. ASSUME NEW s \in Sessions, Expire(s)
      PROVE DoneIsStored'
  BY <1>8 DEF Expire
<1>9. ASSUME NEW s \in Sessions, CreateFails(s)
      PROVE DoneIsStored'
  BY <1>9 DEF CreateFails, RemoveRow
<1>10. ASSUME NEW s \in Sessions, NEW r \in Runs, StartRun(s, r)
      PROVE DoneIsStored'
  BY <1>10 DEF StartRun, MayStart
<1>11. ASSUME NEW r \in Runs, CancelRun(r) \/ FailCause(r)
      PROVE DoneIsStored'
  BY <1>11 DEF CancelRun, FailCause, Cancelled
<1>12. ASSUME NEW r \in Runs, SetupFails(r) \/ LoopReturns(r)
      PROVE DoneIsStored'
  BY <1>12 DEF SetupFails, LoopReturns, Moves
<1>13. ASSUME NEW r \in Runs, MarkRunning(r)
      PROVE DoneIsStored'
  BY <1>13 DEF MarkRunning, UpdateRun, SessionStatus, Moves
<1>14. ASSUME NEW r \in Runs, FinalRunOutcome(r)
      PROVE DoneIsStored'
  BY <1>14 DEF FinalRunOutcome, Moves
<1>15. ASSUME NEW r \in Runs, StoreOutcome(r)
      PROVE DoneIsStored'
  BY <1>15 DEF StoreOutcome, UpdateRun, SessionStatus, Moves
<1>16. ASSUME NEW r \in Runs, PublishDone(r)
      PROVE DoneIsStored'
  BY <1>16 DEF PublishDone, Moves
<1>17. ASSUME NEW r \in Runs, Release(r)
      PROVE DoneIsStored'
  BY <1>17 DEF Release, Moves
<1>18. ASSUME NEW d \in Deleters, DeleteAgentSide(d)
      PROVE DoneIsStored'
  BY <1>18 DEF DeleteAgentSide, DelMoves
<1>19. ASSUME NEW d \in Deleters, DeleteRow(d)
      PROVE DoneIsStored'
  BY <1>19 DEF DeleteRow, DelMoves, RemoveRow
<1>20. ASSUME NEW d \in Deleters, ListExpiredSessions(d)
      PROVE DoneIsStored'
  BY <1>20 DEF ListExpiredSessions, DelMoves
<1>21. ASSUME NEW s \in Sessions, NEW d \in Deleters, DeleteRequest(d, s) \/ SweepNext(d, s)
      PROVE DoneIsStored'
  BY <1>21 DEF DeleteRequest, SweepNext, CheckIdle, DelMoves
<1>22. CASE UNCHANGED vars
  BY <1>22 DEF vars
<1>23. QED
  BY <1>1, <1>2, <1>3, <1>4, <1>5, <1>6, <1>7, <1>8, <1>9, <1>10, <1>11, <1>12, <1>13, <1>14,
     <1>15, <1>16, <1>17, <1>18, <1>19, <1>20, <1>21, <1>22
     DEF Next, RunStep

-----------------------------------------------------------------------------
(* The inductive invariant holds: initially nothing exists and the process is
   down, and every step keeps each part.                                   *)
THEOREM Inductive == Spec => []IInv
<1>1. Init => IInv
  BY LifecycleAssumption DEF Init, IInv, TypeOK, DeleterHasSession, ActiveMapIsExact,
     RowFollowsGoroutine, LiveOnlyWhileServing, NoOrphanRun, NoRunWithoutSession,
     SessionStatusIsRunStatus, DoneIsStored, Live, RowExists, Terminal, Unfinished, RunStored,
     RowStored, Working, Serving
<1>2. TypeOK /\ IInv /\ TypeOK' /\ [Next]_vars => IInv'
  <2> SUFFICES ASSUME IInv, TypeOK', [Next]_vars PROVE IInv'
    OBVIOUS
  <2> QED
    BY DeleterHasSessionStep, ActiveMapIsExactStep, RowFollowsGoroutineStep,
       LiveOnlyWhileServingStep, NoOrphanRunStep, NoRunWithoutSessionStep,
       SessionStatusIsRunStatusStep, DoneIsStoredStep DEF IInv
<1>3. QED
  BY <1>1, <1>2, TypeCorrect, PTL DEF Spec

(* At most one goroutine executes a run of a session: both would have to be
   the one run that the active map holds for it.                           *)
THEOREM OneLiveRun == Spec => []OneLiveRunPerSession
<1>1. IInv => OneLiveRunPerSession
  BY DEF IInv, ActiveMapIsExact, OneLiveRunPerSession
<1>2. QED
  BY <1>1, Inductive, PTL

(* What CancelRun and Shutdown find in the active map is what executes.    *)
THEOREM ActiveMap == Spec => []ActiveMapIsExact
<1>1. IInv => ActiveMapIsExact
  BY DEF IInv
<1>2. QED
  BY <1>1, Inductive, PTL

(* No queued or running row without a goroutine while the process serves.  *)
THEOREM NoOrphans == Spec => []NoOrphanRun
<1>1. IInv => NoOrphanRun
  BY DEF IInv
<1>2. QED
  BY <1>1, Inductive, PTL

(* The session status retention relies on is the status of the session's run.*)
THEOREM SessionStatusSound == Spec => []SessionStatusIsRunStatus
<1>1. IInv => SessionStatusIsRunStatus
  BY DEF IInv
<1>2. QED
  BY <1>1, Inductive, PTL

(* No run outlives the row of its session.                                 *)
THEOREM CascadeComplete == Spec => []NoRunWithoutSession
<1>1. IInv => NoRunWithoutSession
  BY DEF IInv
<1>2. QED
  BY <1>1, Inductive, PTL

(* The status announced to clients is the stored one, across crashes.      *)
THEOREM DoneDurable == Spec => []DoneIsStored
<1>1. IInv => DoneIsStored
  BY DEF IInv
<1>2. QED
  BY <1>1, Inductive, PTL

(* After a drained shutdown nothing executes.                              *)
THEOREM DrainedQuiescent == Spec => []DrainedIsQuiescent
<1>1. IInv => DrainedIsQuiescent
  BY DEF IInv, LiveOnlyWhileServing, DrainedIsQuiescent
<1>2. QED
  BY <1>1, Inductive, PTL

(* Active map, rows and goroutines agree, as the runs check it.            *)
THEOREM AccountedFor == Spec => []RunsAreAccountedFor
<1>1. TypeOK /\ ActiveMapIsExact /\ NoOrphanRun /\ DrainedIsQuiescent => RunsAreAccountedFor
  BY DEF RunsAreAccountedFor
<1>2. QED
  BY <1>1, TypeCorrect, ActiveMap, NoOrphans, DrainedQuiescent, PTL

(* The rows of sessions and runs agree, as the runs check it.              *)
THEOREM RowsAgree == Spec => []SessionRowsAgree
<1>1. SessionStatusIsRunStatus /\ NoRunWithoutSession => SessionRowsAgree
  BY DEF SessionRowsAgree
<1>2. QED
  BY <1>1, SessionStatusSound, CascadeComplete, PTL

-----------------------------------------------------------------------------
(* A final status is written over by nothing: a goroutine that still writes
   has not stored one (RowFollowsGoroutine), and the next start's recovery
   changes unfinished rows only.                                           *)
LEMMA FinalStatusStep ==
  IInv /\ [Next]_vars =>
    \A q \in Runs : runRow[q] \in Terminal => runRow'[q] \in {runRow[q], "gone"}
<1> SUFFICES ASSUME IInv, [Next]_vars, NEW q \in Runs, runRow[q] \in Terminal
             PROVE  runRow'[q] \in {runRow[q], "gone"}
  OBVIOUS
<1> USE LifecycleAssumption DEF IInv, TypeOK, RowFollowsGoroutine, Terminal, Unfinished,
      RunStored, RowStored, Working, Serving, Recovered, persistent, goroutine, deleting, process,
      Volatile
<1>1. CASE InterruptRunningRuns
  BY <1>1 DEF InterruptRunningRuns
<1>2. CASE Serve \/ Shutdown \/ Drained
  BY <1>2 DEF Serve, Shutdown, Drained
<1>3. CASE Crash \/ Exit
  BY <1>3 DEF Crash, Exit, ProcessEnds
<1>4. ASSUME NEW s \in Sessions, CreateRow(s)
      PROVE runRow'[q] \in {runRow[q], "gone"}
  BY <1>4 DEF CreateRow
<1>5. ASSUME NEW s \in Sessions, CreateAgentSide(s)
      PROVE runRow'[q] \in {runRow[q], "gone"}
  BY <1>5 DEF CreateAgentSide
<1>6. ASSUME NEW s \in Sessions, CreateFails(s)
      PROVE runRow'[q] \in {runRow[q], "gone"}
  BY <1>6 DEF CreateFails, RemoveRow
<1>7. ASSUME NEW s \in Sessions, Expire(s)
      PROVE runRow'[q] \in {runRow[q], "gone"}
  BY <1>7 DEF Expire
<1>8. ASSUME NEW s \in Sessions, NEW r \in Runs, StartRun(s, r)
      PROVE runRow'[q] \in {runRow[q], "gone"}
  BY <1>8 DEF StartRun
<1>9. ASSUME NEW r \in Runs, CancelRun(r) \/ FailCause(r)
      PROVE runRow'[q] \in {runRow[q], "gone"}
  BY <1>9 DEF CancelRun, FailCause, Cancelled
<1>10. ASSUME NEW r \in Runs, SetupFails(r) \/ LoopReturns(r)
      PROVE runRow'[q] \in {runRow[q], "gone"}
  BY <1>10 DEF SetupFails, LoopReturns, Moves
<1>11. ASSUME NEW r \in Runs, MarkRunning(r)
      PROVE runRow'[q] \in {runRow[q], "gone"}
  BY <1>11 DEF MarkRunning, UpdateRun, SessionStatus, Moves
<1>12. ASSUME NEW r \in Runs, FinalRunOutcome(r)
      PROVE runRow'[q] \in {runRow[q], "gone"}
  BY <1>12 DEF FinalRunOutcome, Moves
<1>13. ASSUME NEW r \in Runs, StoreOutcome(r)
      PROVE runRow'[q] \in {runRow[q], "gone"}
  BY <1>13 DEF StoreOutcome, UpdateRun, SessionStatus, Moves
<1>14. ASSUME NEW r \in Runs, PublishDone(r) \/ Release(r)
      PROVE runRow'[q] \in {runRow[q], "gone"}
  BY <1>14 DEF PublishDone, Release, Moves
<1>15. ASSUME NEW d \in Deleters, DeleteAgentSide(d)
      PROVE runRow'[q] \in {runRow[q], "gone"}
  BY <1>15 DEF DeleteAgentSide, DelMoves
<1>16. ASSUME NEW d \in Deleters, DeleteRow(d)
      PROVE runRow'[q] \in {runRow[q], "gone"}
  BY <1>16 DEF DeleteRow, DelMoves, RemoveRow
<1>17. ASSUME NEW d \in Deleters, ListExpiredSessions(d)
      PROVE runRow'[q] \in {runRow[q], "gone"}
  BY <1>17 DEF ListExpiredSessions, DelMoves
<1>18. ASSUME NEW d \in Deleters, NEW s \in Sessions, DeleteRequest(d, s) \/ SweepNext(d, s)
      PROVE runRow'[q] \in {runRow[q], "gone"}
  BY <1>18 DEF DeleteRequest, SweepNext, CheckIdle, DelMoves
<1>19. CASE UNCHANGED vars
  BY <1>19 DEF vars
<1>20. QED
  BY <1>1, <1>2, <1>3, <1>4, <1>5, <1>6, <1>7, <1>8, <1>9, <1>10, <1>11, <1>12, <1>13, <1>14,
     <1>15, <1>16, <1>17, <1>18, <1>19
     DEF Next, RunStep

(* The status a run ended with stays until its session is deleted
   (store.UpdateRun and InterruptRunningRuns).                             *)
THEOREM FinalStatus == Spec => FinalStatusStays
<1>1. IInv /\ [Next]_vars
        => [\A r \in Runs : runRow[r] \in Terminal => runRow'[r] \in {runRow[r], "gone"}]_vars
  BY FinalStatusStep
<1>2. QED
  BY <1>1, Inductive, PTL DEF Spec, FinalStatusStays

-----------------------------------------------------------------------------
(* A row exists after a step only if it existed before or is being created,
   and an agent's side of an ACP session is never taken away.              *)
LEMMA ConnectedStep ==
  IInv /\ AcpSessionIsConnected /\ [Next]_vars => AcpSessionIsConnected'
<1> SUFFICES ASSUME IInv, AcpSessionIsConnected, [Next]_vars, NEW t \in AcpSessions,
                    RowExists(t)', t \notin creating', stops' = 0
             PROVE  t \in agentSide'
  BY DEF AcpSessionIsConnected
<1> USE LifecycleAssumption DEF IInv, TypeOK, AcpSessionIsConnected, RowFollowsGoroutine,
      NoRunWithoutSession, RowExists, Terminal, Unfinished, RunStored, RowStored, Working,
      Serving, persistent, goroutine, deleting, process, Volatile
<1>1. CASE InterruptRunningRuns
  BY <1>1 DEF InterruptRunningRuns
<1>2. CASE Serve \/ Shutdown \/ Drained
  BY <1>2 DEF Serve, Shutdown, Drained
<1>3. CASE Crash \/ Exit
  BY <1>3 DEF Crash, Exit, ProcessEnds
<1>4. ASSUME NEW s \in Sessions, CreateRow(s)
      PROVE t \in agentSide'
  BY <1>4 DEF CreateRow
<1>5. ASSUME NEW s \in Sessions, CreateAgentSide(s)
      PROVE t \in agentSide'
  BY <1>5 DEF CreateAgentSide
<1>6. ASSUME NEW s \in Sessions, CreateFails(s)
      PROVE t \in agentSide'
  BY <1>6 DEF CreateFails, RemoveRow
<1>7. ASSUME NEW s \in Sessions, Expire(s)
      PROVE t \in agentSide'
  BY <1>7 DEF Expire
<1>8. ASSUME NEW s \in Sessions, NEW r \in Runs, StartRun(s, r)
      PROVE t \in agentSide'
  BY <1>8 DEF StartRun
<1>9. ASSUME NEW r \in Runs, CancelRun(r) \/ FailCause(r)
      PROVE t \in agentSide'
  BY <1>9 DEF CancelRun, FailCause, Cancelled
<1>10. ASSUME NEW r \in Runs, SetupFails(r) \/ LoopReturns(r)
      PROVE t \in agentSide'
  BY <1>10 DEF SetupFails, LoopReturns, Moves
<1>11. ASSUME NEW r \in Runs, MarkRunning(r)
      PROVE t \in agentSide'
  BY <1>11 DEF MarkRunning, UpdateRun, SessionStatus, Moves
<1>12. ASSUME NEW r \in Runs, FinalRunOutcome(r)
      PROVE t \in agentSide'
  BY <1>12 DEF FinalRunOutcome, Moves
<1>13. ASSUME NEW r \in Runs, StoreOutcome(r)
      PROVE t \in agentSide'
  BY <1>13 DEF StoreOutcome, UpdateRun, SessionStatus, Moves
<1>14. ASSUME NEW r \in Runs, PublishDone(r) \/ Release(r)
      PROVE t \in agentSide'
  BY <1>14 DEF PublishDone, Release, Moves
<1>15. ASSUME NEW d \in Deleters, DeleteAgentSide(d)
      PROVE t \in agentSide'
  BY <1>15 DEF DeleteAgentSide, DelMoves
<1>16. ASSUME NEW d \in Deleters, DeleteRow(d)
      PROVE t \in agentSide'
  BY <1>16 DEF DeleteRow, DelMoves, RemoveRow
<1>17. ASSUME NEW d \in Deleters, ListExpiredSessions(d)
      PROVE t \in agentSide'
  BY <1>17 DEF ListExpiredSessions, DelMoves
<1>18. ASSUME NEW d \in Deleters, NEW s \in Sessions, DeleteRequest(d, s) \/ SweepNext(d, s)
      PROVE t \in agentSide'
  BY <1>18 DEF DeleteRequest, SweepNext, CheckIdle, DelMoves
<1>19. CASE UNCHANGED vars
  BY <1>19 DEF vars
<1>20. QED
  BY <1>1, <1>2, <1>3, <1>4, <1>5, <1>6, <1>7, <1>8, <1>9, <1>10, <1>11, <1>12, <1>13, <1>14,
     <1>15, <1>16, <1>17, <1>18, <1>19
     DEF Next, RunStep

(* As long as the process has not ended, an ACP session that is listed has its
   agent, however its creation and the deleters overlap (engine.go,
   CreateACPSession and DeleteSession).                                    *)
THEOREM Connected == Spec => []AcpSessionIsConnected
<1>1. Init => AcpSessionIsConnected
  BY LifecycleAssumption DEF Init, AcpSessionIsConnected, RowExists, RowStored
<1>2. QED
  BY <1>1, ConnectedStep, Inductive, PTL DEF Spec
=============================================================================
