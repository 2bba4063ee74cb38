--------------------------- MODULE AcpRuntime_proofs ---------------------------
(***************************************************************************)
(* The processes of an external agent, the sessions in them and the commands *)
(* it runs, for any number of sessions, processes, prompts and terminals.    *)
(*                                                                         *)
(* Processes: whoever starts one holds the manager's mutex, with nothing in  *)
(* the map, until the process is in the map or killed.  Sessions: what is    *)
(* attached to a process is in it, until the session is closed, which no     *)
(* call is under way for.  Commands: what is taken out of the table of       *)
(* terminals is killed by whoever took it, and a session leaves the client's *)
(* table before its terminals do.                                           *)
(***************************************************************************)
EXTENDS AcpRuntime, AcpTerminals, FiniteSetTheorems, TLAPS

AcpTypeOK ==
  /\ state \in [Processes -> {"none", "starting", "up", "killed", "gone"}]
  /\ print \in [Processes -> Nat] /\ agent \in 0 .. MaxEdits
  /\ current \in Processes \cup {0}
  /\ mutex \in AcpSessions \cup {Free}
  /\ forgets \subseteq Processes
  /\ attached \in [Processes -> SUBSET AcpSessions]
  /\ knows \in [Processes -> SUBSET AcpSessions]
  /\ closedSessions \subseteq AcpSessions
  /\ caller \in [AcpSessions -> {"idle", "locking", "initializing", "attaching", "restoring",
                                 "prompting", "closing"}]
  /\ onto \in [AcpSessions -> Processes \cup {0}]
  /\ creates \in [AcpSessions -> BOOLEAN]
  /\ shutdown \in {"no", "called", "cancelled", "waiting", "done"}

(* The mutex is held by the one call that initializes a process, and the map
   is empty meanwhile.                                                     *)
MutexHolds ==
  /\ \A s \in AcpSessions : caller[s] = "initializing" <=> mutex = s
  /\ mutex # Free => current = 0

(* A call that is past the mutex has a process, and none is under way for a
   session that is closed.                                                 *)
CallsHaveProcess ==
  \A s \in AcpSessions :
    /\ caller[s] \notin {"idle", "locking"} => onto[s] \in Processes
    /\ caller[s] \notin {"idle", "closing"} => s \notin closedSessions

(* An open session that is attached to a process is in it.                 *)
SessionsAreKnown ==
  /\ \A p \in Processes : attached[p] \subseteq knows[p] \cup closedSessions
  /\ \A s \in AcpSessions : caller[s] = "prompting" => s \in knows[onto[s]]

(* Processes are numbered as they start, and one that the map is still to be
   told about is gone.                                                     *)
ProcessesAreNumbered ==
  /\ \E n \in 0 .. MaxProcesses : \A p \in Processes : state[p] # "none" <=> p <= n
  /\ \A p \in forgets : state[p] = "gone"

(* Nothing runs any more once Shutdown has cancelled the manager's context. *)
ShutdownKills == shutdown \in {"cancelled", "waiting", "done"} => \A p \in Processes : ~Running(p)

AcpInv ==
  /\ AcpTypeOK /\ ProcessesAreOwned /\ MutexHolds /\ CallsHaveProcess /\ SessionsAreKnown
  /\ ProcessesAreNumbered /\ ShutdownKills
-----------------------------------------------------------------------------
(* The processes.                                                          *)

(* Nothing runs at first.                                                  *)
LEMMA AcpInitial == AcpInit => AcpInv
<1> SUFFICES ASSUME AcpInit PROVE AcpInv
  OBVIOUS
<1>1. AcpTypeOK
  BY AcpRuntimeAssumption DEF AcpInit, AcpTypeOK
<1>2. ProcessesAreNumbered
  <2>1. 0 \in 0 .. MaxProcesses /\ \A p \in Processes : ~(p <= 0)
    BY AcpRuntimeAssumption DEF Processes
  <2>2. QED
    BY <2>1 DEF AcpInit, ProcessesAreNumbered
<1>3. ProcessesAreOwned /\ MutexHolds /\ CallsHaveProcess /\ SessionsAreKnown /\ ShutdownKills
  BY AcpRuntimeAssumption DEF AcpInit, ProcessesAreOwned, Running, MutexHolds, Free,
       CallsHaveProcess, SessionsAreKnown, ShutdownKills
<1>4. QED
  BY <1>1, <1>2, <1>3 DEF AcpInv

(* The number of a new process is free.                                    *)
LEMMA NextIsNew ==
  ASSUME ProcessesAreNumbered, NextProcess \in Processes
  PROVE  /\ state[NextProcess] = "none"
         /\ \A p \in Processes : state[p] # "none" \/ p = NextProcess <=> p <= NextProcess
<1>1. PICK n \in 0 .. MaxProcesses : \A p \in Processes : state[p] # "none" <=> p <= n
  BY DEF ProcessesAreNumbered
<1>2. {p \in Processes : state[p] # "none"} = 1 .. n
  BY <1>1, AcpRuntimeAssumption DEF Processes
<1>3. Cardinality(1 .. n) = n
  <2>1. Cardinality(1 .. n) = IF 1 > n THEN 0 ELSE n - 1 + 1
    BY FS_Interval
  <2>2. QED
    BY <2>1
<1>4. NextProcess = n + 1
  BY <1>2, <1>3 DEF NextProcess
<1>5. QED
  BY <1>1, <1>4, AcpRuntimeAssumption DEF Processes

(* Every step of a session's call, whoever holds the mutex meanwhile.      *)
LEMMA CallSteps ==
  ASSUME AcpInv, NEW s \in AcpSessions,
         \/ BeginCall(s)
         \/ UseProcess(s)
         \/ StartProcess(s)
         \/ StartFails(s)
         \/ Initialized(s)
         \/ InitializeFails(s)
         \/ CreateSession(s)
         \/ Attach(s)
         \/ RestoreSession(s)
         \/ CallEnds(s)
         \/ CloseAsked(s)
         \/ CloseAnswered(s)
  PROVE  AcpInv'
<1> USE DEF AcpInv
<1>1. CASE BeginCall(s)
  <2>1. AcpTypeOK'
    BY <1>1 DEF BeginCall, processVars, sessionVars, Reaches, Free, AcpTypeOK
  <2>2. ProcessesAreOwned'
    BY <1>1 DEF BeginCall, processVars, sessionVars, Reaches, Running, Free, ProcessesAreOwned
  <2>3. MutexHolds'
    BY <1>1 DEF BeginCall, processVars, sessionVars, Reaches, Free, MutexHolds
  <2>4. CallsHaveProcess'
    BY <1>1 DEF BeginCall, processVars, sessionVars, Reaches, CallsHaveProcess
  <2>5. SessionsAreKnown'
    BY <1>1 DEF BeginCall, processVars, sessionVars, Reaches, SessionsAreKnown
  <2>6. ProcessesAreNumbered'
    BY <1>1 DEF BeginCall, processVars, sessionVars, Reaches, ProcessesAreNumbered
  <2>7. ShutdownKills'
    BY <1>1 DEF BeginCall, processVars, sessionVars, Reaches, Running, ShutdownKills
  <2>8. QED
    BY <2>1, <2>2, <2>3, <2>4, <2>5, <2>6, <2>7
<1>2. CASE UseProcess(s)
  <2>1. AcpTypeOK'
    BY <1>2 DEF UseProcess, processVars, sessionVars, Reaches, Usable, Free, AcpTypeOK
  <2>2. ProcessesAreOwned'
    BY <1>2 DEF UseProcess, processVars, sessionVars, Reaches, Usable, Running, Free,
         ProcessesAreOwned
  <2>3. MutexHolds'
    BY <1>2 DEF UseProcess, processVars, sessionVars, Reaches, Usable, Free, MutexHolds
  <2>4. CallsHaveProcess'
    BY <1>2 DEF UseProcess, processVars, sessionVars, Reaches, Usable, Free, CallsHaveProcess,
         AcpTypeOK
  <2>5. SessionsAreKnown'
    BY <1>2 DEF UseProcess, processVars, sessionVars, Reaches, Usable, Free, SessionsAreKnown
  <2>6. ProcessesAreNumbered'
    BY <1>2 DEF UseProcess, processVars, sessionVars, Reaches, Usable, Free, ProcessesAreNumbered
  <2>7. ShutdownKills'
    BY <1>2 DEF UseProcess, processVars, sessionVars, Reaches, Usable, Running, Free,
         ShutdownKills
  <2>8. QED
    BY <2>1, <2>2, <2>3, <2>4, <2>5, <2>6, <2>7
<1>3. CASE StartProcess(s)
  <2>1. AcpTypeOK'
    BY <1>3 DEF StartProcess, sessionVars, Reaches, Usable, Kill, Running, Free, AcpTypeOK
  <2>2. ProcessesAreOwned'
    BY <1>3, AcpRuntimeAssumption DEF StartProcess, sessionVars, Reaches, Usable, Kill, Running,
         Free, ProcessesAreOwned, AcpTypeOK
  <2>3. MutexHolds'
    BY <1>3, AcpRuntimeAssumption DEF StartProcess, sessionVars, Reaches, Usable, Kill, Running,
         Free, MutexHolds, AcpTypeOK
  <2>4. CallsHaveProcess'
    BY <1>3 DEF StartProcess, sessionVars, Reaches, Usable, Kill, Running, Free,
         CallsHaveProcess, AcpTypeOK
  <2>5. SessionsAreKnown'
    BY <1>3 DEF StartProcess, sessionVars, Reaches, Usable, Kill, Running, Free, SessionsAreKnown
  <2>6. ProcessesAreNumbered'
    <3>1. /\ NextProcess \in Processes /\ state[NextProcess] = "none"
          /\ \A p \in Processes : state[p] # "none" \/ p = NextProcess <=> p <= NextProcess
      BY <1>3, NextIsNew DEF StartProcess
    <3>2. PICK n \in Processes : n = NextProcess
      BY <3>1
    <3>3. \A p \in Processes : state'[p] # "none" <=> state[p] # "none" \/ p = n
      BY <1>3, <3>1, <3>2 DEF StartProcess, AcpTypeOK, Kill, Running
    <3>4. n \in 0 .. MaxProcesses /\ \A p \in Processes : state'[p] # "none" <=> p <= n
      BY <3>1, <3>2, <3>3, AcpRuntimeAssumption DEF Processes
    <3>5. \A p \in forgets' : state'[p] = "gone"
      BY <1>3, <3>1 DEF StartProcess, AcpTypeOK, ProcessesAreNumbered, Kill, Running
    <3>6. QED
      BY <3>4, <3>5 DEF ProcessesAreNumbered
  <2>7. ShutdownKills'
    BY <1>3 DEF StartProcess, sessionVars, Reaches, Usable, Kill, Running, Free, ShutdownKills
  <2>8. QED
    BY <2>1, <2>2, <2>3, <2>4, <2>5, <2>6, <2>7
<1>4. CASE StartFails(s)
  <2>1. AcpTypeOK'
    BY <1>4 DEF StartFails, sessionVars, Reaches, Returns, Usable, Kill, Running, Free, AcpTypeOK
  <2>2. ProcessesAreOwned'
    BY <1>4 DEF StartFails, sessionVars, Reaches, Returns, Usable, Kill, Running, Free,
         ProcessesAreOwned
  <2>3. MutexHolds'
    BY <1>4 DEF StartFails, sessionVars, Reaches, Returns, Usable, Kill, Running, Free,
         MutexHolds
  <2>4. CallsHaveProcess'
    BY <1>4 DEF StartFails, sessionVars, Reaches, Returns, Usable, Kill, Running, Free,
         CallsHaveProcess
  <2>5. SessionsAreKnown'
    BY <1>4 DEF StartFails, sessionVars, Reaches, Returns, Usable, Kill, Running, Free,
         SessionsAreKnown
  <2>6. ProcessesAreNumbered'
    BY <1>4 DEF StartFails, sessionVars, Reaches, Returns, Usable, Kill, Running, Free,
         ProcessesAreNumbered, AcpTypeOK
  <2>7. ShutdownKills'
    BY <1>4 DEF StartFails, sessionVars, Reaches, Returns, Usable, Kill, Running, Free,
         ShutdownKills
  <2>8. QED
    BY <2>1, <2>2, <2>3, <2>4, <2>5, <2>6, <2>7
<1>5. CASE Initialized(s)
  <2>1. AcpTypeOK'
    BY <1>5 DEF Initialized, sessionVars, Reaches, Continues, Free, AcpTypeOK
  <2>2. ProcessesAreOwned'
    <3>1. /\ mutex = s /\ s # Free /\ current = 0 /\ current' = onto[s]
          /\ state' = [state EXCEPT ![onto[s]] = "up"]
      BY <1>5, AcpRuntimeAssumption DEF Initialized, MutexHolds, Free
    <3>2. \A p \in Processes : Running(p) => p = onto[s]
      BY <3>1, AcpRuntimeAssumption DEF ProcessesAreOwned, Processes
    <3>3. \A p \in Processes : Running(p)' => p = onto[s]
      BY <3>1, <3>2 DEF Running, AcpTypeOK
    <3>4. QED
      BY <3>1, <3>3 DEF ProcessesAreOwned
  <2>3. MutexHolds'
    BY <1>5, AcpRuntimeAssumption DEF Initialized, sessionVars, Reaches, Continues, Free,
         MutexHolds, AcpTypeOK
  <2>4. CallsHaveProcess'
    BY <1>5 DEF Initialized, sessionVars, Reaches, Continues, Free, CallsHaveProcess
  <2>5. SessionsAreKnown'
    BY <1>5 DEF Initialized, sessionVars, Reaches, Continues, Free, SessionsAreKnown
  <2>6. ProcessesAreNumbered'
    BY <1>5 DEF Initialized, sessionVars, Reaches, Continues, Free, ProcessesAreNumbered
  <2>7. ShutdownKills'
    BY <1>5 DEF Initialized, sessionVars, Reaches, Continues, Running, Free, ShutdownKills
  <2>8. QED
    BY <2>1, <2>2, <2>3, <2>4, <2>5, <2>6, <2>7
<1>6. CASE InitializeFails(s)
  <2>1. AcpTypeOK'
    BY <1>6 DEF InitializeFails, sessionVars, Reaches, Returns, Kill, Running, Free, AcpTypeOK
  <2>2. ProcessesAreOwned'
    BY <1>6 DEF InitializeFails, sessionVars, Reaches, Returns, Kill, Running, Free,
         ProcessesAreOwned, MutexHolds
  <2>3. MutexHolds'
    BY <1>6, AcpRuntimeAssumption DEF InitializeFails, sessionVars, Reaches, Returns, Kill,
         Running, Free, MutexHolds, AcpTypeOK
  <2>4. CallsHaveProcess'
    BY <1>6 DEF InitializeFails, sessionVars, Reaches, Returns, Kill, Running, Free,
         CallsHaveProcess, AcpTypeOK
  <2>5. SessionsAreKnown'
    BY <1>6 DEF InitializeFails, sessionVars, Reaches, Returns, Kill, Running, Free,
         SessionsAreKnown
  <2>6. ProcessesAreNumbered'
    BY <1>6 DEF InitializeFails, sessionVars, Reaches, Returns, Kill, Running, Free,
         ProcessesAreNumbered, AcpTypeOK
  <2>7. ShutdownKills'
    BY <1>6 DEF InitializeFails, sessionVars, Reaches, Returns, Kill, Running, Free,
         ShutdownKills
  <2>8. QED
    BY <2>1, <2>2, <2>3, <2>4, <2>5, <2>6, <2>7
<1>7. CASE CreateSession(s)
  <2>1. AcpTypeOK'
    BY <1>7 DEF CreateSession, processVars, Reaches, Returns, Enters, Free, AnsweredBy, AcpTypeOK
  <2>2. ProcessesAreOwned'
    BY <1>7 DEF CreateSession, processVars, Reaches, Returns, Enters, Running, Free, AnsweredBy,
         ProcessesAreOwned
  <2>3. MutexHolds'
    BY <1>7 DEF CreateSession, processVars, Reaches, Returns, Enters, Free, AnsweredBy,
         MutexHolds
  <2>4. CallsHaveProcess'
    BY <1>7 DEF CreateSession, processVars, Reaches, Returns, Enters, Free, AnsweredBy,
         CallsHaveProcess, AcpTypeOK
  <2>5. SessionsAreKnown'
    BY <1>7 DEF CreateSession, processVars, Reaches, Returns, Enters, Free, AnsweredBy,
         SessionsAreKnown, AcpTypeOK
  <2>6. ProcessesAreNumbered'
    BY <1>7 DEF CreateSession, processVars, Reaches, Returns, Enters, AnsweredBy,
         ProcessesAreNumbered
  <2>7. ShutdownKills'
    BY <1>7 DEF CreateSession, processVars, Reaches, Returns, Enters, Running, AnsweredBy,
         ShutdownKills
  <2>8. QED
    BY <2>1, <2>2, <2>3, <2>4, <2>5, <2>6, <2>7
<1>8. CASE Attach(s)
  <2>1. AcpTypeOK'
    BY <1>8 DEF Attach, processVars, sessionVars, Reaches, Continues, Free, Attached, AcpTypeOK
  <2>2. ProcessesAreOwned'
    BY <1>8 DEF Attach, processVars, sessionVars, Reaches, Continues, Running, Free, Attached,
         ProcessesAreOwned
  <2>3. MutexHolds'
    BY <1>8 DEF Attach, processVars, sessionVars, Reaches, Continues, Free, Attached, MutexHolds
  <2>4. CallsHaveProcess'
    BY <1>8 DEF Attach, processVars, sessionVars, Reaches, Continues, Attached, CallsHaveProcess
  <2>5. SessionsAreKnown'
    BY <1>8 DEF Attach, processVars, sessionVars, Reaches, Continues, Attached, SessionsAreKnown,
         CallsHaveProcess
  <2>6. ProcessesAreNumbered'
    BY <1>8 DEF Attach, processVars, sessionVars, Reaches, Continues, Attached,
         ProcessesAreNumbered
  <2>7. ShutdownKills'
    BY <1>8 DEF Attach, processVars, sessionVars, Reaches, Continues, Running, Attached,
         ShutdownKills
  <2>8. QED
    BY <2>1, <2>2, <2>3, <2>4, <2>5, <2>6, <2>7
<1>9. CASE RestoreSession(s)
  <2>1. AcpTypeOK'
    BY <1>9 DEF RestoreSession, processVars, Reaches, Continues, Enters, Free, AnsweredBy,
         AcpTypeOK
  <2>2. ProcessesAreOwned'
    BY <1>9 DEF RestoreSession, processVars, Reaches, Continues, Enters, Running, Free,
         AnsweredBy, ProcessesAreOwned
  <2>3. MutexHolds'
    BY <1>9 DEF RestoreSession, processVars, Reaches, Continues, Enters, Free, AnsweredBy,
         MutexHolds
  <2>4. CallsHaveProcess'
    BY <1>9 DEF RestoreSession, processVars, Reaches, Continues, Enters, AnsweredBy,
         CallsHaveProcess
  <2>5. SessionsAreKnown'
    BY <1>9 DEF RestoreSession, processVars, Reaches, Continues, Enters, Free, AnsweredBy,
         SessionsAreKnown, AcpTypeOK, CallsHaveProcess
  <2>6. ProcessesAreNumbered'
    BY <1>9 DEF RestoreSession, processVars, Reaches, Continues, Enters, AnsweredBy,
         ProcessesAreNumbered
  <2>7. ShutdownKills'
    BY <1>9 DEF RestoreSession, processVars, Reaches, Continues, Enters, Running, AnsweredBy,
         ShutdownKills
  <2>8. QED
    BY <2>1, <2>2, <2>3, <2>4, <2>5, <2>6, <2>7
<1>10. CASE CallEnds(s)
  <2>1. AcpTypeOK'
    BY <1>10 DEF CallEnds, processVars, sessionVars, Reaches, Returns, Free, AcpTypeOK
  <2>2. ProcessesAreOwned'
    BY <1>10 DEF CallEnds, processVars, sessionVars, Reaches, Returns, Running, Free,
         ProcessesAreOwned
  <2>3. MutexHolds'
    BY <1>10 DEF CallEnds, processVars, sessionVars, Reaches, Returns, Free, MutexHolds
  <2>4. CallsHaveProcess'
    BY <1>10 DEF CallEnds, processVars, sessionVars, Reaches, Returns, Free, CallsHaveProcess,
         AcpTypeOK
  <2>5. SessionsAreKnown'
    BY <1>10 DEF CallEnds, processVars, sessionVars, Reaches, Returns, Free, SessionsAreKnown,
         AcpTypeOK
  <2>6. ProcessesAreNumbered'
    BY <1>10 DEF CallEnds, processVars, sessionVars, Reaches, Returns, ProcessesAreNumbered
  <2>7. ShutdownKills'
    BY <1>10 DEF CallEnds, processVars, sessionVars, Reaches, Returns, Running, ShutdownKills
  <2>8. QED
    BY <2>1, <2>2, <2>3, <2>4, <2>5, <2>6, <2>7
<1>11. CASE CloseAsked(s)
  <2>1. AcpTypeOK'
    BY <1>11 DEF CloseAsked, processVars, Reaches, Free, AcpTypeOK
  <2>2. ProcessesAreOwned'
    BY <1>11 DEF CloseAsked, processVars, Reaches, Running, Free, ProcessesAreOwned
  <2>3. MutexHolds'
    BY <1>11 DEF CloseAsked, processVars, Reaches, Free, MutexHolds
  <2>4. CallsHaveProcess'
    BY <1>11 DEF CloseAsked, processVars, Reaches, Free, CallsHaveProcess, AcpTypeOK
  <2>5. SessionsAreKnown'
    BY <1>11 DEF CloseAsked, processVars, Reaches, Free, SessionsAreKnown
  <2>6. ProcessesAreNumbered'
    BY <1>11 DEF CloseAsked, processVars, Reaches, Free, ProcessesAreNumbered
  <2>7. ShutdownKills'
    BY <1>11 DEF CloseAsked, processVars, Reaches, Running, Free, ShutdownKills
  <2>8. QED
    BY <2>1, <2>2, <2>3, <2>4, <2>5, <2>6, <2>7
<1>12. CASE CloseAnswered(s)
  <2>1. AcpTypeOK'
    BY <1>12 DEF CloseAnswered, processVars, Reaches, Returns, Free, AcpTypeOK
  <2>2. ProcessesAreOwned'
    BY <1>12 DEF CloseAnswered, processVars, Reaches, Returns, Running, Free, ProcessesAreOwned
  <2>3. MutexHolds'
    BY <1>12 DEF CloseAnswered, processVars, Reaches, Returns, Free, MutexHolds
  <2>4. CallsHaveProcess'
    BY <1>12 DEF CloseAnswered, processVars, Reaches, Returns, Free, CallsHaveProcess, AcpTypeOK
  <2>5. SessionsAreKnown'
    BY <1>12 DEF CloseAnswered, processVars, Reaches, Returns, SessionsAreKnown
  <2>6. ProcessesAreNumbered'
    BY <1>12 DEF CloseAnswered, processVars, Reaches, Returns, ProcessesAreNumbered
  <2>7. ShutdownKills'
    BY <1>12 DEF CloseAnswered, processVars, Reaches, Returns, Running, ShutdownKills
  <2>8. QED
    BY <2>1, <2>2, <2>3, <2>4, <2>5, <2>6, <2>7
<1>13. QED
  BY <1>1, <1>2, <1>3, <1>4, <1>5, <1>6, <1>7, <1>8, <1>9, <1>10, <1>11, <1>12

(* The processes' ends, a change of the settings and the shutdown.         *)
LEMMA OtherSteps ==
  ASSUME AcpInv,
         \/ \E p \in Processes : Exit(p)
         \/ \E p \in Processes : Forget(p)
         \/ Configure
         \/ StopAgent
         \/ ShutdownCalled
         \/ ShutdownCancels
         \/ ShutdownCollects
         \/ AcpShutdownReturns
         \/ UNCHANGED acpVars
  PROVE  AcpInv'
<1> USE DEF AcpInv
<1>1. CASE \E p \in Processes : Exit(p)
  <2>1. AcpTypeOK'
    BY <1>1 DEF Exit, sessionVars, callVars, Free, AcpTypeOK
  <2>2. ProcessesAreOwned'
    BY <1>1 DEF Exit, sessionVars, callVars, Running, Free, ProcessesAreOwned
  <2>3. MutexHolds'
    BY <1>1 DEF Exit, sessionVars, callVars, Free, MutexHolds
  <2>4. CallsHaveProcess'
    BY <1>1 DEF Exit, sessionVars, callVars, CallsHaveProcess
  <2>5. SessionsAreKnown'
    BY <1>1 DEF Exit, sessionVars, callVars, SessionsAreKnown
  <2>6. ProcessesAreNumbered'
    BY <1>1 DEF Exit, sessionVars, callVars, Free, ProcessesAreNumbered, AcpTypeOK
  <2>7. ShutdownKills'
    BY <1>1 DEF Exit, sessionVars, callVars, Running, ShutdownKills
  <2>8. QED
    BY <2>1, <2>2, <2>3, <2>4, <2>5, <2>6, <2>7
<1>2. CASE \E p \in Processes : Forget(p)
  <2>1. AcpTypeOK'
    BY <1>2 DEF Forget, sessionVars, callVars, Free, Forgotten, AcpTypeOK
  <2>2. ProcessesAreOwned'
    BY <1>2 DEF Forget, sessionVars, callVars, Running, Free, Forgotten, ProcessesAreOwned,
         ProcessesAreNumbered
  <2>3. MutexHolds'
    BY <1>2 DEF Forget, sessionVars, callVars, Free, Forgotten, MutexHolds
  <2>4. CallsHaveProcess'
    BY <1>2 DEF Forget, sessionVars, callVars, Free, Forgotten, CallsHaveProcess
  <2>5. SessionsAreKnown'
    BY <1>2 DEF Forget, sessionVars, callVars, Free, Forgotten, SessionsAreKnown
  <2>6. ProcessesAreNumbered'
    BY <1>2 DEF Forget, sessionVars, callVars, Free, Forgotten, ProcessesAreNumbered
  <2>7. ShutdownKills'
    BY <1>2 DEF Forget, sessionVars, callVars, Running, Free, Forgotten, ShutdownKills
  <2>8. QED
    BY <2>1, <2>2, <2>3, <2>4, <2>5, <2>6, <2>7
<1>3. CASE Configure
  <2>1. AcpTypeOK'
    BY <1>3, AcpRuntimeAssumption DEF Configure, processVars, sessionVars, callVars, Free,
         AcpTypeOK
  <2>2. ProcessesAreOwned'
    BY <1>3 DEF Configure, processVars, sessionVars, callVars, Running, Free, ProcessesAreOwned
  <2>3. MutexHolds'
    BY <1>3 DEF Configure, processVars, sessionVars, callVars, Free, MutexHolds
  <2>4. CallsHaveProcess'
    BY <1>3 DEF Configure, processVars, sessionVars, callVars, CallsHaveProcess
  <2>5. SessionsAreKnown'
    BY <1>3 DEF Configure, processVars, sessionVars, callVars, SessionsAreKnown
  <2>6. ProcessesAreNumbered'
    BY <1>3 DEF Configure, processVars, sessionVars, callVars, ProcessesAreNumbered
  <2>7. ShutdownKills'
    BY <1>3 DEF Configure, processVars, sessionVars, callVars, Running, ShutdownKills
  <2>8. QED
    BY <2>1, <2>2, <2>3, <2>4, <2>5, <2>6, <2>7
<1>4. CASE StopAgent
  <2>1. AcpTypeOK'
    BY <1>4 DEF StopAgent, sessionVars, callVars, Kill, Running, Free, AcpTypeOK
  <2>2. ProcessesAreOwned'
    BY <1>4 DEF StopAgent, sessionVars, callVars, Kill, Running, Free, ProcessesAreOwned
  <2>3. MutexHolds'
    BY <1>4 DEF StopAgent, sessionVars, callVars, Kill, Running, Free, MutexHolds
  <2>4. CallsHaveProcess'
    BY <1>4 DEF StopAgent, sessionVars, callVars, Kill, Running, Free, CallsHaveProcess
  <2>5. SessionsAreKnown'
    BY <1>4 DEF StopAgent, sessionVars, callVars, Kill, Running, Free, SessionsAreKnown
  <2>6. ProcessesAreNumbered'
    BY <1>4 DEF StopAgent, sessionVars, callVars, Kill, Running, Free, ProcessesAreNumbered,
         AcpTypeOK
  <2>7. ShutdownKills'
    BY <1>4 DEF StopAgent, sessionVars, callVars, Kill, Running, Free, ShutdownKills
  <2>8. QED
    BY <2>1, <2>2, <2>3, <2>4, <2>5, <2>6, <2>7
<1>5. CASE ShutdownCalled
  <2>1. AcpTypeOK'
    BY <1>5 DEF ShutdownCalled, processVars, sessionVars, callVars, Free, AcpTypeOK
  <2>2. ProcessesAreOwned'
    BY <1>5 DEF ShutdownCalled, processVars, sessionVars, callVars, Running, Free,
         ProcessesAreOwned
  <2>3. MutexHolds'
    BY <1>5 DEF ShutdownCalled, processVars, sessionVars, callVars, Free, MutexHolds
  <2>4. CallsHaveProcess'
    BY <1>5 DEF ShutdownCalled, processVars, sessionVars, callVars, CallsHaveProcess
  <2>5. SessionsAreKnown'
    BY <1>5 DEF ShutdownCalled, processVars, sessionVars, callVars, SessionsAreKnown
  <2>6. ProcessesAreNumbered'
    BY <1>5 DEF ShutdownCalled, processVars, sessionVars, callVars, ProcessesAreNumbered
  <2>7. ShutdownKills'
    BY <1>5 DEF ShutdownCalled, processVars, sessionVars, callVars, Running, ShutdownKills
  <2>8. QED
    BY <2>1, <2>2, <2>3, <2>4, <2>5, <2>6, <2>7
<1>6. CASE ShutdownCancels
  <2>1. AcpTypeOK'
    BY <1>6 DEF ShutdownCancels, sessionVars, callVars, Kill, Running, Free, AcpTypeOK
  <2>2. ProcessesAreOwned'
    BY <1>6 DEF ShutdownCancels, sessionVars, callVars, Kill, Running, Free, ProcessesAreOwned
  <2>3. MutexHolds'
    BY <1>6 DEF ShutdownCancels, sessionVars, callVars, Kill, Running, Free, MutexHolds
  <2>4. CallsHaveProcess'
    BY <1>6 DEF ShutdownCancels, sessionVars, callVars, Kill, Running, CallsHaveProcess
  <2>5. SessionsAreKnown'
    BY <1>6 DEF ShutdownCancels, sessionVars, callVars, Kill, Running, SessionsAreKnown
  <2>6. ProcessesAreNumbered'
    BY <1>6 DEF ShutdownCancels, sessionVars, callVars, Kill, Running, Free,
         ProcessesAreNumbered, AcpTypeOK
  <2>7. ShutdownKills'
    BY <1>6 DEF ShutdownCancels, sessionVars, callVars, Kill, Running, ShutdownKills
  <2>8. QED
    BY <2>1, <2>2, <2>3, <2>4, <2>5, <2>6, <2>7
<1>7. CASE ShutdownCollects
  <2>1. AcpTypeOK'
    BY <1>7 DEF ShutdownCollects, processVars, sessionVars, callVars, Free, AcpTypeOK
  <2>2. ProcessesAreOwned'
    BY <1>7 DEF ShutdownCollects, processVars, sessionVars, callVars, Running, Free,
         ProcessesAreOwned
  <2>3. MutexHolds'
    BY <1>7 DEF ShutdownCollects, processVars, sessionVars, callVars, Free, MutexHolds
  <2>4. CallsHaveProcess'
    BY <1>7 DEF ShutdownCollects, processVars, sessionVars, callVars, Free, CallsHaveProcess
  <2>5. SessionsAreKnown'
    BY <1>7 DEF ShutdownCollects, processVars, sessionVars, callVars, Free, SessionsAreKnown
  <2>6. ProcessesAreNumbered'
    BY <1>7 DEF ShutdownCollects, processVars, sessionVars, callVars, Free, ProcessesAreNumbered
  <2>7. ShutdownKills'
    BY <1>7 DEF ShutdownCollects, processVars, sessionVars, callVars, Running, Free,
         ShutdownKills
  <2>8. QED
    BY <2>1, <2>2, <2>3, <2>4, <2>5, <2>6, <2>7
<1>8. CASE AcpShutdownReturns
  <2>1. AcpTypeOK'
    BY <1>8 DEF AcpShutdownReturns, processVars, sessionVars, callVars, Free, AcpTypeOK
  <2>2. ProcessesAreOwned'
    BY <1>8 DEF AcpShutdownReturns, processVars, sessionVars, callVars, Running, Free,
         ProcessesAreOwned
  <2>3. MutexHolds'
    BY <1>8 DEF AcpShutdownReturns, processVars, sessionVars, callVars, Free, MutexHolds
  <2>4. CallsHaveProcess'
    BY <1>8 DEF AcpShutdownReturns, processVars, sessionVars, callVars, CallsHaveProcess
  <2>5. SessionsAreKnown'
    BY <1>8 DEF AcpShutdownReturns, processVars, sessionVars, callVars, SessionsAreKnown
  <2>6. ProcessesAreNumbered'
    BY <1>8 DEF AcpShutdownReturns, processVars, sessionVars, callVars, ProcessesAreNumbered
  <2>7. ShutdownKills'
    BY <1>8 DEF AcpShutdownReturns, processVars, sessionVars, callVars, Running, ShutdownKills
  <2>8. QED
    BY <2>1, <2>2, <2>3, <2>4, <2>5, <2>6, <2>7
<1>9. CASE UNCHANGED acpVars
  <2>1. AcpTypeOK'
    BY <1>9 DEF acpVars, processVars, sessionVars, callVars, Free, AcpTypeOK
  <2>2. ProcessesAreOwned'
    BY <1>9 DEF acpVars, processVars, sessionVars, callVars, Running, Free, ProcessesAreOwned
  <2>3. MutexHolds'
    BY <1>9 DEF acpVars, processVars, sessionVars, callVars, Free, MutexHolds
  <2>4. CallsHaveProcess'
    BY <1>9 DEF acpVars, processVars, sessionVars, callVars, CallsHaveProcess
  <2>5. SessionsAreKnown'
    BY <1>9 DEF acpVars, processVars, sessionVars, callVars, SessionsAreKnown
  <2>6. ProcessesAreNumbered'
    BY <1>9 DEF acpVars, processVars, sessionVars, callVars, ProcessesAreNumbered
  <2>7. ShutdownKills'
    BY <1>9 DEF acpVars, processVars, sessionVars, callVars, Running, ShutdownKills
  <2>8. QED
    BY <2>1, <2>2, <2>3, <2>4, <2>5, <2>6, <2>7
<1>10. QED
  BY <1>1, <1>2, <1>3, <1>4, <1>5, <1>6, <1>7, <1>8, <1>9

(* The invariant of the processes, in one step.                            *)
LEMMA AcpInvIsInductive == AcpInv /\ [AcpNext]_acpVars => AcpInv'
BY CallSteps, OtherSteps DEF AcpNext

(* The map, the mutex, the processes and their sessions agree in every       *)
(* reachable state.                                                        *)
THEOREM AcpInvariant == AcpSpec => []AcpInv
<1>1. QED
  BY AcpInitial, AcpInvIsInductive, PTL DEF AcpSpec

(* No process of an agent is lost: one that runs and was not told to stop is *)
(* the one in the map, or is being initialized by the holder of the mutex    *)
(* (manager.go, ensureProcess and the goroutine that waits for the exit).    *)
THEOREM ProcessesOwned == AcpSpec => []ProcessesAreOwned
<1>1. AcpInv => ProcessesAreOwned
  BY DEF AcpInv
<1>2. QED
  BY <1>1, AcpInvariant, PTL

(* A prompt is sent to a process that has its session (manager.go, attach).  *)
THEOREM PromptsReach == AcpSpec => []PromptsReachTheirSession
<1>1. AcpInv => PromptsReachTheirSession
  BY DEF AcpInv, SessionsAreKnown, PromptsReachTheirSession
<1>2. QED
  BY <1>1, AcpInvariant, PTL

(* No process runs, or is ever started, after Shutdown has cancelled the     *)
(* manager's context, though it has not taken the mutex yet.                *)
THEOREM NothingRunsAfterShutdown == AcpSpec => []ShutdownKills
<1>1. AcpInv => ShutdownKills
  BY DEF AcpInv
<1>2. QED
  BY <1>1, AcpInvariant, PTL

-----------------------------------------------------------------------------
(* The terminals.                                                          *)

(* No command runs at first.                                               *)
LEMMA TerminalsInitial == TerminalsInit => TerminalsAreOwned
<1> SUFFICES ASSUME TerminalsInit PROVE TerminalsAreOwned
  OBVIOUS
<1>1. TerminalsTypeOK
  BY DEF TerminalsInit, TerminalsTypeOK, NoPrompt
<1>2. RunningIsReachable
  BY DEF TerminalsInit, RunningIsReachable
<1>3. NoneOutlivesItsPrompt
  BY DEF TerminalsInit, NoneOutlivesItsPrompt
<1>4. QED
  BY <1>1, <1>2, <1>3 DEF TerminalsAreOwned

(* The steps of a prompt change no command; each of them either leaves the  *)
(* table alone or takes the terminals it ends.                              *)
LEMMA PromptSteps ==
  ASSUME TerminalsAreOwned, NEW s \in PromptSessions,
         \/ RegisterPrompt(s) \/ StopPrompt(s) \/ Unregister(s)
         \/ CloseSessionTerminals(s) \/ PromptReturns(s) \/ CloseSession(s)
  PROVE  TerminalsAreOwned'
<1> USE DEF TerminalsAreOwned
<1>1. CASE RegisterPrompt(s)
  <2>1. TerminalsTypeOK'
    BY <1>1 DEF RegisterPrompt, TerminalsTypeOK, tableVars
  <2>2. RunningIsReachable'
    BY <1>1 DEF RegisterPrompt, RunningIsReachable, tableVars
  <2>3. NoneOutlivesItsPrompt'
    BY <1>1 DEF RegisterPrompt, NoneOutlivesItsPrompt, TerminalsTypeOK, Prompt, tableVars
  <2>4. QED
    BY <2>1, <2>2, <2>3
<1>2. CASE StopPrompt(s)
  BY <1>2 DEF StopPrompt, TerminalsTypeOK, RunningIsReachable, NoneOutlivesItsPrompt, Prompt,
              tableVars
<1>3. CASE Unregister(s)
  <2>1. TerminalsTypeOK'
    BY <1>3 DEF Unregister, TerminalsTypeOK, tableVars
  <2>2. RunningIsReachable'
    BY <1>3 DEF Unregister, RunningIsReachable, tableVars
  <2>3. NoneOutlivesItsPrompt'
    BY <1>3 DEF Unregister, NoneOutlivesItsPrompt, TerminalsTypeOK, Prompt, tableVars
  <2>4. QED
    BY <2>1, <2>2, <2>3
<1>4. CASE CloseSessionTerminals(s)
  <2>1. TerminalsTypeOK'
    BY <1>4 DEF CloseSessionTerminals, Take, Of, TerminalsTypeOK
  <2>2. RunningIsReachable'
    BY <1>4 DEF CloseSessionTerminals, Take, Of, RunningIsReachable
  <2>3. NoneOutlivesItsPrompt'
    BY <1>4 DEF CloseSessionTerminals, Take, Of, NoneOutlivesItsPrompt, TerminalsTypeOK, Prompt
  <2>4. QED
    BY <2>1, <2>2, <2>3
<1>5. CASE PromptReturns(s)
  <2>1. TerminalsTypeOK'
    BY <1>5 DEF PromptReturns, TerminalsTypeOK, tableVars
  <2>2. RunningIsReachable'
    BY <1>5 DEF PromptReturns, RunningIsReachable, tableVars
  <2>3. NoneOutlivesItsPrompt'
    BY <1>5 DEF PromptReturns, NoneOutlivesItsPrompt, TerminalsTypeOK, Prompt, tableVars
  <2>4. QED
    BY <2>1, <2>2, <2>3
<1>6. CASE CloseSession(s)
  BY <1>6 DEF CloseSession, Take, Of, TerminalsTypeOK, RunningIsReachable,
              NoneOutlivesItsPrompt, Prompt, promptVars
<1>7. QED
  BY <1>1, <1>2, <1>3, <1>4, <1>5, <1>6

(* createTerminal: only its last step makes a command one that runs, and    *)
(* lists it in the same step.                                               *)
LEMMA CreateSteps ==
  ASSUME TerminalsAreOwned, NEW t \in Terminals,
         \/ \E s \in PromptSessions : FindSession(t, s)
         \/ StartTerminal(t) \/ CreateFails(t) \/ ListTerminal(t)
  PROVE  TerminalsAreOwned'
<1> USE DEF TerminalsAreOwned
<1>1. ASSUME NEW s \in PromptSessions, FindSession(t, s) PROVE TerminalsAreOwned'
  <2>1. TerminalsTypeOK'
    BY <1>1 DEF FindSession, Becomes, TerminalsTypeOK, Prompt, promptVars, tableVars
  <2>2. RunningIsReachable'
    BY <1>1 DEF FindSession, Becomes, TerminalsTypeOK, RunningIsReachable, tableVars
  <2>3. NoneOutlivesItsPrompt'
    BY <1>1 DEF FindSession, Becomes, TerminalsTypeOK, NoneOutlivesItsPrompt, Prompt,
                promptVars, tableVars
  <2>4. QED
    BY <2>1, <2>2, <2>3
<1>2. CASE StartTerminal(t)
  BY <1>2 DEF StartTerminal, Becomes, TerminalsTypeOK, RunningIsReachable,
              NoneOutlivesItsPrompt, Prompt, promptVars, tableVars
<1>3. CASE CreateFails(t)
  BY <1>3 DEF CreateFails, Becomes, TerminalsTypeOK, RunningIsReachable,
              NoneOutlivesItsPrompt, Prompt, promptVars, tableVars
<1>4. CASE ListTerminal(t)
  <2>1. TerminalsTypeOK'
    BY <1>4 DEF ListTerminal, Becomes, TerminalsTypeOK, promptVars
  <2>2. RunningIsReachable'
    BY <1>4 DEF ListTerminal, Becomes, TerminalsTypeOK, RunningIsReachable
  <2>3. ASSUME t \notin lateListed'
        PROVE  ~cleared /\ Registered(openedBy[t]) /\ Prompt(openedBy[t].session) = openedBy[t]
    BY <1>4, <2>3 DEF ListTerminal, Registered, Prompt, TerminalsTypeOK
  <2>4. NoneOutlivesItsPrompt'
    BY <1>4, <2>3 DEF ListTerminal, Becomes, Registered, TerminalsTypeOK, NoneOutlivesItsPrompt,
                      Prompt, promptVars
  <2>5. QED
    BY <2>1, <2>2, <2>4
<1>5. QED
  BY <1>1, <1>2, <1>3, <1>4

(* How a terminal ends: a step makes no other command run.                  *)
LEMMA EndSteps ==
  ASSUME TerminalsAreOwned, NEW t \in Terminals,
         \/ KillTaken(t) \/ KillTerminal(t) \/ ReleaseTerminal(t)
         \/ KilledByContext(t) \/ TerminalEnds(t)
  PROVE  TerminalsAreOwned'
<1> USE DEF TerminalsAreOwned
<1>1. CASE KillTaken(t)
  BY <1>1 DEF KillTaken, Becomes, TerminalsTypeOK, RunningIsReachable,
              NoneOutlivesItsPrompt, Prompt, promptVars
<1>2. CASE KillTerminal(t)
  BY <1>2 DEF KillTerminal, Becomes, TerminalsTypeOK, RunningIsReachable,
              NoneOutlivesItsPrompt, Prompt, promptVars, tableVars
<1>3. CASE ReleaseTerminal(t)
  BY <1>3 DEF ReleaseTerminal, Take, TerminalsTypeOK, RunningIsReachable,
              NoneOutlivesItsPrompt, Prompt, promptVars
<1>4. CASE KilledByContext(t)
  BY <1>4 DEF KilledByContext, Becomes, TerminalsTypeOK, RunningIsReachable,
              NoneOutlivesItsPrompt, Prompt, promptVars, tableVars
<1>5. CASE TerminalEnds(t)
  BY <1>5 DEF TerminalEnds, Becomes, TerminalsTypeOK, RunningIsReachable,
              NoneOutlivesItsPrompt, Prompt, promptVars, tableVars
<1>6. QED
  BY <1>1, <1>2, <1>3, <1>4, <1>5

(* Every step of a terminal, its prompt and the agent.                     *)
LEMMA TerminalsStep == TerminalsAreOwned /\ [TerminalsNext]_terminalVars => TerminalsAreOwned'
<1> SUFFICES ASSUME TerminalsAreOwned, [TerminalsNext]_terminalVars PROVE TerminalsAreOwned'
  OBVIOUS
<1>1. CASE AgentExits
  BY <1>1 DEF AgentExits, Take, TerminalsAreOwned, TerminalsTypeOK, RunningIsReachable,
              NoneOutlivesItsPrompt, promptVars
<1>2. CASE UNCHANGED terminalVars
  BY <1>2 DEF terminalVars, TerminalsAreOwned, TerminalsTypeOK, RunningIsReachable,
              NoneOutlivesItsPrompt, Prompt
<1>3. QED
  BY <1>1, <1>2, PromptSteps, CreateSteps, EndSteps DEF TerminalsNext

(* No command of an agent runs unowned: createTerminal, unregister,          *)
(* closeSessionTerminals and closeTerminals of terminal.go and client.go.    *)
THEOREM CommandsAreOwned == TerminalsSpec => []TerminalsAreOwned
<1>1. QED
  BY TerminalsInitial, TerminalsStep, PTL DEF TerminalsSpec
=============================================================================
