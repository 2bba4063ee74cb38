---------------------------- MODULE AcpRuntime ----------------------------
(***************************************************************************)
(* The processes of one external agent and the sessions in them:            *)
(* internal/acpruntime/manager.go and client.go.                            *)
(*                                                                         *)
(* A call that needs the agent takes the manager's mutex, and holds it      *)
(* while a new process answers its initialize request, which an agent may   *)
(* never do.  A session lives in the process it was created or restored in, *)
(* and a prompt is sent to it there.  A session has at most one call at a   *)
(* time (module RunLifecycle), so that it stands for its caller.            *)
(*                                                                         *)
(* The agent is external: it may crash, hang, and fail every request.       *)
(***************************************************************************)
EXTENDS Integers, FiniteSets

CONSTANTS
  AcpSessions,    \* the sessions with this agent
  MaxEdits,       \* bound on the edits of the agent's settings
  MaxProcesses    \* bound on the processes started

ASSUME AcpRuntimeAssumption ==
  MaxProcesses \in Nat /\ MaxEdits \in Nat /\ "free" \notin AcpSessions

Processes == 1 .. MaxProcesses

VARIABLES
  state,      \* of a process: "none", "starting", "up", "killed", "gone"
  print,      \* fingerprint of a process
  current,    \* m.processes of the agent, 0 if none
  mutex,      \* who holds m.mu: a session, or Free
  forgets,    \* processes whose exit the map has not noticed yet
  agent,      \* the configured fingerprint: the number of edits
  attached,   \* process.sessions
  knows,      \* the sessions an agent process really has
  closedSessions,     \* sessions that CloseSession was called for
  caller,     \* of a session: what its call is at
  onto,       \* the process of its call
  creates,    \* its call is NewSession
  shutdown    \* "no", "called", "cancelled", "waiting", "done"

processVars == <<state, print, current, mutex, forgets>>
sessionVars == <<attached, knows, closedSessions>>
callVars    == <<caller, onto, creates>>
acpVars     == <<processVars, agent, sessionVars, callVars, shutdown>>

Free == "free"
Running(p)  == state[p] \in {"starting", "up"}
Kill(ps)    == [p \in Processes |-> IF p \in ps /\ Running(p) THEN "killed" ELSE state[p]]
NextProcess == Cardinality({p \in Processes : state[p] # "none"}) + 1

Reaches(s, at, p) == caller' = [caller EXCEPT ![s] = at] /\ onto' = [onto EXCEPT ![s] = p]
Continues(s, at)  == Reaches(s, at, onto[s]) /\ UNCHANGED creates
Returns(s)        == Reaches(s, "idle", 0) /\ creates' = [creates EXCEPT ![s] = FALSE]

-----------------------------------------------------------------------------
(* process                                                                 *)

(* A call: NewSession for a session that no process has yet, or a prompt.  *)
BeginCall(s) ==
  /\ caller[s] = "idle" /\ s \notin closedSessions
  /\ Reaches(s, "locking", 0)
  /\ \E new \in BOOLEAN :
       /\ new => \A p \in Processes : s \notin attached[p]
       /\ creates' = [creates EXCEPT ![s] = new]
  /\ UNCHANGED <<processVars, agent, sessionVars, shutdown>>

(* A process that serves the configured command line is used.              *)
Usable == current # 0 /\ state[current] # "gone" /\ print[current] = agent

UseProcess(s) ==
  /\ caller[s] = "locking" /\ mutex = Free /\ Usable
  /\ Reaches(s, "attaching", current)
  /\ UNCHANGED <<processVars, agent, sessionVars, creates, shutdown>>

(* Otherwise one is started; one that has another command line is stopped. *)
StartProcess(s) ==
  /\ caller[s] = "locking" /\ mutex = Free /\ ~Usable
  /\ shutdown \in {"no", "called"} /\ NextProcess \in Processes
  /\ state' = [Kill({current}) EXCEPT ![NextProcess] = "starting"]
  /\ print' = [print EXCEPT ![NextProcess] = agent]
  /\ current' = 0 /\ mutex' = s
  /\ Reaches(s, "initializing", NextProcess)
  /\ UNCHANGED <<forgets, agent, sessionVars, creates, shutdown>>

(* The command does not start, as none does under a cancelled context.     *)
StartFails(s) ==
  /\ caller[s] = "locking" /\ mutex = Free /\ ~Usable
  /\ state' = Kill({current}) /\ current' = 0
  /\ Returns(s)
  /\ UNCHANGED <<print, mutex, forgets, agent, sessionVars, shutdown>>

Initialized(s) ==
  /\ caller[s] = "initializing" /\ state[onto[s]] = "starting"
  /\ state' = [state EXCEPT ![onto[s]] = "up"]
  /\ current' = onto[s] /\ mutex' = Free
  /\ Continues(s, "attaching")
  /\ UNCHANGED <<print, forgets, agent, sessionVars, shutdown>>

(* The process is gone, or refuses, or speaks another protocol.            *)
InitializeFails(s) ==
  /\ caller[s] = "initializing"
  /\ state' = Kill({onto[s]}) /\ mutex' = Free
  /\ Returns(s)
  /\ UNCHANGED <<print, current, forgets, agent, sessionVars, shutdown>>

-----------------------------------------------------------------------------
(* NewSession, attach and Prompt.                                          *)

AnsweredBy(s) == state[onto[s]] = "up"
Enters(s) ==
  /\ attached' = [attached EXCEPT ![onto[s]] = @ \cup {s}]
  /\ knows' = [knows EXCEPT ![onto[s]] = @ \cup {s}]

CreateSession(s) ==
  /\ caller[s] = "attaching" /\ creates[s] /\ AnsweredBy(s)
  /\ Enters(s) /\ Returns(s)
  /\ UNCHANGED <<processVars, agent, closedSessions, shutdown>>

AttachedAnywhere(s, p) == \E q \in Processes : s \in attached[q]
Attached(s, p) == s \in attached[p]

Attach(s) ==
  /\ caller[s] = "attaching" /\ ~creates[s]
  /\ Continues(s, IF Attached(s, onto[s]) THEN "prompting" ELSE "restoring")
  /\ UNCHANGED <<processVars, agent, sessionVars, shutdown>>

(* session/resume or session/load                                          *)
RestoreSession(s) ==
  /\ caller[s] = "restoring" /\ AnsweredBy(s)
  /\ Enters(s) /\ Continues(s, "prompting")
  /\ UNCHANGED <<processVars, agent, closedSessions, shutdown>>

(* The prompt's answer, or the failure of any request.                     *)
CallEnds(s) ==
  /\ caller[s] \in {"attaching", "restoring", "prompting"}
  /\ Returns(s)
  /\ UNCHANGED <<processVars, agent, sessionVars, shutdown>>

(* CloseSession asks the current process, and then forgets the session.    *)
CloseAsked(s) ==
  /\ caller[s] = "idle" /\ s \notin closedSessions
  /\ mutex = Free /\ current # 0 /\ state[current] = "up"
  /\ closedSessions' = closedSessions \cup {s}
  /\ knows' = [knows EXCEPT ![current] = @ \ {s}]
  /\ Reaches(s, "closing", current)
  /\ UNCHANGED <<processVars, agent, attached, creates, shutdown>>

CloseAnswered(s) ==
  /\ caller[s] = "closing"
  /\ attached' = [attached EXCEPT ![onto[s]] = @ \ {s}]
  /\ Returns(s)
  /\ UNCHANGED <<processVars, agent, knows, closedSessions, shutdown>>

-----------------------------------------------------------------------------
(* Processes end.                                                          *)

(* The goroutine of a process: Wait returns and done is closed.            *)
Exit(p) ==
  /\ state[p] \in {"starting", "up", "killed"}
  /\ state' = [state EXCEPT ![p] = "gone"]
  /\ forgets' = forgets \cup {p}
  /\ UNCHANGED <<print, current, mutex, agent, sessionVars, callVars, shutdown>>

ForgottenAnyway(p) == 0
Forgotten(p) == IF current = p THEN 0 ELSE current

(* It removes the process from the map, if that has not another one.       *)
Forget(p) ==
  /\ p \in forgets /\ mutex = Free
  /\ forgets' = forgets \ {p} /\ current' = Forgotten(p)
  /\ UNCHANGED <<state, print, mutex, agent, sessionVars, callVars, shutdown>>

Configure ==
  /\ agent < MaxEdits /\ agent' = agent + 1
  /\ UNCHANGED <<processVars, sessionVars, callVars, shutdown>>

StopAgent ==
  /\ mutex = Free /\ current # 0
  /\ state' = Kill({current}) /\ current' = 0
  /\ UNCHANGED <<print, mutex, forgets, agent, sessionVars, callVars, shutdown>>

CancelBehindLock == mutex = Free
(* Shutdown cancels the manager's context, which kills every process, and  *)
(* only then takes the mutex.                                              *)
CancelAllowed == TRUE

ShutdownCalled ==
  /\ shutdown = "no" /\ shutdown' = "called"
  /\ UNCHANGED <<processVars, agent, sessionVars, callVars>>

ShutdownCancels ==
  /\ shutdown = "called" /\ CancelAllowed
  /\ shutdown' = "cancelled"
  /\ state' = Kill(Processes)
  /\ UNCHANGED <<print, current, mutex, forgets, agent, sessionVars, callVars>>

ShutdownCollects ==
  /\ shutdown = "cancelled" /\ mutex = Free
  /\ shutdown' = IF current = 0 THEN "done" ELSE "waiting"
  /\ UNCHANGED <<processVars, agent, sessionVars, callVars>>

AcpShutdownReturns ==
  /\ shutdown = "waiting" /\ \A p \in Processes : state[p] \in {"none", "gone"}
  /\ shutdown' = "done"
  /\ UNCHANGED <<processVars, agent, sessionVars, callVars>>

AcpInit ==
  /\ state = [p \in Processes |-> "none"] /\ agent = 0
  /\ print = [p \in Processes |-> 0]
  /\ current = 0 /\ mutex = Free /\ forgets = {}
  /\ attached = [p \in Processes |-> {}] /\ knows = [p \in Processes |-> {}] /\ closedSessions = {}
  /\ caller = [s \in AcpSessions |-> "idle"] /\ onto = [s \in AcpSessions |-> 0]
  /\ creates = [s \in AcpSessions |-> FALSE]
  /\ shutdown = "no"

AcpNext ==
  \/ \E s \in AcpSessions :
       \/ BeginCall(s) \/ UseProcess(s) \/ StartProcess(s) \/ StartFails(s)
       \/ Initialized(s) \/ InitializeFails(s) \/ CreateSession(s) \/ Attach(s)
       \/ RestoreSession(s) \/ CallEnds(s) \/ CloseAsked(s) \/ CloseAnswered(s)
  \/ \E p \in Processes : Exit(p) \/ Forget(p)
  \/ Configure \/ StopAgent \/ ShutdownCalled \/ ShutdownCancels
  \/ ShutdownCollects \/ AcpShutdownReturns

(* A killed process exits; an initialize request to a process that is gone *)
(* fails, to one that lives it may hang; the manager's own steps happen,   *)
(* and its mutex is not kept from Shutdown for ever.                       *)
AcpFairness ==
  /\ \A p \in Processes : WF_acpVars(state[p] = "killed" /\ Exit(p))
  /\ \A s \in AcpSessions :
       WF_acpVars(caller[s] = "initializing" /\ state[onto[s]] = "gone" /\ InitializeFails(s))
  /\ WF_acpVars(ShutdownCancels) /\ SF_acpVars(ShutdownCollects)
  /\ WF_acpVars(AcpShutdownReturns)

AcpSpec == AcpInit /\ [][AcpNext]_acpVars /\ AcpFairness

-----------------------------------------------------------------------------
(* No process is lost: one that runs and was not told to stop is the one   *)
(* in the map, or the one the holder of the mutex initializes.  Exits of   *)
(* older processes, restarts and StopAgent come in any order.              *)
ProcessesAreOwned ==
  \A p \in Processes : Running(p) =>
    \/ p = current
    \/ mutex # Free /\ onto[mutex] = p /\ caller[mutex] = "initializing"

(* A prompt is sent to a process that has its session, also after the      *)
(* process of the last prompt was replaced.                                *)
PromptsReachTheirSession ==
  \A s \in AcpSessions :
    (caller[s] = "prompting" /\ state[onto[s]] = "up") => s \in knows[onto[s]]

(* Shutdown ends, though a call may hold the mutex for an agent that never *)
(* answers.                                                                *)
AcpShutdownEnds == (shutdown # "no") ~> (shutdown = "done")
=============================================================================
