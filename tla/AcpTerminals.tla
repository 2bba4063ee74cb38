---------------------------- MODULE AcpTerminals ----------------------------
(***************************************************************************)
(* The terminals an external agent opens while it works on a prompt:        *)
(* internal/acpruntime/terminal.go, and register and unregister of          *)
(* client.go.  One agent process and its client.                            *)
(*                                                                         *)
(* A request of the agent is served by a goroutine of its own, so that a    *)
(* terminal is created while the prompt it was found under ends, its run is *)
(* stopped, the session is closed, or the agent exits.  Each of them takes  *)
(* the terminals it ends out of the table, releases the mutex and kills     *)
(* them.  A command ends by itself at any time; what it writes is in        *)
(* module AcpTimeline.                                                      *)
(***************************************************************************)
EXTENDS Naturals

CONSTANTS
  PromptSessions,   \* the sessions in the process
  Terminals,        \* terminals the agent may ask for
  MaxPrompts        \* bound on the prompts of the sessions together

ASSUME TerminalsAssumption == MaxPrompts \in Nat

VARIABLES
  promptAt,      \* a session's prompt: "none", "registered", "closing" or "closed"
  prompts,       \* how many prompts there were
  promptNumber,  \* the number of a session's last one
  contextsOver,  \* the prompts whose context is cancelled
  command,       \* of a terminal: "none", "found", "started", "running", "killed", "ended"
  openedBy,      \* its prompt
  terminals,     \* client.terminals
  taken,         \* terminals out of the table that somebody is about to kill
  lateListed,    \* terminals that were listed after their prompt or the agent was over
  cleared        \* closeTerminals has emptied the table, as the agent has exited

terminalVars ==
  <<promptAt, prompts, promptNumber, contextsOver, command, openedBy,
    terminals, taken, lateListed, cleared>>
promptVars == <<promptAt, prompts, promptNumber, contextsOver>>
tableVars  == <<terminals, taken, lateListed, cleared>>

NoOne == "no session"
NoPrompt  == [session |-> NoOne, number |-> 0]
Prompt(s) == [session |-> s, number |-> promptNumber[s]]
Of(s, ts) == {t \in ts : openedBy[t].session = s}

Becomes(t, what) == command' = [command EXCEPT ![t] = what]
\* Taken out of the table by somebody who kills them next.
Take(ts) == terminals' = terminals \ ts /\ taken' = taken \cup ts

-----------------------------------------------------------------------------
(* register and unregister                                                 *)

RegisterPrompt(s) ==
  /\ promptAt[s] = "none"
  /\ promptAt' = [promptAt EXCEPT ![s] = "registered"]
  /\ prompts < MaxPrompts /\ prompts' = prompts + 1
  /\ promptNumber' = [promptNumber EXCEPT ![s] = prompts']
  /\ UNCHANGED <<contextsOver, command, openedBy, tableVars>>

RegisteredUntilClosed(prompt) ==
  promptAt[prompt.session] # "none" /\ promptNumber[prompt.session] = prompt.number
Registered(prompt) ==
  promptAt[prompt.session] = "registered" /\ promptNumber[prompt.session] = prompt.number

(* The user stops the run.  A run that ends by itself leaves its context.  *)
StopPrompt(s) ==
  /\ promptAt[s] # "none"
  /\ contextsOver' = contextsOver \cup {Prompt(s)}
  /\ UNCHANGED <<promptAt, prompts, promptNumber, command, openedBy, tableVars>>

Unregister(s) ==
  /\ promptAt[s] = "registered"
  /\ promptAt' = [promptAt EXCEPT ![s] = "closing"]
  /\ UNCHANGED <<prompts, promptNumber, contextsOver, command, openedBy, tableVars>>

(* closeSessionTerminals: all of the session, of whichever prompt.         *)
CloseSessionTerminals(s) ==
  /\ promptAt[s] = "closing"
  /\ promptAt' = [promptAt EXCEPT ![s] = "closed"]
  /\ Take(Of(s, terminals))
  /\ UNCHANGED <<prompts, promptNumber, contextsOver, command, openedBy, lateListed, cleared>>

PromptReturns(s) ==
  /\ promptAt[s] = "closed" /\ Of(s, taken) = {}
  /\ promptAt' = [promptAt EXCEPT ![s] = "none"]
  /\ UNCHANGED <<prompts, promptNumber, contextsOver, command, openedBy, tableVars>>

(* Manager.CloseSession, whatever the session is at.                       *)
CloseSession(s) ==
  /\ Take(Of(s, terminals))
  /\ UNCHANGED <<promptVars, command, openedBy, lateListed, cleared>>

(* The goroutine of the agent's process calls closeTerminals.              *)
AgentExits ==
  /\ ~cleared /\ cleared' = TRUE
  /\ Take(terminals)
  /\ UNCHANGED <<promptVars, command, openedBy, lateListed>>

-----------------------------------------------------------------------------
(* createTerminal                                                          *)

FindSession(t, s) ==
  /\ command[t] = "none"
  /\ Registered(Prompt(s)) /\ Prompt(s) \notin contextsOver
  /\ openedBy' = [openedBy EXCEPT ![t] = Prompt(s)]
  /\ Becomes(t, "found")
  /\ UNCHANGED <<promptVars, tableVars>>

StartTerminal(t) ==
  /\ command[t] = "found" /\ openedBy[t] \notin contextsOver
  /\ Becomes(t, "started")
  /\ UNCHANGED <<promptVars, openedBy, tableVars>>

(* The request is invalid, the command does not start, or the context is over. *)
CreateFails(t) ==
  /\ command[t] = "found"
  /\ Becomes(t, "ended")
  /\ UNCHANGED <<promptVars, openedBy, tableVars>>

ListTerminal(t) ==
  /\ command[t] = "started"
  /\ terminals' = terminals \cup {t}
  /\ lateListed' = IF Registered(openedBy[t]) /\ ~cleared
                   THEN lateListed ELSE lateListed \cup {t}
  /\ Becomes(t, "running")
  /\ UNCHANGED <<promptVars, openedBy, taken, cleared>>

-----------------------------------------------------------------------------
(* Terminals end.                                                          *)

(* kill of a terminal that was taken; one that has ended is left alone.    *)
KillTaken(t) ==
  /\ t \in taken /\ taken' = taken \ {t}
  /\ Becomes(t, IF command[t] = "running" THEN "killed" ELSE command[t])
  /\ UNCHANGED <<promptVars, openedBy, terminals, lateListed, cleared>>

(* killTerminal: the agent's request; the terminal stays listed.           *)
KillTerminal(t) ==
  /\ t \in terminals /\ command[t] = "running"
  /\ Becomes(t, "killed")
  /\ UNCHANGED <<promptVars, openedBy, tableVars>>

ReleaseTerminal(t) ==
  /\ t \in terminals /\ Take({t})
  /\ UNCHANGED <<promptVars, command, openedBy, lateListed, cleared>>

(* exec.CommandContext kills a command when its context is over.           *)
KilledByContext(t) ==
  /\ command[t] = "running" /\ openedBy[t] \in contextsOver
  /\ Becomes(t, "killed")
  /\ UNCHANGED <<promptVars, openedBy, tableVars>>

(* wait: the command's exit is noticed; what it left in its group is killed.*)
TerminalEnds(t) ==
  /\ command[t] \in {"running", "killed"}
  /\ Becomes(t, "ended")
  /\ UNCHANGED <<promptVars, openedBy, tableVars>>

TerminalsInit ==
  /\ promptAt = [s \in PromptSessions |-> "none"]
  /\ prompts = 0 /\ promptNumber = [s \in PromptSessions |-> 0]
  /\ contextsOver = {}
  /\ command = [t \in Terminals |-> "none"] /\ openedBy = [t \in Terminals |-> NoPrompt]
  /\ terminals = {} /\ taken = {} /\ lateListed = {} /\ cleared = FALSE

TerminalsNext ==
  \/ \E s \in PromptSessions :
       \/ RegisterPrompt(s) \/ StopPrompt(s) \/ Unregister(s) \/ CloseSessionTerminals(s)
       \/ PromptReturns(s) \/ CloseSession(s)
       \/ \E t \in Terminals : FindSession(t, s)
  \/ \E t \in Terminals :
       \/ StartTerminal(t) \/ CreateFails(t) \/ ListTerminal(t)
       \/ KillTaken(t) \/ KillTerminal(t) \/ ReleaseTerminal(t)
       \/ KilledByContext(t) \/ TerminalEnds(t)
  \/ AgentExits

TerminalsSpec == TerminalsInit /\ [][TerminalsNext]_terminalVars

-----------------------------------------------------------------------------
TerminalsTypeOK ==
  /\ promptAt \in [PromptSessions -> {"none", "registered", "closing", "closed"}]
  /\ prompts \in Nat /\ promptNumber \in [PromptSessions -> Nat]
  /\ command \in [Terminals -> {"none", "found", "started", "running", "killed", "ended"}]
  /\ openedBy \in [Terminals -> [session : PromptSessions \cup {NoOne}, number : Nat]]
  /\ \A t \in Terminals : command[t] # "none" => openedBy[t].session \in PromptSessions
  /\ terminals \subseteq Terminals

(* A command that runs can be stopped: it is in the table or somebody is   *)
(* about to kill it.                                                       *)
RunningIsReachable ==
  \A t \in Terminals : command[t] = "running" => t \in terminals \cup taken

(* A command ends with its prompt and with the agent.  One that was being  *)
(* created when they ended is listed all the same and is excepted: it goes *)
(* on until the session's next prompt ends, if the agent has not exited.   *)
NoneOutlivesItsPrompt ==
  \A t \in terminals \ lateListed : command[t] = "running" =>
    /\ ~cleared
    /\ promptAt[openedBy[t].session] \in {"registered", "closing"}
    /\ Prompt(openedBy[t].session) = openedBy[t]

(* No command of an agent runs unowned: somebody can stop it, and those who
   end the prompt or the agent do.                                         *)
TerminalsAreOwned == TerminalsTypeOK /\ RunningIsReachable /\ NoneOutlivesItsPrompt
=============================================================================
