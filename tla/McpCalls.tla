------------------------------ MODULE McpCalls ------------------------------
(***************************************************************************)
(* The tool calls of one session on one MCP server: CallTool, CancelToolCall  *)
(* and handleElicitation of internal/mcpruntime (manager.go, call_timeout.go, *)
(* elicitation.go), over the questions of UserQuestions.                    *)
(*                                                                         *)
(* A call races its inactivity timeout, the user who stops it, its run that   *)
(* is cancelled, and the server's answer; an elicitation pauses the timeout.  *)
(* time.AfterFunc runs expire in a goroutine of its own: once the timer has   *)
(* fired, Stop and Reset do not take that goroutine back.                   *)
(***************************************************************************)
EXTENDS UserQuestions

CONSTANTS
  Calls,   \* the tool calls that may be made
  NoCall   \* no call

ASSUME CallsAssumption == NoCall \notin Calls

VARIABLES
  callPc,       \* where each CallTool is
  callRun,      \* the run that makes the call
  activeCalls,  \* Manager.activeCalls
  userStopped,  \* the calls the user stopped
  ctxDone,      \* the calls whose own context is cancelled
  pauses,       \* callInactivityTimeout.pauses
  timer,        \* its timer is armed
  expiring,     \* expire goroutines that wait for the mutex: "fresh" or "stale"
  stopped,      \* callInactivityTimeout.stopped
  timedOut,     \* callInactivityTimeout.timedOut
  outcome,      \* what CallTool returns: "reply" is the server's result or error
  matched,      \* the call each elicitation was attributed to
  holds         \* the elicitations that hold a pause of their call

timeout == <<pauses, timer, expiring, stopped, timedOut>>
callVars == <<callPc, callRun, activeCalls, userStopped, ctxDone, timeout, outcome, matched, holds>>
vars == <<questionVars, callVars>>

TypeOK ==
  /\ QuestionTypeOK
  /\ callPc \in [Calls -> {"none", "calling", "returned", "finished", "stopped"}]
  /\ callRun \in [Calls -> 0 .. MaxRuns]
  /\ activeCalls \subseteq Calls /\ userStopped \subseteq Calls /\ ctxDone \subseteq Calls
  /\ pauses \in [Calls -> 0 .. Cardinality(Elicitations)]
  /\ timer \subseteq Calls
  /\ expiring \in [Calls -> SUBSET {"fresh", "stale"}]
  /\ stopped \subseteq Calls /\ timedOut \subseteq stopped
  /\ outcome \in [Calls -> {"none", "reply", "cancelled", "timedOut"}]
  /\ matched \in [Elicitations -> Calls \cup {NoCall}]
  /\ holds \subseteq Elicitations

Init ==
  /\ QuestionInit
  /\ callPc = [c \in Calls |-> "none"]
  /\ callRun = [c \in Calls |-> 0]
  /\ activeCalls = {} /\ userStopped = {} /\ ctxDone = {}
  /\ pauses = [c \in Calls |-> 0]
  /\ timer = {}
  /\ expiring = [c \in Calls |-> {}]
  /\ stopped = {} /\ timedOut = {}
  /\ outcome = [c \in Calls |-> "none"]
  /\ matched = [q \in Elicitations |-> NoCall]
  /\ holds = {}

(* The call's context ends with its own cancel function or with its run.   *)
ContextOver(c) == c \in ctxDone \/ callRun[c] \in cancelled

-----------------------------------------------------------------------------
(* A call.                                                                 *)

(* newCallInactivityTimeout and startToolCall.                             *)
CallTool(c) ==
  /\ callPc[c] = "none"
  /\ current # 0 /\ ~announced
  /\ callPc' = [callPc EXCEPT ![c] = "calling"]
  /\ callRun' = [callRun EXCEPT ![c] = current]
  /\ activeCalls' = activeCalls \cup {c}
  /\ timer' = timer \cup {c}
  /\ UNCHANGED <<questionVars, userStopped, ctxDone, pauses, expiring, stopped, timedOut,
                 outcome, matched, holds>>

(* What CallTool makes of its end: the user's stop, then the timeout unless the
   run is cancelled, then the error or the result.                         *)
Outcome(c) ==
  CASE c \in userStopped -> "cancelled"
    [] c \in timedOut /\ callRun[c] \notin cancelled -> "timedOut"
    [] OTHER -> "reply"

(* session.CallTool returns, with the server's result or an error, of which
   the end of the call's context is one.                                   *)
Returns(c) ==
  /\ callPc[c] = "calling"
  /\ callPc' = [callPc EXCEPT ![c] = "returned"]
  /\ outcome' = [outcome EXCEPT ![c] = Outcome(c)]
  /\ UNCHANGED <<questionVars, callRun, activeCalls, userStopped, ctxDone, timeout,
                 matched, holds>>

(* The deferred calls: finishToolCall with its event, then timeout.stop.   *)
FinishToolCall(c) ==
  /\ callPc[c] = "returned"
  /\ callPc' = [callPc EXCEPT ![c] = "finished"]
  /\ activeCalls' = activeCalls \ {c}
  /\ UNCHANGED <<questionVars, callRun, userStopped, ctxDone, timeout, outcome,
                 matched, holds>>

StopTimeout(c) ==
  /\ callPc[c] = "finished"
  /\ callPc' = [callPc EXCEPT ![c] = "stopped"]
  /\ stopped' = stopped \cup {c}
  /\ timer' = timer \ {c}
  /\ ctxDone' = ctxDone \cup {c}
  /\ UNCHANGED <<questionVars, callRun, activeCalls, userStopped, pauses, expiring, timedOut,
                 outcome, matched, holds>>

(* Manager.CancelToolCall: true, and cancelled, while the call is active.  *)
CancelToolCall(c) ==
  /\ c \in activeCalls
  /\ userStopped' = userStopped \cup {c}
  /\ ctxDone' = ctxDone \cup {c}
  /\ UNCHANGED <<questionVars, callPc, callRun, activeCalls, timeout, outcome,
                 matched, holds>>

-----------------------------------------------------------------------------
(* Its inactivity timeout.                                                 *)

TimerFires(c) ==
  /\ c \in timer
  /\ timer' = timer \ {c}
  /\ expiring' = [expiring EXCEPT ![c] = @ \cup {"fresh"}]
  /\ UNCHANGED <<questionVars, callPc, callRun, activeCalls, userStopped, ctxDone, pauses,
                 stopped, timedOut, outcome, matched, holds>>

Expire(c, age) ==
  /\ age \in expiring[c]
  /\ expiring' = [expiring EXCEPT ![c] = @ \ {age}]
  /\ IF c \notin stopped /\ pauses[c] = 0
     THEN /\ stopped' = stopped \cup {c}
          /\ timedOut' = timedOut \cup {c}
          /\ ctxDone' = ctxDone \cup {c}
     ELSE UNCHANGED <<stopped, timedOut, ctxDone>>
  /\ UNCHANGED <<questionVars, callPc, callRun, activeCalls, userStopped, pauses, timer,
                 outcome, matched, holds>>

(* pause: a timer that has fired already stays fired, its goroutine finds the
   pause, or finds it over.                                                *)
Pause(q, c) ==
  /\ pauses' = [pauses EXCEPT ![c] = @ + 1]
  /\ timer' = timer \ {c}
  /\ expiring' = [expiring EXCEPT ![c] = IF @ = {} THEN {} ELSE {"stale"}]
  /\ holds' = holds \cup {q}
  /\ UNCHANGED <<stopped, timedOut>>

RestartsEveryTime(c) == c \notin stopped
Restarts(c) == pauses'[c] = 0 /\ c \notin stopped

ResumeOnlyIfAnswered(q) ==
  LET c == matched[q] IN
  /\ holds' = holds \ {q}
  /\ pauses' = IF got[q] = "answer" THEN [pauses EXCEPT ![c] = @ - 1] ELSE pauses
  /\ timer' = IF Restarts(c) THEN timer \cup {c} ELSE timer

(* resume, once per pause.                                                 *)
Resume(q) ==
  LET c == matched[q] IN
  /\ holds' = holds \ {q}
  /\ IF pauses[c] = 0
     THEN UNCHANGED <<pauses, timer>>
     ELSE /\ pauses' = [pauses EXCEPT ![c] = @ - 1]
          /\ timer' = IF Restarts(c) THEN timer \cup {c} ELSE timer

-----------------------------------------------------------------------------
(* Elicitations.                                                           *)

(* The call in the request's context, which the connection may have given it,
   or else the only active call of the connection.                         *)
Candidates(c) == {c} \cup (IF Cardinality(activeCalls) = 1 THEN activeCalls ELSE {NoCall})

(* The server asks while it works on call c, which may be over for us: it is
   told so only later.  handleElicitation up to the engine's handler.      *)
Elicit(q, c) ==
  /\ q \in Elicitations
  /\ pc[q] = "none"
  /\ callPc[c] # "none"
  /\ pc' = [pc EXCEPT ![q] = "called"]
  /\ \E d \in Candidates(c) :
       /\ matched' = [matched EXCEPT ![q] = d]
       /\ IF d # NoCall /\ d \notin stopped
          THEN Pause(q, d)
          ELSE UNCHANGED <<timeout, holds>>
  /\ UNCHANGED <<run, table, qrun, origin, got, answer, timeline,
                 callPc, callRun, activeCalls, userStopped, ctxDone, outcome>>

(* handleElicitation returns: the deferred resume.                         *)
EndElicitation(q) ==
  /\ q \in holds
  /\ pc[q] = "returned"
  /\ Resume(q)
  /\ UNCHANGED <<questionVars, callPc, callRun, activeCalls, userStopped, ctxDone,
                 expiring, stopped, timedOut, outcome, matched>>

-----------------------------------------------------------------------------
(* A run ends only after its calls.                                        *)
CallsOver == \A c \in Calls : callRun[c] = current => callPc[c] \in {"none", "stopped"}

CallStep(c) == FinishToolCall(c) \/ StopTimeout(c)

Next ==
  \/ RunStep /\ (AnnounceDone => CallsOver) /\ UNCHANGED callVars
  \/ \E q \in Questions : (AskUser(q) \/ QuestionStep(q)) /\ UNCHANGED callVars
  \/ \E c \in Calls :
       \/ CallTool(c) \/ Returns(c) \/ CallStep(c) \/ CancelToolCall(c) \/ TimerFires(c)
       \/ \E age \in {"fresh", "stale"} : Expire(c, age)
  \/ \E q \in Elicitations, c \in Calls : Elicit(q, c)
  \/ \E q \in Elicitations : EndElicitation(q)

Spec == Init /\ [][Next]_vars

(* Goroutines run, timers fire, and CallTool returns once its context is over;
   neither the server nor the user has to answer.                          *)
FairSpec ==
  /\ Spec
  /\ \A q \in Questions :
       WF_vars((Admit(q) \/ PublishRequest(q) \/ ReceiveAnswer(q) \/ RemovePending(q)) /\ UNCHANGED callVars)
  /\ \A q \in Elicitations : WF_vars(EndElicitation(q))
  /\ \A c \in Calls :
       /\ WF_vars(CallStep(c))
       /\ WF_vars(TimerFires(c))
       /\ WF_vars(\E age \in {"fresh", "stale"} : Expire(c, age))
       /\ WF_vars(ContextOver(c) /\ Returns(c))

-----------------------------------------------------------------------------
(* Properties of calls.                                                    *)

Asked(c) == \E q \in holds : matched[q] = c   \* the user is asked on its behalf

(* A call in flight can time out exactly while the user is not asked on its
   behalf: its timer runs or has fired, unless an elicitation holds it, and
   each elicitation gives its hold back once, whatever its end was, also when
   several overlap (call_timeout.go:51, elicitation.go:69).                *)
TimerFollowsPauses ==
  \A c \in Calls : callPc[c] = "calling" /\ c \notin stopped =>
    IF Asked(c)
    THEN c \notin timer
    ELSE pauses[c] = 0 /\ (c \in timer \/ expiring[c] # {})

(* Types are kept and timers follow the questions.                         *)
CallsAreTimed == TypeOK /\ TimerFollowsPauses

(* docs/development.md:63: "Elicitation pauses the originating tool call for
   browser input without consuming that call's inactivity timeout": a timeout
   after an elicitation comes from a timer that was started after it.      *)
PauseIsNotConsumed ==
  [][\A c \in Calls : c \in timedOut' \ timedOut => "fresh" \in expiring[c] \ expiring'[c]]_vars

(* Liveness: a call ends, if only by its timeout, unless the user is asked on
   its behalf and does not answer.                                         *)
CallsEnd ==
  \A c \in Calls : callPc[c] = "calling" /\ ~Asked(c) ~> callPc[c] # "calling" \/ Asked(c)

=============================================================================
