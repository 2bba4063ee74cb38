---------------------------- MODULE AgentLoop -----------------------------
(***************************************************************************)
(* The loop of a native run around the agent framework, and the session     *)
(* log it works on: the end of execute in internal/engine/engine.go, with   *)
(* tool_batch.go, approval_resume.go, confirmation_resurface.go and         *)
(* subagents.go, and internal/adksession/service.go.                        *)
(*                                                                         *)
(* One iteration of the loop is one Run of the framework's runner: it       *)
(* loads the session, appends the message, resumes the tool the message     *)
(* answers a question of, and then alternates model and tools.  A tool may  *)
(* ask for approval, which ends the iteration.  A call of the model is a    *)
(* value of Ordinary or, for a sub-agent, of Delegations.                   *)
(*                                                                         *)
(* The runner is external.  A resumed iteration keeps the invocation of     *)
(* the call it resumes (the run's row has one invocation), and runs a model *)
(* step after the tool even if the tool asked again (the comment in         *)
(* confirmation_resurface_test.go:586).  In which order it stores a         *)
(* question and the result that says that one is needed is left open.       *)
(***************************************************************************)
EXTENDS Integers, FiniteSets, SequencesExt

CONSTANTS
  Ordinary,     \* calls of tools the model may make
  Delegations,  \* calls of sub-agents the model may make
  Slots,        \* maxParallelSubAgents
  MaxAsks,      \* bound on how often one tool asks
  MaxChild,     \* bound on the events of one sub-agent
  MaxRuns       \* bound on the number of runs

ASSUME AgentLoopAssumption ==
  /\ Ordinary \cap Delegations = {}
  /\ {Slots, MaxAsks, MaxChild, MaxRuns} \subseteq Nat /\ Slots > 0

VARIABLES
  log,        \* adk_events
  version,    \* adk_sessions.version
  handle,     \* the session object of the runner: its version, the events it loaded
  pc,         \* where the loop is
  answer,     \* the call whose decision is the message; {} for the user's message
  deferred,   \* mixedToolBatchModel.pending
  yields,     \* approvalYieldControl.enabled
  asked,      \* pendingApprovalRequests
  requested,  \* the iteration's Actions.RequestedToolConfirmations
  surfaced,   \* the iteration's adk_request_confirmation calls
  emits,      \* the events the runner is about to store
  call,       \* the progress of every call
  asks,       \* how often a call has asked
  runs        \* runs started

loopVars == <<log, version, handle, pc, answer, deferred, yields, asked, requested,
              surfaced, emits, call, asks, runs>>

Calls == Ordinary \cup Delegations

Event(kind, calls) == [kind |-> kind, calls |-> calls]

(* The progress of calls.                                                  *)
Being(progress) == {c \in Calls : call[c] = progress}
Become(calls, progress) == [c \in Calls |-> IF c \in calls THEN progress ELSE call[c]]

-----------------------------------------------------------------------------
(* The session.                                                            *)

(* AppendEvent by the runner: refused unless nobody has advanced the       *)
(* version since it loaded the session.                                    *)
AppendEvent(event, next) ==
  IF handle.version = version
  THEN /\ log' = Append(log, event)
       /\ version' = version + 1
       /\ handle' = [handle EXCEPT !.version = @ + 1]
       /\ pc' = next
  ELSE /\ pc' = "refused"
       /\ UNCHANGED <<log, version, handle>>

AppendTranscriptEvent(event) ==
  log' = Append(log, event) /\ UNCHANGED version

Interrupted(calls) == Event("interrupted", calls)

RepairedAtTheEnd(events) ==
  events \o (IF events # <<>> /\ Last(events).kind = "calls"
             THEN <<Interrupted(Last(events).calls)>> ELSE <<>>)

(* repairInterruptedToolCalls: what a call's next event does not answer is *)
(* answered by an interrupted result, in front of that event, or in an     *)
(* event of its own if the next is the model's.  (A question is answered   *)
(* in the same way, which the contents of a request never show.)           *)
Repaired(events) ==
  FlattenSeq([i \in DOMAIN events |->
    LET event == events[i]
        answered ==
          IF i < Len(events) /\ events[i + 1].kind = "results" THEN events[i + 1].calls ELSE {}
        missing == event.calls \ answered
    IN IF event.kind = "calls" /\ missing # {}
       THEN <<event, Interrupted(missing)>> ELSE <<event>>])

(* The events that are not of these kinds.                                 *)
Without(kinds, events) ==
  FlattenSeq([i \in DOMAIN events |->
    IF events[i].kind \in kinds THEN <<>> ELSE <<events[i]>>])

(* runnerService.Get: the log without the sub-agents' events, repaired.    *)
RunnerGet(events) == Repaired(Without({"child"}, events))

(* What the model is shown: the loaded session and what the runner has     *)
(* appended to it, without questions, their answers and events without content. *)
Unseen == {"confirm", "answer", "compacted"}
Contents ==
  Without(Unseen, RunnerGet(SubSeq(log, 1, handle.loaded))
                    \o Without({"child"}, SubSeq(log, handle.loaded + 1, Len(log))))

-----------------------------------------------------------------------------
(* execute.                                                                *)

StartRun ==
  /\ pc \in {"idle", "completed"}
  /\ runs < MaxRuns
  /\ runs' = runs + 1
  /\ answer' = {} /\ deferred' = {} /\ asked' = {} /\ yields' = FALSE
  /\ pc' = "run"
  /\ UNCHANGED <<log, version, handle, requested, surfaced, emits, call, asks>>

(* The runner loads the session and appends the message.                   *)
RunnerRun ==
  /\ pc = "run"
  /\ log' = Append(log, IF answer = {} THEN Event("user", {}) ELSE Event("answer", answer))
  /\ version' = version + 1
  /\ handle' = [version |-> version', loaded |-> Len(log)]
  /\ requested' = {} /\ surfaced' = {}
  /\ pc' = IF answer = {} THEN "model" ELSE "resume"
  /\ UNCHANGED <<answer, deferred, yields, asked, emits, call, asks, runs>>

(* A resumed tool that asks again stops the model (YieldAfterApproval).    *)
EnableYield(again) == yields \/ again

(* The answered tool runs with the decision.  It is done, whatever the     *)
(* decision was, or it asks for something else.                            *)
Resume ==
  /\ pc = "resume"
  /\ \E again \in BOOLEAN :
       /\ again => \A c \in answer : asks[c] < MaxAsks
       /\ call' = Become(answer, IF again THEN "asks" ELSE "done")
       /\ asks' = [c \in Calls |-> IF again /\ c \in answer THEN asks[c] + 1 ELSE asks[c]]
       /\ requested' = IF again THEN requested \cup answer ELSE requested
       /\ yields' = EnableYield(again)
  /\ AppendEvent(Event("results", answer), "model")
  /\ UNCHANGED <<answer, deferred, asked, surfaced, emits, runs>>

(* approvalYieldModel: while siblings wait for a decision there is no      *)
(* model call, and the iteration ends.                                     *)
ModelYields ==
  /\ pc = "model" /\ yields
  /\ pc' = "iterated"
  /\ UNCHANGED <<log, version, handle, answer, deferred, yields, asked, requested,
                 surfaced, emits, call, asks, runs>>

(* A compaction before the model's answer leaves an event, without content *)
(* (handleContextCompaction; module ContextCompaction).                    *)
ContextCompacted ==
  /\ pc = "model" /\ ~yields
  /\ \A i \in DOMAIN log : log[i].kind # "compacted"
  /\ AppendTranscriptEvent(Event("compacted", {}))
  /\ UNCHANGED <<handle, pc, answer, deferred, yields, asked, requested, surfaced, emits,
                 call, asks, runs>>

ModelAnswersText ==
  /\ pc = "model" /\ ~yields /\ deferred = {}
  /\ AppendEvent(Event("text", {}), "iterated")
  /\ UNCHANGED <<answer, deferred, yields, asked, requested, surfaced, emits, call, asks, runs>>

(* splitMixedToolBatch: delegations among ordinary calls are kept back for *)
(* the next model step.                                                    *)
ImmediateIfAlone(calls) ==
  IF Cardinality(calls \cap Delegations) = 1 THEN calls ELSE calls \cap Ordinary
Immediate(calls) == IF calls \subseteq Delegations THEN calls ELSE calls \cap Ordinary

ModelCalls ==
  /\ pc = "model" /\ ~yields
  /\ \E calls \in SUBSET Calls \ {{}} :
       /\ IF deferred # {} THEN calls = deferred
          ELSE \A c \in calls : call[c] = "new"
       /\ deferred' = calls \ Immediate(calls)
       /\ call' = Become(Immediate(calls), "called")
       /\ AppendEvent(Event("calls", Immediate(calls)), "tools")
  /\ UNCHANGED <<answer, yields, asked, requested, surfaced, emits, asks, runs>>

-----------------------------------------------------------------------------
(* The tools of one model step run concurrently.                           *)

RunTool(c) ==
  /\ pc = "tools" /\ c \in Ordinary /\ call[c] = "called"
  /\ \/ call' = Become({c}, "returned") /\ UNCHANGED asks
     \/ /\ asks[c] < MaxAsks
        /\ call' = Become({c}, "asks")
        /\ asks' = [asks EXCEPT ![c] = @ + 1]
  /\ UNCHANGED <<log, version, handle, pc, answer, deferred, yields, asked, requested,
                 surfaced, emits, runs>>

(* A delegation waits for a slot.                                          *)
AcquireSlot(d) ==
  /\ pc = "tools" /\ d \in Delegations /\ call[d] = "called"
  /\ Cardinality(Being("running")) < Slots
  /\ call' = Become({d}, "running")
  /\ UNCHANGED <<log, version, handle, pc, answer, deferred, yields, asked, requested,
                 surfaced, emits, asks, runs>>

(* runSubAgent persists what its child says in the parent's log.           *)
ChildEvent(d) ==
  /\ pc = "tools" /\ call[d] = "running"
  /\ Cardinality({i \in DOMAIN log : log[i] = Event("child", {d})}) < MaxChild
  /\ AppendTranscriptEvent(Event("child", {d}))
  /\ UNCHANGED <<handle, pc, answer, deferred, yields, asked, requested, surfaced, emits,
                 call, asks, runs>>

(* The sub-agent reports or fails, and its slot is free.                   *)
ReleaseSlot(d) ==
  /\ pc = "tools" /\ call[d] = "running"
  /\ call' = Become({d}, "returned")
  /\ UNCHANGED <<log, version, handle, pc, answer, deferred, yields, asked, requested,
                 surfaced, emits, asks, runs>>

(* All have returned: one event has the results, and if some of them ask,  *)
(* one has the questions.                                                  *)
Asking == IF pc = "tools" THEN {c \in Being("asks") : c \notin asked} ELSE {}

ToolsReturn ==
  /\ pc = "tools" /\ Being("called") \cup Being("running") = {}
  /\ LET results  == Event("results", Being("returned") \cup Asking)
         question == Event("confirm", Asking)
     IN IF Asking = {} THEN emits' = <<results>>
        ELSE emits' \in {<<question, results>>, <<results, question>>}
  /\ requested' = requested \cup Asking
  /\ call' = Become(Being("returned"), "done")
  /\ pc' = "emitting"
  /\ UNCHANGED <<log, version, handle, answer, deferred, yields, asked, surfaced, asks, runs>>

(* The loop registers the questions among the events it is given.  Results *)
(* with a question end the iteration.                                      *)
Emit ==
  /\ pc = "emitting"
  /\ AppendEvent(Head(emits),
       IF Len(emits) > 1 THEN "emitting" ELSE IF requested # {} THEN "iterated" ELSE "model")
  /\ emits' = Tail(emits)
  /\ IF Head(emits).kind = "confirm"
     THEN surfaced' = surfaced \cup Head(emits).calls /\ asked' = asked \cup Head(emits).calls
     ELSE UNCHANGED <<surfaced, asked>>
  /\ UNCHANGED <<answer, deferred, yields, requested, call, asks, runs>>

-----------------------------------------------------------------------------
(* Between iterations.                                                     *)

(* danglingConfirmationRequests                                            *)
Dangling == requested \ surfaced

(* resurfaceResumedConfirmations stores and registers the questions the    *)
(* runner did not, with a session it loads for this.  The run is complete  *)
(* if no question is left.                                                 *)
Iterated ==
  /\ pc = "iterated"
  /\ IF Dangling = {} THEN UNCHANGED <<log, version>>
     ELSE log' = Append(log, Event("confirm", Dangling)) /\ version' = version + 1
  /\ asked' = asked \cup Dangling
  /\ pc' = IF asked' = {} THEN "completed" ELSE "waiting"
  /\ UNCHANGED <<handle, answer, deferred, yields, requested, surfaced, emits, call, asks, runs>>

(* hasApprovalForInvocation                                                *)
YieldsAfter(pending) == pending # {}

(* waitForNextToolApproval returns a decision.                             *)
Decide ==
  /\ pc = "waiting"
  /\ \E c \in asked :
       /\ answer' = {c}
       /\ asked' = asked \ {c}
       /\ yields' = YieldsAfter(asked')
  /\ pc' = "run"
  /\ UNCHANGED <<log, version, handle, deferred, requested, surfaced, emits, call, asks, runs>>

(* The run is cancelled, fails, or the process ends.                       *)
RunEnds ==
  /\ pc \notin {"idle", "completed"}
  /\ pc' = "idle"
  /\ call' = Become(Calls \ Being("new"), "done")
  /\ deferred' = {} /\ asked' = {} /\ yields' = FALSE /\ answer' = {}
  /\ requested' = {} /\ surfaced' = {} /\ emits' = <<>>
  /\ UNCHANGED <<log, version, handle, asks, runs>>

LoopInit ==
  /\ log = <<>> /\ version = 0 /\ handle = [version |-> 0, loaded |-> 0]
  /\ pc = "idle" /\ answer = {} /\ deferred = {} /\ yields = FALSE
  /\ asked = {} /\ requested = {} /\ surfaced = {} /\ emits = <<>>
  /\ call = [c \in Calls |-> "new"] /\ asks = [c \in Calls |-> 0]
  /\ runs = 0

LoopNext ==
  \/ StartRun \/ RunnerRun \/ Resume
  \/ ModelYields \/ ContextCompacted \/ ModelAnswersText \/ ModelCalls
  \/ \E c \in Calls : RunTool(c) \/ AcquireSlot(c) \/ ChildEvent(c) \/ ReleaseSlot(c)
  \/ ToolsReturn \/ Emit \/ Iterated \/ Decide \/ RunEnds

LoopSpec == LoopInit /\ [][LoopNext]_loopVars

-----------------------------------------------------------------------------
(* A run that completes has left nothing behind: every call the model made *)
(* has its final result, no batch was kept back, and every question the    *)
(* tools asked was put to the user and answered.                           *)
NothingLeftBehind ==
  pc = "completed" =>
    /\ deferred = {} /\ asked = {}
    /\ \A c \in Calls : call[c] \in {"new", "done"}

(* Delegations that came with ordinary calls start only when those are     *)
(* done, across all the approvals they take.                               *)
DelegationsWaitForSiblings ==
  Being("running") # {} => Being("asks") = {}

(* A model step is completed as it was asked: every call is answered before *)
(* the run ends, and delegations run after their siblings.                 *)
BatchesAreFinished == NothingLeftBehind /\ DelegationsWaitForSiblings

(* The optimistic lock of the session never fails a run: sub-agents write  *)
(* to its log while the runner holds a handle on it.                       *)
NoAppendIsRefused == pc # "refused"

(* Whatever was interrupted, and however approvals interleaved, the model  *)
(* is never shown a call that is not answered before the conversation goes *)
(* on: providers refuse that.                                              *)
ModelSeesAnsweredCalls ==
  (pc = "model" /\ ~yields) =>
    LET contents == Contents IN
    \A i \in DOMAIN contents : contents[i].kind = "calls" =>
      \A c \in contents[i].calls :
        \E j \in i + 1 .. Len(contents) :
          /\ contents[j].kind \in {"results", "interrupted"}
          /\ c \in contents[j].calls
          /\ \A k \in i + 1 .. j : contents[k].kind \in {"results", "interrupted"}

(* The session's log never keeps a run from going on.                      *)
LogIsUsable == NoAppendIsRefused /\ ModelSeesAnsweredCalls
=============================================================================
