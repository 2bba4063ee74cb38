---------------------------- MODULE ToolApprovals ----------------------------
(***************************************************************************)
(* The tool approvals of one run: internal/engine/approvals.go and those    *)
(* that ask through it.  The run loop and each sub-agent (Loops) collect the *)
(* confirmations of an iteration and then take the next decision; a workspace *)
(* tool (Tools) asks one question and removes it when it leaves; a callback  *)
(* of an ACP agent (Handlers) asks one question and does not.               *)
(*                                                                         *)
(* Everything under the engine's mutex is one step.  A caller that blocks    *)
(* has released the mutex: between its look at the pending approvals and the *)
(* select, and between the select and its next look, anything may happen.    *)
(***************************************************************************)
EXTENDS Integers, Sequences, FiniteSets

CONSTANTS
  Approvals,    \* the ids of the approvals that may be requested
  Loops,        \* the run loop and the sub-agents it delegates to
  Main,         \* the run loop (for an ACP run, the prompt: it asks nothing)
  Tools,        \* workspace tools that ask before they act
  Handlers,     \* callbacks of an ACP agent that ask
  NoApproval,   \* no approval
  MaxPending    \* maxPendingToolApprovals

Callers == Loops \cup Tools \cup Handlers

ASSUME ApprovalsAssumption ==
  /\ Main \in Loops
  /\ Loops \cap (Tools \cup Handlers) = {} /\ Tools \cap Handlers = {}
  /\ NoApproval \notin Approvals
  /\ IsFiniteSet(Approvals)
  /\ MaxPending \in Nat \ {0}

VARIABLES
  pending,    \* the keys of activeRun.pendingApprovals
  order,      \* resolutionOrder of each approval, 0 while it is unresolved
  verdict,    \* resolution.Approved of each approval
  nextOrder,  \* activeRun.nextApprovalResolution
  failure,    \* activeRun.approvalFailure is set
  cause,      \* context.Cause of the run's context
  run,        \* "active"; "done" once the hub took "done"; "released" without entry
  pc,         \* where each caller is
  asked,      \* the approvals each caller waits for
  decision,   \* the decision a caller has taken and not acted on yet
  got,        \* the decisions each caller has taken so far
  shown       \* the events of each approval, as the hub took them

table  == <<pending, order, verdict, nextOrder>>
runStatus == <<failure, cause, run>>
caller == <<pc, asked, decision, got>>
approvalVars   == <<table, runStatus, caller, shown>>

EventOrder == <<"tool_approval", "tool_approval_resolved", "tool_approval_started">>

ApprovalTypeOK ==
  /\ pending \subseteq Approvals
  /\ order \in [Approvals -> Nat]
  /\ verdict \in [Approvals -> {"none", "allow", "deny"}]
  /\ nextOrder \in Nat
  /\ failure \in BOOLEAN
  /\ cause \in {"none", "cancelled", "overflow"}
  /\ run \in {"active", "done", "released"}
  /\ pc \in [Callers -> {"working", "waiting", "blocked", "answered", "leaving", "returned"}]
  /\ asked \in [Callers -> SUBSET Approvals]
  /\ decision \in [Callers -> Approvals \cup {NoApproval}]
  /\ got \in [Callers -> SUBSET Approvals]
  /\ shown \in [Approvals -> Seq({EventOrder[i] : i \in 1 .. 3})]

(* StartRun has just registered the run.                                   *)
ApprovalInit ==
  /\ pending = {}
  /\ order = [a \in Approvals |-> 0]
  /\ verdict = [a \in Approvals |-> "none"]
  /\ nextOrder = 0
  /\ failure = FALSE
  /\ cause = "none"
  /\ run = "active"
  /\ pc = [c \in Callers |-> "working"]
  /\ asked = [c \in Callers |-> {}]
  /\ decision = [c \in Callers |-> NoApproval]
  /\ got = [c \in Callers |-> {}]
  /\ shown = [a \in Approvals |-> <<>>]

(* e.active still holds the run: it does until execute's last deferred steps.*)
Registered == run # "released"

(* hub.Publish takes nothing after "done".                                 *)
Published(a, event) ==
  shown' = IF run = "active" THEN [shown EXCEPT ![a] = Append(@, event)] ELSE shown

Unresolved == {a \in pending : order[a] = 0}
Fresh(a) == a \notin pending /\ verdict[a] = "none" /\ \A c \in Callers : a \notin asked[c]

(* Where a caller goes when it gives up: a tool still has to remove its
   approval, a loop or a handler leaves its own behind.                    *)
Abandoned(c) == IF c \in Tools THEN "leaving" ELSE "returned"

-----------------------------------------------------------------------------
(* Asking.                                                                 *)

TooManyOfAny == Cardinality(pending) >= MaxPending

(* The limit counts the approvals that nobody has answered.                *)
TooMany == Cardinality(Unresolved) >= MaxPending

FailedQuietly == failure' = TRUE /\ UNCHANGED <<cause, run>>

(* Too many are pending: the run fails, and its context is cancelled with
   that cause unless it was cancelled before.                              *)
Failed ==
  /\ failure' = TRUE
  /\ cause' = IF cause = "none" THEN "overflow" ELSE cause
  /\ UNCHANGED run

(* registerPendingToolApproval for a request that was not seen before.     *)
Register(c, a) ==
  /\ pc[c] = "working"
  /\ c \in Tools \cup Handlers => asked[c] = {}
  /\ Fresh(a)
  /\ \/ /\ Registered /\ ~failure /\ ~TooMany
        /\ pending' = pending \cup {a}
        /\ Published(a, "tool_approval")
        /\ asked' = [asked EXCEPT ![c] = @ \cup {a}]
        /\ pc' = [pc EXCEPT ![c] = IF c \in Loops THEN "working" ELSE "waiting"]
        /\ UNCHANGED runStatus
     \/ /\ Registered /\ ~failure /\ TooMany
        /\ Failed
        /\ pc' = [pc EXCEPT ![c] = "returned"]
        /\ UNCHANGED <<pending, asked, shown>>
     \/ /\ ~Registered \/ failure
        /\ pc' = [pc EXCEPT ![c] = "returned"]
        /\ UNCHANGED <<pending, runStatus, asked, shown>>
  /\ UNCHANGED <<order, verdict, nextOrder, decision, got>>

(* A loop's iteration is over and approvals of it are pending.  The runner
   has waited for the iteration's sub-agents and tools.                    *)
IterationOver(c) ==
  c = Main => \A d \in (Loops \ {Main}) \cup Tools :
                pc[d] = "returned" \/ (pc[d] = "working" /\ asked[d] = {})

Wait(c) ==
  /\ c \in Loops
  /\ pc[c] = "working"
  /\ asked[c] # {}
  /\ IterationOver(c)
  /\ pc' = [pc EXCEPT ![c] = "waiting"]
  /\ UNCHANGED <<table, runStatus, asked, decision, got, shown>>

(* The loop finds nothing pending, or its iteration failed: runSubAgent and
   execute return, and forget the approvals they were still waiting for.   *)
LoopReturns(c) ==
  /\ c \in Loops
  /\ pc[c] = "working"
  /\ cause # "none" \/ IterationOver(c)
  /\ pc' = [pc EXCEPT ![c] = "returned"]
  /\ UNCHANGED <<table, runStatus, asked, decision, got, shown>>

-----------------------------------------------------------------------------
(* Waiting: one turn of waitForNextToolApproval's loop, under the mutex.   *)

GivesUp(c) == ~Registered \/ failure \/ cause # "none" \/ ~(asked[c] \subseteq pending)

Answered(c) == {a \in asked[c] : order[a] # 0}

AnyAnswer(c) == Answered(c)

(* The one that was answered first.                                        *)
NextAnswer(c) == {a \in Answered(c) : \A b \in Answered(c) : order[a] <= order[b]}

Look(c) ==
  /\ pc[c] = "waiting"
  /\ \/ /\ GivesUp(c)
        /\ pc' = [pc EXCEPT ![c] = Abandoned(c)]
        /\ UNCHANGED <<pending, decision, got>>
     \/ /\ ~GivesUp(c)
        /\ \E a \in NextAnswer(c) :
             /\ pending' = pending \ {a}
             /\ decision' = [decision EXCEPT ![c] = a]
             /\ got' = [got EXCEPT ![c] = @ \cup {a}]
        /\ pc' = [pc EXCEPT ![c] = "answered"]
     \/ /\ ~GivesUp(c)
        /\ Answered(c) = {}
        /\ pc' = [pc EXCEPT ![c] = "blocked"]
        /\ UNCHANGED <<pending, decision, got>>
  /\ UNCHANGED <<order, verdict, nextOrder, runStatus, asked, shown>>

(* The select: the context is cancelled, or some resolved channel is closed.
   Neither a removed entry nor the end of the run closes one.              *)
Awake(c) == cause # "none" \/ Answered(c) # {}

Wake(c) ==
  /\ pc[c] = "blocked"
  /\ Awake(c)
  /\ pc' = [pc EXCEPT ![c] = "waiting"]
  /\ UNCHANGED <<table, runStatus, asked, decision, got, shown>>

(* Every caller but RequestPermission publishes the start of an allowed call.*)
StartedEvenIfDenied(c) == Published(decision[c], "tool_approval_started")

Started(c) ==
  \/ verdict[decision[c]] = "allow" /\ Published(decision[c], "tool_approval_started")
  \/ (verdict[decision[c]] # "allow" \/ c \in Handlers) /\ UNCHANGED shown

(* What a loop still waits for: it deletes the decision from its own map.  *)
StillAsked(c) == asked[c] \ {decision[c]}

(* A loop resumes the agent with the decision; a tool or a handler acts on it.*)
Act(c) ==
  /\ pc[c] = "answered"
  /\ Started(c)
  /\ asked' = [asked EXCEPT ![c] = StillAsked(c)]
  /\ decision' = [decision EXCEPT ![c] = NoApproval]
  /\ pc' = [pc EXCEPT ![c] = IF c \in Loops THEN "working" ELSE "returned"]
  /\ UNCHANGED <<table, runStatus, got>>

(* removePendingToolApproval, deferred by requestWorkspaceToolApproval.    *)
RemovePending(c) ==
  /\ pc[c] = "leaving"
  /\ pending' = IF Registered THEN pending \ asked[c] ELSE pending
  /\ pc' = [pc EXCEPT ![c] = "returned"]
  /\ UNCHANGED <<order, verdict, nextOrder, runStatus, asked, decision, got, shown>>

-----------------------------------------------------------------------------
(* Answering, cancelling, ending.                                          *)

(* The answer is refused otherwise, and nothing changes.                   *)
Open(a) == Registered /\ ~failure /\ a \in pending /\ order[a] = 0

(* ResolveToolApproval: the option the user picked decides, or without one
   the user's approval.  The event is out before the channel is closed.    *)
ResolveToolApproval(a, answer) ==
  /\ Open(a)
  /\ nextOrder' = nextOrder + 1
  /\ order' = [order EXCEPT ![a] = nextOrder']
  /\ verdict' = [verdict EXCEPT ![a] = answer]
  /\ Published(a, "tool_approval_resolved")
  /\ UNCHANGED <<pending, runStatus, caller>>

CancelRun ==
  /\ Registered
  /\ cause = "none"
  /\ cause' = "cancelled"
  /\ UNCHANGED <<table, failure, run, caller, shown>>

(* execute's deferred function: "done" and Complete, then the active entry.
   Nobody cancels the context of a run that was not cancelled.             *)
RunCompletes ==
  /\ pc[Main] = "returned"
  /\ run = "active"
  /\ run' = "done"
  /\ UNCHANGED <<table, failure, cause, caller, shown>>

Release ==
  /\ run = "done"
  /\ run' = "released"
  /\ UNCHANGED <<table, failure, cause, caller, shown>>

CallerStep(c) == Look(c) \/ Wake(c) \/ Act(c) \/ RemovePending(c)

ApprovalNext ==
  \/ \E c \in Callers, a \in Approvals : Register(c, a)
  \/ \E c \in Callers : Wait(c) \/ LoopReturns(c) \/ CallerStep(c)
  \/ \E a \in Approvals, answer \in {"allow", "deny"} : ResolveToolApproval(a, answer)
  \/ CancelRun \/ RunCompletes \/ Release

(* Fair goroutines; nobody has to ask, to answer or to cancel.             *)
ApprovalSpec == ApprovalInit /\ [][ApprovalNext]_approvalVars /\ \A c \in Callers : WF_approvalVars(CallerStep(c))

-----------------------------------------------------------------------------
(* Safety.                                                                 *)

(* The timeline of an approval is requested, resolved, started, none of them
   twice, and only an allowed call is shown as started: the resolution is
   published before the channel is closed (approvals.go:127).              *)
EventsInOrder ==
  \A a \in Approvals :
    /\ \E n \in 0 .. 3 : shown[a] = SubSeq(EventOrder, 1, n)
    /\ Len(shown[a]) = 3 => verdict[a] = "allow"

(* A caller whose approvals are pending in the run never finds one of them
   missing: only its own steps take them out (approvals.go:302).           *)
AskedIsPending ==
  Registered => \A c \in Callers : pc[c] \in {"waiting", "blocked"} => asked[c] \subseteq pending

(* No decision is acted on twice, or by two callers.                       *)
OneCallerPerDecision ==
  /\ \A c, d \in Callers : c # d => got[c] \cap got[d] = {}
  /\ \A c \in Callers : got[c] \cap asked[c] \subseteq {decision[c]}

(* The user's first accepted answer is the answer: the call that runs, or is
   refused, is the one the first response confirmed.                       *)
FirstAnswerStays ==
  [][\A a \in Approvals : verdict[a] # "none" =>
       verdict'[a] = verdict[a] /\ order'[a] = order[a]]_approvalVars

(* A loop takes decisions in the order the user made them, over all of its
   iterations, whatever the order of the requests (approvals.go:306).      *)
DecisionsInAnswerOrder ==
  [][\A c \in Callers : \A a \in got'[c] \ got[c], b \in got[c] : order[b] < order[a]]_approvalVars

(* What is pending is bounded, and the run is failed for its approvals only
   when MaxPending of them are unanswered: an answered one its caller has not
   taken yet does not count (approvals.go:217).                            *)
LimitIsExact ==
  [][/\ Cardinality(Unresolved') <= MaxPending
     /\ ~failure /\ failure' => Cardinality(Unresolved) = MaxPending]_approvalVars

(* Once it has failed no caller goes on: no decision is taken, also not one
   the user made before the failure, and no answer is accepted.            *)
FailureIsFinal ==
  [][failure => failure' /\ got' = got /\ verdict' = verdict /\ pending' \subseteq pending]_approvalVars

(* What the user sees and what the run waits for agree: the timeline of each
   approval is in order, and an approval that is asked for stays pending.  *)
TimelineIsPending == ApprovalTypeOK /\ EventsInOrder /\ AskedIsPending

(* A decision is made by the first answer, taken by one caller, once, and in
   the order in which the user answered.                                   *)
DecisionsAreFinal == []OneCallerPerDecision /\ FirstAnswerStays /\ DecisionsInAnswerOrder

(* The limit on pending approvals fails the run exactly when it is reached,
   and nothing moves afterwards.                                           *)
LimitIsFinal == LimitIsExact /\ FailureIsFinal

(* Liveness.                                                               *)

(* Cancelling a run, also by the overflow, wakes every caller that blocks.  *)
CancelWakesCallers ==
  \A c \in Callers : pc[c] = "blocked" /\ (failure \/ cause # "none") ~> pc[c] = "returned"

(* A caller that blocks is woken by the first answer to any of the approvals
   it waits for and takes a decision, unless the run is over before.       *)
AnswerUnblocks ==
  \A c \in Callers :
    pc[c] = "blocked" /\ Answered(c) # {} ~> pc[c] = "answered" \/ cause # "none" \/ ~Registered

(* Nobody blocks on: cancellation, overflow and the first answer wake.     *)
CallersWakeUp == CancelWakesCallers /\ AnswerUnblocks

=============================================================================
