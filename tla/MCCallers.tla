----------------------------- MODULE MCCallers -----------------------------
(***************************************************************************)
(* Everybody who waits for somebody else: the callers of tool approvals,   *)
(* the callers that share an MCP connection, and the browsers that follow  *)
(* a run's events.  The three share no variable, so TLC explores their     *)
(* disjoint union: a behaviour picks a part and lets only that part take   *)
(* steps, under the fairness of the part's own specification, while the    *)
(* others stay in an initial state.                                        *)
(***************************************************************************)
EXTENDS ToolApprovals, McpConnections, EventHub

VARIABLE part   \* the part that takes steps

callingVars == <<part, approvalVars, connectionVars, hubVars>>

CallingInit ==
  /\ part \in {"approvals", "connections", "events"}
  /\ ApprovalInit /\ ConnectionInit /\ HubInit

CallingNext ==
  \/ part = "approvals" /\ ApprovalNext /\ UNCHANGED <<part, connectionVars, hubVars>>
  \/ part = "connections" /\ ConnectionNext /\ UNCHANGED <<part, approvalVars, hubVars>>
  \/ part = "events" /\ HubNext /\ UNCHANGED <<part, approvalVars, connectionVars>>

(* A step of one part, which leaves the others alone.                       *)
InApprovals(A) ==
  part = "approvals" /\ A /\ UNCHANGED <<part, connectionVars, hubVars>>
InConnections(A) ==
  part = "connections" /\ A /\ UNCHANGED <<part, approvalVars, hubVars>>
InEvents(A) ==
  part = "events" /\ A /\ UNCHANGED <<part, approvalVars, connectionVars>>

(* The fairness of each part's own specification.                           *)
CallingFairness ==
  /\ \A c \in Callers : WF_callingVars(InApprovals(CallerStep(c)))
  /\ \A c \in Clients : WF_callingVars(InConnections(ClientStep(c)))
  /\ \A c \in Clients : WF_callingVars(InConnections(CloseSelected(c)))
  /\ \A c \in Clients : WF_callingVars(InConnections(ContextOver(c) /\ OpenReturns(c)))
  /\ \A r \in Readers : WF_callingVars(InEvents(ReaderStep(r)))

CallingSpec == CallingInit /\ [][CallingNext]_callingVars /\ CallingFairness

=============================================================================
