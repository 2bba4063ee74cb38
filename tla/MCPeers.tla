------------------------------ MODULE MCPeers ------------------------------
(***************************************************************************)
(* The processes of ACP agents and the authorizations of MCP connections.  *)
(* They share no variable, so TLC explores their disjoint union: a         *)
(* behaviour picks a part and lets only that part take steps, while the    *)
(* other stays in an initial state.  Each part keeps the fairness of its   *)
(* own specification, and a temporal property of one part holds trivially  *)
(* in the behaviours of the other.                                         *)
(***************************************************************************)
EXTENDS AcpRuntime, McpAuthorization

VARIABLE part   \* the part that takes steps

peersVars == <<part, acpVars, oauthVars>>

PeersInit ==
  /\ part \in {"agent", "authorization"}
  /\ AcpInit /\ OAuthInit

PeersNext ==
  \/ part = "agent" /\ AcpNext /\ UNCHANGED <<part, oauthVars>>
  \/ part = "authorization" /\ OAuthNext /\ UNCHANGED <<part, acpVars>>

(* A step of one part, which leaves the others alone.                       *)
InAgent(A) ==
  part = "agent" /\ A /\ UNCHANGED <<part, oauthVars>>
InAuthorization(A) ==
  part = "authorization" /\ A /\ UNCHANGED <<part, acpVars>>

(* The fairness of each part's own specification.                           *)
PeersFairness ==
  /\ \A p \in Processes : WF_peersVars(InAgent(state[p] = "killed" /\ Exit(p)))
  /\ \A s \in AcpSessions :
        WF_peersVars(InAgent(caller[s] = "initializing" /\ state[onto[s]] = "gone"
                             /\ InitializeFails(s)))
  /\ WF_peersVars(InAgent(ShutdownCancels))
  /\ SF_peersVars(InAgent(ShutdownCollects))
  /\ WF_peersVars(InAgent(AcpShutdownReturns))
  /\ \A f \in Flows : WF_peersVars(InAuthorization(FlowStep(f)))
  /\ \A f \in Flows : WF_peersVars(InAuthorization(Timeout(f)))

PeersSpec == PeersInit /\ [][PeersNext]_peersVars /\ PeersFairness

=============================================================================
