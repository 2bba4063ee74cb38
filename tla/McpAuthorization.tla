-------------------------- MODULE McpAuthorization --------------------------
(***************************************************************************)
(* OAuth for one MCP server: internal/mcpruntime/oauth.go, and StartOAuth,   *)
(* CompleteOAuth, OAuthStatus and DisconnectOAuth of manager.go.            *)
(*                                                                         *)
(* StartOAuth begins a flow and connects in the background.  Challenged by  *)
(* the server, that connection asks for the authorization flow, the user    *)
(* answers in the browser, or never, and the callback comes back through    *)
(* another request.  Meanwhile the user disconnects, starts again, and      *)
(* connections of sessions refresh their tokens.                            *)
(***************************************************************************)
EXTENDS Integers, FiniteSets

CONSTANTS
  MaxFlows,        \* bound on StartOAuth calls that begin a flow
  MaxDisconnects,  \* bound on DisconnectOAuth calls
  MaxCallbacks     \* bound on callbacks for one state

ASSUME AuthorizationAssumption ==
  MaxFlows \in Nat /\ MaxDisconnects \in Nat /\ MaxCallbacks \in Nat

Flows == 1 .. MaxFlows
None  == 0

VARIABLES
  flow,          \* of each flow: where its connection is
  asks,          \* the flow whose callback that connection waits for
  flowCancelled, \* flow.cancelled
  flowState,     \* flow.state: the connection that chose it
  callback,      \* flow.callback, a channel of capacity 1
  late,          \* flows whose context is over
  assigned,      \* coordinator.assigned
  byState,       \* coordinator.byState
  status,        \* coordinator.statusByServer
  received,      \* callbacks that came for each state
  accepted,      \* and those complete() took
  exchanged,     \* the states whose code was exchanged, by connection
  refreshToken, metadata,   \* what the keyring and the database have
  disconnecting, disconnects,   \* DisconnectOAuth's next step; its calls
  refreshing,    \* a session's connection waits for its refreshed token
  revoked        \* the last DisconnectOAuth found every unfinished flow, nothing
                 \* was authorized since it began, and no token was kept for a
                 \* flow that is still to connect

flowVars    == <<flow, asks, flowCancelled, flowState, callback, late>>
coordinator == <<assigned, byState, status>>
browser     == <<received, accepted, exchanged>>
saved       == <<refreshToken, metadata>>
others      == <<disconnecting, disconnects, refreshing>>
oauthVars   == <<flowVars, coordinator, browser, saved, others, revoked>>

Moves(f, at) == flow' = [flow EXCEPT ![f] = at]
Attempting   == {f \in Flows : flow[f] \notin {"none", "begun", "closed", "ended", "finished"}}

-----------------------------------------------------------------------------
(* StartOAuth: the server's connections are closed, attempts included, and *)
(* a flow begins unless one is assigned.                                   *)
StartOAuth ==
  \E f \in Flows :
    /\ flow[f] = "none" /\ \A g \in 1 .. f - 1 : flow[g] # "none"
    /\ late' = late \cup Attempting
    /\ IF assigned = None
       THEN /\ assigned' = f /\ status' = "pending" /\ revoked' = FALSE
            /\ Moves(f, "begun")
       ELSE UNCHANGED <<assigned, status, revoked, flow>>
    /\ UNCHANGED <<asks, flowCancelled, flowState, callback, byState, browser, saved, others>>

(* One attempt at a time for the server's definition; oauthHandler assigns *)
(* the flow again.                                                         *)
Connect(f) ==
  /\ flow[f] = "begun" /\ Attempting = {}
  /\ Moves(f, "connecting") /\ assigned' = f
  /\ UNCHANGED <<asks, flowCancelled, flowState, callback, late, byState, status, browser,
                 saved, others, revoked>>

(* A kept token serves, and no authorization is needed.                    *)
TokenServes(f) ==
  /\ flow[f] = "connecting" /\ f \notin late /\ refreshToken /\ metadata
  /\ Moves(f, "connected") /\ status' = "connected"
  /\ UNCHANGED <<asks, flowCancelled, flowState, callback, late, assigned, byState, browser,
                 saved, others, revoked>>

(* Authorize, up to the registered client.                                 *)
Challenge(f) ==
  /\ flow[f] = "connecting" /\ f \notin late
  /\ Moves(f, "challenged") /\ metadata' = TRUE
  /\ UNCHANGED <<asks, flowCancelled, flowState, callback, late, coordinator, browser,
                 refreshToken, others, revoked>>

(* authorizationFlow: of the flow that is assigned, whoever asks.          *)
Ask(f) ==
  /\ flow[f] = "challenged"
  /\ IF assigned # None /\ flowState[assigned] = None
     THEN /\ flowState' = [flowState EXCEPT ![assigned] = f]
          /\ byState' = [byState EXCEPT ![f] = assigned]
          /\ asks' = [asks EXCEPT ![f] = assigned]
          /\ Moves(f, "waiting")
     ELSE Moves(f, "failed") /\ UNCHANGED <<flowState, byState, asks>>
  /\ UNCHANGED <<flowCancelled, callback, late, assigned, status, browser, saved, others,
                 revoked>>

Unanswerable(f) == FALSE
(* The connection's context ends while it waits for the user.              *)
WaitOver(f) == f \in late

TakeCallback(f) ==
  /\ flow[f] = "waiting" /\ callback[asks[f]] # None
  /\ callback' = [callback EXCEPT ![asks[f]] = None]
  /\ IF callback[asks[f]] = f
     THEN \/ Moves(f, "exchanging") /\ exchanged' = exchanged \cup {<<f, callback[asks[f]]>>}
          \/ Moves(f, "failed") /\ UNCHANGED exchanged
     ELSE Moves(f, "failed") /\ UNCHANGED exchanged
  /\ UNCHANGED <<asks, flowCancelled, flowState, late, coordinator, received, accepted, saved,
                 others, revoked>>

StopWaiting(f) ==
  /\ flow[f] = "waiting" /\ WaitOver(f)
  /\ Moves(f, "failed")
  /\ UNCHANGED <<asks, flowCancelled, flowState, callback, late, coordinator, browser, saved,
                 others, revoked>>

Exchange(f) ==
  /\ flow[f] = "exchanging"
  /\ Moves(f, "granted") \/ Moves(f, "failed")
  /\ UNCHANGED <<asks, flowCancelled, flowState, callback, late, coordinator, browser, saved,
                 others, revoked>>

(* The refresh token is kept, then the server is said to be connected.     *)
KeepToken(f) ==
  /\ flow[f] = "granted"
  /\ refreshToken' = TRUE /\ Moves(f, "kept")
  /\ revoked' = (revoked /\ \A g \in Flows : flow[g] # "begun")
  /\ UNCHANGED <<asks, flowCancelled, flowState, callback, late, coordinator, browser,
                 metadata, others>>

SayConnected(f) ==
  /\ flow[f] = "kept"
  /\ status' = "connected" /\ Moves(f, "connected")
  /\ UNCHANGED <<asks, flowCancelled, flowState, callback, late, assigned, byState, browser,
                 saved, others, revoked>>

ConnectFails(f) ==
  /\ flow[f] \in {"connecting", "connected"}
  /\ Moves(f, "failed")
  /\ UNCHANGED <<asks, flowCancelled, flowState, callback, late, coordinator, browser, saved,
                 others, revoked>>

(* The attempt is over, its tools are listed.                              *)
AttemptEnds(f) ==
  /\ flow[f] \in {"connected", "failed"}
  /\ flow[f] = "connected" => f \notin late
  /\ Moves(f, IF flow[f] = "connected" THEN "closed" ELSE "ended")
  /\ UNCHANGED <<asks, flowCancelled, flowState, callback, late, coordinator, browser, saved,
                 others, revoked>>

StatusOfAnyEnd(f) == IF flow[f] = "ended" THEN "error" ELSE "connected"
StatusAfter(f) ==
  CASE flowCancelled[f]   -> "none"
    [] flow[f] = "ended"  -> "error"
    [] OTHER              -> "connected"

Finish(f) ==
  /\ flow[f] \in {"closed", "ended"}
  /\ assigned' = IF assigned = f THEN None ELSE assigned
  /\ byState' = [s \in Flows |-> IF s = flowState[f] /\ byState[s] = f THEN None ELSE byState[s]]
  /\ status' = StatusAfter(f)
  /\ Moves(f, "finished")
  /\ UNCHANGED <<asks, flowCancelled, flowState, callback, late, browser, saved, others,
                 revoked>>

(* Ten minutes are over.                                                   *)
Timeout(f) ==
  /\ f \in Attempting \ late
  /\ late' = late \cup {f}
  /\ UNCHANGED <<flow, asks, flowCancelled, flowState, callback, coordinator, browser, saved,
                 others, revoked>>

-----------------------------------------------------------------------------
(* complete: the browser comes back, and perhaps comes back again.         *)

StatesAfterUse(s) == byState
StatesAfter(s)    == [byState EXCEPT ![s] = None]

CompleteOAuth(s) ==
  /\ \E f \in Flows : flowState[f] = s
  /\ received[s] < MaxCallbacks
  /\ received' = [received EXCEPT ![s] = @ + 1]
  /\ IF byState[s] # None /\ callback[byState[s]] = None
     THEN /\ byState' = StatesAfter(s)
          /\ callback' = [callback EXCEPT ![byState[s]] = s]
          /\ accepted' = [accepted EXCEPT ![s] = @ + 1]
          /\ revoked' = FALSE
     ELSE UNCHANGED <<byState, callback, accepted, revoked>>
  /\ UNCHANGED <<flow, asks, flowCancelled, flowState, late, assigned, status, exchanged, saved,
                 others>>

-----------------------------------------------------------------------------
(* DisconnectOAuth, step by step.                                          *)

DisconnectCloses ==
  /\ disconnecting = "no" /\ disconnects < MaxDisconnects
  /\ disconnecting' = "token" /\ disconnects' = disconnects + 1
  /\ late' = late \cup Attempting /\ revoked' = TRUE
  /\ UNCHANGED <<flow, asks, flowCancelled, flowState, callback, coordinator, browser, saved,
                 refreshing>>

DisconnectDeletes ==
  /\ \/ /\ disconnecting = "token"
        /\ refreshToken' = FALSE /\ disconnecting' = "metadata" /\ UNCHANGED metadata
     \/ /\ disconnecting = "metadata"
        /\ metadata' = FALSE /\ disconnecting' = "status" /\ UNCHANGED refreshToken
  /\ UNCHANGED <<flowVars, coordinator, browser, disconnects, refreshing, revoked>>

Disconnected ==
  /\ disconnecting = "status"
  /\ disconnecting' = "no"
  /\ flowCancelled' = [f \in Flows |-> flowCancelled[f] \/ f = assigned]
  /\ byState' = [s \in Flows |->
       IF assigned # None /\ s = flowState[assigned] /\ byState[s] = assigned
       THEN None ELSE byState[s]]
  /\ assigned' = None /\ status' = "none"
  /\ revoked' = (revoked /\ \A f \in Flows :
       flow[f] \in {"none", "finished"} \/ flowCancelled'[f])
  /\ UNCHANGED <<flow, asks, flowState, callback, late, browser, saved, disconnects,
                 refreshing>>

-----------------------------------------------------------------------------
(* persistingTokenSource.Token of a session's connection: the answer may   *)
(* come after the authorization was disconnected.                          *)
Refresh ==
  /\ ~refreshing /\ refreshToken /\ metadata
  /\ refreshing' = TRUE
  /\ UNCHANGED <<flowVars, coordinator, browser, saved, disconnecting, disconnects, revoked>>

Refreshed ==
  /\ refreshing /\ refreshing' = FALSE
  /\ \/ refreshToken' = TRUE /\ status' = "connected" /\ revoked' = FALSE
     \/ UNCHANGED <<refreshToken, status, revoked>>
  /\ UNCHANGED <<flowVars, assigned, byState, browser, metadata, disconnecting, disconnects>>

(* OAuthStatus                                                             *)
ShownStatus ==
  CASE status \in {"pending", "connected"} -> status
    [] refreshToken /\ metadata            -> "connected"
    [] status = "none"                     -> "disconnected"
    [] OTHER                               -> status

OAuthInit ==
  /\ flow = [f \in Flows |-> "none"] /\ asks = [f \in Flows |-> None]
  /\ flowCancelled = [f \in Flows |-> FALSE] /\ flowState = [f \in Flows |-> None]
  /\ callback = [f \in Flows |-> None] /\ late = {}
  /\ assigned = None /\ byState = [s \in Flows |-> None] /\ status = "none"
  /\ received = [s \in Flows |-> 0] /\ accepted = [s \in Flows |-> 0] /\ exchanged = {}
  /\ refreshToken = FALSE /\ metadata = FALSE
  /\ disconnecting = "no" /\ disconnects = 0 /\ refreshing = FALSE
  /\ revoked = TRUE

FlowStep(f) ==
  \/ Connect(f) \/ TokenServes(f) \/ Challenge(f) \/ Ask(f) \/ TakeCallback(f)
  \/ StopWaiting(f) \/ Exchange(f) \/ KeepToken(f) \/ SayConnected(f) \/ ConnectFails(f)
  \/ AttemptEnds(f) \/ Finish(f)

OAuthNext ==
  \/ StartOAuth
  \/ \E f \in Flows : FlowStep(f) \/ Timeout(f) \/ CompleteOAuth(f)
  \/ DisconnectCloses \/ DisconnectDeletes \/ Disconnected
  \/ Refresh \/ Refreshed

(* The background connection takes its steps, its requests are answered or *)
(* fail, and its ten minutes pass; the user may never answer.              *)
OAuthFairness == \A f \in Flows : WF_oauthVars(FlowStep(f)) /\ WF_oauthVars(Timeout(f))

OAuthSpec == OAuthInit /\ [][OAuthNext]_oauthVars /\ OAuthFairness

-----------------------------------------------------------------------------
(* A state is good for one callback, however often the browser comes back, *)
(* and the code that came with it is exchanged only by the connection that *)
(* chose it, though it waits on whichever flow is assigned.                *)
StatesAreUsedOnce ==
  /\ \A s \in Flows : accepted[s] <= 1
  /\ \A e \in exchanged : e[1] = e[2]

(* What DisconnectOAuth cut off does not come back: once the flows from    *)
(* before it have ended, in whatever order, the server is not shown as     *)
(* connected or pending until the user authorizes it again.  Three cases   *)
(* are excepted: a session's refresh whose answer comes after it, a flow   *)
(* that an older one, connecting late, has replaced in the table, and a    *)
(* token that an older exchange keeps while a newer flow is still to       *)
(* connect (which then registers a client, and has all it needs).          *)
DisconnectedStays ==
  (revoked /\ disconnecting = "no" /\ \A f \in Flows : flow[f] \in {"none", "finished"})
    => ShownStatus \in {"disconnected", "error"}

(* Every flow that begins ends, so that StartOAuth is answered and the     *)
(* next one may begin, though the user never comes back.                   *)
FlowsEnd == \A f \in Flows : (flow[f] = "begun") ~> (flow[f] = "finished")
=============================================================================
