--------------------------- MODULE McpRuntime_proofs ---------------------------
(***************************************************************************)
(* The connections to MCP servers and their authorization, for any set of  *)
(* callers and any number of edits, authorizations and disconnections.      *)
(***************************************************************************)
EXTENDS McpConnections, McpAuthorization, TLAPS

(* What is true of the manager between any two critical sections.  A
   connection is known by its opener, so "its opener has returned" separates
   the connections of the cache, of a caller that found one stale and of
   closeMatching from those that an opener still has.                      *)

OpenersAttempt == \A c \in Clients : where[c] \in {"opening", "opened", "failed"} <=> attempt = c

(* The cache is empty while a connection is opened, and after the shutdown.  *)
CachedIsUsed ==
  cached # Nobody =>
    /\ attempt = Nobody /\ ~stopping
    /\ cached \in open /\ where[cached] = "returned"
    /\ cached \notin closing /\ cached \notin cancelled

ClosingIsOpen == \A s \in closing : s \in open /\ where[s] = "returned"

StaleIsTaken ==
  \A c \in Clients : stale[c] # Nobody =>
    /\ where[c] \in {"opening", "waiting"}
    /\ stale[c] \in open /\ where[stale[c]] = "returned"
    /\ stale[c] \notin closing /\ stale[c] # cached
    /\ \A d \in Clients : stale[d] = stale[c] => d = c

OpenIsHeld ==
  /\ \A s \in open :
       \/ where[s] \in {"opened", "discarding"}
       \/ where[s] = "returned" /\ (s = cached \/ s \in closing \/ \E c \in Clients : stale[c] = s)
  /\ \A c \in Clients : where[c] \in {"opened", "discarding"} => c \in open

ResultsAgree ==
  \A c \in Clients : result[c] # Nobody =>
    /\ where[c] = "returned" /\ where[result[c]] = "returned"
    /\ fingerprint[result[c]] = fingerprint[c]

DrainedIsEmpty == drained => stopping /\ attempt = Nobody

Parts ==
  /\ OpenersAttempt /\ CachedIsUsed /\ ClosingIsOpen /\ StaleIsTaken /\ OpenIsHeld
  /\ ResultsAgree /\ DrainedIsEmpty

IInv == ConnectionTypeOK /\ Parts

-----------------------------------------------------------------------------
(* Every action writes values of the declared sets.                        *)
THEOREM TypeCorrect == ConnectionSpec => []ConnectionTypeOK
<1> USE ConnectionAssumption DEF ConnectionTypeOK, OrNone, Just, settings, manager, callers
<1>1. ConnectionInit => ConnectionTypeOK
  <2> SUFFICES ASSUME ConnectionInit PROVE ConnectionTypeOK
    OBVIOUS
  <2>1. version \in 0 .. MaxVersion /\ fingerprint \in [Clients -> 0 .. MaxVersion]
    BY DEF ConnectionInit
  <2>2. QED
    BY <2>1 DEF ConnectionInit
<1>2. ConnectionTypeOK /\ [ConnectionNext]_connectionVars => ConnectionTypeOK'
  <2> SUFFICES ASSUME ConnectionTypeOK, [ConnectionNext]_connectionVars PROVE ConnectionTypeOK'
    OBVIOUS
  <2>1. ASSUME NEW c \in Clients, Use(c) PROVE ConnectionTypeOK'
    BY <2>1 DEF Use
  <2>2. ASSUME NEW c \in Clients, LookUp(c) PROVE ConnectionTypeOK'
    BY <2>2 DEF LookUp, LookRefused, LookFinds, LookWaits, LookOpens, TakeStale, Matches
  <2>3. ASSUME NEW c \in Clients, CloseStale(c) PROVE ConnectionTypeOK'
    BY <2>3 DEF CloseStale
  <2>4. ASSUME NEW c \in Clients, WakeUp(c) PROVE ConnectionTypeOK'
    BY <2>4 DEF WakeUp
  <2>5. ASSUME NEW c \in Clients, OpenReturns(c) PROVE ConnectionTypeOK'
    BY <2>5 DEF OpenReturns
  <2>6. ASSUME NEW c \in Clients, Decide(c) PROVE ConnectionTypeOK'
    BY <2>6 DEF Decide, End, Keep, Reject
  <2>7. ASSUME NEW c \in Clients, Discard(c) PROVE ConnectionTypeOK'
    BY <2>7 DEF Discard
  <2>8. ASSUME NEW c \in Clients, GiveUp(c) PROVE ConnectionTypeOK'
    BY <2>8 DEF GiveUp
  <2>9. ASSUME NEW c \in Clients, HookRuns(c) PROVE ConnectionTypeOK'
    BY <2>9 DEF HookRuns
  <2>10. ASSUME NEW c \in Clients, CloseSelected(c) PROVE ConnectionTypeOK'
    BY <2>10 DEF CloseSelected
  <2>11. CASE Edit
    BY <2>11 DEF Edit
  <2>12. CASE CloseMatching
    BY <2>12 DEF CloseMatching
  <2>13. CASE Shutdown \/ ShutdownReturns
    BY <2>13 DEF Shutdown, ShutdownReturns
  <2>14. CASE UNCHANGED connectionVars
    BY <2>14 DEF connectionVars
  <2>15. QED
    BY <2>1, <2>2, <2>3, <2>4, <2>5, <2>6, <2>7, <2>8, <2>9, <2>10, <2>11, <2>12, <2>13,
       <2>14 DEF ConnectionNext, ClientStep
<1>3. QED
  BY <1>1, <1>2, PTL DEF ConnectionSpec

-----------------------------------------------------------------------------
(* The other parts of the invariant, one action at a time.                 *)
THEOREM Inductive == ConnectionSpec => []IInv
<1>1. ConnectionInit => Parts
  BY ConnectionAssumption
  DEF ConnectionInit, Parts, OpenersAttempt, CachedIsUsed, ClosingIsOpen, StaleIsTaken, OpenIsHeld,
      ResultsAgree, DrainedIsEmpty
<1>2. ConnectionTypeOK /\ ConnectionTypeOK' /\ Parts /\ [ConnectionNext]_connectionVars => Parts'
  <2> SUFFICES ASSUME ConnectionTypeOK, ConnectionTypeOK', Parts, [ConnectionNext]_connectionVars PROVE Parts'
    OBVIOUS
  <2> USE ConnectionAssumption
      DEF ConnectionTypeOK, OrNone, Just, settings, manager, callers, Parts, OpenersAttempt, CachedIsUsed, ClosingIsOpen,
          StaleIsTaken, OpenIsHeld, ResultsAgree, DrainedIsEmpty
  <2>1. ASSUME NEW c \in Clients, Use(c) PROVE Parts'
    BY <2>1 DEF Use
  <2>2. ASSUME NEW c \in Clients, LookUp(c) PROVE Parts'
    <3>1. CASE LookRefused(c)
      BY <2>2, <3>1 DEF LookUp, LookRefused
    <3>2. CASE LookFinds(c)
      BY <2>2, <3>2 DEF LookUp, LookFinds, Matches
    <3>3. CASE LookWaits(c)
      BY <2>2, <3>3 DEF LookUp, LookWaits, TakeStale
    <3>4. CASE LookOpens(c)
      BY <2>2, <3>4 DEF LookUp, LookOpens, TakeStale
    <3>5. QED
      BY <2>2, <3>1, <3>2, <3>3, <3>4 DEF LookUp
  <2>3. ASSUME NEW c \in Clients, CloseStale(c) PROVE Parts'
    BY <2>3 DEF CloseStale
  <2>4. ASSUME NEW c \in Clients, WakeUp(c) PROVE Parts'
    BY <2>4 DEF WakeUp
  <2>5. ASSUME NEW c \in Clients, OpenReturns(c) PROVE Parts'
    BY <2>5 DEF OpenReturns
  <2>6. ASSUME NEW c \in Clients, Decide(c) PROVE Parts'
    BY <2>6 DEF Decide, End, Keep, Reject, IsCancelled, ContextOver
  <2>7. ASSUME NEW c \in Clients, Discard(c) PROVE Parts'
    BY <2>7 DEF Discard
  <2>8. ASSUME NEW c \in Clients, GiveUp(c) PROVE Parts'
    BY <2>8 DEF GiveUp
  <2>9. ASSUME NEW c \in Clients, HookRuns(c) PROVE Parts'
    BY <2>9 DEF HookRuns
  <2>10. ASSUME NEW c \in Clients, CloseSelected(c) PROVE Parts'
    BY <2>10 DEF CloseSelected
  <2>11. CASE Edit
    BY <2>11 DEF Edit
  <2>12. CASE CloseMatching
    BY <2>12 DEF CloseMatching
  <2>13. CASE Shutdown
    BY <2>13 DEF Shutdown
  <2>14. CASE ShutdownReturns
    BY <2>14 DEF ShutdownReturns
  <2>15. CASE UNCHANGED connectionVars
    BY <2>15 DEF connectionVars
  <2>16. QED
    BY <2>1, <2>2, <2>3, <2>4, <2>5, <2>6, <2>7, <2>8, <2>9, <2>10, <2>11, <2>12, <2>13,
       <2>14, <2>15 DEF ConnectionNext, ClientStep
<1>3. QED
  BY <1>1, <1>2, TypeCorrect, PTL DEF ConnectionSpec, IInv

-----------------------------------------------------------------------------
(* Of the parties that may have a connection exactly one does.             *)
LEMMA OneParty == IInv => ConnectionsAreOwned
<1> SUFFICES ASSUME IInv PROVE ConnectionsAreOwned
  OBVIOUS
<1> USE ConnectionAssumption DEF IInv, Parts, ConnectionTypeOK, OrNone
<1>1. ASSUME NEW s \in open PROVE \E party \in Parties : Owners(s) = {party}
  <2>1. CASE where[s] \in {"opened", "discarding"}
    <3>1. cached # s /\ s \notin closing /\ \A c \in Clients : stale[c] # s
      BY <2>1 DEF CachedIsUsed, ClosingIsOpen, StaleIsTaken
    <3>2. Owners(s) = {"opener"}
      BY <2>1, <3>1 DEF Owners
    <3>3. QED
      BY <3>2 DEF Parties
  <2>2. CASE s = cached
    <3>1. s # Nobody
      OBVIOUS
    <3>2. where[s] \notin {"opened", "discarding"} /\ s \notin closing /\ \A c \in Clients : stale[c] # s
      BY <2>2, <3>1 DEF CachedIsUsed, StaleIsTaken
    <3>3. Owners(s) = {"cache"}
      BY <2>2, <3>2 DEF Owners
    <3>4. QED
      BY <3>3 DEF Parties
  <2>3. CASE s \in closing
    <3>1. where[s] \notin {"opened", "discarding"} /\ cached # s /\ \A c \in Clients : stale[c] # s
      BY <2>3 DEF CachedIsUsed, ClosingIsOpen, StaleIsTaken
    <3>2. Owners(s) = {"closer"}
      BY <2>3, <3>1 DEF Owners
    <3>3. QED
      BY <3>2 DEF Parties
  <2>4. ASSUME NEW c \in Clients, stale[c] = s PROVE \E party \in Parties : Owners(s) = {party}
    <3>1. /\ where[s] \notin {"opened", "discarding"} /\ s \notin closing /\ cached # s
          /\ \A d \in Clients : stale[d] = s <=> d = c
      BY <2>4 DEF StaleIsTaken
    <3>2. Owners(s) = {c}
      BY <3>1 DEF Owners
    <3>3. QED
      BY <3>2 DEF Parties
  <2>5. QED
    BY <2>1, <2>2, <2>3, <2>4 DEF OpenIsHeld
<1>2. cached # Nobody => cached \in open
  BY DEF CachedIsUsed
<1>3. \A c \in Clients : where[c] \in {"opening", "opened", "failed"} => attempt = c
  BY DEF OpenersAttempt
<1>4. QED
  BY <1>1, <1>2, <1>3 DEF ConnectionsAreOwned

(* No connection is left running unseen, closed twice or opened twice.     *)
THEOREM Owned == ConnectionSpec => []ConnectionsAreOwned
  BY Inductive, OneParty, PTL

(* No caller gets outdated settings, no closed attempt comes back, and nothing
   is cached or opened after the shutdown has returned.                    *)
THEOREM StaysClosed == ConnectionSpec => []ClosedStaysClosed
<1>1. IInv => ClosedStaysClosed
  <2> SUFFICES ASSUME IInv PROVE ClosedStaysClosed
    OBVIOUS
  <2>1. \A c \in Clients : result[c] # Nobody => fingerprint[result[c]] = fingerprint[c]
    BY DEF IInv, Parts, ResultsAgree
  <2>2. cached \notin cancelled
    BY ConnectionAssumption DEF IInv, Parts, CachedIsUsed, ConnectionTypeOK, OrNone
  <2>3. drained => cached = Nobody /\ attempt = Nobody
    BY DEF IInv, Parts, CachedIsUsed, DrainedIsEmpty
  <2>4. QED
    BY <2>1, <2>2, <2>3 DEF ClosedStaysClosed
<1>2. QED
  BY <1>1, Inductive, PTL

(* Both together, the invariant the runs check.                            *)
THEOREM Sound == ConnectionSpec => []ConnectionsAreSound
<1>1. ConnectionTypeOK /\ ConnectionsAreOwned /\ ClosedStaysClosed => ConnectionsAreSound
  BY DEF ConnectionsAreSound
<1>2. QED
  BY <1>1, TypeCorrect, Owned, StaysClosed, PTL

-----------------------------------------------------------------------------
(* Authorization.  At most one connection attempts it at a time, and what a  *)
(* flow of before a disconnection still does is bounded by what it had at    *)
(* that moment: only a connection whose callback had come can get a token.  *)

FlowStates ==
  {"none", "begun", "connecting", "challenged", "waiting", "exchanging", "granted", "kept",
   "connected", "failed", "closed", "ended", "finished"}

AuthorizationTypeOK ==
  /\ flow \in [Flows -> FlowStates]
  /\ asks \in [Flows -> Flows \cup {None}]
  /\ flowCancelled \in [Flows -> BOOLEAN]
  /\ flowState \in [Flows -> Flows \cup {None}]
  /\ callback \in [Flows -> Flows \cup {None}]
  /\ late \subseteq Flows
  /\ assigned \in Flows \cup {None}
  /\ byState \in [Flows -> Flows \cup {None}]
  /\ status \in {"none", "pending", "connected", "error"}
  /\ received \in [Flows -> Nat] /\ accepted \in [Flows -> Nat]
  /\ exchanged \subseteq Flows \X Flows
  /\ refreshToken \in BOOLEAN /\ metadata \in BOOLEAN
  /\ disconnecting \in {"no", "token", "metadata", "status"} /\ disconnects \in Nat
  /\ refreshing \in BOOLEAN /\ revoked \in BOOLEAN

OneAttempts == \A f, g \in Flows : f \in Attempting /\ g \in Attempting => f = g

(* A connection that has not chosen its state yet, or never will.          *)
Stateless(f) == flow[f] \in {"none", "begun", "connecting", "challenged"}

(* A state is known, and a callback comes, once its connection chose it, and
   a used one is forgotten.                                                *)
StatesFollowFlows ==
  /\ \A f \in Flows : Stateless(f) => byState[f] = None /\ accepted[f] = 0
  /\ \A f, g \in Flows : callback[g] = f => ~Stateless(f)
  /\ \A f \in Flows : accepted[f] # 0 => byState[f] = None

(* A connection that has, or is about to get, an answer to its code.       *)
Redeeming(f) ==
  \/ flow[f] \in {"exchanging", "granted"}
  \/ flow[f] = "waiting" /\ callback[asks[f]] = f

RedeemersAreLate == revoked => \A f \in Flows : Redeeming(f) => f \in late

(* When an older exchange keeps a token nevertheless, no connection is left
   that brings the metadata back; and where there is metadata, nothing is
   left that could keep a token.                                           *)
TokenIsStray ==
  revoked /\ disconnecting \in {"metadata", "status", "no"} /\ refreshToken =>
    \A f \in Flows : flow[f] # "begun" /\ (flow[f] = "connecting" => f \in late)

MetadataIsStray ==
  revoked /\ disconnecting \in {"status", "no"} /\ metadata =>
    ~refreshToken /\ \A f \in Flows : ~Redeeming(f)

(* Every flow that is left was cancelled, and its end says so.             *)
LeftAreCancelled ==
  revoked /\ disconnecting = "no" =>
    /\ \A f \in Flows : flow[f] \in {"none", "finished"} \/ flowCancelled[f]
    /\ status \in {"pending", "connected"} => \E f \in Flows : flow[f] \notin {"none", "finished"}

OAuthInv ==
  /\ AuthorizationTypeOK /\ StatesAreUsedOnce /\ OneAttempts /\ StatesFollowFlows
  /\ RedeemersAreLate /\ TokenIsStray /\ MetadataIsStray /\ LeftAreCancelled

(* Nothing is authorized at first.                                         *)
LEMMA OAuthInitial == OAuthInit => OAuthInv
<1> SUFFICES ASSUME OAuthInit PROVE OAuthInv
  OBVIOUS
<1> USE DEF OAuthInit
<1>1. AuthorizationTypeOK
  BY DEF AuthorizationTypeOK, FlowStates
<1>2. StatesAreUsedOnce /\ OneAttempts /\ StatesFollowFlows
  BY DEF StatesAreUsedOnce, OneAttempts, Attempting, StatesFollowFlows, None, Flows
<1>3. RedeemersAreLate /\ TokenIsStray /\ MetadataIsStray /\ LeftAreCancelled
  BY DEF RedeemersAreLate, Redeeming, TokenIsStray, MetadataIsStray, LeftAreCancelled
<1>4. QED
  BY <1>1, <1>2, <1>3 DEF OAuthInv

(* Every step of a flow's background connection.                           *)
LEMMA FlowSteps ==
  ASSUME OAuthInv, NEW f \in Flows,
         \/ Connect(f)
         \/ TokenServes(f)
         \/ Challenge(f)
         \/ Ask(f)
         \/ TakeCallback(f)
         \/ StopWaiting(f)
         \/ Exchange(f)
         \/ KeepToken(f)
         \/ SayConnected(f)
         \/ ConnectFails(f)
         \/ AttemptEnds(f)
         \/ Finish(f)
         \/ Timeout(f)
         \/ CompleteOAuth(f)
  PROVE  OAuthInv'
<1> USE DEF OAuthInv
<1>1. CASE Connect(f)
  <2>1. AuthorizationTypeOK'
    BY <1>1 DEF Connect, FlowStates, Moves, Attempting, None, Flows, browser, saved, others,
         AuthorizationTypeOK
  <2>2. StatesAreUsedOnce'
    BY <1>1 DEF Connect, Moves, Attempting, Flows, browser, saved, others, StatesAreUsedOnce
  <2>3. OneAttempts'
    BY <1>1 DEF Connect, Moves, Attempting, Flows, browser, saved, others, OneAttempts
  <2>4. StatesFollowFlows'
    BY <1>1 DEF Connect, Moves, Attempting, Stateless, None, Flows, browser, saved, others,
         StatesFollowFlows
  <2>5. RedeemersAreLate'
    BY <1>1 DEF Connect, Moves, Attempting, Redeeming, Flows, browser, saved, others,
         RedeemersAreLate
  <2>6. TokenIsStray'
    BY <1>1 DEF Connect, Moves, Attempting, Flows, browser, saved, others, TokenIsStray
  <2>7. MetadataIsStray'
    BY <1>1 DEF Connect, Moves, Attempting, Redeeming, Flows, browser, saved, others,
         MetadataIsStray
  <2>8. LeftAreCancelled'
    BY <1>1 DEF Connect, Moves, Attempting, Flows, browser, saved, others, LeftAreCancelled
  <2>9. QED
    BY <2>1, <2>2, <2>3, <2>4, <2>5, <2>6, <2>7, <2>8
<1>2. CASE TokenServes(f)
  <2>1. AuthorizationTypeOK'
    BY <1>2 DEF TokenServes, FlowStates, Moves, None, Flows, browser, saved, others,
         AuthorizationTypeOK
  <2>2. StatesAreUsedOnce'
    BY <1>2 DEF TokenServes, Moves, Flows, browser, saved, others, StatesAreUsedOnce
  <2>3. OneAttempts'
    BY <1>2 DEF TokenServes, Moves, Attempting, Flows, browser, saved, others, OneAttempts
  <2>4. StatesFollowFlows'
    BY <1>2 DEF TokenServes, Moves, Stateless, None, Flows, browser, saved, others,
         StatesFollowFlows
  <2>5. RedeemersAreLate'
    BY <1>2 DEF TokenServes, Moves, Redeeming, Flows, browser, saved, others, RedeemersAreLate
  <2>6. TokenIsStray'
    BY <1>2 DEF TokenServes, Moves, Flows, browser, saved, others, TokenIsStray
  <2>7. MetadataIsStray'
    BY <1>2 DEF TokenServes, Moves, Redeeming, Flows, browser, saved, others, MetadataIsStray
  <2>8. LeftAreCancelled'
    BY <1>2 DEF TokenServes, Moves, Flows, browser, saved, others, LeftAreCancelled
  <2>9. QED
    BY <2>1, <2>2, <2>3, <2>4, <2>5, <2>6, <2>7, <2>8
<1>3. CASE Challenge(f)
  <2>1. AuthorizationTypeOK'
    BY <1>3 DEF Challenge, FlowStates, Moves, None, Flows, coordinator, browser, others,
         AuthorizationTypeOK
  <2>2. StatesAreUsedOnce'
    BY <1>3 DEF Challenge, Moves, Flows, coordinator, browser, others, StatesAreUsedOnce
  <2>3. OneAttempts'
    BY <1>3 DEF Challenge, Moves, Attempting, Flows, coordinator, browser, others, OneAttempts
  <2>4. StatesFollowFlows'
    BY <1>3 DEF Challenge, Moves, Stateless, None, Flows, coordinator, browser, others,
         StatesFollowFlows
  <2>5. RedeemersAreLate'
    BY <1>3 DEF Challenge, Moves, Redeeming, Flows, coordinator, browser, others,
         RedeemersAreLate
  <2>6. TokenIsStray'
    BY <1>3 DEF Challenge, Moves, Flows, coordinator, browser, others, TokenIsStray
  <2>7. MetadataIsStray'
    BY <1>3, AuthorizationAssumption, ZenonT(60) DEF Challenge, AuthorizationTypeOK, StatesAreUsedOnce,
         OneAttempts, StatesFollowFlows, RedeemersAreLate, TokenIsStray, MetadataIsStray,
         LeftAreCancelled, FlowStates, Moves, Attempting, Stateless, Redeeming, WaitOver,
         StatusAfter, StatesAfter, None, Flows, flowVars, coordinator, browser, saved, others
  <2>8. LeftAreCancelled'
    BY <1>3 DEF Challenge, Moves, Flows, coordinator, browser, others, LeftAreCancelled
  <2>9. QED
    BY <2>1, <2>2, <2>3, <2>4, <2>5, <2>6, <2>7, <2>8
<1>4. CASE Ask(f)
  <2>1. /\ flow[f] = "challenged" /\ flow' \in [Flows -> FlowStates] /\ flow'[f] \in {"waiting", "failed"}
        /\ \A g \in Flows : g # f => flow'[g] = flow[g]
        /\ UNCHANGED <<flowCancelled, callback, late, assigned, status, received, accepted, exchanged,
                       refreshToken, metadata, disconnecting, disconnects, refreshing, revoked>>
    BY <1>4 DEF Ask, Moves, FlowStates, browser, saved, others, AuthorizationTypeOK
  <2>2. /\ asks' \in [Flows -> Flows \cup {None}] /\ flowState' \in [Flows -> Flows \cup {None}]
        /\ byState' \in [Flows -> Flows \cup {None}]
        /\ \A g \in Flows : g # f => asks'[g] = asks[g] /\ byState'[g] = byState[g]
    BY <1>4 DEF Ask, AuthorizationTypeOK, None
  <2>3. \A g \in Flows : Stateless(g)' => Stateless(g) /\ g # f
    BY <2>1 DEF Stateless
  <2>4. \A g \in Flows : ~Stateless(g) => ~Stateless(g)'
    BY <2>1 DEF Stateless
  <2>5. \A g \in Flows : Redeeming(g)' => Redeeming(g) /\ g # f
    <3>1. \A g \in Flows : callback[g] # f
      BY <2>1 DEF StatesFollowFlows, Stateless
    <3>2. Redeeming(f)' => asks'[f] \in Flows
      BY <1>4, <2>1 DEF Ask, Redeeming, AuthorizationTypeOK, Moves, None
    <3>3. ~Redeeming(f)'
      BY <2>1, <3>1, <3>2 DEF Redeeming
    <3>4. QED
      BY <2>1, <2>2, <3>3 DEF Redeeming
  <2>6. AuthorizationTypeOK'
    BY <2>1, <2>2 DEF AuthorizationTypeOK
  <2>7. StatesAreUsedOnce'
    BY <2>1 DEF StatesAreUsedOnce
  <2>8. OneAttempts'
    BY <2>1 DEF OneAttempts, Attempting
  <2>9. StatesFollowFlows'
    <3>1. \A g \in Flows : Stateless(g)' => byState'[g] = None /\ accepted'[g] = 0
      BY <2>1, <2>2, <2>3 DEF StatesFollowFlows
    <3>2. \A g, h \in Flows : callback'[h] = g => ~Stateless(g)'
      BY <2>1, <2>4 DEF StatesFollowFlows
    <3>3. \A g \in Flows : accepted'[g] # 0 => byState'[g] = None
      BY <2>1, <2>2 DEF StatesFollowFlows, Stateless
    <3>4. QED
      BY <3>1, <3>2, <3>3 DEF StatesFollowFlows
  <2>10. RedeemersAreLate' /\ TokenIsStray'
    BY <2>1, <2>5 DEF RedeemersAreLate, TokenIsStray
  <2>11. MetadataIsStray' /\ LeftAreCancelled'
    BY <2>1, <2>5 DEF MetadataIsStray, LeftAreCancelled
  <2>12. QED
    BY <2>6, <2>7, <2>8, <2>9, <2>10, <2>11
<1>5. CASE TakeCallback(f)
  <2>1. /\ flow[f] = "waiting" /\ flow' \in [Flows -> FlowStates] /\ flow'[f] \in {"exchanging", "failed"}
        /\ \A g \in Flows : g # f => flow'[g] = flow[g]
        /\ flow'[f] = "exchanging" => callback[asks[f]] = f
        /\ UNCHANGED <<asks, flowCancelled, flowState, late, assigned, byState, status, received, accepted,
                       refreshToken, metadata, disconnecting, disconnects, refreshing, revoked>>
    BY <1>5 DEF TakeCallback, Moves, FlowStates, coordinator, saved, others, AuthorizationTypeOK
  <2>2. /\ exchanged' \subseteq Flows \X Flows /\ \A e \in exchanged' : e \in exchanged \/ e = <<f, f>>
    BY <1>5 DEF TakeCallback, AuthorizationTypeOK
  <2>3. /\ callback' \in [Flows -> Flows \cup {None}]
        /\ \A g \in Flows : callback'[g] = callback[g] \/ callback'[g] = None
        /\ None \notin Flows
    <3>1. callback' = [callback EXCEPT ![asks[f]] = None] /\ None \in Flows \cup {None}
      BY <1>5 DEF TakeCallback
    <3>2. None \notin Flows
      BY DEF None, Flows
    <3>3. QED
      BY <3>1, <3>2 DEF AuthorizationTypeOK
  <2>4. \A g \in Flows : Stateless(g)' <=> Stateless(g)
    BY <2>1 DEF Stateless
  <2>5. \A g \in Flows : Redeeming(g)' => Redeeming(g)
    <3>1. \A g \in Flows : asks[g] \in Flows \/ asks[g] \notin DOMAIN callback
      BY DEF AuthorizationTypeOK
    <3>2. \A g \in Flows : callback'[asks[g]] = g => callback[asks[g]] = g
      BY <1>5, <2>3, <3>1 DEF TakeCallback, AuthorizationTypeOK
    <3>3. QED
      BY <2>1, <3>2 DEF Redeeming
  <2>6. AuthorizationTypeOK'
    BY <2>1, <2>2, <2>3 DEF AuthorizationTypeOK
  <2>7. StatesAreUsedOnce'
    BY <2>1, <2>2 DEF StatesAreUsedOnce
  <2>8. OneAttempts'
    BY <2>1 DEF OneAttempts, Attempting
  <2>9. StatesFollowFlows'
    BY <2>1, <2>3, <2>4 DEF StatesFollowFlows
  <2>10. RedeemersAreLate' /\ TokenIsStray'
    BY <2>1, <2>5 DEF RedeemersAreLate, TokenIsStray
  <2>11. MetadataIsStray' /\ LeftAreCancelled'
    BY <2>1, <2>5 DEF MetadataIsStray, LeftAreCancelled
  <2>12. QED
    BY <2>6, <2>7, <2>8, <2>9, <2>10, <2>11
<1>6. CASE StopWaiting(f)
  <2>1. AuthorizationTypeOK'
    BY <1>6 DEF StopWaiting, FlowStates, Moves, WaitOver, None, Flows, coordinator, browser,
         saved, others, AuthorizationTypeOK
  <2>2. StatesAreUsedOnce'
    BY <1>6 DEF StopWaiting, Moves, WaitOver, Flows, coordinator, browser, saved, others,
         StatesAreUsedOnce
  <2>3. OneAttempts'
    BY <1>6 DEF StopWaiting, Moves, Attempting, WaitOver, Flows, coordinator, browser, saved,
         others, OneAttempts
  <2>4. StatesFollowFlows'
    BY <1>6 DEF StopWaiting, Moves, Stateless, WaitOver, None, Flows, coordinator, browser,
         saved, others, StatesFollowFlows
  <2>5. RedeemersAreLate'
    BY <1>6 DEF StopWaiting, Moves, Redeeming, WaitOver, Flows, coordinator, browser, saved,
         others, RedeemersAreLate
  <2>6. TokenIsStray'
    BY <1>6 DEF StopWaiting, Moves, WaitOver, Flows, coordinator, browser, saved, others,
         TokenIsStray
  <2>7. MetadataIsStray'
    BY <1>6 DEF StopWaiting, Moves, Redeeming, WaitOver, Flows, coordinator, browser, saved,
         others, MetadataIsStray
  <2>8. LeftAreCancelled'
    BY <1>6 DEF StopWaiting, Moves, WaitOver, Flows, coordinator, browser, saved, others,
         LeftAreCancelled
  <2>9. QED
    BY <2>1, <2>2, <2>3, <2>4, <2>5, <2>6, <2>7, <2>8
<1>7. CASE Exchange(f)
  <2>1. AuthorizationTypeOK'
    BY <1>7, AuthorizationAssumption, SMTT(30) DEF Exchange, AuthorizationTypeOK, StatesAreUsedOnce,
         OneAttempts, StatesFollowFlows, RedeemersAreLate, TokenIsStray, MetadataIsStray,
         LeftAreCancelled, FlowStates, Moves, Attempting, Stateless, Redeeming, WaitOver,
         StatusAfter, StatesAfter, None, Flows, flowVars, coordinator, browser, saved, others
  <2>2. StatesAreUsedOnce'
    BY <1>7 DEF Exchange, Moves, Flows, coordinator, browser, saved, others, StatesAreUsedOnce
  <2>3. OneAttempts'
    <3>1. flow[f] = "exchanging" /\ \A g \in Flows : g # f => flow'[g] = flow[g]
      BY <1>7 DEF Exchange, Moves, AuthorizationTypeOK
    <3>2. QED
      BY <3>1 DEF OneAttempts, Attempting
  <2>4. StatesFollowFlows'
    BY <1>7 DEF Exchange, FlowStates, Moves, Stateless, Redeeming, None, Flows, coordinator,
         browser, saved, others, StatesFollowFlows, AuthorizationTypeOK, RedeemersAreLate
  <2>5. RedeemersAreLate'
    BY <1>7 DEF Exchange, FlowStates, Moves, Redeeming, None, Flows, coordinator, browser, saved,
         others, RedeemersAreLate, AuthorizationTypeOK
  <2>6. TokenIsStray'
    BY <1>7 DEF Exchange, FlowStates, Moves, None, Flows, coordinator, browser, saved, others,
         TokenIsStray, AuthorizationTypeOK
  <2>7. MetadataIsStray'
    BY <1>7 DEF Exchange, Moves, Redeeming, Flows, coordinator, browser, saved, others,
         MetadataIsStray
  <2>8. LeftAreCancelled'
    <3>1. /\ flow[f] = "exchanging" /\ flow'[f] \in {"granted", "failed"}
          /\ \A g \in Flows : g # f => flow'[g] = flow[g]
          /\ UNCHANGED <<flowCancelled, status, disconnecting, revoked>>
      BY <1>7 DEF Exchange, Moves, coordinator, others, AuthorizationTypeOK
    <3>2. QED
      BY <3>1 DEF LeftAreCancelled
  <2>9. QED
    BY <2>1, <2>2, <2>3, <2>4, <2>5, <2>6, <2>7, <2>8
<1>8. CASE KeepToken(f)
  <2>1. AuthorizationTypeOK'
    BY <1>8 DEF KeepToken, FlowStates, Moves, None, Flows, coordinator, browser, others,
         AuthorizationTypeOK
  <2>2. StatesAreUsedOnce'
    BY <1>8 DEF KeepToken, Moves, Flows, coordinator, browser, others, StatesAreUsedOnce
  <2>3. OneAttempts'
    BY <1>8 DEF KeepToken, Moves, Attempting, Flows, coordinator, browser, others, OneAttempts
  <2>4. StatesFollowFlows'
    BY <1>8 DEF KeepToken, Moves, Stateless, None, Flows, coordinator, browser, others,
         StatesFollowFlows
  <2>5. RedeemersAreLate'
    BY <1>8 DEF KeepToken, FlowStates, Moves, Redeeming, None, Flows, coordinator, browser,
         others, RedeemersAreLate, AuthorizationTypeOK
  <2>6. TokenIsStray'
    BY <1>8 DEF KeepToken, FlowStates, Moves, Attempting, None, Flows, coordinator, browser,
         others, TokenIsStray, AuthorizationTypeOK, OneAttempts
  <2>7. MetadataIsStray'
    BY <1>8 DEF KeepToken, Moves, Redeeming, Flows, coordinator, browser, others, MetadataIsStray
  <2>8. LeftAreCancelled'
    BY <1>8 DEF KeepToken, FlowStates, Moves, None, Flows, coordinator, browser, others,
         LeftAreCancelled, AuthorizationTypeOK
  <2>9. QED
    BY <2>1, <2>2, <2>3, <2>4, <2>5, <2>6, <2>7, <2>8
<1>9. CASE SayConnected(f)
  <2>1. AuthorizationTypeOK'
    BY <1>9 DEF SayConnected, FlowStates, Moves, None, Flows, browser, saved, others,
         AuthorizationTypeOK
  <2>2. StatesAreUsedOnce'
    BY <1>9 DEF SayConnected, Moves, Flows, browser, saved, others, StatesAreUsedOnce
  <2>3. OneAttempts'
    BY <1>9 DEF SayConnected, Moves, Attempting, Flows, browser, saved, others, OneAttempts
  <2>4. StatesFollowFlows'
    BY <1>9 DEF SayConnected, Moves, Stateless, None, Flows, browser, saved, others,
         StatesFollowFlows
  <2>5. RedeemersAreLate'
    BY <1>9 DEF SayConnected, Moves, Redeeming, Flows, browser, saved, others, RedeemersAreLate
  <2>6. TokenIsStray'
    BY <1>9 DEF SayConnected, Moves, Flows, browser, saved, others, TokenIsStray
  <2>7. MetadataIsStray'
    BY <1>9 DEF SayConnected, Moves, Redeeming, Flows, browser, saved, others, MetadataIsStray
  <2>8. LeftAreCancelled'
    BY <1>9 DEF SayConnected, Moves, Flows, browser, saved, others, LeftAreCancelled
  <2>9. QED
    BY <2>1, <2>2, <2>3, <2>4, <2>5, <2>6, <2>7, <2>8
<1>10. CASE ConnectFails(f)
  <2>1. AuthorizationTypeOK'
    BY <1>10 DEF ConnectFails, FlowStates, Moves, None, Flows, coordinator, browser, saved,
         others, AuthorizationTypeOK
  <2>2. StatesAreUsedOnce'
    BY <1>10 DEF ConnectFails, Moves, Flows, coordinator, browser, saved, others,
         StatesAreUsedOnce
  <2>3. OneAttempts'
    BY <1>10 DEF ConnectFails, Moves, Attempting, Flows, coordinator, browser, saved, others,
         OneAttempts
  <2>4. StatesFollowFlows'
    BY <1>10 DEF ConnectFails, Moves, Stateless, None, Flows, coordinator, browser, saved,
         others, StatesFollowFlows
  <2>5. RedeemersAreLate'
    BY <1>10 DEF ConnectFails, Moves, Redeeming, Flows, coordinator, browser, saved, others,
         RedeemersAreLate
  <2>6. TokenIsStray'
    BY <1>10 DEF ConnectFails, Moves, Flows, coordinator, browser, saved, others, TokenIsStray
  <2>7. MetadataIsStray'
    BY <1>10 DEF ConnectFails, Moves, Redeeming, Flows, coordinator, browser, saved, others,
         MetadataIsStray
  <2>8. LeftAreCancelled'
    BY <1>10 DEF ConnectFails, Moves, Flows, coordinator, browser, saved, others,
         LeftAreCancelled
  <2>9. QED
    BY <2>1, <2>2, <2>3, <2>4, <2>5, <2>6, <2>7, <2>8
<1>11. CASE AttemptEnds(f)
  <2>1. AuthorizationTypeOK'
    BY <1>11 DEF AttemptEnds, FlowStates, Moves, None, Flows, coordinator, browser, saved,
         others, AuthorizationTypeOK
  <2>2. StatesAreUsedOnce'
    BY <1>11 DEF AttemptEnds, Moves, Flows, coordinator, browser, saved, others,
         StatesAreUsedOnce
  <2>3. OneAttempts'
    BY <1>11 DEF AttemptEnds, Moves, Attempting, Flows, coordinator, browser, saved, others,
         OneAttempts
  <2>4. StatesFollowFlows'
    BY <1>11 DEF AttemptEnds, Moves, Stateless, None, Flows, coordinator, browser, saved, others,
         StatesFollowFlows
  <2>5. RedeemersAreLate'
    BY <1>11 DEF AttemptEnds, Moves, Redeeming, Flows, coordinator, browser, saved, others,
         RedeemersAreLate
  <2>6. TokenIsStray'
    BY <1>11 DEF AttemptEnds, Moves, Flows, coordinator, browser, saved, others, TokenIsStray
  <2>7. MetadataIsStray'
    BY <1>11 DEF AttemptEnds, Moves, Redeeming, Flows, coordinator, browser, saved, others,
         MetadataIsStray
  <2>8. LeftAreCancelled'
    BY <1>11 DEF AttemptEnds, Moves, Flows, coordinator, browser, saved, others, LeftAreCancelled
  <2>9. QED
    BY <2>1, <2>2, <2>3, <2>4, <2>5, <2>6, <2>7, <2>8
<1>12. CASE Finish(f)
  <2>1. AuthorizationTypeOK'
    BY <1>12 DEF Finish, FlowStates, Moves, StatusAfter, None, Flows, browser, saved, others,
         AuthorizationTypeOK
  <2>2. StatesAreUsedOnce'
    BY <1>12 DEF Finish, Moves, StatusAfter, None, Flows, browser, saved, others,
         StatesAreUsedOnce
  <2>3. OneAttempts'
    BY <1>12 DEF Finish, Moves, Attempting, StatusAfter, None, Flows, browser, saved, others,
         OneAttempts
  <2>4. StatesFollowFlows'
    BY <1>12 DEF Finish, Moves, Stateless, StatusAfter, None, Flows, browser, saved, others,
         StatesFollowFlows
  <2>5. RedeemersAreLate'
    BY <1>12 DEF Finish, Moves, Redeeming, StatusAfter, None, Flows, browser, saved, others,
         RedeemersAreLate
  <2>6. TokenIsStray'
    BY <1>12 DEF Finish, Moves, StatusAfter, None, Flows, browser, saved, others, TokenIsStray
  <2>7. MetadataIsStray'
    BY <1>12 DEF Finish, Moves, Redeeming, StatusAfter, None, Flows, browser, saved, others,
         MetadataIsStray
  <2>8. LeftAreCancelled'
    BY <1>12 DEF Finish, Moves, StatusAfter, None, Flows, browser, saved, others,
         LeftAreCancelled
  <2>9. QED
    BY <2>1, <2>2, <2>3, <2>4, <2>5, <2>6, <2>7, <2>8
<1>13. CASE Timeout(f)
  <2>1. AuthorizationTypeOK'
    BY <1>13 DEF Timeout, FlowStates, Attempting, None, Flows, coordinator, browser, saved,
         others, AuthorizationTypeOK, LeftAreCancelled
  <2>2. StatesAreUsedOnce'
    BY <1>13 DEF Timeout, Attempting, Flows, coordinator, browser, saved, others,
         StatesAreUsedOnce
  <2>3. OneAttempts'
    BY <1>13 DEF Timeout, Attempting, Flows, coordinator, browser, saved, others, OneAttempts
  <2>4. StatesFollowFlows'
    BY <1>13 DEF Timeout, Attempting, Stateless, None, Flows, coordinator, browser, saved,
         others, StatesFollowFlows
  <2>5. RedeemersAreLate'
    BY <1>13 DEF Timeout, Attempting, Redeeming, Flows, coordinator, browser, saved, others,
         RedeemersAreLate
  <2>6. TokenIsStray'
    BY <1>13 DEF Timeout, Attempting, Flows, coordinator, browser, saved, others, TokenIsStray
  <2>7. MetadataIsStray'
    BY <1>13 DEF Timeout, Attempting, Redeeming, Flows, coordinator, browser, saved, others,
         MetadataIsStray
  <2>8. LeftAreCancelled'
    BY <1>13 DEF Timeout, Attempting, Flows, coordinator, browser, saved, others,
         LeftAreCancelled
  <2>9. QED
    BY <2>1, <2>2, <2>3, <2>4, <2>5, <2>6, <2>7, <2>8
<1>14. CASE CompleteOAuth(f)
  <2>1. /\ UNCHANGED <<flow, asks, flowCancelled, flowState, late, assigned, status, exchanged, refreshToken,
                       metadata, disconnecting, disconnects, refreshing>>
        /\ received' \in [Flows -> Nat]
        /\ revoked' = FALSE \/ UNCHANGED <<callback, revoked>>
    BY <1>14 DEF CompleteOAuth, AuthorizationTypeOK, saved, others
  <2>2. CASE byState[f] # None /\ callback[byState[f]] = None
    <3>1. /\ byState[f] \in Flows
          /\ byState' = [byState EXCEPT ![f] = None] /\ callback' = [callback EXCEPT ![byState[f]] = f]
          /\ accepted' = [accepted EXCEPT ![f] = @ + 1] /\ revoked' = FALSE
      BY <1>14, <2>2 DEF CompleteOAuth, StatesAfter, AuthorizationTypeOK
    <3>2. accepted[f] = 0 /\ accepted'[f] = 1 /\ ~Stateless(f)
      BY <2>2, <3>1 DEF StatesFollowFlows, AuthorizationTypeOK
    <3>3. /\ byState' \in [Flows -> Flows \cup {None}] /\ callback' \in [Flows -> Flows \cup {None}]
          /\ accepted' \in [Flows -> Nat] /\ revoked' \in BOOLEAN
      <4>1. revoked' \in BOOLEAN
        BY <3>1, Zenon
      <4>2. QED
        BY <3>1, <3>2, <4>1 DEF AuthorizationTypeOK
    <3>4. AuthorizationTypeOK'
      BY <2>1, <3>3 DEF AuthorizationTypeOK
    <3>5. StatesAreUsedOnce'
      BY <2>1, <3>1, <3>2 DEF StatesAreUsedOnce, AuthorizationTypeOK
    <3>6. StatesFollowFlows'
      <4>1. \A g \in Flows : Stateless(g)' <=> Stateless(g)
        BY <2>1 DEF Stateless
      <4>2. \A g \in Flows : g # f => accepted'[g] = accepted[g] /\ byState'[g] = byState[g]
        BY <3>1 DEF AuthorizationTypeOK
      <4>3. \A g \in Flows : callback'[g] = callback[g] \/ callback'[g] = f
        BY <3>1 DEF AuthorizationTypeOK
      <4>4. byState'[f] = None
        BY <3>1 DEF AuthorizationTypeOK
      <4>5. QED
        BY <3>2, <4>1, <4>2, <4>3, <4>4 DEF StatesFollowFlows
    <3>7. QED
      BY <2>1, <3>1, <3>4, <3>5, <3>6 DEF Attempting, OneAttempts, RedeemersAreLate,
           TokenIsStray, MetadataIsStray, LeftAreCancelled
  <2>3. CASE ~(byState[f] # None /\ callback[byState[f]] = None)
    <3>1. UNCHANGED <<byState, callback, accepted, revoked>>
      BY <1>14, <2>3 DEF CompleteOAuth
    <3>2. AuthorizationTypeOK' /\ StatesAreUsedOnce'
      BY <2>1, <3>1 DEF AuthorizationTypeOK, StatesAreUsedOnce
    <3>3. OneAttempts' /\ StatesFollowFlows'
      BY <2>1, <3>1 DEF OneAttempts, Attempting, StatesFollowFlows, Stateless
    <3>4. RedeemersAreLate' /\ TokenIsStray' /\ MetadataIsStray' /\ LeftAreCancelled'
      BY <2>1, <3>1 DEF RedeemersAreLate, TokenIsStray, MetadataIsStray, LeftAreCancelled, Redeeming
    <3>5. QED
      BY <3>2, <3>3, <3>4
  <2>4. QED
    BY <2>2, <2>3
<1>15. QED
  BY <1>1, <1>2, <1>3, <1>4, <1>5, <1>6, <1>7, <1>8, <1>9, <1>10, <1>11, <1>12, <1>13, <1>14

(* What the user, the browser and a session's connection do.               *)
LEMMA UserSteps ==
  ASSUME OAuthInv,
         \/ StartOAuth
         \/ DisconnectCloses
         \/ DisconnectDeletes
         \/ Disconnected
         \/ Refresh
         \/ Refreshed
         \/ UNCHANGED oauthVars
  PROVE  OAuthInv'
<1> USE DEF OAuthInv
<1>1. CASE StartOAuth
  <2>1. /\ late \subseteq late' /\ late' \subseteq Flows
        /\ UNCHANGED <<asks, flowCancelled, flowState, callback, byState, received, accepted, exchanged,
                       refreshToken, metadata, disconnecting, disconnects, refreshing>>
    BY <1>1 DEF StartOAuth, Attempting, browser, saved, others, AuthorizationTypeOK
  <2>2. CASE assigned = None
    <3>1. PICK f \in Flows : /\ flow[f] = "none" /\ flow' = [flow EXCEPT ![f] = "begun"]
                            /\ assigned' = f /\ status' = "pending" /\ revoked' = FALSE
      BY <1>1, <2>2 DEF StartOAuth, Moves
    <3>2. /\ flow' \in [Flows -> FlowStates] /\ flow'[f] = "begun"
          /\ \A g \in Flows : g # f => flow'[g] = flow[g]
      BY <3>1 DEF AuthorizationTypeOK, FlowStates
    <3>3. \A g \in Flows : Stateless(g)' <=> Stateless(g)
      BY <3>1, <3>2 DEF Stateless
    <3>4. revoked' \in BOOLEAN
      BY <3>1, Zenon
    <3>5. AuthorizationTypeOK' /\ StatesAreUsedOnce'
      BY <2>1, <3>1, <3>2, <3>4 DEF AuthorizationTypeOK, StatesAreUsedOnce
    <3>6. OneAttempts' /\ StatesFollowFlows'
      BY <2>1, <3>2, <3>3 DEF OneAttempts, Attempting, StatesFollowFlows
    <3>7. QED
      BY <3>1, <3>5, <3>6 DEF RedeemersAreLate, TokenIsStray, MetadataIsStray, LeftAreCancelled
  <2>3. CASE assigned # None
    <3>1. UNCHANGED <<assigned, status, revoked, flow>>
      BY <1>1, <2>3 DEF StartOAuth
    <3>2. AuthorizationTypeOK' /\ StatesAreUsedOnce'
      BY <2>1, <3>1 DEF AuthorizationTypeOK, StatesAreUsedOnce
    <3>3. OneAttempts' /\ StatesFollowFlows'
      BY <2>1, <3>1 DEF OneAttempts, Attempting, StatesFollowFlows, Stateless
    <3>4. RedeemersAreLate' /\ TokenIsStray' /\ MetadataIsStray' /\ LeftAreCancelled'
      BY <2>1, <3>1 DEF RedeemersAreLate, TokenIsStray, MetadataIsStray, LeftAreCancelled, Redeeming
    <3>5. QED
      BY <3>2, <3>3, <3>4
  <2>4. QED
    BY <2>2, <2>3
<1>2. CASE DisconnectCloses
  <2>1. AuthorizationTypeOK'
    <3>1. /\ late' \subseteq Flows /\ disconnecting' = "token" /\ disconnects' \in Nat
          /\ UNCHANGED <<flow, asks, flowCancelled, flowState, callback, assigned, byState, status, received,
                         accepted, exchanged, refreshToken, metadata, refreshing>>
      BY <1>2 DEF DisconnectCloses, Attempting, coordinator, browser, saved, AuthorizationTypeOK
    <3>2. revoked' \in BOOLEAN
      BY <1>2, Zenon DEF DisconnectCloses
    <3>3. QED
      BY <3>1, <3>2 DEF AuthorizationTypeOK
  <2>2. StatesAreUsedOnce'
    BY <1>2 DEF DisconnectCloses, Attempting, Flows, coordinator, browser, saved,
         StatesAreUsedOnce
  <2>3. OneAttempts'
    BY <1>2 DEF DisconnectCloses, Attempting, Flows, coordinator, browser, saved, OneAttempts
  <2>4. StatesFollowFlows'
    BY <1>2 DEF DisconnectCloses, Attempting, Stateless, None, Flows, coordinator, browser,
         saved, StatesFollowFlows
  <2>5. RedeemersAreLate'
    BY <1>2 DEF DisconnectCloses, Attempting, Redeeming, Flows, coordinator, browser, saved,
         RedeemersAreLate
  <2>6. TokenIsStray'
    BY <1>2 DEF DisconnectCloses, Attempting, Flows, coordinator, browser, saved, TokenIsStray
  <2>7. MetadataIsStray'
    BY <1>2 DEF DisconnectCloses, Attempting, Redeeming, Flows, coordinator, browser, saved,
         MetadataIsStray
  <2>8. LeftAreCancelled'
    BY <1>2 DEF DisconnectCloses, Attempting, Flows, coordinator, browser, saved,
         LeftAreCancelled
  <2>9. QED
    BY <2>1, <2>2, <2>3, <2>4, <2>5, <2>6, <2>7, <2>8
<1>3. CASE DisconnectDeletes
  <2>1. AuthorizationTypeOK'
    BY <1>3 DEF DisconnectDeletes, FlowStates, None, Flows, flowVars, coordinator, browser,
         AuthorizationTypeOK
  <2>2. StatesAreUsedOnce'
    BY <1>3 DEF DisconnectDeletes, Flows, flowVars, coordinator, browser, StatesAreUsedOnce
  <2>3. OneAttempts'
    BY <1>3 DEF DisconnectDeletes, Attempting, Flows, flowVars, coordinator, browser, OneAttempts
  <2>4. StatesFollowFlows'
    BY <1>3 DEF DisconnectDeletes, Stateless, None, Flows, flowVars, coordinator, browser,
         StatesFollowFlows
  <2>5. RedeemersAreLate'
    BY <1>3 DEF DisconnectDeletes, Redeeming, Flows, flowVars, coordinator, browser,
         RedeemersAreLate
  <2>6. TokenIsStray'
    BY <1>3 DEF DisconnectDeletes, Flows, flowVars, coordinator, browser, TokenIsStray
  <2>7. MetadataIsStray'
    BY <1>3 DEF DisconnectDeletes, Redeeming, Flows, flowVars, coordinator, browser,
         MetadataIsStray
  <2>8. LeftAreCancelled'
    BY <1>3 DEF DisconnectDeletes, Flows, flowVars, coordinator, browser, LeftAreCancelled
  <2>9. QED
    BY <2>1, <2>2, <2>3, <2>4, <2>5, <2>6, <2>7, <2>8
<1>4. CASE Disconnected
  <2>1. AuthorizationTypeOK'
    BY <1>4 DEF Disconnected, FlowStates, None, Flows, browser, saved, AuthorizationTypeOK
  <2>2. StatesAreUsedOnce'
    BY <1>4 DEF Disconnected, None, Flows, browser, saved, StatesAreUsedOnce
  <2>3. OneAttempts'
    BY <1>4 DEF Disconnected, Attempting, None, Flows, browser, saved, OneAttempts
  <2>4. StatesFollowFlows'
    BY <1>4 DEF Disconnected, Stateless, None, Flows, browser, saved, StatesFollowFlows
  <2>5. RedeemersAreLate'
    BY <1>4 DEF Disconnected, Redeeming, None, Flows, browser, saved, RedeemersAreLate
  <2>6. TokenIsStray'
    BY <1>4 DEF Disconnected, None, Flows, browser, saved, TokenIsStray
  <2>7. MetadataIsStray'
    BY <1>4 DEF Disconnected, Redeeming, None, Flows, browser, saved, MetadataIsStray
  <2>8. LeftAreCancelled'
    BY <1>4 DEF Disconnected, None, Flows, browser, saved, LeftAreCancelled
  <2>9. QED
    BY <2>1, <2>2, <2>3, <2>4, <2>5, <2>6, <2>7, <2>8
<1>5. CASE Refresh
  <2>1. AuthorizationTypeOK'
    BY <1>5 DEF Refresh, FlowStates, None, Flows, flowVars, coordinator, browser, saved,
         AuthorizationTypeOK
  <2>2. StatesAreUsedOnce'
    BY <1>5 DEF Refresh, Flows, flowVars, coordinator, browser, saved, StatesAreUsedOnce
  <2>3. OneAttempts'
    BY <1>5 DEF Refresh, Attempting, Flows, flowVars, coordinator, browser, saved, OneAttempts
  <2>4. StatesFollowFlows'
    BY <1>5 DEF Refresh, Stateless, None, Flows, flowVars, coordinator, browser, saved,
         StatesFollowFlows
  <2>5. RedeemersAreLate'
    BY <1>5 DEF Refresh, Redeeming, Flows, flowVars, coordinator, browser, saved,
         RedeemersAreLate
  <2>6. TokenIsStray'
    BY <1>5 DEF Refresh, Flows, flowVars, coordinator, browser, saved, TokenIsStray
  <2>7. MetadataIsStray'
    BY <1>5 DEF Refresh, Redeeming, Flows, flowVars, coordinator, browser, saved, MetadataIsStray
  <2>8. LeftAreCancelled'
    BY <1>5 DEF Refresh, Flows, flowVars, coordinator, browser, saved, LeftAreCancelled
  <2>9. QED
    BY <2>1, <2>2, <2>3, <2>4, <2>5, <2>6, <2>7, <2>8
<1>6. CASE Refreshed
  <2>1. AuthorizationTypeOK'
    BY <1>6 DEF Refreshed, FlowStates, None, Flows, flowVars, browser, AuthorizationTypeOK
  <2>2. StatesAreUsedOnce'
    BY <1>6 DEF Refreshed, Flows, flowVars, browser, StatesAreUsedOnce
  <2>3. OneAttempts'
    BY <1>6 DEF Refreshed, Attempting, Flows, flowVars, browser, OneAttempts
  <2>4. StatesFollowFlows'
    BY <1>6 DEF Refreshed, Stateless, None, Flows, flowVars, browser, StatesFollowFlows
  <2>5. RedeemersAreLate'
    BY <1>6 DEF Refreshed, Redeeming, Flows, flowVars, browser, RedeemersAreLate
  <2>6. TokenIsStray'
    BY <1>6 DEF Refreshed, Flows, flowVars, browser, TokenIsStray
  <2>7. MetadataIsStray'
    BY <1>6 DEF Refreshed, Redeeming, Flows, flowVars, browser, MetadataIsStray
  <2>8. LeftAreCancelled'
    BY <1>6 DEF Refreshed, Flows, flowVars, browser, LeftAreCancelled
  <2>9. QED
    BY <2>1, <2>2, <2>3, <2>4, <2>5, <2>6, <2>7, <2>8
<1>7. CASE UNCHANGED oauthVars
  <2>1. AuthorizationTypeOK'
    BY <1>7 DEF oauthVars, FlowStates, None, Flows, flowVars, coordinator, browser, saved,
         others, AuthorizationTypeOK
  <2>2. StatesAreUsedOnce'
    BY <1>7 DEF oauthVars, Flows, flowVars, coordinator, browser, saved, others,
         StatesAreUsedOnce
  <2>3. OneAttempts'
    BY <1>7 DEF oauthVars, Attempting, Flows, flowVars, coordinator, browser, saved, others,
         OneAttempts
  <2>4. StatesFollowFlows'
    BY <1>7 DEF oauthVars, Stateless, None, Flows, flowVars, coordinator, browser, saved, others,
         StatesFollowFlows
  <2>5. RedeemersAreLate'
    BY <1>7 DEF oauthVars, Redeeming, Flows, flowVars, coordinator, browser, saved, others,
         RedeemersAreLate
  <2>6. TokenIsStray'
    BY <1>7 DEF oauthVars, Flows, flowVars, coordinator, browser, saved, others, TokenIsStray
  <2>7. MetadataIsStray'
    BY <1>7 DEF oauthVars, Redeeming, Flows, flowVars, coordinator, browser, saved, others,
         MetadataIsStray
  <2>8. LeftAreCancelled'
    BY <1>7 DEF oauthVars, Flows, flowVars, coordinator, browser, saved, others, LeftAreCancelled
  <2>9. QED
    BY <2>1, <2>2, <2>3, <2>4, <2>5, <2>6, <2>7, <2>8
<1>8. QED
  BY <1>1, <1>2, <1>3, <1>4, <1>5, <1>6, <1>7

(* The invariant of the authorizations, in one step.                       *)
LEMMA OAuthInvIsInductive == OAuthInv /\ [OAuthNext]_oauthVars => OAuthInv'
BY FlowSteps, UserSteps DEF OAuthNext, FlowStep

(* The flows, the coordinator's table and what is stored agree in every      *)
(* reachable state.                                                        *)
THEOREM OAuthInvariant == OAuthSpec => []OAuthInv
<1>1. QED
  BY OAuthInitial, OAuthInvIsInductive, PTL DEF OAuthSpec

(* A state is good for one callback, and its code is exchanged only by the   *)
(* connection that chose it (oauth.go, authorizationFlow and complete).      *)
THEOREM StatesUsedOnce == OAuthSpec => []StatesAreUsedOnce
<1>1. OAuthInv => StatesAreUsedOnce
  BY DEF OAuthInv
<1>2. QED
  BY <1>1, OAuthInvariant, PTL

(* A disconnected server is not shown as connected again by what was under   *)
(* way: the flows' late ends, their tokens and registrations (manager.go,    *)
(* DisconnectOAuth and OAuthStatus).                                       *)
THEOREM Disconnection == OAuthSpec => []DisconnectedStays
<1>1. OAuthInv => DisconnectedStays
  <2> SUFFICES ASSUME OAuthInv, revoked, disconnecting = "no",
                      \A f \in Flows : flow[f] \in {"none", "finished"}
               PROVE  ShownStatus \in {"disconnected", "error"}
    BY DEF DisconnectedStays
  <2>1. status \in {"none", "error"}
    BY DEF OAuthInv, AuthorizationTypeOK, LeftAreCancelled
  <2>2. ~(refreshToken /\ metadata)
    BY DEF OAuthInv, MetadataIsStray
  <2>3. QED
    BY <2>1, <2>2 DEF ShownStatus
<1>2. QED
  BY <1>1, OAuthInvariant, PTL
=============================================================================
