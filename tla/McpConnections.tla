--------------------------- MODULE McpConnections ---------------------------
(***************************************************************************)
(* The connections of the MCP manager (internal/mcpruntime/manager.go), for    *)
(* one key: a session and a server, or a server alone.                      *)
(*                                                                         *)
(* connection() hands out the cached connection if it was opened with the    *)
(* caller's settings.  Otherwise one caller opens a connection, outside the   *)
(* manager's mutex, and the others wait for its attempt to be over and look   *)
(* again.  Meanwhile the settings change, the session is closed, callers give *)
(* up and the manager shuts down.  A connection has the name of the caller    *)
(* that opened it: no caller opens a second one.                            *)
(***************************************************************************)
EXTENDS Integers, FiniteSets

CONSTANTS
  Clients,     \* the callers of connection()
  Nobody,        \* no connection, no attempt
  MaxVersion   \* bound on the edits of the server's settings

ASSUME ConnectionAssumption ==
  /\ Nobody \notin Clients
  /\ IsFiniteSet(Clients)
  /\ MaxVersion \in Nat

VARIABLES
  version,      \* the server's settings in the store
  edited,       \* an edit is stored, CloseServer not yet called
  cached,       \* m.connections[key]
  attempt,      \* m.connecting[key]
  cancelled,    \* attempts with attempt.cancelled
  done,         \* attempts whose done channel is closed
  stopping,     \* m.stopping
  drained,      \* Shutdown has returned
  where,           \* where each caller is
  fingerprint,  \* the settings each caller has read
  waitsFor,     \* the attempt it waits for
  stale,        \* the connection it has to close first
  result,       \* the connection it got
  gone,         \* callers whose context is over
  hook,         \* callers whose context.AfterFunc has started and not yet run
  dead,         \* connections whose context was cancelled while they were opened
  open,         \* connections that are established and not closed
  closing       \* those that closeMatching or Shutdown has still to close

settings == <<version, edited>>
manager == <<cached, attempt, cancelled, done, stopping, drained>>
callers == <<where, fingerprint, waitsFor, stale, result, gone, hook>>
connectionVars == <<settings, manager, callers, dead, open, closing>>

OrNone == Clients \cup {Nobody}

ConnectionTypeOK ==
  /\ version \in 0 .. MaxVersion /\ edited \in BOOLEAN
  /\ cached \in OrNone /\ attempt \in OrNone
  /\ cancelled \subseteq Clients /\ done \subseteq Clients
  /\ stopping \in BOOLEAN /\ drained \in BOOLEAN
  /\ where \in [Clients -> {"none", "looking", "waiting", "opening", "opened", "failed",
                          "discarding", "returned"}]
  /\ fingerprint \in [Clients -> 0 .. MaxVersion]
  /\ waitsFor \in [Clients -> OrNone] /\ stale \in [Clients -> OrNone]
  /\ result \in [Clients -> OrNone]
  /\ gone \subseteq Clients /\ hook \subseteq gone
  /\ dead \subseteq Clients /\ open \subseteq Clients /\ closing \subseteq Clients

ConnectionInit ==
  /\ version = 0 /\ edited = FALSE
  /\ cached = Nobody /\ attempt = Nobody
  /\ cancelled = {} /\ done = {}
  /\ stopping = FALSE /\ drained = FALSE
  /\ where = [c \in Clients |-> "none"]
  /\ fingerprint = [c \in Clients |-> 0]
  /\ waitsFor = [c \in Clients |-> Nobody]
  /\ stale = [c \in Clients |-> Nobody]
  /\ result = [c \in Clients |-> Nobody]
  /\ gone = {} /\ hook = {} /\ dead = {} /\ open = {} /\ closing = {}

Just(x) == {x} \ {Nobody}

-----------------------------------------------------------------------------
(* connection().                                                           *)

(* The caller has read the settings from the store.                        *)
Use(c) ==
  /\ where[c] = "none"
  /\ where' = [where EXCEPT ![c] = "looking"]
  /\ fingerprint' = [fingerprint EXCEPT ![c] = version]
  /\ UNCHANGED <<settings, manager, waitsFor, stale, result, gone, hook, dead, open, closing>>

Matches(c) == cached # Nobody /\ fingerprint[cached] = fingerprint[c]

LookRefused(c) ==
  /\ stopping
  /\ where' = [where EXCEPT ![c] = "returned"]
  /\ UNCHANGED <<cached, attempt, waitsFor, stale, result, hook>>

LookFinds(c) ==
  /\ ~stopping /\ Matches(c)
  /\ where' = [where EXCEPT ![c] = "returned"]
  /\ result' = [result EXCEPT ![c] = cached]
  /\ UNCHANGED <<cached, attempt, waitsFor, stale, hook>>

(* What is cached has other settings: it is taken out, and closed by the caller
   before it goes on.                                                      *)
TakeStale(c) ==
  /\ stale' = [stale EXCEPT ![c] = cached]
  /\ cached' = Nobody

LookWaits(c) ==
  /\ ~stopping /\ ~Matches(c) /\ attempt # Nobody
  /\ TakeStale(c)
  /\ where' = [where EXCEPT ![c] = "waiting"]
  /\ waitsFor' = [waitsFor EXCEPT ![c] = attempt]
  /\ UNCHANGED <<attempt, result, hook>>

LookOpens(c) ==
  /\ ~stopping /\ ~Matches(c) /\ attempt = Nobody
  /\ TakeStale(c)
  /\ attempt' = c
  /\ where' = [where EXCEPT ![c] = "opening"]
  /\ hook' = IF c \in gone THEN hook \cup {c} ELSE hook
  /\ UNCHANGED <<waitsFor, result>>

LookUp(c) ==
  /\ where[c] = "looking"
  /\ LookRefused(c) \/ LookFinds(c) \/ LookWaits(c) \/ LookOpens(c)
  /\ UNCHANGED <<settings, cancelled, done, stopping, drained, fingerprint, gone, dead, open, closing>>

CloseStale(c) ==
  /\ stale[c] # Nobody
  /\ stale' = [stale EXCEPT ![c] = Nobody]
  /\ open' = open \ {stale[c]}
  /\ UNCHANGED <<settings, manager, where, fingerprint, waitsFor, result, gone, hook, dead, closing>>

(* The select: the attempt is over, or the caller's context.               *)
WakeUp(c) ==
  /\ where[c] = "waiting" /\ stale[c] = Nobody
  /\ \/ waitsFor[c] \in done /\ where' = [where EXCEPT ![c] = "looking"]
     \/ c \in gone /\ where' = [where EXCEPT ![c] = "returned"]
  /\ waitsFor' = [waitsFor EXCEPT ![c] = Nobody]
  /\ UNCHANGED <<settings, manager, fingerprint, stale, result, gone, hook, dead, open, closing>>

(* openConnection returns and stopCallerCancellation is called: a hook that has
   started is not taken back.                                              *)
OpenReturns(c) ==
  /\ where[c] = "opening" /\ stale[c] = Nobody
  /\ \/ where' = [where EXCEPT ![c] = "opened"] /\ open' = open \cup {c}
     \/ where' = [where EXCEPT ![c] = "failed"] /\ UNCHANGED open
  /\ UNCHANGED <<settings, manager, fingerprint, waitsFor, stale, result, gone, hook, dead, closing>>

(* m.cancel has cancelled every connection's context.                      *)
ContextOver(c) == stopping \/ c \in dead

IsCancelled(c) == c \in cancelled \/ ContextOver(c)

EndQuietly(c) == attempt' = Nobody /\ UNCHANGED done
End(c) == attempt' = Nobody /\ done' = done \cup {c}   \* close(attempt.done)

Keep(c) ==
  /\ where' = [where EXCEPT ![c] = "returned"]
  /\ cached' = c
  /\ result' = [result EXCEPT ![c] = c]

RejectUnclosed(c) == where' = [where EXCEPT ![c] = "returned"] /\ UNCHANGED <<cached, result>>
Reject(c) == where' = [where EXCEPT ![c] = "discarding"] /\ UNCHANGED <<cached, result>>

(* The second section under the mutex.                                     *)
Decide(c) ==
  /\ End(c)
  /\ \/ where[c] = "opened" /\ ~IsCancelled(c) /\ Keep(c)
     \/ where[c] = "opened" /\ IsCancelled(c) /\ Reject(c)
     \/ /\ where[c] = "failed"
        /\ where' = [where EXCEPT ![c] = "returned"]
        /\ UNCHANGED <<cached, result>>
  /\ UNCHANGED <<settings, cancelled, stopping, drained, fingerprint, waitsFor, stale, gone, hook,
                 dead, open, closing>>

Discard(c) ==
  /\ where[c] = "discarding"
  /\ where' = [where EXCEPT ![c] = "returned"]
  /\ open' = open \ {c}
  /\ UNCHANGED <<settings, manager, fingerprint, waitsFor, stale, result, gone, hook, dead, closing>>

-----------------------------------------------------------------------------
(* What happens around it.                                                 *)

(* The caller's request or run is over; while it opens a connection
   context.AfterFunc starts the goroutine that cancels it.                 *)
GiveUp(c) ==
  /\ where[c] \in {"looking", "waiting", "opening", "opened", "failed"}
  /\ c \notin gone
  /\ gone' = gone \cup {c}
  /\ hook' = IF where[c] = "opening" THEN hook \cup {c} ELSE hook
  /\ UNCHANGED <<settings, manager, where, fingerprint, waitsFor, stale, result, dead, open, closing>>

HookRuns(c) ==
  /\ c \in hook
  /\ hook' = hook \ {c}
  /\ dead' = dead \cup {c}
  /\ UNCHANGED <<settings, manager, where, fingerprint, waitsFor, stale, result, gone, open, closing>>

(* The handler of an edit: store.UpdateMCPServer, then MCPServerChanged.    *)
Edit ==
  /\ version < MaxVersion /\ ~edited
  /\ version' = version + 1
  /\ edited' = TRUE
  /\ UNCHANGED <<manager, callers, dead, open, closing>>

(* closeMatching under the mutex, for CloseServer, CloseSession, and a caller
   whose tool list failed.                                                 *)
CloseMatching ==
  /\ closing' = closing \cup Just(cached)
  /\ cached' = Nobody
  /\ cancelled' = cancelled \cup Just(attempt)
  /\ dead' = dead \cup Just(attempt)
  /\ edited' = FALSE
  /\ UNCHANGED <<version, attempt, done, stopping, drained, callers, open>>

CloseSelected(c) ==
  /\ c \in closing
  /\ closing' = closing \ {c}
  /\ open' = open \ {c}
  /\ UNCHANGED <<settings, manager, callers, dead>>

Shutdown ==
  /\ ~stopping
  /\ stopping' = TRUE
  /\ closing' = closing \cup Just(cached)
  /\ cached' = Nobody
  /\ cancelled' = cancelled \cup Just(attempt)
  /\ UNCHANGED <<settings, attempt, done, drained, callers, dead, open>>

(* It waits for the cached connection to be closed and for the attempt.     *)
ShutdownReturns ==
  /\ stopping /\ ~drained
  /\ closing = {} /\ attempt = Nobody
  /\ drained' = TRUE
  /\ UNCHANGED <<settings, cached, attempt, cancelled, done, stopping, callers, dead, open, closing>>

ClientStep(c) ==
  LookUp(c) \/ CloseStale(c) \/ WakeUp(c) \/ Decide(c) \/ Discard(c) \/ HookRuns(c)

ConnectionNext ==
  \/ \E c \in Clients :
       Use(c) \/ ClientStep(c) \/ OpenReturns(c) \/ GiveUp(c) \/ CloseSelected(c)
  \/ Edit \/ CloseMatching \/ Shutdown \/ ShutdownReturns

ConnectionSpec == ConnectionInit /\ [][ConnectionNext]_connectionVars

(* Callers and closers run on; openConnection returns once its context is
   cancelled, and need not before.                                         *)
FairConnectionSpec ==
  /\ ConnectionSpec
  /\ \A c \in Clients :
       /\ WF_connectionVars(ClientStep(c))
       /\ WF_connectionVars(CloseSelected(c))
       /\ WF_connectionVars(ContextOver(c) /\ OpenReturns(c))

-----------------------------------------------------------------------------
Parties == {"cache", "opener", "closer"} \cup Clients

Owners(s) ==
  (IF cached = s THEN {"cache"} ELSE {})
    \cup (IF where[s] \in {"opened", "discarding"} THEN {"opener"} ELSE {})
    \cup (IF s \in closing THEN {"closer"} ELSE {})
    \cup {c \in Clients : stale[c] = s}

(* Every established connection has exactly one party that still has it: the
   cache, the caller that opened it, a caller that found it stale, or whoever
   took it out of the cache to close it.  So none is left running unseen and
   none is closed twice, and what is cached is established.  Nor do two callers
   open one at a time, so a workspace's server is not started twice
   (manager.go:541-671, 902-922).                                          *)
ConnectionsAreOwned ==
  /\ \A s \in open : \E party \in Parties : Owners(s) = {party}
  /\ cached # Nobody => cached \in open
  /\ \A c \in Clients : where[c] \in {"opening", "opened", "failed"} => attempt = c

(* docs/development.md:61: "updating that definition closes cached connections
   so the next use starts with the new configuration".  Nobody gets a
   connection with other settings than it has read, an attempt that was under
   way when its server or session was closed is not cached afterwards, and
   after a shutdown no attempt is under way and nothing is cached.          *)
ClosedStaysClosed ==
  /\ \A c \in Clients : result[c] # Nobody => fingerprint[result[c]] = fingerprint[c]
  /\ cached \notin cancelled
  /\ drained => cached = Nobody /\ attempt = Nobody

(* A connection has one owner while it lives and none that outlives a close. *)
ConnectionsAreSound == ConnectionTypeOK /\ ConnectionsAreOwned /\ ClosedStaysClosed

(* Liveness: after a shutdown every connection is closed and every caller
   returns, and so does a caller whose own context is over.                *)
EverybodyReturns ==
  /\ stopping ~> open = {}
  /\ \A c \in Clients : (stopping \/ c \in gone) /\ where[c] # "none" ~> where[c] = "returned"

=============================================================================
