--------------------------- MODULE SessionSettings ---------------------------
(***************************************************************************)
(* What a session may use: MCP servers with their confirmation rules and    *)
(* tool permissions (internal/store/mcp.go, permissions.go, the session     *)
(* rows of sessions.go, internal/engine/mcp.go and the requests of          *)
(* internal/httpapi/api.go).  Defaults are copied to a new workspace, the   *)
(* workspace's choices to a new session; a run reads them before it is      *)
(* registered.  A session of the own agent uses the current definition of a *)
(* server, a session of an ACP agent the copy it was created with.          *)
(*                                                                          *)
(* A definition is its version, a rule decides for a tool.  The checks of a *)
(* request's fields are left out: a request that fails them changes         *)
(* nothing.                                                                 *)
(***************************************************************************)
EXTENDS Naturals

CONSTANTS
  Servers,       \* MCP servers
  SettingsSessions,  \* sessions
  Rules,         \* confirmation rules of a server and its tools
  PermissionSets,    \* tool permissions
  MaxVersion     \* bound: versions of a definition

Off == "off"
ASSUME SettingsAssumption == Off \notin Rules

VARIABLES
  definition,   \* each server's version, 0 when there is none
  defaults,     \* its rule in new workspaces, or Off
  offered,      \* the workspace's rule of each server, or Off
  offeredPermissions, \* the workspace's tool permissions
  kind,         \* a session's agent: "adk" or "acp"
  row,          \* a session's row: "none", "creating", "handed", "established"
  assigned,     \* a session's servers: rule and copied version of each
  granted,      \* a session's tool permissions
  replacement,  \* a request to replace a session's servers: "none", "checked"
  running,      \* a session's run: "none", "starting", "active"
  used,         \* the servers the run read
  overlapped    \* a replacement was under way while the run started

settingsVars == <<definition, defaults, offered, offeredPermissions, kind, row, assigned,
                  granted, replacement,
                  running, used, overlapped>>
catalogue == <<definition, defaults>>
workspace == <<offered, offeredPermissions>>
run == <<running, used, overlapped>>

Unassigned == [x \in Servers |-> [rule |-> Off, version |-> 0]]
Copied(rules) ==
  [x \in Servers |-> [rule |-> rules[x], version |-> IF rules[x] = Off THEN 0 ELSE definition[x]]]

SettingsInit ==
  /\ definition = [x \in Servers |-> 0]
  /\ defaults = [x \in Servers |-> Off]
  /\ offered = [x \in Servers |-> Off]
  /\ offeredPermissions \in PermissionSets
  /\ kind = [s \in SettingsSessions |-> "adk"]
  /\ row = [s \in SettingsSessions |-> "none"]
  /\ assigned = [s \in SettingsSessions |-> Unassigned]
  /\ granted = [s \in SettingsSessions |-> offeredPermissions]
  /\ replacement = [s \in SettingsSessions |-> "none"]
  /\ running = [s \in SettingsSessions |-> "none"]
  /\ used = [s \in SettingsSessions |-> Unassigned]
  /\ overlapped = [s \in SettingsSessions |-> FALSE]

\* ------------------------------------------------------- servers and workspaces
\* CreateMCPServer, UpdateMCPServer.
SaveServer(x) ==
  /\ definition[x] < MaxVersion
  /\ definition' = [definition EXCEPT ![x] = @ + 1]
  /\ UNCHANGED <<defaults, workspace, kind, row, assigned, granted, replacement, run>>

UpdateDefaults(x) ==
  /\ definition[x] # 0
  /\ \E rule \in Rules \cup {Off} : defaults' = [defaults EXCEPT ![x] = rule]
  /\ UNCHANGED <<definition, workspace, kind, row, assigned, granted, replacement, run>>

\* The foreign keys keep a server a workspace or a session uses.
InUse(x) == offered[x] # Off \/ \E s \in SettingsSessions : assigned[s][x].rule # Off
DeleteServer(x) ==
  /\ definition[x] # 0 /\ ~InUse(x)
  /\ definition' = [definition EXCEPT ![x] = 0]
  /\ defaults' = [defaults EXCEPT ![x] = Off]
  /\ UNCHANGED <<workspace, kind, row, assigned, granted, replacement, run>>

\* A workspace is removed with its sessions and created again from the defaults.
CreateWorkspace ==
  /\ \A s \in SettingsSessions : row[s] = "none"
  /\ offered' = defaults
  /\ UNCHANGED <<catalogue, offeredPermissions, kind, row, assigned, granted, replacement, run>>

Existing(rules) == \A x \in Servers : rules[x] # Off => definition[x] # 0
ReplaceWorkspaceServers ==
  /\ \E rules \in [Servers -> Rules \cup {Off}] : Existing(rules) /\ offered' = rules
  /\ UNCHANGED <<catalogue, offeredPermissions, kind, row, assigned, granted, replacement, run>>

ReplaceWorkspacePermissions ==
  /\ offeredPermissions' \in PermissionSets
  /\ UNCHANGED <<catalogue, offered, kind, row, assigned, granted, replacement, run>>

\* --------------------------------------------------------------------- sessions
\* One transaction: the row, the permissions and the servers with their definitions.
CreateSessionRow(s) ==
  /\ row[s] = "none" /\ replacement[s] = "none"     \* ids are not used again
  /\ \E k \in {"adk", "acp"} :
       /\ kind' = [kind EXCEPT ![s] = k]
       /\ row' = [row EXCEPT ![s] = IF k = "adk" THEN "established" ELSE "creating"]
  /\ assigned' = [assigned EXCEPT ![s] = Copied(offered)]
  /\ granted' = [granted EXCEPT ![s] = offeredPermissions]
  /\ UNCHANGED <<catalogue, workspace, replacement, run>>

\* GetSessionMCPServers: the current definition, or the copy.
SessionServers(s) ==
  IF kind[s] = "adk" THEN Copied([x \in Servers |-> assigned[s][x].rule]) ELSE assigned[s]

\* CreateACPSession and ImportACPSession: the agent opens its session with the servers the
\* row has, then the row gets the session's id.
HandToAgent(s) ==
  /\ row[s] = "creating"
  /\ row' = [row EXCEPT ![s] = "handed"]
  /\ UNCHANGED <<catalogue, workspace, kind, assigned, granted, replacement, run>>
ConnectionStored(s) ==
  /\ row[s] = "handed"
  /\ row' = [row EXCEPT ![s] = "established"]
  /\ UNCHANGED <<catalogue, workspace, kind, assigned, granted, replacement, run>>

Gone(s) ==
  /\ row' = [row EXCEPT ![s] = "none"]
  /\ assigned' = [assigned EXCEPT ![s] = Unassigned]
  /\ UNCHANGED <<catalogue, workspace, kind, granted>>
CreationFails(s) == row[s] \in {"creating", "handed"} /\ Gone(s) /\ UNCHANGED <<replacement, run>>
\* A run that is starting meanwhile finds no row to write (module RunLifecycle).
RemoveSession(s) ==
  /\ row[s] = "established" /\ running[s] = "none"
  /\ Gone(s) /\ UNCHANGED <<replacement, run>>

ReplaceSessionPermissions(s) ==
  /\ row[s] # "none"
  /\ \E p \in PermissionSets : granted' = [granted EXCEPT ![s] = p]
  /\ UNCHANGED <<catalogue, workspace, kind, row, assigned, replacement, run>>

\* Engine.ReplaceSessionMCPServers refuses a busy session and an established ACP session,
\* then writes.  Mutant: it does not look for a run.
MayReplaceInRun(s) == ~(kind[s] = "acp" /\ row[s] = "established")
MayReplaceServers(s) == running[s] # "active" /\ ~(kind[s] = "acp" /\ row[s] = "established")
CheckReplacement(s) ==
  /\ row[s] # "none" /\ replacement[s] = "none" /\ MayReplaceServers(s)
  /\ replacement' = [replacement EXCEPT ![s] = "checked"]
  /\ overlapped' = [overlapped EXCEPT ![s] = @ \/ running[s] = "starting"]
  /\ UNCHANGED <<catalogue, workspace, kind, row, assigned, granted, running, used>>
WriteReplacement(s) ==
  /\ replacement[s] = "checked"
  /\ replacement' = [replacement EXCEPT ![s] = "none"]
  /\ \/ /\ row[s] # "none"
        /\ \E rules \in [Servers -> Rules \cup {Off}] :
             Existing(rules) /\ assigned' = [assigned EXCEPT ![s] = Copied(rules)]
     \/ UNCHANGED assigned
  /\ UNCHANGED <<catalogue, workspace, kind, row, granted, run>>

\* ------------------------------------------------------------------------- runs
ReadForRun(s) ==
  /\ row[s] = "established" /\ running[s] = "none"
  /\ running' = [running EXCEPT ![s] = "starting"]
  /\ used' = [used EXCEPT ![s] = SessionServers(s)]
  /\ overlapped' = [overlapped EXCEPT ![s] = replacement[s] # "none"]
  /\ UNCHANGED <<catalogue, workspace, kind, row, assigned, granted, replacement>>
RegisterRun(s) ==
  /\ running[s] = "starting"
  /\ running' = [running EXCEPT ![s] = "active"]
  /\ UNCHANGED <<catalogue, workspace, kind, row, assigned, granted, replacement, used,
                 overlapped>>
SessionRunEnds(s) ==
  /\ running[s] # "none"
  /\ running' = [running EXCEPT ![s] = "none"]
  /\ used' = [used EXCEPT ![s] = Unassigned]
  /\ overlapped' = [overlapped EXCEPT ![s] = FALSE]
  /\ UNCHANGED <<catalogue, workspace, kind, row, assigned, granted, replacement>>

SettingsNext ==
  \/ \E x \in Servers : SaveServer(x) \/ UpdateDefaults(x) \/ DeleteServer(x)
  \/ CreateWorkspace \/ ReplaceWorkspaceServers \/ ReplaceWorkspacePermissions
  \/ \E s \in SettingsSessions :
       \/ CreateSessionRow(s) \/ HandToAgent(s) \/ ConnectionStored(s) \/ CreationFails(s)
       \/ RemoveSession(s) \/ ReplaceSessionPermissions(s)
       \/ CheckReplacement(s) \/ WriteReplacement(s)
       \/ ReadForRun(s) \/ RegisterRun(s) \/ SessionRunEnds(s)

SettingsSpec == SettingsInit /\ [][SettingsNext]_settingsVars

-----------------------------------------------------------------------------
\* A run under way asks for the calls its session's rules say, and of servers that still
\* exist: neither a replacement of the servers, nor an edit of the workspace, nor the removal
\* of a server changes that under the run, unless a replacement had been admitted before the
\* run was registered.
RunsUseTheStoredRules ==
  \A s \in SettingsSessions :
    running[s] = "active" /\ ~overlapped[s] =>
      \A x \in Servers :
        /\ used[s][x].rule = assigned[s][x].rule
        /\ used[s][x].rule # Off => definition[x] # 0

\* "An established ACP session keeps its server configuration fixed" (docs/usage.md:76):
\* no step changes the servers of a session that is and stays established.
EstablishedServersAreFixed ==
  [][\A s \in SettingsSessions :
       kind[s] = "acp" /\ row[s] = "established" /\ row'[s] = "established"
         => assigned'[s] = assigned[s]]_settingsVars
=============================================================================
