# MaterialMind in TLA+

MaterialMind is a Go server with a web client that runs coding-agent sessions: its own agent loop
over model providers (ADK sessions) or an external ACP agent, with MCP tools, tool approvals,
questions to the user, and an event stream per run. This directory holds TLA+ models of the parts of
it in which the order of steps matters, the TLC configurations that check them on small instances, and
proofs checked by TLAPS. Every definition is a translation of the Go code (and of a few lines of the
web client); `PROJECT.json` names, for each definition, the lines it stands for.

Paths below are relative to `src/`; `engine` is `internal/engine`, and so on.

## 1. The system

| Component | State | Operations | What is hard |
|---|---|---|---|
| Run lifecycle (`engine/engine.go`, `maintenance.go`) | `active` map (session -> run), `stopping`, the wait for drained runs; all under `e.mu` | CreateSession, StartRun, execute / executeACP (a goroutine per run), CancelRun, DeleteSession, ApplyRetention, Shutdown | the mutex is released between check and act; crash and restart |
| Store (`store/*.go`) | SQLite rows; one connection, one transaction per method | everybody's rows, cascades, recovery at start | rows survive, goroutines do not |
| Process (`cmd/materialmind/main.go`) | phase of startup and shutdown | recovery, retention, serving, ten seconds of grace | shutdown against everything else |
| Tool approvals (`engine/approvals.go`) | per run: pending approvals, their resolution order, failure of the run | register, wait for the next, resolve, remove | answers, cancellation and overflow between look and `select` |
| Agent loop (`engine/tool_batch.go`, `subagents.go`, `approval_resume.go`, `confirmation_resurface.go`, `adksession/service.go`) | the session's events with an optimistic version; the deferred part of a batch; sub-agent slots | a runner iteration per answer; split of mixed batches; repair of interrupted calls | approvals between the parts of a batch; a run that ends inside one |
| Context compaction (`engine/context_compaction.go`) | checkpoint and measured usage in the session state | cut, summarize, reuse, recover from a rejection | indices of original contents against contents with a summary; budgets |
| Session notes (`store/session_notes.go` and its tools) | text and revision | read, compare and set | two authors, a long approval in between |
| Transcript (`engine/transcript.go`), live timeline (`engine.go`) | thought ids and published results of a run | pages; live events | interleaved streams, everything comes twice |
| Event hub (`engine/hub.go`, `httpapi/runs.go`) | ring of events, bounded subscribers | Publish, SubscribeReplay, streamRun | slow readers, reconnects |
| Questions, elicitations (`engine/user_input.go`, `mcp_elicitation.go`) | two tables per run | request, resolve, remove | they outlive their run |
| MCP runtime (`mcpruntime/manager.go`, `call_timeout.go`, `elicitation.go`) | connections per key, active calls, a timer per call | connect, call, cancel, pause | `Timer.Stop` and `AfterFunc`'s stop do not take back a started goroutine |
| MCP OAuth (`mcpruntime/oauth.go`) | flows by state and by server, status | start, callback, finish, disconnect | callbacks that come twice, late or never |
| ACP runtime (`acpruntime/manager.go`, `client.go`, `terminal.go`) | processes, attached sessions, terminals | new session, prompt, close, stop, shutdown; terminals for the agent | an agent may crash or hang at any request, once under the mutex |
| ACP run handler (`engine/acp.go`) | text segments, tools, terminal output of a prompt | session updates, permission requests | two goroutines, database writes after the mutex |
| Workspace tools: edits, commands, fetches (`workspacetools/`) | files; what was approved | propose, approve, check again, act | the world changes between approval and act |
| Settings (`engine/mcp.go`, `store/mcp.go`, `permissions.go`) | servers, their rules and permissions, copied to workspaces and sessions | save, copy, replace, read for a run | replacements against starting runs |
| Providers, HTTP API, credentials, policies, skills, discovery, web client | mostly none shared | translation, routing, validation, display | not modelled |

## 2. The modules

| Module | Models | Checked in |
|---|---|---|
| `RunLifecycle`, `RunLifecycle_proofs` | sessions, runs, active map, deletion, retention, crash, restart, shutdown | `MCRunLifecycle` |
| `ToolApprovals`, `ToolApprovals_proofs` | the approvals of one run and all that ask | `MCToolApprovals`, `MCCallers` |
| `AgentLoop` | iterations of a native run, mixed batches, sub-agents, the session's log and its repair | `MCAgentWork` |
| `ContextCompaction`, `ContextSummary` | when and where a context is cut; how its summary is made | `MCAgentWork`, the first also alone |
| `SessionNotes` | notes of a session, several authors | `MCAgentWork` |
| `TranscriptPages`, `LiveTimeline` | reading the transcript by pages; what is shown live against what is stored | `MCAgentWork` |
| `EventLog`, `EventHub`, `EventHub_proofs` | what an event stream promises (abstract); ring, subscribers, connection, browser | `MCCallers` |
| `UserQuestions`, `McpCalls`, `McpCalls_proofs` | questions and elicitations over successive runs; MCP calls and their timeout (extends the former) | `MCUserQuestions`, `McpCalls` |
| `McpConnections` | the shared connection of one key | `MCCallers` |
| `McpAuthorization` | OAuth of one server | `MCPeers` |
| `AcpRuntime` | processes of one agent, the sessions in them | `MCPeers` |
| `AcpTerminals` | terminals of one agent process | `MCAgentWork` |
| `AcpTimeline` | what an ACP prompt leaves in transcript and stream; permission requests | `MCAgentWork` |
| `FileEdits` | a patch or a write request as a transaction | `MCAgentWork` |
| `CommandApproval`, `FetchApproval` | what is approved and what then runs or is requested | `MCAgentWork` |
| `SessionSettings` | servers, rules and permissions while runs start | `MCAgentWork`, alone |
| `AgentWork_proofs` | proofs about `AgentLoop`, `ContextCompaction`, `ContextSummary`, `TranscriptPages`, `LiveTimeline`, `AcpTimeline` | |
| `SessionTools_proofs` | proofs about `SessionNotes`, `FileEdits`, `CommandApproval`, `FetchApproval`, `SessionSettings` | |
| `McpRuntime_proofs` | proofs about `McpConnections`, `McpAuthorization` | |
| `AcpRuntime_proofs` | proofs about `AcpRuntime`, `AcpTerminals` | |

`MCAgentWork`, `MCPeers` and `MCCallers` each hold several modules that share no variable. Their
variable `part` is chosen at the start and only that part takes steps, the others stay in an initial
state: TLC explores the disjoint union of the parts, not their product. Each part keeps the
fairness of its own specification, restricted to the behaviours in which it moves; a temporal property
of one part says nothing about the behaviours of another.

**Granularity.** One step is what the code does under one hold of a mutex, or one store call (the store
has a single SQLite connection and each method is one transaction). Where the code releases the mutex
and goes on, a program counter separates the two parts and anything may happen between them. A
message, an answer, a tool, a name and a text are model values or small numbers.

**RunLifecycle.** `row`, `runRow`, `runSession`, `agentSide`, `expired` are what the database keeps;
`active`, `pc`, `cause`, `outcome`, `told` belong to the engine and are lost in a crash. `pc` follows
`execute` and `executeACP`: setup, loop, decision of the final status, `UpdateRun`, `done` event,
removal from the map. `LoopReturns` is the whole agent loop: it may return success or an error at any
time, since a model provider may. `DeleteSession` is two or three steps with its check first, exactly
where the code unlocks. `ApplyRetention` is a deleter that lists expired sessions and deletes them one
by one. `Crash` drops everything volatile; `InterruptRunningRuns` is what the next start does first.

**ToolApprovals.** Loops (run loop, sub-agents) collect several approvals and take the next decision;
workspace tools ask one and remove it; ACP callbacks ask one and leave it. `Look` and `Wake` are the two
sides of the select. The overflow of the limit fails the run. `shown` is the timeline of each approval.

**AgentLoop.** `log` and `version` are the session's rows, `handle` the runner's copy of it, which
`RunnerGet` loads with the interrupted calls repaired (`Repaired`). `ModelCalls` is a model step that
calls tools; delegations that come with ordinary calls are put aside in `deferred` and are the calls of
the next model step. While siblings of an answered call wait for their decisions there is no model
call (`ModelYields`). A tool returns or asks, which ends the iteration; a delegation takes a slot and
appends its events while the runner holds `handle`. `Iterated` puts the questions to the user that the
framework has dropped (`Dangling`), `Decide` takes the next answer, `Resume` resumes its call. A run may
end anywhere, and `StartRun` goes on with the log it left.

**ContextCompaction, ContextSummary.** A content carries, for the properties only, the positions of the
history it stands for. `BeforeModel` is `beforeModel` with all its ways: below the trigger, reuse of
a checkpoint, a cut at a `SafeBoundary`; `Rejected` is the recovery after the provider refused. In
`ContextSummary` texts are lengths; `FoldFragment` and `FlushLast` are the loop of `summarize`.

**SessionNotes.** An author reads, proposes an update with the revision it read (its last, an older one,
or 0), waits for the decision and writes; the external agent's path also needs the session's token and
a run in progress. `DeleteNotes` deletes the session and with it the row.

**TranscriptPages, LiveTimeline.** `LoadPage` is one request of the browser, with the expansion to the
calls of the delegations it touches, while `AppendItem` goes on. In `LiveTimeline` a response is a number
of partial events and one final event; a command's result is published by the tool and again by the event.

**EventHub.** An event is its sequence number, the ring has `EventLimit` places, a channel
`SubscriberBuffer`. A connection may break between any two steps; the browser comes back with the last
id it received. The last of `MaxEvents` events is `done`. `EventLog` is the abstract specification:
events in order, none twice, none skipped unless the reader was told to start over; `IsEventLog` says
that `EventHub` implements it, mapping `published`, `dropped`, `position` to `nextSequence`,
`droppedThrough`, `last`.

**UserQuestions, McpCalls.** A question is admitted under the mutex and published after it, and the same
holds for its answer. `McpCalls` adds the calls: `timer` is the armed timer, `expiring` the goroutines of a
timer that has fired and which wait for the mutex of the timeout, `fresh` until a pause follows, then
`stale`. An elicitation is attributed to the call of its request's context or, if it came with the
connection's, to the only active call (`Candidates`). The two deferred functions of `CallTool` are two
steps. `QuestionSpec` lets a server elicit at any time, `McpCalls` only for a call that was made.

**McpConnections.** A connection is named after the caller that opened it: nobody opens two. `Look` is
the first section under the mutex with its four outcomes, `Decide` the second. `hook` is the goroutine of
`context.AfterFunc`, which may run after the connection was cached. `Edit` and `CloseMatching` are the two
steps of the handler that changes a server's definition. One key suffices: the code shares nothing
between keys but the mutex and `stopping`.

**McpAuthorization.** `flow` is where each flow's background connection is, `asks` which flow it waits on
(the one `assigned` says, perhaps another's), `byState` and `status` the coordinator's tables.
`CompleteOAuth` is the browser's callback, any number of times up to `MaxCallbacks`; `Timeout` the ten
minutes; `DisconnectCloses` and `DisconnectDeletes` the parts of a disconnect, and `Refresh`
/ `Refreshed` a session's connection that renews its token across one.

**AcpRuntime.** A session stands for its only call (`RunLifecycle` shows there is at most one): `caller` is
where it is, `onto` the process it got. The mutex is held from `StartProcess` to `Initialized` or
`InitializeFails`. `attached` is `process.sessions`, `knows` what the agent really has. `Exit` and `Forget` are
the two parts of a process's goroutine.

**AcpTerminals.** `command` follows one `createTerminal` (session found, command started, listed) and the
command's end; the table is emptied by the end of a prompt (`Unregister`, `CloseSessionTerminals`), a
closed session, the agent's exit or a release, and what they took (`taken`) is killed afterwards.

**AcpTimeline.** Two workers, the sequence of notifications and a permission request, apply an update under
the mutex (`Apply`) and store call and result after it (`SaveCall`, `SaveResult`, each of which may
fail); terminal output arrives at any moment, before its terminal has a tool too.

**FileEdits.** `at` is the step of a call: proposed, asked, checked again, then per file staged, validated,
moved aside, installed, cleaned; each file operation may fail once, `Undo` goes back over what was done,
and others write the files at any moment. `Spellings` lets two paths of a batch name one file.

**CommandApproval, FetchApproval.** `payload` is what the user was shown, `resolution` what the second
look found; `WorldChanges` changes the PATH, a link or the directory between any two steps. A fetch starts
over from its first address after each approval, and servers redirect differently each time.

**SessionSettings.** `definition`, `defaults`, `offered`, `assigned`, `granted` are the copies a server's rule
passes through; a replacement is a check and a write, and so is the start of a run (`ReadForRun`,
`RegisterRun`) and the creation of an ACP session (`CreateSessionRow`, `HandToAgent`, `ConnectionStored`).

## 3. What the runs show

| Run | Instance | Properties |
|---|---|---|
| `lifecycle_safety` | an ADK and an ACP session, 2 runs, a deleter, 1 stop | active map, rows and goroutines tell one story, and nothing runs after the drain (`RunsAreAccountedFor`); a `done` is stored (`DoneIsStored`); a listed ACP session is connected (`AcpSessionIsConnected`) |
| `lifecycle_deletion` | 1 session, 2 runs, a request and a sweep that delete, 1 stop | rows agree (`SessionRowsAgree`); final statuses stay (`FinalStatusStays`); cancelled runs and the shutdown end (`StoppedRunsEnd`) |
| `retention_spares_active` | 1 session, 1 run, 1 sweep | `SweepSparesActiveSessions` **violated** |
| `approvals` | 3 approvals, run loop, sub-agent, tool, callback, limit 1 | timeline and table agree (`TimelineIsPending`); first answer, one taker, in order (`DecisionsAreFinal`); exact limit, final failure (`LimitIsFinal`) |
| `questions` | 2 questions, 2 elicitations, limit 1 each, 2 runs | tables hold what is waited for, shown in its run (`QuestionsAreWaitedFor`); accepted answers only, once (`AnswersAreAccepted`) |
| `mcp_calls` | 1 call, 2 elicitations, limit 1 | the timer follows the pauses (`CallsAreTimed`); calls end (`CallsEnd`) |
| `mcp_pause` | 1 call, 1 elicitation | `PauseIsNotConsumed` **violated** |
| `agent_work` | 12 parts, bounds below | see the next table |
| `peers` | 2 sessions, 2 processes, 1 edit; 2 flows, 2 callbacks, 1 disconnect | no process is lost (`ProcessesAreOwned`); a prompt's process has its session (`PromptsReachTheirSession`); shutdown ends though an agent hangs (`AcpShutdownEnds`); a state is good once, its code goes to its connection (`StatesAreUsedOnce`); `DisconnectedStays`; every flow ends (`FlowsEnd`) |
| `callers` | 3 approvals, loop and tool, limit 2; 2 connection callers, 2 edits; 1 browser, 6 events, ring 2, buffer 1, 1 break | whoever blocks is woken (`CallersWakeUp`); one owner per connection (`ConnectionsAreSound`), everybody returns (`EverybodyReturns`); `StreamsAreSound`, the hub implements `EventLog` (`IsEventLog`), readers finish (`ReadersFinish`) |
| `compaction` | as in `agent_work` | `NextRunStartsFromCheckpoint` **violated** |
| `settings` | as in `agent_work` | `EstablishedServersAreFixed` **violated** |

The parts of `agent_work`:

| Part | Instance | Property |
|---|---|---|
| loop | 2 ordinary calls, 1 delegation, 1 slot, a tool asks at most twice, 2 runs | `BatchesAreFinished`: every call is answered before the run ends, delegations wait for their siblings; `LogIsUsable`: no append is refused, and the model never sees an unanswered call, whatever was interrupted before |
| compaction | window 200, 6 contents of size 1 or 60, summaries of 2 or 50 | `CompactionLosesNothing`: each content is in the request or in a summary, results with their calls; `CompactionSuffices`: the result is below the trigger |
| summary | window 9000, 3 sections of 300 or 7000 bytes, replies up to 6000 | `PromptsFit`: no prompt of the summarizer exceeds its budget |
| notes | 3 authors (1 through the internal server), 2 texts, 3 revisions | `UpdatesReplaceWhatWasRead`: no update is lost |
| pages | 3 delegations, pages of 2, 6 items | `PagesKeepDelegations`: consecutive pages, none with a piece of a delegation without its call |
| timeline | 2 streams, 2 responses, 2 partial events | `TimelineIsTranscript`: each stored thought under one id and alone, each stored result once |
| acp | 2 tools (1 of the notes server), 2 chunks, 1 terminal write | `TranscriptKeepsWhatWasShown`: shown text is stored, results follow calls, output keeps its order; `AnswersMatchDecisions`: the option sent says what the user said |
| terminals | 2 sessions, 2 prompts, 2 terminals | `TerminalsAreOwned`: a running command can be stopped; none outlives its prompt or agent, unless it was being created when they ended |
| edits | 3 spellings of 2 files, 2 changes, 1 other write, 1 failing operation | `PatchesAreTransactions`: all or nothing, no original lost, nothing replaced that was not shown |
| command | 2 places, programs and directories, 3 changes of the world | `CommandRunsAsApproved`: what runs is what was shown, up to the last comparison |
| fetch | 4 addresses (1 allowed by rule), 2 redirects, 4 attempts | `OnlyApprovedAddresses` |
| settings | 1 server, 1 session, 2 rules, 2 permission sets, 2 versions | `RunsUseTheStoredRules`: a run's rules are its session's, unless a replacement had been admitted before it was registered |

**Why the bounds suffice.** Two runs of one session are the fewest in which one can disturb the next,
a second deleter is what a retention sweep is to a request; one stop gives recovery once, and recovery
has no memory. Three approvals over a limit of one reach the overflow with an answered approval in the
table; a limit of two lets a loop wait for several. Six events over a ring of two wrap it three times.
Two elicitations overlap on a call; two questions of a kind meet a limit of one. A batch of two ordinary
calls and a delegation has a sibling that is finished and one that asks; a tool that asks twice is
the one whose second question the framework drops. Six contents allow two compactions and a summary
merged into what follows it. Two changes are the fewest of which one is installed when the other
fails; one write by others can come at each step. A third flow or process would be a replacement of a
replacement; the tables keep only the latest. Two connection callers are an opener and a waiter. Where
TLAPS proves a property, the bounds matter to the others only. All bounds on counters (constants
named `Max...`) are in guards and affect how long a behaviour is, not what a step does. Deadlock is off
because every instance may come to rest: runs are over, the user does nothing.

**Fairness.** Go schedules goroutines and timers fire: weak fairness of the steps that a goroutine takes
by itself. None for the user (answers, cancellations, requests, callbacks), none for a model provider or a
server, except that a call whose context is over returns, which `net/http`, `os/exec` and the MCP client
do. Thus a run that is not cancelled need not end, and `CallsEnd` holds by the timeout alone. The browser's
reader is fair because an EventSource reconnects by itself. A killed process exits; an initialize request
fails once its process is gone, but to a live one it may hang for ever. `Shutdown` of the ACP manager
gets the mutex if it is free again and again (strong fairness: `sync.Mutex` hands itself over to a
starving waiter). An authorization's background connection goes on by itself and ends with its ten
minutes.

**Four disagreements between code and documentation.**

* `retention_spares_active`: `docs/usage.md:98` says "Active sessions are not removed." DeleteSession
  looks at the active map, releases the mutex, and deletes later; a run that starts in between loses its
  session while it executes. `SessionRowsAgree` still holds: the cascade takes its row.
* `mcp_pause`: `docs/development.md:63` says that an elicitation does not consume the call's inactivity
  timeout. If the timer fires just before `pause` and its goroutine gets the mutex only after `resume`,
  `expire` finds no pause and times the call out at once, although `resume` has just restarted the timer. This
  takes an elicitation that is over quickly, such as one refused at the limit.
* `compaction`: the comment at `context_compaction.go:327` says that after a rejected request the next run
  starts from the checkpoint the recovery has kept. `beforeModel` looks at its estimates only, and if they are
  below the trigger it sends the original contents, those that were rejected, again.
* `settings`: `docs/usage.md:76` says "An established ACP session keeps its server configuration fixed."
  ReplaceSessionMCPServers checks that the session is not established and writes later; a connection
  stored in between makes it established with servers other than those the agent was given.

**Exceptions that the properties state.** `DisconnectedStays` excepts a session's refresh whose answer
comes after the disconnect, a flow that an older one, connecting late, has replaced in the table, and a
token that an older flow's exchange keeps while a newer flow has still to connect. The third was found
by the attempt to prove the property without it: it takes two disconnects.
`TerminalsAreOwned` excepts a terminal being created while its prompt or agent ends: it is listed all the
same, ends with the session's next prompt, and if the agent has exited, with nothing.
`CommandRunsAsApproved` excepts the moment between the last comparison and the start, and the program in a
payload of the older format. `RunsUseTheStoredRules` excepts a replacement that overlaps the start of the
run. An ACP callback that blocks after its run ended by itself is a hazard without a property (see
`PROJECT.json`): the code promises nothing else.

## 4. What is proved

For every value of the constants that satisfies the named assumptions, TLAPS proves the safety
properties below as theorems of the specifications. Few of them are inductive alone. Each proof
states an invariant made of named parts, shows that `Init` has it and that each action keeps it
(one step per action), and reads the properties off. TLC checked every invariant on an instance
before it was proved. `PROJECT.json` lists the theorems with the properties they state.

**`RunLifecycle_proofs`** (`LifecycleAssumption`: ACP sessions are sessions, sweepers are deleters, the
"none" values are none of the ids). `IInv` is `TypeOK`, the properties and three facts about what
belongs together: a deleter past its check has a session (`DeleterHasSession`), a goroutine's program
counter bounds what its row can say (`RowFollowsGoroutine`), and goroutines exist only while the process
serves (`LiveOnlyWhileServing`). Results: `AccountedFor` (`RunsAreAccountedFor`), `RowsAgree`
(`SessionRowsAgree`), `DoneDurable` (`DoneIsStored`), `OneLiveRun`, the action property `FinalStatus`
(`FinalStatusStays`: whoever writes a status later meets the guard of a terminal row or a row that is
gone) and `Connected` (`AcpSessionIsConnected`).

**`ToolApprovals_proofs`** (`ApprovalsAssumption`: loops, tools and callbacks are different callers, the
approvals are finitely many, the limit is positive). `ApprovalInv`: an approval belongs to one caller
(`EachHasOneCaller`), each answer has its own place in the order (`AnswersAreOrdered`), what was taken was
answered and precedes what is not yet seen (`TakenIsAnswered`, `TakenInOrder`), and the timeline follows
the table (`TimelineFollows`, `OpenIsPending`). Results: `TimelineIsPending`, `DecisionsAreFinal`,
`LimitIsFinal`.

**`McpCalls_proofs`** (`QuestionsAssumption`, `CallsAssumption`). `QuestionInv` follows a question through
admission, publication, answer and removal, each of which happens outside the mutex of the one before;
that the stream is in order all the same rests on an accepted answer taking its question out of the table
for good. `CallsImplementQuestions` shows that `McpCalls` implements `QuestionSpec`, so what is proved of
the questions holds with the calls too. `CallInv` says that the count of pauses is the number of
elicitations holding one. Results: `QuestionsAreWaitedFor`, `AnswersAreAccepted`, `CallsAreTimed`.

**`EventHub_proofs`** (`HubAssumption`: ring and buffer have at least one place). `HubInv`: the ring holds the
latest events in order from its start on (`RingInOrder`, with its wrap), a channel belongs to one
subscription (`ChannelsBelong`), and what is under way to a reader follows what it has read, its channel
ending with the latest event while it is subscribed (`ReadersFollow`). Results: `StreamsAreSound`, and
`HubImplementsLog`: `EventHub` implements `EventLog` (`IsEventLog`), initial state by initial state and
step by step or stutter.

**`McpRuntime_proofs`** (`ConnectionAssumption`: finitely many callers, nobody is not one;
`AuthorizationAssumption`). Connections: a connection's opener has returned exactly when the connection
has left its hands, so the possible owners exclude each other (`CachedIsUsed`, `ClosingIsOpen`,
`StaleIsTaken`, `OpenIsHeld`), and an attempt and a cached connection never coexist. Authorizations:
`OAuthInv` ties a flow's position to the coordinator's tables (`StatesFollowFlows`) and accounts for every
exchange and every token that survives a disconnect (`RedeemersAreLate`, `TokenIsStray`,
`MetadataIsStray`). Results: `ConnectionsAreSound`, `StatesAreUsedOnce`, `DisconnectedStays`.

**`AcpRuntime_proofs`** (`AcpRuntimeAssumption`, with "free" not a session; `TerminalsAssumption`). `AcpInv`: the
mutex is held by the one call that initializes a process, with nothing in the map (`MutexHolds`); what
is attached to a process is known to it until the session is closed (`SessionsAreKnown`); from the
cancellation on nothing runs (`ShutdownKills`). Results: `ProcessesAreOwned`, `PromptsReachTheirSession`,
`NothingRunsAfterShutdown`. `TerminalsAreOwned` is inductive by itself: `unregister` removes the session
before its terminals, so what is listed while the session is there is taken later, and whoever takes a
terminal kills it.

**`SessionTools_proofs`.** Notes (`NotesAssumption`): a revision names one text as long as the session
exists (`RevisionsNameOneText`), hence an equal revision is an equal text (`UpdatesReplaceWhatWasRead`).
Commands: what was approved is what the payload resolved to (`CommandRunsAsApproved`). Fetches
(`AllowedAssumption`): a call's payload is what its last question said (`OnlyApprovedAddresses`). Settings
(`SettingsAssumption`): a rule of a session belongs to a server that exists, and a registered run has its
session's rules (`RunsUseTheStoredRules`). Edits (`FileOfAssumption`: each spelling names a file;
`MaxChangesAssumption`): how far the moves and installations have come, forwards and in `Undo`, and that
among all changes that address one file only one has its hands on it (`MovesAreMade`, `OneAtAFile`); hence
`PatchesAreTransactions`, in spite of failing operations and of others that write the files.

**`AgentWork_proofs`.** Summary (`SummaryAssumption`): what is collected leaves 1022 bytes of room, and the
words around it need less (`PromptsFit`). ACP timeline (`AcpTimelineAssumption`: "no tool" is not a tool): a
worker's update is followed from the mutex to the rows, where either may fail
(`TranscriptKeepsWhatWasShown`, `AnswersMatchDecisions`). Live timeline (`TimelineAssumption`: finitely many
streams): each shown thought has one owner, so counting the responses bounds the ids (`TimelineIsTranscript`).
Loop (`AgentLoopAssumption`: one call is not both kinds, at least one slot): the question of each call that
asks is somewhere between the tool and the user (`QuestionsAreOnTheWay`), and the runner's handle is
current whenever it appends though sub-agents append too (`HandleIsCurrent`); hence `BatchesAreFinished`.
`LogIsUsable` (`LogStaysUsable`) needs a second invariant, `LogInv`: a log *leaves* a set of calls open
(`Leaves`: answered calls close, other events may stand in between only if the contents of a request
do not show them), and what was appended since the runner loaded the session leaves open nothing when
the model is to speak, at most the calls whose tools run, and at most what the result under way answers.
What was loaded leaves nothing open whatever was interrupted (`RepairedLeaves`), dropping unseen events
opens nothing (`WithoutLeaves`), and two logs that leave nothing open are one that does (`JoinLeaves`).

Compaction (`CompactionAssumption`: sizes are positive): a checkpoint's summary stands for the union of
what its prefix stood for (`CheckpointInv`), and a cut at a safe boundary separates no result from its
call; the first call of a result is found by a least-number lemma drawn from `WFMin`. Hence
`CompactionLosesNothing`. `CompactionSuffices` (`CompactionIsEnough`) has two hypotheses of its own: a
summary is not larger than the limit it is generated with (engine.go:563 passes it as the maximal output),
and what every request has, with such a summary, is below the trigger. A window that is too small for
the fixed parts is the case it leaves out; the run's values satisfy both. The proof shows that the fold over
the sizes is their sum (`TokensAreSums`), so that a shorter suffix has fewer tokens (`TokensShrink`) and
the cut, which safe boundaries only move forward, keeps to its budget (`CuttingFits`).

Pages (`PagesAssumption`: the plain value is no delegation, a page has a place): a round of the expansion
moves the start of a page back by one at least or is at its fixed point, so as many rounds as there are
items reach it (`RoundsSuffice`), and a fixed point has the call of everything behind it. Hence
`PagesKeepDelegations`.

What recursive functions compute is proved without the library's induction theorems, whose operator
parameters the installed provers cannot instantiate: a least counterexample is refuted (`UpTo`), and a
function defined by recursion is shown to exist (`RecursionExists`), its step being a function itself.

**Only model-checked.** All liveness, and everything with fairness or `ENABLED`: this proof system does not
treat it (`StoppedRunsEnd`, `CallsEnd`, `AcpShutdownEnds`, `FlowsEnd`, `CallersWakeUp`,
`EverybodyReturns`, `ReadersFinish`). `EventLog` is a specification only; what it promises is its definition. Every safety and
action property of a passing run is the statement of a theorem. In the violation runs a property is false,
and TLC's counterexample is the result.

No module declares a RECURSIVE operator, so each of them can be proved about. Next: the state predicates
behind the liveness properties (who waits always has somebody whose step can wake it), which are safety
and can be proved.

## 5. What is assumed and what is not modelled

**Assumed of code outside the repository.** The agent framework: a resumed iteration keeps the
invocation of the call it resumes and runs a model step after it even when a tool has asked again;
what a callback writes to the session state survives a rejected model call; a response with partial
thoughts has them in its final event. The ACP library: notifications come one after another, requests are
served by goroutines of their own. The agent: it does not update a tool it has completed, and a
terminal belongs to one tool. Of users of the notes: an update carries a revision its author has read,
not one learned from a conflict. Of the policy: a fetch's rules are fixed while an approval is pending.

**Abstracted within the modelled parts.** SQLite errors other than a missing row (in `AcpTimeline` a write
may fail); progress and log notifications; titles and attachments; the text of every message; what a
sub-agent does inside (it is its events); sizes are the estimates the code works with; a crash in the
middle of applying a patch (it leaves the original in the `.bak` file, and the code has no recovery
for it).

**Not modelled.** Wire formats of model providers, HTTP routing and validation, credentials, policies and
skills, reading and searching tools, rendering in the web client: there is no shared state that several
callers change, so a model would add nothing to their tests. Conversion of MCP content and the
stdio bridge: formatting and I/O. Refresh of MCP tool catalogs, discovery of an agent's sessions, the
forwarding of an ACP agent's elicitations and the internal MCP server's protocol: they touch the
modelled state through the operations that are modelled. Migrations and the tables of workspaces, models and
attachments: single statements.

## 6. Running

    tlc -workers 2 -config RunLifecycle_safety.cfg MCRunLifecycle
    tlc -workers 2 -config AgentWork.cfg MCAgentWork
    tlapm RunLifecycle_proofs.tla

`AgentWork_proofs` takes tlapm some eight minutes from nothing, the others less than two.

`PROJECT.json` lists every run with its module and configuration. Each property of a passing run has a
mutant there: an operator of the module that changes one definition the way a plausible bug would, and
that TLC must find to violate the property.
