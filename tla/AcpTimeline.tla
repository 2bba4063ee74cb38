---------------------------- MODULE AcpTimeline ----------------------------
(***************************************************************************)
(* What the prompt of an external agent's session leaves in the transcript  *)
(* and in the run's stream: acpRunHandler in internal/engine/acp.go.        *)
(*                                                                         *)
(* The agent's notifications come one after another; its permission request *)
(* is served by another goroutine, and the output of its terminals by the   *)
(* goroutines that copy it.  All of them share the handler's mutex, which   *)
(* an update of a tool gives up before it writes to the database.  A write  *)
(* may fail, and ends only its own update.                                  *)
(***************************************************************************)
EXTENDS Integers, Sequences, FiniteSets

CONSTANTS
  AcpTools,      \* the agent's tool calls
  NotesTools,    \* those that call the application's session notes server
  MessageIds,    \* message ids the agent may name
  MaxChunks,     \* bound on chunks of text
  MaxWrites      \* bound on writes to the terminal

ASSUME AcpTimelineAssumption ==
  /\ NotesTools \subseteq AcpTools /\ "no tool" \notin AcpTools
  /\ MaxChunks \in Nat /\ MaxWrites \in Nat

Unnamed == "unnamed"
NoTool  == "no tool"
Kinds   == {"message", "thought"}
Workers == {"updates", "permission"}
Options == {"allow_once", "allow_always", "reject_once", "reject_always"}

VARIABLES
  segments, segment, segmentSequence,  \* the text so far, the current segment, h.sequence
  chunks,                       \* chunks received
  status, announced,            \* per tool: its status, callPublished
  holder,                       \* terminalTools of the terminal
  pendingOutput, toolOutput,    \* output before and after it has a tool
  writes,                       \* how much the terminal has written
  work,                         \* what a worker does for which tool
  permission,                   \* the permission request and its answer
  rows, texts, outputs,         \* the transcript: ids in order, texts, outputs
  shown                         \* the chunks published of each segment

textVars  == <<segments, segment, segmentSequence, chunks, texts, shown>>
toolVars  == <<status, announced, holder, pendingOutput, toolOutput, writes, outputs>>
handlerVars == <<textVars, toolVars, work, permission, rows>>

AtRest == [at |-> "idle"]
NoSegment == [kind |-> "none", id |-> <<>>]
Inserted(id) == IF \E i \in DOMAIN rows : rows[i] = id THEN rows ELSE Append(rows, id)
Put(f, id, text) == [x \in DOMAIN f \cup {id} |-> IF x = id THEN text ELSE f[x]]
TextOf(f, id) == IF id \in DOMAIN f THEN f[id] ELSE <<>>

-----------------------------------------------------------------------------
(* appendText: a chunk without an id continues the current segment of its  *)
(* kind; the whole segment is saved, and its new part is shown.            *)
SegmentId(kind, name) ==
  CASE name # Unnamed       -> <<kind, name>>
    [] segment.kind = kind  -> segment.id
    [] OTHER                -> <<kind, segmentSequence + 1>>

SavedChunkOnly(id, chunk) == <<chunk>>
Saved(id, chunk) == Append(TextOf(segments, id), chunk)

AppendText(kind, name, saves) ==
  /\ work["updates"] = AtRest /\ chunks < MaxChunks
  /\ chunks' = chunks + 1
  /\ LET id == SegmentId(kind, name)
     IN /\ segment' = [kind |-> kind, id |-> id]
        /\ segmentSequence' = IF id = <<kind, segmentSequence + 1>> THEN segmentSequence + 1 ELSE segmentSequence
        /\ segments' = Put(segments, id, Append(TextOf(segments, id), chunks'))
        /\ IF saves
           THEN /\ texts' = Put(texts, id, Saved(id, chunks'))
                /\ rows' = Inserted(id)
                /\ shown' = Put(shown, id, Append(TextOf(shown, id), chunks'))
           ELSE UNCHANGED <<texts, rows, shown>>
  /\ UNCHANGED <<toolVars, work, permission>>

-----------------------------------------------------------------------------
(* applyToolUpdate                                                         *)

(* attachToolTerminals gives the tool what came before it.                 *)
AttachedOutput(t) == toolOutput \o pendingOutput

(* The part under the mutex.                                               *)
Apply(w, t, s, hasTerminal) ==
  /\ segment' = NoSegment
  /\ status' = [status EXCEPT ![t] = s]
  /\ IF t \in NotesTools
     THEN /\ work' = [work EXCEPT ![w] = [at |-> "done", tool |-> t]]
          /\ UNCHANGED <<announced, holder, pendingOutput, toolOutput>>
     ELSE /\ announced' = announced \cup {t}
          /\ IF hasTerminal
             THEN /\ holder' = t
                  /\ toolOutput' = AttachedOutput(t) /\ pendingOutput' = <<>>
             ELSE UNCHANGED <<holder, pendingOutput, toolOutput>>
          /\ work' = [work EXCEPT ![w] =
               [at |-> "save call", tool |-> t, finishes |-> s = "completed",
                output |-> toolOutput', announces |-> t \notin announced]]
  /\ UNCHANGED <<segments, segmentSequence, chunks, texts, shown, writes, outputs, rows>>

(* A terminal belongs to one tool.                                         *)
MayHold(t) == holder \in {NoTool, t}

UpdateTool(t, s, hasTerminal) ==
  /\ work["updates"] = AtRest /\ status[t] # "completed"
  /\ hasTerminal => MayHold(t)
  /\ Apply("updates", t, s, hasTerminal)
  /\ UNCHANGED permission

SavesCall(w) == TRUE

SaveCall(w) ==
  /\ work[w].at = "save call"
  /\ rows' = IF SavesCall(w) THEN Inserted(<<"call", work[w].tool>>) ELSE rows
  /\ work' = [work EXCEPT ![w].at = IF work[w].finishes THEN "save result" ELSE "done"]
  /\ UNCHANGED <<textVars, toolVars, permission>>

SaveResult(w) ==
  /\ work[w].at = "save result"
  /\ rows' = Inserted(<<"result", work[w].tool>>)
  /\ outputs' = Put(outputs, work[w].tool, work[w].output)
  /\ work' = [work EXCEPT ![w].at = "done"]
  /\ UNCHANGED <<textVars, status, announced, holder, pendingOutput, toolOutput, writes,
                 permission>>

SaveFails(w) ==
  /\ work[w].at \in {"save call", "save result"}
  /\ work' = [work EXCEPT ![w].at = "failed"]
  /\ UNCHANGED <<textVars, toolVars, permission, rows>>

UpdateEnds ==
  /\ work["updates"].at \in {"done", "failed"}
  /\ work' = [work EXCEPT !["updates"] = AtRest]
  /\ UNCHANGED <<textVars, toolVars, permission, rows>>

-----------------------------------------------------------------------------
(* TerminalOutput: a write is the tool's, or waits for it.                 *)
TerminalOutput ==
  /\ writes < MaxWrites
  /\ writes' = writes + 1
  /\ IF holder = NoTool
     THEN pendingOutput' = Append(pendingOutput, writes') /\ UNCHANGED toolOutput
     ELSE toolOutput' = Append(toolOutput, writes') /\ UNCHANGED pendingOutput
  /\ UNCHANGED <<textVars, status, announced, holder, outputs, work, permission, rows>>

-----------------------------------------------------------------------------
(* RequestPermission: the tool of the request is updated first; a call of  *)
(* the notes server is allowed, and the user is asked about the others.    *)
RequestPermission(t, hasTerminal, offered) ==
  /\ permission.at = "none" /\ status[t] # "completed"
  /\ hasTerminal => MayHold(t)
  /\ Apply("permission", t, "pending", hasTerminal)
  /\ permission' = [at |-> "asked", tool |-> t, offered |-> offered]

Allowing == {"allow_once", "allow_always"}
Preferred(approved) ==
  IF approved THEN <<"allow_once", "allow_always">> ELSE <<"reject_once", "reject_always">>

FirstOffered(approved, offered) == CHOOSE o \in offered : TRUE
(* defaultPermissionOption                                                 *)
DefaultOption(approved, offered) ==
  LET fit == {i \in {1, 2} : Preferred(approved)[i] \in offered}
  IN IF fit = {} THEN "cancelled"
     ELSE Preferred(approved)[CHOOSE i \in fit : \A j \in fit : i <= j]

Answered(approved, option) ==
  /\ permission' = [at |-> "answered", approved |-> approved, option |-> option]
  /\ work' = [work EXCEPT !["permission"] = AtRest]
  /\ UNCHANGED <<textVars, toolVars, rows>>

AllowNotes ==
  /\ permission.at = "asked" /\ work["permission"].at = "done"
  /\ permission.tool \in NotesTools
  /\ Answered(TRUE, DefaultOption(TRUE, permission.offered))

(* The user's option decides, or without one the user's approval; a run    *)
(* that is stopped answers for the user.                                   *)
AskUser ==
  /\ permission.at = "asked" /\ work["permission"].at = "done"
  /\ permission.tool \notin NotesTools
  /\ \/ \E o \in permission.offered : Answered(o \in Allowing, o)
     \/ \E approved \in BOOLEAN :
          Answered(approved, DefaultOption(approved, permission.offered))
     \/ Answered(FALSE, "cancelled")

RequestFails ==
  /\ permission.at = "asked" /\ work["permission"].at = "failed"
  /\ Answered(FALSE, "error")

HandlerInit ==
  /\ segments = <<>> /\ segment = NoSegment /\ segmentSequence = 0 /\ chunks = 0
  /\ status = [t \in AcpTools |-> "none"] /\ announced = {}
  /\ holder = NoTool /\ pendingOutput = <<>> /\ toolOutput = <<>> /\ writes = 0
  /\ work = [w \in Workers |-> AtRest] /\ permission = [at |-> "none"]
  /\ rows = <<>> /\ texts = <<>> /\ outputs = <<>> /\ shown = <<>>

HandlerNext ==
  \/ \E kind \in Kinds, name \in MessageIds \cup {Unnamed}, saves \in BOOLEAN :
       AppendText(kind, name, saves)
  \/ \E t \in AcpTools, s \in {"pending", "completed"}, hasTerminal \in BOOLEAN :
       UpdateTool(t, s, hasTerminal)
  \/ \E w \in Workers : SaveCall(w) \/ SaveResult(w) \/ SaveFails(w)
  \/ UpdateEnds
  \/ TerminalOutput
  \/ \E t \in AcpTools, hasTerminal \in BOOLEAN,
        offered \in {Options, {"allow_once"}} :
       RequestPermission(t, hasTerminal, offered)
  \/ AllowNotes \/ AskUser \/ RequestFails

HandlerSpec == HandlerInit /\ [][HandlerNext]_handlerVars

-----------------------------------------------------------------------------
(* What the user saw of a message is in the transcript, though a write     *)
(* before or after it failed, and whatever came between its parts.         *)
ShownIsStored ==
  \A id \in DOMAIN shown : \A i \in DOMAIN shown[id] :
    \E j \in DOMAIN texts[id] : texts[id][j] = shown[id][i]

(* A result never stands in the transcript before or without its call,     *)
(* though the update that announced the call may still be at its write, or *)
(* have failed.                                                            *)
ResultsFollowTheirCalls ==
  \A t \in AcpTools, i \in DOMAIN rows :
    rows[i] = <<"result", t>> => \E j \in 1 .. i - 1 : rows[j] = <<"call", t>>

(* What a terminal wrote is kept in its order: before its tool is known,   *)
(* while the tool is attached by an update or by a permission request, and *)
(* after that; a saved result has a prefix of it.                          *)
TerminalOutputIsKept ==
  /\ toolOutput \o pendingOutput = [i \in 1 .. writes |-> i]
  /\ holder \in DOMAIN outputs =>
       \A i \in DOMAIN outputs[holder] : outputs[holder][i] = i

(* The transcript of an agent's prompt has what the user saw, in order.    *)
TranscriptKeepsWhatWasShown ==
  ShownIsStored /\ ResultsFollowTheirCalls /\ TerminalOutputIsKept

(* The agent is never told more than the user decided: an option that      *)
(* allows goes only with an approval, one that rejects only with a refusal.*)
AnswersMatchDecisions ==
  (permission.at = "answered" /\ permission.option \in Options) =>
    (permission.option \in Allowing <=> permission.approved)
=============================================================================
