------------------------ MODULE ContextCompaction ------------------------
(***************************************************************************)
(* The compaction of a session's model context:                             *)
(* internal/engine/context_compaction.go.                                   *)
(*                                                                         *)
(* Every model call gets the whole history.  Above a trigger the oldest     *)
(* contents are replaced by a summary, and a checkpoint in the session      *)
(* state says how many, with a digest of them: later calls reuse it.  A     *)
(* content is its kind, the call it makes or answers, its estimated size,   *)
(* and (for the properties) the set of positions in the history that it     *)
(* stands for: one for an original, many for a summary.                     *)
(* The digest of contents is the contents.                                  *)
(*                                                                         *)
(* The agent framework and the provider are external: a call may be         *)
(* answered by text or by a tool call, with or without a measured prompt    *)
(* size, or be rejected as too long at any time, because the estimate is    *)
(* not the provider's.  What a callback writes into the session state is    *)
(* assumed to survive a rejected call.                                      *)
(***************************************************************************)
EXTENDS Integers, SequencesExt

CONSTANTS
  Window,        \* maxContextTokens
  Reserve,       \* the output allowance of a request
  Fixed,         \* the estimate of model, instruction and tools
  Sizes,         \* the estimates a content may have
  SummarySizes,  \* the estimates a summary may have
  Measured,      \* the prompt sizes a provider may report; 0 is no report
  MaxContents    \* bound on the length of a history

ASSUME CompactionAssumption ==
  /\ {Window, Reserve, Fixed, MaxContents} \subseteq Nat
  /\ Sizes \cup SummarySizes \subseteq Nat \ {0}
  /\ Measured \subseteq Nat

VARIABLES
  history,     \* the contents the framework builds from the session's events
  checkpoint,  \* contextCompactionStateKey
  usage,       \* contextCompactionUsageKey
  lastSent,    \* the same record in the run's compactor
  request,     \* request.Contents
  turn,        \* "idle", or what the run is at
  compacted    \* the last request was rejected and compacted, the next is not sent yet

compactionVars == <<history, checkpoint, usage, lastSent, request, turn, compacted>>

NoCheckpoint == [count |-> 0, prefix |-> <<>>, summary |-> <<>>]
NoRecord     == [count |-> 0, last |-> <<>>, prompt |-> 0]

-----------------------------------------------------------------------------
(* Sizes.                                                                  *)

Percentage(value, percent) ==
  (value \div 100) * percent + ((value % 100) * percent) \div 100

Larger(a, b)  == IF a < b THEN b ELSE a
Smaller(a, b) == IF a < b THEN a ELSE b

InputBudget == Larger(Window - Reserve, 0)
Trigger     == Percentage(InputBudget, 90)

(* contextCompactionSummaryTokenLimit, with the constants of the code.     *)
SummaryTokens ==
  Smaller(Smaller(Larger(Window \div 100, 512), 8192), Larger(Window \div 4, 1))

Tokens(contents)      == FoldLeft(LAMBDA sum, c : sum + c.size, 0, contents)
InputTokens(contents) == Fixed + Tokens(contents)

From(contents, index) == SubSeq(contents, index, Len(contents))

-----------------------------------------------------------------------------
(* What a summary replaces.                                                *)

Original == [i \in 1 .. Len(history) |->
  [kind |-> history[i].kind, call |-> history[i].call, size |-> history[i].size, of |-> {i}]]

(* A summary joins the first retained content when that is the user's, and *)
(* is a content of its own otherwise.                                      *)
ContentsWithSummary(summary, suffix) ==
  IF suffix # <<>> /\ suffix[1].kind = "user"
  THEN <<[suffix[1] EXCEPT !.size = @ + summary.size, !.of = @ \cup summary.of]>> \o Tail(suffix)
  ELSE <<summary>> \o suffix

(* The checkpoint applies to contents that begin with what it summarized.  *)
Applies(contents) ==
  /\ checkpoint.count \in 1 .. Len(contents)
  /\ SubSeq(contents, 1, checkpoint.count) = checkpoint.prefix

Checkpointed(contents) ==
  IF Applies(contents)
  THEN ContentsWithSummary(checkpoint.summary, From(contents, checkpoint.count + 1))
  ELSE contents

(* A cut must not separate a tool call from its result.                    *)
SafeBoundary(contents, cut) ==
  \/ cut \notin 1 .. Len(contents) - 1
  \/ /\ contents[cut + 1].kind # "result"
     /\ \A i \in 1 .. cut, j \in cut + 1 .. Len(contents) :
          ~ /\ contents[i].kind = "call"
            /\ contents[j].kind = "result"
            /\ contents[i].call = contents[j].call

SuffixWholeTarget == Percentage(InputBudget, 90)
SuffixBudget == Larger(Percentage(InputBudget, 30) - Fixed - SummaryTokens, 0)

(* How many of the contents to summarize: as few as leave a suffix within  *)
(* the budget, and then up to the next safe boundary.                      *)
CompactionCut(contents, found) ==
  LET least(S) == CHOOSE n \in S : \A m \in S : n <= m
      fitting == least({n \in 0 .. Len(contents) :
                          Tokens(From(contents, n + 1)) <= SuffixBudget})
      start == Larger(fitting, IF found THEN 2 ELSE 1)
  IN Smaller(Len(contents),
       least({Larger(start, Len(contents))} \cup
             {n \in start .. Len(contents) : SafeBoundary(contents, n)}))

-----------------------------------------------------------------------------
(* Measured usage.                                                         *)

ValidRecord(record, contents) ==
  /\ record.prompt > 0
  /\ record.count \in 1 .. Len(contents)
  /\ contents[record.count] = record.last

(* The measured size of the last request with what came after it, or 0.    *)
ProjectedTokens(contents) ==
  LET after(record) == record.prompt + Tokens(From(contents, record.count + 1))
  IN IF ValidRecord(lastSent, contents) THEN after(lastSent)
     ELSE IF ValidRecord(usage, contents) THEN after(usage) ELSE 0

RecordSent(contents) ==
  lastSent' = [count |-> Len(contents), last |-> contents[Len(contents)], prompt |-> 0]

-----------------------------------------------------------------------------
(* compactRequest.                                                         *)

(* The checkpoint is advanced in positions of the original contents, the   *)
(* cut counts those of the request the checkpoint has shortened already.   *)
AdvancedAsIfSeparate(cut, inserted) == checkpoint.count + cut - 1
Advanced(cut, inserted) == checkpoint.count + cut - inserted

Reuse(contents) ==
  /\ Applies(contents)
  /\ InputTokens(Checkpointed(contents)) < Trigger
  /\ request' = Checkpointed(contents)
  /\ RecordSent(request')
  /\ UNCHANGED checkpoint

Summarized(contents) ==
  LET found    == Applies(contents)
      working  == Checkpointed(contents)
      inserted == Len(working) - (Len(contents) - checkpoint.count)
      cut      == CompactionCut(working, found)
      count    == IF found THEN Advanced(cut, inserted) ELSE cut
  IN /\ ~ (found /\ InputTokens(working) < Trigger)
     /\ ~ (found /\ Len(working) < 2)
     /\ \E size \in SummarySizes :
          checkpoint' =
            [count   |-> count,
             prefix  |-> SubSeq(contents, 1, count),
             summary |-> [kind |-> "user", call |-> 0, size |-> size,
                          of |-> UNION {working[i].of : i \in 1 .. cut}]]
     /\ request' = ContentsWithSummary(checkpoint'.summary, From(contents, count + 1))
     /\ RecordSent(request')

(* Nothing is left to summarize: the request fails.                        *)
Hopeless(contents) ==
  /\ Applies(contents)
  /\ Len(Checkpointed(contents)) < 2
  /\ InputTokens(Checkpointed(contents)) >= Trigger

-----------------------------------------------------------------------------
(* A run.  A call is followed by its result: the session service repairs   *)
(* what was interrupted (module AgentLoop).                                *)

Content(kind, call) ==
  \E size \in Sizes :
    history' = Append(history, [kind |-> kind, call |-> call, size |-> size])

(* A new run has a new compactor.  If the last one was interrupted at a    *)
(* call, the repaired result and the user's message are one content.       *)
StartTurn ==
  /\ turn = "idle"
  /\ Len(history) < MaxContents
  /\ IF history # <<>> /\ Last(history).kind = "call"
     THEN Content("result", Len(history))
     ELSE Content("user", 0)
  /\ lastSent' = NoRecord
  /\ turn' = "ready"
  /\ UNCHANGED <<checkpoint, usage, request, compacted>>

BelowTrigger ==
  Larger(InputTokens(Original), ProjectedTokens(Checkpointed(Original))) < Trigger

BeforeModel ==
  /\ turn = "ready"
  /\ \/ /\ BelowTrigger
        /\ request' = Original
        /\ RecordSent(Original)
        /\ UNCHANGED checkpoint
     \/ ~BelowTrigger /\ (Reuse(Original) \/ Summarized(Original))
  /\ turn' = "sent"
  /\ compacted' = FALSE
  /\ UNCHANGED <<history, usage>>

BeforeModelFails ==
  /\ turn = "ready" /\ ~BelowTrigger
  /\ Hopeless(Original)
  /\ turn' = "idle"
  /\ UNCHANGED <<history, checkpoint, usage, lastSent, request, compacted>>

(* The provider answers; afterModel pairs the size it reports with what    *)
(* was sent.                                                               *)
Answer ==
  /\ turn = "sent"
  /\ Len(history) < MaxContents
  /\ \/ Content("model", 0) /\ turn' = "idle"
     \/ Content("call", Len(history) + 1) /\ turn' = "tools"
  /\ \E prompt \in Measured :
       IF prompt = 0 THEN UNCHANGED <<lastSent, usage>>
       ELSE lastSent' = [lastSent EXCEPT !.prompt = prompt] /\ usage' = lastSent'
  /\ UNCHANGED <<checkpoint, request, compacted>>

ToolResult ==
  /\ turn = "tools"
  /\ Len(history) < MaxContents
  /\ Content("result", Len(history))
  /\ turn' = "ready"
  /\ UNCHANGED <<checkpoint, usage, lastSent, request, compacted>>

(* The run ends before its call is answered.                               *)
TurnInterrupted ==
  /\ turn = "tools"
  /\ turn' = "idle"
  /\ UNCHANGED <<history, checkpoint, usage, lastSent, request, compacted>>

(* onModelError: the provider finds the request too long.  The request     *)
(* that is compacted then is the one that was sent.                        *)
Rejected ==
  /\ turn = "sent"
  /\ Reuse(request) \/ Summarized(request)
  /\ turn' = "idle"
  /\ compacted' = TRUE
  /\ UNCHANGED <<history, usage>>

RejectedHopelessly ==
  /\ turn = "sent"
  /\ Hopeless(request)
  /\ turn' = "idle"
  /\ UNCHANGED <<history, checkpoint, usage, lastSent, request, compacted>>

CompactionInit ==
  /\ history = <<>> /\ request = <<>>
  /\ checkpoint = NoCheckpoint
  /\ usage = NoRecord /\ lastSent = NoRecord
  /\ turn = "idle" /\ compacted = FALSE

CompactionNext ==
  \/ StartTurn \/ BeforeModel \/ BeforeModelFails \/ Answer
  \/ ToolResult \/ TurnInterrupted \/ Rejected \/ RejectedHopelessly

CompactionSpec == CompactionInit /\ [][CompactionNext]_compactionVars

-----------------------------------------------------------------------------
(* Every content of the history reaches the model exactly once: verbatim,  *)
(* or in the one summary.  Summaries of summaries, a summary merged into a *)
(* user's content and a checkpoint counted in another request's contents   *)
(* must not make contents disappear or come twice.                         *)
EveryContentReachesModel ==
  turn = "sent" =>
    /\ UNION {request[i].of : i \in DOMAIN request} = DOMAIN history
    /\ \A i, j \in DOMAIN request : i # j => request[i].of \cap request[j].of = {}

(* A result is never sent without its call, which providers refuse: no     *)
(* compaction cuts between them, however late the result came.             *)
ResultsFollowCalls ==
  turn = "sent" =>
    \A j \in DOMAIN request : request[j].kind = "result" =>
      \E i \in 1 .. j - 1 : request[i].kind = "call" /\ request[i].call = request[j].call

(* Compaction loses nothing: each content is in a summary or in the       *)
(* request, and no result is sent without its call.                        *)
CompactionLosesNothing == EveryContentReachesModel /\ ResultsFollowCalls

(* A compaction leaves a request that does not trigger the next one.       *)
CompactionSuffices ==
  [][ (turn = "ready" /\ turn' = "sent" /\ request' # Original)
        => InputTokens(request') < Trigger ]_compactionVars

(* context_compaction.go:327: after a rejection "the next run starts from  *)
(* the checkpoint instead of re-failing on the same oversized request".    *)
NextRunStartsFromCheckpoint ==
  [][ (turn = "ready" /\ turn' = "sent" /\ compacted) => request' # Original ]_compactionVars
=============================================================================
