--------------------------- MODULE LiveTimeline ---------------------------
(***************************************************************************)
(* What a browser is shown while a run works, against the transcript it     *)
(* loads afterwards: publishEvent, publishCommandResult, the thought        *)
(* streams and Transcript in internal/engine/engine.go, and                 *)
(* emitCommandResult in internal/workspacetools/command.go.                 *)
(*                                                                         *)
(* The coordinator and its sub-agents are streams of model responses.  A    *)
(* response arrives as partial events, each with an id of its own, and then *)
(* as one final event that is stored.  Its thoughts are shown under an id   *)
(* the engine assigns; its commands' results are shown as soon as a command *)
(* has ended, and come again with the event that has the results.  A piece  *)
(* of text is the response it belongs to.                                   *)
(***************************************************************************)
EXTENDS Integers, FiniteSets, Sequences

CONSTANTS
  Streams,       \* the coordinator and its sub-agents
  MaxResponses,  \* bound on the model responses of a stream
  MaxPartials    \* bound on the partial events of a response

ASSUME TimelineAssumption ==
  {MaxResponses, MaxPartials} \subseteq Nat /\ IsFiniteSet(Streams)

VARIABLES
  step,        \* what a stream is at: "model", "command", "asking", "results"
  responses,   \* responses a stream has begun
  partials,    \* partial events of its current response
  active,      \* activeThoughtIDs: id of a key's thought, 0 if none
  thoughtSequence,    \* nextThoughtSequence
  thoughtsShown,       \* the text shown under a thought's id
  published,   \* publishedCommandResults
  resultsShown,     \* how often a command's result was shown
  transcript   \* responses stored with their thoughts, commands with results

timelineVars == <<step, responses, partials, active, thoughtSequence, thoughtsShown, published, resultsShown,
                  transcript>>

Response(s) == <<s, responses[s]>>
Every       == {<<s, r>> : s \in Streams, r \in 1 .. MaxResponses}
Ids         == 1 .. Cardinality(Streams) * MaxResponses * 2

KeyOfBranch(s) == CHOOSE t \in Streams : TRUE
(* thoughtStreamKey: a delegation has its own; branches are told apart by  *)
(* their delegations.                                                      *)
ThoughtKey(s) == s

(* thoughtStreamID: the key's thought, or the next id.                     *)
ThoughtId(s) == IF active[ThoughtKey(s)] # 0 THEN active[ThoughtKey(s)] ELSE thoughtSequence + 1

(* A partial event with a thought: thought_delta appends to its id's text. *)
PartialThought(s) ==
  /\ step[s] = "model"
  /\ partials[s] < MaxPartials
  /\ IF partials[s] = 0
     THEN responses[s] < MaxResponses /\ responses' = [responses EXCEPT ![s] = @ + 1]
     ELSE UNCHANGED responses
  /\ partials' = [partials EXCEPT ![s] = @ + 1]
  /\ thoughtsShown' = [thoughtsShown EXCEPT ![ThoughtId(s)] = Append(@, <<s, responses'[s]>>)]
  /\ thoughtSequence' = IF ThoughtId(s) > thoughtSequence THEN thoughtSequence + 1 ELSE thoughtSequence
  /\ active' = [active EXCEPT ![ThoughtKey(s)] = ThoughtId(s)]
  /\ UNCHANGED <<step, published, resultsShown, transcript>>

(* The final event: thought_replace shows the whole thought, and the key's *)
(* thought is finished.  The response may call a command.                  *)
FinalResponse(s) ==
  /\ step[s] = "model"
  /\ IF partials[s] = 0
     THEN responses[s] < MaxResponses /\ responses' = [responses EXCEPT ![s] = @ + 1]
     ELSE UNCHANGED responses
  /\ \E thinks \in BOOLEAN, next \in {"model", "command"} :
       /\ thinks \/ partials[s] = 0
       /\ IF thinks
          THEN /\ thoughtsShown' = [thoughtsShown EXCEPT ![ThoughtId(s)] = <<<<s, responses'[s]>>>>]
               /\ thoughtSequence' = IF ThoughtId(s) > thoughtSequence THEN thoughtSequence + 1 ELSE thoughtSequence
               /\ transcript' = transcript \cup {<<"thought", <<s, responses'[s]>>>>}
          ELSE UNCHANGED <<thoughtsShown, thoughtSequence, transcript>>
       /\ step' = [step EXCEPT ![s] = next]
  /\ active' = [active EXCEPT ![ThoughtKey(s)] = 0]
  /\ partials' = [partials EXCEPT ![s] = 0]
  /\ UNCHANGED <<published, resultsShown>>

(* emitCommandResult: not while an approval is required, and not for a     *)
(* command that does not run because it is refused after one.              *)
CommandEnds(s) ==
  /\ step[s] = "command"
  /\ \/ /\ step' = [step EXCEPT ![s] = "results"]
        /\ IF Response(s) \in published THEN UNCHANGED <<published, resultsShown>>
           ELSE /\ published' = published \cup {Response(s)}
                /\ resultsShown' = [resultsShown EXCEPT ![Response(s)] = @ + 1]
     \/ step' = [step EXCEPT ![s] = "asking"] /\ UNCHANGED <<published, resultsShown>>
  /\ UNCHANGED <<responses, partials, active, thoughtSequence, thoughtsShown, transcript>>

(* The event with the pending result is skipped, and so is the question;   *)
(* the resumed command runs, or is refused.                                *)
Approval(s) ==
  /\ step[s] = "asking"
  /\ step' \in {[step EXCEPT ![s] = "command"], [step EXCEPT ![s] = "results"]}
  /\ UNCHANGED <<responses, partials, active, thoughtSequence, thoughtsShown, published, resultsShown, transcript>>

(* commandResultWasPublished                                               *)
WasPublished(s) == Response(s) \in published

(* The event with the result.                                              *)
ResultEvent(s) ==
  /\ step[s] = "results"
  /\ resultsShown' = [resultsShown EXCEPT ![Response(s)] = IF WasPublished(s) THEN @ ELSE @ + 1]
  /\ transcript' = transcript \cup {<<"result", Response(s)>>}
  /\ step' = [step EXCEPT ![s] = "model"]
  /\ active' = [active EXCEPT ![ThoughtKey(s)] = 0]
  /\ UNCHANGED <<responses, partials, thoughtSequence, thoughtsShown, published>>

TimelineInit ==
  /\ step = [s \in Streams |-> "model"]
  /\ responses = [s \in Streams |-> 0] /\ partials = [s \in Streams |-> 0]
  /\ active = [s \in Streams |-> 0] /\ thoughtSequence = 0
  /\ thoughtsShown = [i \in Ids |-> <<>>]
  /\ published = {} /\ resultsShown = [c \in Every |-> 0]
  /\ transcript = {}

TimelineNext ==
  \E s \in Streams :
    PartialThought(s) \/ FinalResponse(s) \/ CommandEnds(s) \/ Approval(s) \/ ResultEvent(s)

TimelineSpec == TimelineInit /\ [][TimelineNext]_timelineVars

-----------------------------------------------------------------------------
(* The live timeline ends up as the transcript: a stored thought is shown  *)
(* under exactly one id and alone, though streams interleave and partial   *)
(* events repeat what the final one has; a stored result is shown once,    *)
(* though the command has announced it before.                             *)
TimelineIsTranscript ==
  /\ \A c \in Every : <<"thought", c>> \in transcript =>
       \E i \in Ids :
         /\ thoughtsShown[i] = <<c>>
         /\ \A j \in Ids \ {i} : \A k \in DOMAIN thoughtsShown[j] : thoughtsShown[j][k] # c
  /\ \A c \in Every : resultsShown[c] = 1 \/ <<"result", c>> \notin transcript
=============================================================================
