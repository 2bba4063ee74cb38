---------------------------- MODULE UserQuestions ----------------------------
(***************************************************************************)
(* Questions to the user: ask_user (internal/engine/user_input.go) and the    *)
(* elicitations of MCP servers and ACP agents (mcp_elicitation.go), in the    *)
(* runs of one session, which follow one another.                           *)
(*                                                                         *)
(* Unlike a tool approval, a question is put into the run's table under the   *)
(* engine's mutex and published after it; so is its answer.  The answer goes  *)
(* through a channel of one element, and the select of the asker may take it  *)
(* or the end of its context when both are there.                           *)
(*                                                                         *)
(* QuestionSpec is this component alone; McpCalls composes it with the tool    *)
(* calls that the elicitations pause.                                       *)
(***************************************************************************)
EXTENDS Integers, Sequences, FiniteSets

CONSTANTS
  Inputs,           \* ask_user questions
  Elicitations,     \* elicitations
  MaxInputs,        \* maxPendingUserInputs
  MaxElicitations,  \* maxPendingMCPElicitations
  MaxRuns           \* bound on the number of runs

Questions == Inputs \cup Elicitations
Runs == 1 .. MaxRuns

ASSUME QuestionsAssumption ==
  /\ Inputs \cap Elicitations = {}
  /\ IsFiniteSet(Questions)
  /\ MaxInputs \in Nat /\ MaxElicitations \in Nat /\ MaxRuns \in Nat

VARIABLES
  current,    \* the run in e.active, 0 between runs
  started,    \* how many runs there were
  cancelled,  \* the runs whose context is cancelled
  announced,  \* "done" of the current run is published, its entry still there
  table,      \* the keys of its pendingUserInputs and pendingMCPElicitations
  pc,         \* where each question's asker is
  qrun,       \* the run whose table the question was put in
  origin,     \* the run whose agent asked it, of ask_user questions
  response,   \* the questions whose channel holds an answer
  accepted,   \* those whose answer the user was told is accepted
  unshown,    \* accepted answers whose event is not published yet
  got,        \* what each asker got: "answer" or "cancel"
  timeline    \* the events of each question, with the run they are shown in

run == <<current, started, cancelled, announced>>
asker == <<pc, qrun, origin, got>>
answer == <<response, accepted, unshown>>
questionVars == <<run, table, asker, answer, timeline>>

QuestionTypeOK ==
  /\ current \in 0 .. MaxRuns /\ started \in 0 .. MaxRuns
  /\ cancelled \subseteq Runs
  /\ announced \in BOOLEAN
  /\ table \subseteq Questions
  /\ pc \in [Questions -> {"none", "called", "admitted", "asked", "leaving", "returned"}]
  /\ qrun \in [Questions -> 0 .. MaxRuns] /\ origin \in [Inputs -> 0 .. MaxRuns]
  /\ response \subseteq Questions /\ accepted \subseteq Questions /\ unshown \subseteq Questions
  /\ got \in [Questions -> {"none", "answer", "cancel"}]
  /\ timeline \in [Questions -> Seq({"request", "resolved"} \X Runs)]

QuestionInit ==
  /\ current = 0 /\ started = 0 /\ cancelled = {} /\ announced = FALSE
  /\ table = {}
  /\ pc = [q \in Questions |-> "none"]
  /\ qrun = [q \in Questions |-> 0]
  /\ origin = [q \in Inputs |-> 0]
  /\ response = {} /\ accepted = {} /\ unshown = {}
  /\ got = [q \in Questions |-> "none"]
  /\ timeline = [q \in Questions |-> <<>>]

Pending(q) == pc[q] \in {"admitted", "asked", "leaving"}

-----------------------------------------------------------------------------
(* The session's runs (RunLifecycle has them in full).                     *)

StartRun ==
  /\ current = 0
  /\ started < MaxRuns
  /\ current' = started + 1 /\ started' = started + 1
  /\ announced' = FALSE
  /\ table' = {}
  /\ UNCHANGED <<cancelled, asker, answer, timeline>>

CancelRun ==
  /\ current # 0
  /\ cancelled' = cancelled \cup {current}
  /\ UNCHANGED <<current, started, announced, table, asker, answer, timeline>>

(* The agent has waited for its tools when its run returns.                *)
AnnounceDone ==
  /\ current # 0 /\ ~announced
  /\ \A q \in Inputs : origin[q] = current => pc[q] = "returned"
  /\ announced' = TRUE
  /\ UNCHANGED <<current, started, cancelled, table, asker, answer, timeline>>

ReleaseRun ==
  /\ announced
  /\ current' = 0
  /\ announced' = FALSE
  /\ UNCHANGED <<started, cancelled, table, asker, answer, timeline>>

(* hub.Publish: nothing is taken for a run that is done.                   *)
Shown(q, event) ==
  timeline' = IF current = qrun[q] /\ ~announced
              THEN [timeline EXCEPT ![q] = Append(@, <<event, qrun[q]>>)]
              ELSE timeline

-----------------------------------------------------------------------------
(* Asking.                                                                 *)

Full(q) ==
  \/ q \in Inputs /\ Cardinality(table \cap Inputs) >= MaxInputs
  \/ q \in Elicitations /\ Cardinality(table \cap Elicitations) >= MaxElicitations

(* requestUserInput belongs to its run; requestMCPElicitation takes the run
   that is active in the session.                                          *)
RightRun(q) == current # 0 /\ (q \in Inputs => current = origin[q])

AskUser(q) ==
  /\ q \in Inputs
  /\ pc[q] = "none"
  /\ current # 0 /\ ~announced
  /\ pc' = [pc EXCEPT ![q] = "called"]
  /\ origin' = [origin EXCEPT ![q] = current]
  /\ UNCHANGED <<run, table, qrun, got, answer, timeline>>

(* From Lock to Unlock.                                                    *)
Admit(q) ==
  /\ pc[q] = "called"
  /\ IF RightRun(q) /\ ~Full(q)
     THEN /\ table' = table \cup {q}
          /\ pc' = [pc EXCEPT ![q] = "admitted"]
          /\ qrun' = [qrun EXCEPT ![q] = current]
          /\ UNCHANGED got
     ELSE /\ pc' = [pc EXCEPT ![q] = "returned"]
          /\ got' = [got EXCEPT ![q] = "cancel"]
          /\ UNCHANGED <<table, qrun>>
  /\ UNCHANGED <<run, origin, answer, timeline>>

PublishRequest(q) ==
  /\ pc[q] = "admitted"
  /\ pc' = [pc EXCEPT ![q] = "asked"]
  /\ Shown(q, "request")
  /\ UNCHANGED <<run, table, qrun, origin, got, answer>>

(* The two cases of the select.                                            *)
ReceiveAnswer(q) ==
  /\ pc[q] = "asked"
  /\ q \in response
  /\ response' = response \ {q}
  /\ got' = [got EXCEPT ![q] = "answer"]
  /\ pc' = [pc EXCEPT ![q] = "leaving"]
  /\ UNCHANGED <<run, table, qrun, origin, accepted, unshown, timeline>>

GiveUp(q) ==
  /\ pc[q] = "asked"
  /\ got' = [got EXCEPT ![q] = "cancel"]
  /\ pc' = [pc EXCEPT ![q] = "leaving"]
  /\ UNCHANGED <<run, table, qrun, origin, answer, timeline>>

ReturnWithoutRemoval(q) ==
  /\ pc[q] = "leaving"
  /\ pc' = [pc EXCEPT ![q] = "returned"]
  /\ UNCHANGED <<run, table, qrun, origin, got, answer, timeline>>

(* removePendingUserInput, removePendingMCPElicitation: deferred.          *)
RemovePending(q) ==
  /\ pc[q] = "leaving"
  /\ pc' = [pc EXCEPT ![q] = "returned"]
  /\ table' = IF current = qrun[q] THEN table \ {q} ELSE table
  /\ UNCHANGED <<run, qrun, origin, got, answer, timeline>>

-----------------------------------------------------------------------------
(* Answering.                                                              *)

Visible(q) == timeline[q] # <<>>   \* the user knows the ids on the timeline

ResolveAndKeep(q) ==
  /\ Visible(q)
  /\ current = qrun[q] /\ q \in table
  /\ response' = response \cup {q}
  /\ accepted' = accepted \cup {q}
  /\ unshown' = unshown \cup {q}
  /\ UNCHANGED <<run, table, asker, timeline>>

(* ResolveUserInput, ResolveMCPElicitation from Lock to Unlock; an answer that
   does not fit the question is refused and changes nothing.               *)
Resolve(q) ==
  /\ Visible(q)
  /\ current = qrun[q] /\ q \in table
  /\ q \notin response
  /\ response' = response \cup {q}
  /\ table' = table \ {q}
  /\ accepted' = accepted \cup {q}
  /\ unshown' = unshown \cup {q}
  /\ UNCHANGED <<run, asker, timeline>>

PublishResolved(q) ==
  /\ q \in unshown
  /\ unshown' = unshown \ {q}
  /\ Shown(q, "resolved")
  /\ UNCHANGED <<run, table, asker, response, accepted>>

-----------------------------------------------------------------------------
(* An ask_user question ends with its run.  An elicitation has the context of
   the server's request or connection, which may end at any time.          *)
MustGiveUp(q) == q \in Inputs /\ origin[q] \in cancelled
MayGiveUp(q) == MustGiveUp(q) \/ q \in Elicitations

RunStep == StartRun \/ CancelRun \/ AnnounceDone \/ ReleaseRun

QuestionStep(q) ==
  \/ Admit(q) \/ PublishRequest(q) \/ ReceiveAnswer(q) \/ RemovePending(q)
  \/ MayGiveUp(q) /\ GiveUp(q)
  \/ Resolve(q) \/ PublishResolved(q)

(* A server or an agent elicits whenever it likes.                         *)
ElicitAtAnyTime(q) ==
  /\ q \in Elicitations
  /\ pc[q] = "none"
  /\ pc' = [pc EXCEPT ![q] = "called"]
  /\ UNCHANGED <<run, table, qrun, origin, got, answer, timeline>>

QuestionNext ==
  \/ RunStep
  \/ \E q \in Questions : AskUser(q) \/ ElicitAtAnyTime(q) \/ QuestionStep(q)

QuestionSpec == QuestionInit /\ [][QuestionNext]_questionVars

-----------------------------------------------------------------------------
(* Properties of questions.                                                *)

(* The tables are bounded, and whatever is in the table of the current run has
   an asker that still waits: a session is shown as waiting for the user only
   while an answer would reach someone (engine.go:161).                    *)
TableIsWaitedFor ==
  current # 0 =>
    /\ \A q \in table : Pending(q) /\ qrun[q] = current
    /\ Cardinality(table \cap Inputs) <= MaxInputs
    /\ Cardinality(table \cap Elicitations) <= MaxElicitations

(* A question's events are all in one run's stream, the request first and
   neither of them twice, although both are published without the mutex.   *)
RequestBeforeResolved ==
  \A q \in Questions :
    \E n \in 0 .. 2 :
      timeline[q] = SubSeq(<<<<"request", qrun[q]>>, <<"resolved", qrun[q]>>>>, 1, n)

(* What is listed as open has somebody who waits for it, and is announced as
   opened and closed once, in the stream of its own run.                   *)
QuestionsAreWaitedFor == TableIsWaitedFor /\ RequestBeforeResolved

(* An asker gets an answer only if one was accepted, and once its question is
   answered no other answer is accepted.                                   *)
AnswersAreAccepted ==
  /\ \A q \in Questions : got[q] = "answer" => q \in accepted
  /\ response \subseteq accepted
  /\ current # 0 => table \cap accepted = {}

=============================================================================
