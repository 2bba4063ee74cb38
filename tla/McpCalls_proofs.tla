--------------------------- MODULE McpCalls_proofs ---------------------------
(***************************************************************************)
(* Questions to the user and the tool calls they pause, for any number of   *)
(* questions, calls and runs and for every limit.                           *)
(*                                                                         *)
(* A question is put into the table under the engine's mutex and published  *)
(* after it, and so is its answer.  That the timeline is in order all the    *)
(* same rests on the accepted answer: the user can answer only what is      *)
(* visible and still in the table, an accepted answer takes the question out *)
(* of the table for good, and it is published once.                         *)
(*                                                                         *)
(* A call's timeout counts its pauses; it is right because the count is that *)
(* of the elicitations that hold one, each of which was asked on behalf of a *)
(* call that had started.                                                  *)
(***************************************************************************)
EXTENDS McpCalls, FiniteSetTheorems, SequenceTheorems, TLAPS

-----------------------------------------------------------------------------
(* The questions.                                                          *)

Opened(q) == <<<<"request", qrun[q]>>>>
Closed(q) == <<<<"request", qrun[q]>>, <<"resolved", qrun[q]>>>>

(* The run that is active is the latest.                                   *)
RunsFollow ==
  /\ current \in {0, started}
  /\ announced => current # 0

(* A question belongs to a run from its admission on, and only an admitted  *)
(* one is published, and only a published one answered.                    *)
AdmittedFirst ==
  \A q \in Questions :
    /\ Pending(q) => qrun[q] \in Runs
    /\ pc[q] \in {"none", "called", "admitted"} => timeline[q] = <<>> /\ q \notin accepted
    /\ timeline[q] # <<>> => qrun[q] \in Runs

(* The answer is published once, after the request.                        *)
EventsFollow ==
  \A q \in Questions :
    /\ timeline[q] \in {<<>>, Opened(q), Closed(q)}
    /\ q \in unshown => timeline[q] = Opened(q) /\ q \in accepted
    /\ timeline[q] = Closed(q) => q \in accepted

QuestionInv ==
  /\ QuestionTypeOK /\ RunsFollow /\ AdmittedFirst /\ EventsFollow
  /\ TableIsWaitedFor /\ AnswersAreAccepted

-----------------------------------------------------------------------------
(* The calls.                                                              *)

HoldersOf(c) == {q \in holds : matched[q] = c}

CallInv ==
  /\ TypeOK
  /\ \A c \in activeCalls : callPc[c] # "none"
  /\ \A q \in holds : pc[q] # "none" /\ matched[q] \in Calls /\ callPc[matched[q]] # "none"
  /\ \A c \in Calls : pauses[c] = Cardinality(HoldersOf(c))
  /\ TimerFollowsPauses
-----------------------------------------------------------------------------
(* The events of one question, in the stream of run r.                     *)
LEMMA EventsOfRun ==
  ASSUME NEW r \in Runs
  PROVE  LET opened == <<<<"request", r>>>>
             closed == <<<<"request", r>>, <<"resolved", r>>>>
         IN /\ opened \in Seq({"request", "resolved"} \X Runs)
            /\ closed \in Seq({"request", "resolved"} \X Runs)
            /\ Append(<<>>, <<"request", r>>) = opened
            /\ Append(opened, <<"resolved", r>>) = closed
<1> DEFINE S == {"request", "resolved"} \X Runs
           request == <<"request", r>>
           resolved == <<"resolved", r>>
<1>1. request \in S /\ resolved \in S
  OBVIOUS
<1> HIDE DEF S, request, resolved
<1>2. <<>> \in Seq(S) /\ <<request>> \in Seq(S) /\ <<request, resolved>> \in Seq(S)
  BY <1>1
<1>3. Append(<<>>, request) = <<request>>
  BY <1>1, <1>2
<1>4. Append(<<request>>, resolved) = <<request, resolved>>
  <2> DEFINE T == Append(<<request>>, resolved)
  <2>1. T \in Seq(S) /\ Len(T) = 2 /\ T[1] = request /\ T[2] = resolved
    BY <1>1, <1>2
  <2> HIDE DEF T
  <2>2. T = <<request, resolved>>
    BY <1>2, <2>1
  <2>3. QED
    BY <2>2 DEF T
<1>5. QED
  BY <1>2, <1>3, <1>4 DEF S, request, resolved

(* They are the prefixes of the two events.                                *)
LEMMA EventsArePrefixes ==
  ASSUME NEW e1, NEW e2, NEW t \in {<<>>, <<e1>>, <<e1, e2>>}
  PROVE  \E n \in 0 .. 2 : t = SubSeq(<<e1, e2>>, 1, n)
<1> DEFINE E == <<e1, e2>>
<1>1. E \in Seq({e1, e2}) /\ Len(E) = 2 /\ E[1] = e1 /\ E[2] = e2
  OBVIOUS
<1>2. \A n \in 0 .. 2 : /\ SubSeq(E, 1, n) \in Seq({e1, e2})
                        /\ Len(SubSeq(E, 1, n)) = n
                        /\ \A i \in 1 .. n : SubSeq(E, 1, n)[i] = E[i]
  BY <1>1
<1>3. /\ <<>> \in Seq({e1, e2}) /\ Len(<<>>) = 0
      /\ <<e1>> \in Seq({e1, e2}) /\ Len(<<e1>>) = 1 /\ <<e1>>[1] = e1
  OBVIOUS
<1> HIDE DEF E
<1>4. <<>> = SubSeq(E, 1, 0) /\ <<e1>> = SubSeq(E, 1, 1) /\ E = SubSeq(E, 1, 2)
  BY <1>1, <1>2, <1>3
<1>5. 0 \in 0 .. 2 /\ 1 \in 0 .. 2 /\ 2 \in 0 .. 2
  OBVIOUS
<1>6. QED
  BY <1>4, <1>5, Zenon DEF E

(* What the tables hold can be counted.                                    *)
LEMMA TablesAreFinite ==
  ASSUME NEW S \in SUBSET Questions
  PROVE  IsFiniteSet(S) /\ Cardinality(S) \in Nat
BY FS_Subset, FS_CardinalityType, QuestionsAssumption

-----------------------------------------------------------------------------
(* The invariant of the questions.                                         *)
LEMMA QuestionsInitial == QuestionInit => QuestionInv
<1> SUFFICES ASSUME QuestionInit PROVE QuestionInv
  OBVIOUS
<1> USE DEF QuestionInit
<1>1. QuestionTypeOK
  <2>1. 0 \in 0 .. MaxRuns
    BY QuestionsAssumption
  <2>2. announced \in BOOLEAN
    BY Zenon
  <2> HIDE DEF QuestionInit
  <2>3. /\ current \in 0 .. MaxRuns /\ started \in 0 .. MaxRuns /\ cancelled \subseteq Runs
        /\ table \subseteq Questions
        /\ response \subseteq Questions /\ accepted \subseteq Questions /\ unshown \subseteq Questions
    BY <2>1 DEF QuestionInit
  <2>4. /\ pc \in [Questions -> {"none", "called", "admitted", "asked", "leaving", "returned"}]
        /\ qrun \in [Questions -> 0 .. MaxRuns] /\ origin \in [Inputs -> 0 .. MaxRuns]
        /\ got \in [Questions -> {"none", "answer", "cancel"}]
    BY <2>1 DEF QuestionInit
  <2>5. timeline \in [Questions -> Seq({"request", "resolved"} \X Runs)]
    BY EmptySeq, Zenon DEF QuestionInit
  <2>6. QED
    BY <2>2, <2>3, <2>4, <2>5 DEF QuestionTypeOK
<1>2. RunsFollow /\ AdmittedFirst /\ TableIsWaitedFor /\ AnswersAreAccepted
  BY DEF RunsFollow, AdmittedFirst, Pending, TableIsWaitedFor, AnswersAreAccepted
<1>3. EventsFollow
  BY DEF EventsFollow, Closed
<1>4. QED
  BY <1>1, <1>2, <1>3 DEF QuestionInv

(* The table of a run starts empty, and a run changes no question.         *)
LEMMA RunStepsKeep ==
  ASSUME QuestionInv, RunStep
  PROVE  QuestionInv'
<1> USE DEF QuestionInv, asker, answer
<1>1. /\ UNCHANGED <<asker, answer, timeline>>
      /\ table' = {} \/ (table' = table /\ current' \in {current, 0})
      /\ table' \subseteq table
  BY DEF RunStep, StartRun, CancelRun, AnnounceDone, ReleaseRun, asker, answer
<1>2. /\ current' \in 0 .. MaxRuns /\ started' \in 0 .. MaxRuns /\ cancelled' \subseteq Runs
      /\ announced' \in BOOLEAN
      /\ RunsFollow'
  <2>1. /\ current \in 0 .. MaxRuns /\ started \in 0 .. MaxRuns /\ cancelled \subseteq Runs
        /\ announced \in BOOLEAN
    BY DEF QuestionTypeOK
  <2>2. CASE StartRun
    <3>1. announced' \in BOOLEAN /\ ~announced'
      BY <2>2, Zenon DEF StartRun
    <3>2. current' = started + 1 /\ started' = started + 1 /\ started < MaxRuns /\ cancelled' = cancelled
      BY <2>2 DEF StartRun
    <3>3. QED
      BY <2>1, <3>1, <3>2, QuestionsAssumption DEF RunsFollow
  <2>3. CASE CancelRun
    BY <2>1, <2>3, QuestionsAssumption DEF CancelRun, RunsFollow, Runs
  <2>4. CASE AnnounceDone
    BY <2>1, <2>4 DEF AnnounceDone, RunsFollow
  <2>5. CASE ReleaseRun
    <3>1. announced' \in BOOLEAN /\ ~announced'
      BY <2>5, Zenon DEF ReleaseRun
    <3>2. current' = 0 /\ started' = started /\ cancelled' = cancelled
      BY <2>5 DEF ReleaseRun
    <3>3. QED
      BY <2>1, <3>1, <3>2, QuestionsAssumption DEF RunsFollow
  <2>6. QED
    BY <2>2, <2>3, <2>4, <2>5 DEF RunStep
<1>3. QuestionTypeOK'
  BY <1>1, <1>2 DEF QuestionTypeOK
<1>4. AdmittedFirst' /\ EventsFollow'
  BY <1>1 DEF AdmittedFirst, Pending, EventsFollow, Opened, Closed
<1>5. TableIsWaitedFor'
  <2>1. CASE table' = {}
    <3>1. table' \cap Inputs = {} /\ table' \cap Elicitations = {}
      BY <2>1
    <3>2. QED
      BY <2>1, <3>1, FS_EmptySet, QuestionsAssumption DEF TableIsWaitedFor
  <2>2. CASE table' = table /\ current' \in {current, 0}
    BY <1>1, <2>2 DEF TableIsWaitedFor, Pending
  <2>3. QED
    BY <1>1, <2>1, <2>2
<1>6. AnswersAreAccepted'
  BY <1>1 DEF AnswersAreAccepted
<1>7. QED
  BY <1>2, <1>3, <1>4, <1>5, <1>6

(* A question is asked: nothing of it is in the table or the timeline.     *)
LEMMA CalledKeeps ==
  ASSUME QuestionInv, NEW q \in Questions, pc[q] = "none",
         pc' = [pc EXCEPT ![q] = "called"],
         origin' \in [Inputs -> 0 .. MaxRuns],
         UNCHANGED <<run, table, qrun, got, answer, timeline>>
  PROVE  QuestionInv'
<1> USE DEF QuestionInv, run, answer
<1>1. QuestionTypeOK'
  BY DEF QuestionTypeOK
<1>2. RunsFollow' /\ AnswersAreAccepted'
  BY DEF RunsFollow, AnswersAreAccepted
<1>3. AdmittedFirst'
  BY DEF AdmittedFirst, Pending, QuestionTypeOK
<1>4. EventsFollow'
  BY DEF EventsFollow, Opened, Closed
<1>5. TableIsWaitedFor'
  BY DEF TableIsWaitedFor, Pending, QuestionTypeOK
<1>6. QED
  BY <1>1, <1>2, <1>3, <1>4, <1>5

(* Admission, under the mutex: within the limits, and never of a question    *)
(* that was answered.                                                      *)
LEMMA AdmitKeeps ==
  ASSUME QuestionInv, NEW q \in Questions, Admit(q)
  PROVE  QuestionInv'
<1> USE DEF QuestionInv
<1>1. CASE RightRun(q) /\ ~Full(q)
  <2>1. /\ pc[q] = "called" /\ current # 0
        /\ table' = table \cup {q}
        /\ pc' = [pc EXCEPT ![q] = "admitted"]
        /\ qrun' = [qrun EXCEPT ![q] = current]
        /\ UNCHANGED <<current, started, cancelled, announced, got, origin, response,
                       accepted, unshown, timeline>>
    BY <1>1 DEF Admit, RightRun, run, answer
  <2>2. timeline[q] = <<>> /\ q \notin accepted /\ current \in Runs
    BY <2>1 DEF AdmittedFirst, QuestionTypeOK, Runs
  <2>3. QuestionTypeOK'
    BY <2>1 DEF QuestionTypeOK
  <2>4. RunsFollow' /\ AnswersAreAccepted'
    BY <2>1, <2>2 DEF RunsFollow, AnswersAreAccepted
  <2>5. AdmittedFirst'
    BY <2>1, <2>2 DEF AdmittedFirst, Pending, QuestionTypeOK
  <2>6. EventsFollow'
    <3> SUFFICES ASSUME NEW p \in Questions
                 PROVE  /\ timeline[p] \in {<<>>, Opened(p)', Closed(p)'}
                        /\ p \in unshown => timeline[p] = Opened(p)' /\ p \in accepted
                        /\ timeline[p] = Closed(p)' => p \in accepted
      BY <2>1 DEF EventsFollow
    <3>1. CASE p = q
      <4>1. <<>> # Opened(q) /\ <<>> # Closed(q)'
        BY DEF Opened, Closed
      <4>2. q \notin unshown
        BY <2>2, <4>1 DEF EventsFollow
      <4>3. QED
        BY <2>2, <3>1, <4>1, <4>2
    <3>2. CASE p # q
      <4>1. Opened(p)' = Opened(p) /\ Closed(p)' = Closed(p)
        BY <2>1, <3>2 DEF Opened, Closed, QuestionTypeOK
      <4>2. QED
        BY <4>1 DEF EventsFollow
    <3>3. QED
      BY <3>1, <3>2
  <2>7. TableIsWaitedFor'
    <3>1. \A p \in table' : Pending(p)' /\ qrun'[p] = current'
      BY <2>1 DEF TableIsWaitedFor, Pending, QuestionTypeOK
    <3>2. Cardinality(table' \cap Inputs) <= MaxInputs
      <4>1. CASE q \in Inputs
        <5>1. Cardinality(table \cap Inputs) < MaxInputs
          BY <1>1, <4>1, TablesAreFinite, QuestionsAssumption DEF Full, Questions
        <5>2. table' \cap Inputs = (table \cap Inputs) \cup {q}
          BY <2>1, <4>1
        <5>3. /\ IsFiniteSet(table \cap Inputs) /\ Cardinality(table \cap Inputs) \in Nat
          BY TablesAreFinite DEF Questions
        <5>4. \/ Cardinality(table' \cap Inputs) = Cardinality(table \cap Inputs)
              \/ Cardinality(table' \cap Inputs) = Cardinality(table \cap Inputs) + 1
          BY <5>2, <5>3, FS_AddElement, Zenon
        <5>5. QED
          BY <5>1, <5>3, <5>4, QuestionsAssumption
      <4>2. CASE q \notin Inputs
        <5>1. table' \cap Inputs = table \cap Inputs
          BY <2>1, <4>2
        <5>2. QED
          BY <2>1, <5>1 DEF TableIsWaitedFor
      <4>3. QED
        BY <4>1, <4>2
    <3>3. Cardinality(table' \cap Elicitations) <= MaxElicitations
      <4>1. CASE q \in Elicitations
        <5>1. Cardinality(table \cap Elicitations) < MaxElicitations
          BY <1>1, <4>1, TablesAreFinite, QuestionsAssumption DEF Full, Questions
        <5>2. table' \cap Elicitations = (table \cap Elicitations) \cup {q}
          BY <2>1, <4>1
        <5>3. /\ IsFiniteSet(table \cap Elicitations) /\ Cardinality(table \cap Elicitations) \in Nat
          BY TablesAreFinite DEF Questions
        <5>4. \/ Cardinality(table' \cap Elicitations) = Cardinality(table \cap Elicitations)
              \/ Cardinality(table' \cap Elicitations) = Cardinality(table \cap Elicitations) + 1
          BY <5>2, <5>3, FS_AddElement, Zenon
        <5>5. QED
          BY <5>1, <5>3, <5>4, QuestionsAssumption
      <4>2. CASE q \notin Elicitations
        <5>1. table' \cap Elicitations = table \cap Elicitations
          BY <2>1, <4>2
        <5>2. QED
          BY <2>1, <5>1 DEF TableIsWaitedFor
      <4>3. QED
        BY <4>1, <4>2
    <3>4. QED
      BY <3>1, <3>2, <3>3 DEF TableIsWaitedFor
  <2>8. QED
    BY <2>3, <2>4, <2>5, <2>6, <2>7
<1>2. CASE ~(RightRun(q) /\ ~Full(q))
  <2>1. /\ pc[q] = "called" /\ pc' = [pc EXCEPT ![q] = "returned"]
        /\ got' = [got EXCEPT ![q] = "cancel"]
        /\ UNCHANGED <<current, started, cancelled, announced, table, qrun, origin, response,
                       accepted, unshown, timeline>>
    BY <1>2 DEF Admit, run, answer
  <2>2. QuestionTypeOK'
    BY <2>1 DEF QuestionTypeOK
  <2>3. RunsFollow' /\ EventsFollow'
    BY <2>1 DEF RunsFollow, EventsFollow, Opened, Closed
  <2>4. AdmittedFirst' /\ AnswersAreAccepted'
    BY <2>1 DEF AdmittedFirst, AnswersAreAccepted, Pending, QuestionTypeOK
  <2>5. TableIsWaitedFor'
    BY <2>1 DEF TableIsWaitedFor, Pending, QuestionTypeOK
  <2>6. QED
    BY <2>2, <2>3, <2>4, <2>5
<1>3. QED
  BY <1>1, <1>2
(* The request is published after the mutex: nobody can have answered it.  *)
LEMMA PublishRequestKeeps ==
  ASSUME QuestionInv, NEW q \in Questions, PublishRequest(q)
  PROVE  QuestionInv'
<1> USE DEF QuestionInv
<1>1. /\ pc[q] = "admitted" /\ pc' = [pc EXCEPT ![q] = "asked"]
      /\ Shown(q, "request")
      /\ UNCHANGED <<current, started, cancelled, announced, table, qrun, origin, got, response,
                     accepted, unshown>>
  BY DEF PublishRequest, run, answer
<1>2. timeline[q] = <<>> /\ q \notin accepted /\ qrun[q] \in Runs
  BY <1>1 DEF AdmittedFirst, Pending
<1>3. /\ timeline' \in [Questions -> Seq({"request", "resolved"} \X Runs)]
      /\ timeline'[q] \in {<<>>, Opened(q)}
      /\ \A p \in Questions : p # q => timeline'[p] = timeline[p]
  BY <1>1, <1>2, EventsOfRun DEF Shown, Opened, QuestionTypeOK
<1>4. QuestionTypeOK'
  BY <1>1, <1>3 DEF QuestionTypeOK
<1>5. RunsFollow' /\ AnswersAreAccepted'
  BY <1>1 DEF RunsFollow, AnswersAreAccepted
<1>6. AdmittedFirst'
  BY <1>1, <1>2, <1>3 DEF AdmittedFirst, Pending, QuestionTypeOK
<1>7. EventsFollow'
  <2>1. \A p \in Questions : Opened(p)' = Opened(p) /\ Closed(p)' = Closed(p)
    BY <1>1 DEF Opened, Closed
  <2>2. Opened(q) # Closed(q) /\ <<>> # Opened(q) /\ <<>> # Closed(q)
    BY DEF Opened, Closed
  <2>3. q \notin unshown
    BY <1>2, <2>2 DEF EventsFollow
  <2>4. QED
    BY <1>1, <1>2, <1>3, <2>1, <2>2, <2>3 DEF EventsFollow
<1>8. TableIsWaitedFor'
  BY <1>1 DEF TableIsWaitedFor, Pending, QuestionTypeOK
<1>9. QED
  BY <1>4, <1>5, <1>6, <1>7, <1>8

(* The select: an answer the user was told is accepted, or the end of the    *)
(* asker's context.                                                        *)
LEMMA SelectKeeps ==
  ASSUME QuestionInv, NEW q \in Questions, ReceiveAnswer(q) \/ GiveUp(q)
  PROVE  QuestionInv'
<1> USE DEF QuestionInv
<1>1. /\ pc[q] = "asked" /\ pc' = [pc EXCEPT ![q] = "leaving"]
      /\ response' \subseteq response
      /\ \/ got' = [got EXCEPT ![q] = "answer"] /\ q \in response
         \/ got' = [got EXCEPT ![q] = "cancel"]
      /\ UNCHANGED <<current, started, cancelled, announced, table, qrun, origin,
                     accepted, unshown, timeline>>
  BY DEF ReceiveAnswer, GiveUp, run, answer
<1>2. QuestionTypeOK'
  BY <1>1 DEF QuestionTypeOK
<1>3. RunsFollow' /\ EventsFollow'
  BY <1>1 DEF RunsFollow, EventsFollow, Opened, Closed
<1>4. AdmittedFirst'
  BY <1>1 DEF AdmittedFirst, Pending, QuestionTypeOK
<1>5. AnswersAreAccepted'
  BY <1>1 DEF AnswersAreAccepted, QuestionTypeOK
<1>6. TableIsWaitedFor'
  BY <1>1 DEF TableIsWaitedFor, Pending, QuestionTypeOK
<1>7. QED
  BY <1>2, <1>3, <1>4, <1>5, <1>6

(* Fewer questions in the table are within the limits.                     *)
LEMMA SmallerTable ==
  ASSUME QuestionInv, table' \subseteq table, UNCHANGED current, current # 0
  PROVE  /\ Cardinality(table' \cap Inputs) <= MaxInputs
         /\ Cardinality(table' \cap Elicitations) <= MaxElicitations
<1>1. table \cap Inputs \in SUBSET Questions /\ table \cap Elicitations \in SUBSET Questions
  BY DEF Questions
<1>2. /\ Cardinality(table' \cap Inputs) <= Cardinality(table \cap Inputs)
      /\ Cardinality(table' \cap Elicitations) <= Cardinality(table \cap Elicitations)
  BY <1>1, TablesAreFinite, FS_Subset
<1>3. table' \cap Inputs \in SUBSET Questions /\ table' \cap Elicitations \in SUBSET Questions
  BY DEF Questions
<1>4. /\ Cardinality(table' \cap Inputs) \in Nat /\ Cardinality(table \cap Inputs) \in Nat
      /\ Cardinality(table' \cap Elicitations) \in Nat /\ Cardinality(table \cap Elicitations) \in Nat
  BY <1>1, <1>3, TablesAreFinite
<1>5. /\ Cardinality(table \cap Inputs) <= MaxInputs
      /\ Cardinality(table \cap Elicitations) <= MaxElicitations
  BY DEF QuestionInv, TableIsWaitedFor
<1>6. QED
  BY <1>2, <1>4, <1>5, QuestionsAssumption

(* The asker leaves, and takes its question out of its own run's table.    *)
LEMMA RemoveKeeps ==
  ASSUME QuestionInv, NEW q \in Questions, RemovePending(q)
  PROVE  QuestionInv'
<1> USE DEF QuestionInv
<1>1. /\ pc[q] = "leaving" /\ pc' = [pc EXCEPT ![q] = "returned"]
      /\ table' = IF current = qrun[q] THEN table \ {q} ELSE table
      /\ UNCHANGED <<current, started, cancelled, announced, qrun, origin, got, response,
                     accepted, unshown, timeline>>
  BY DEF RemovePending, run, answer
<1>2. QuestionTypeOK'
  BY <1>1 DEF QuestionTypeOK
<1>3. RunsFollow' /\ EventsFollow' /\ AnswersAreAccepted'
  BY <1>1 DEF RunsFollow, EventsFollow, Opened, Closed, AnswersAreAccepted
<1>4. AdmittedFirst'
  BY <1>1 DEF AdmittedFirst, Pending, QuestionTypeOK
<1>5. TableIsWaitedFor'
  <2> SUFFICES ASSUME current # 0 PROVE TableIsWaitedFor'
    BY <1>1 DEF TableIsWaitedFor
  <2>1. \A p \in table' : Pending(p)' /\ qrun'[p] = current'
    BY <1>1 DEF TableIsWaitedFor, Pending, QuestionTypeOK
  <2>2. QED
    BY <1>1, <2>1, SmallerTable DEF TableIsWaitedFor
<1>6. QED
  BY <1>2, <1>3, <1>4, <1>5

(* An answer is accepted: the question was open, so no answer was, and it is *)
(* taken out of the table in the same step.                                *)
LEMMA ResolveKeeps ==
  ASSUME QuestionInv, NEW q \in Questions, Resolve(q)
  PROVE  QuestionInv'
<1> USE DEF QuestionInv
<1>1. /\ timeline[q] # <<>> /\ current = qrun[q] /\ q \in table
      /\ response' = response \cup {q} /\ table' = table \ {q}
      /\ accepted' = accepted \cup {q} /\ unshown' = unshown \cup {q}
      /\ UNCHANGED <<current, started, cancelled, announced, pc, qrun, origin, got, timeline>>
  BY DEF Resolve, Visible, run, asker
<1>2. /\ current # 0 /\ q \notin accepted
      /\ pc[q] \notin {"none", "called", "admitted"}
  BY <1>1 DEF AdmittedFirst, AnswersAreAccepted, Runs
<1>3. timeline[q] = Opened(q)
  BY <1>1, <1>2 DEF EventsFollow
<1>4. QuestionTypeOK'
  BY <1>1 DEF QuestionTypeOK
<1>5. RunsFollow' /\ AnswersAreAccepted'
  BY <1>1, <1>2 DEF RunsFollow, AnswersAreAccepted
<1>6. AdmittedFirst'
  BY <1>1, <1>2 DEF AdmittedFirst, Pending
<1>7. EventsFollow'
  BY <1>1, <1>3 DEF EventsFollow, Opened, Closed
<1>8. TableIsWaitedFor'
  BY <1>1, <1>2, SmallerTable DEF TableIsWaitedFor, Pending
<1>9. QED
  BY <1>4, <1>5, <1>6, <1>7, <1>8

(* An accepted answer is published once, in the stream of the question's run.*)
LEMMA PublishResolvedKeeps ==
  ASSUME QuestionInv, NEW q \in Questions, PublishResolved(q)
  PROVE  QuestionInv'
<1> USE DEF QuestionInv
<1>1. /\ q \in unshown /\ unshown' = unshown \ {q} /\ Shown(q, "resolved")
      /\ UNCHANGED <<current, started, cancelled, announced, table, pc, qrun, origin, got, response,
                     accepted>>
  BY DEF PublishResolved, run, asker
<1>2. timeline[q] = Opened(q) /\ Opened(q) # <<>> /\ Opened(q) # Closed(q)
  BY <1>1 DEF EventsFollow, Opened, Closed
<1>3. /\ qrun[q] \in Runs /\ pc[q] \notin {"none", "called", "admitted"} /\ q \in Questions
  BY <1>2 DEF AdmittedFirst
<1>4. q \in accepted
  BY <1>1 DEF EventsFollow
<1>5. /\ timeline' \in [Questions -> Seq({"request", "resolved"} \X Runs)]
      /\ timeline'[q] \in {Opened(q), Closed(q)}
      /\ \A p \in Questions : p # q => timeline'[p] = timeline[p]
  BY <1>1, <1>2, <1>3, EventsOfRun, ZenonT(60) DEF Shown, Opened, Closed, QuestionTypeOK
<1>6. QuestionTypeOK'
  BY <1>1, <1>5 DEF QuestionTypeOK
<1>7. RunsFollow' /\ AnswersAreAccepted'
  BY <1>1 DEF RunsFollow, AnswersAreAccepted
<1>8. AdmittedFirst'
  BY <1>1, <1>3, <1>5 DEF AdmittedFirst, Pending
<1>9. EventsFollow'
  <2>1. \A p \in Questions : Opened(p)' = Opened(p) /\ Closed(p)' = Closed(p)
    BY <1>1 DEF Opened, Closed
  <2>2. QED
    BY <1>1, <1>2, <1>4, <1>5, <2>1 DEF EventsFollow
<1>10. TableIsWaitedFor'
  BY <1>1 DEF TableIsWaitedFor, Pending
<1>11. QED
  BY <1>6, <1>7, <1>8, <1>9, <1>10

(* Every step of the questions, and of the runs they belong to, keeps the   *)
(* invariant.                                                              *)
LEMMA QuestionInvIsInductive ==
  ASSUME QuestionInv, [QuestionNext]_questionVars
  PROVE  QuestionInv'
<1>1. ASSUME NEW q \in Questions, AskUser(q)
      PROVE  QuestionInv'
  <2>1. /\ pc[q] = "none" /\ pc' = [pc EXCEPT ![q] = "called"]
        /\ origin' \in [Inputs -> 0 .. MaxRuns]
        /\ UNCHANGED <<run, table, qrun, got, answer, timeline>>
    BY <1>1 DEF AskUser, QuestionInv, QuestionTypeOK
  <2>2. QED
    BY <2>1, CalledKeeps
<1>2. ASSUME NEW q \in Questions, ElicitAtAnyTime(q)
      PROVE  QuestionInv'
  <2>1. /\ pc[q] = "none" /\ pc' = [pc EXCEPT ![q] = "called"]
        /\ origin' \in [Inputs -> 0 .. MaxRuns]
        /\ UNCHANGED <<run, table, qrun, got, answer, timeline>>
    BY <1>2 DEF ElicitAtAnyTime, QuestionInv, QuestionTypeOK
  <2>2. QED
    BY <2>1, CalledKeeps
<1>3. ASSUME NEW q \in Questions, QuestionStep(q)
      PROVE  QuestionInv'
  BY <1>3, AdmitKeeps, PublishRequestKeeps, SelectKeeps, RemoveKeeps, ResolveKeeps,
     PublishResolvedKeeps DEF QuestionStep
<1>4. CASE UNCHANGED questionVars
  <2>1. UNCHANGED <<current, started, cancelled, announced, table, pc, qrun, origin, got, response,
                   accepted, unshown, timeline>>
    BY <1>4 DEF questionVars, run, asker, answer
  <2>2. QED
    BY <2>1 DEF QuestionInv, QuestionTypeOK, RunsFollow, AdmittedFirst, Pending, EventsFollow,
                Opened, Closed, TableIsWaitedFor, AnswersAreAccepted
<1>5. QED
  BY <1>1, <1>2, <1>3, <1>4, RunStepsKeep DEF QuestionNext

(* In every reachable state a question belongs to its run from its admission *)
(* on, and its answer follows its request (engine/user_input.go,            *)
(* engine/mcp_elicitation.go).                                             *)
THEOREM QuestionInvariant == QuestionSpec => []QuestionInv
BY QuestionsInitial, QuestionInvIsInductive, PTL DEF QuestionSpec

(* What the runs check follows from the invariant.                         *)
LEMMA EventsFromInvariant == QuestionInv => QuestionsAreWaitedFor /\ AnswersAreAccepted
<1> SUFFICES ASSUME QuestionInv PROVE QuestionsAreWaitedFor /\ AnswersAreAccepted
  OBVIOUS
<1>1. RequestBeforeResolved
  <2> SUFFICES ASSUME NEW q \in Questions
               PROVE  \E n \in 0 .. 2 :
                        timeline[q] = SubSeq(<<<<"request", qrun[q]>>, <<"resolved", qrun[q]>>>>, 1, n)
    BY DEF RequestBeforeResolved
  <2> DEFINE e1 == <<"request", qrun[q]>>
             e2 == <<"resolved", qrun[q]>>
  <2>1. timeline[q] \in {<<>>, <<e1>>, <<e1, e2>>}
    BY DEF QuestionInv, EventsFollow, Opened, Closed
  <2> HIDE DEF e1, e2
  <2>2. \E n \in 0 .. 2 : timeline[q] = SubSeq(<<e1, e2>>, 1, n)
    BY <2>1, EventsArePrefixes
  <2>3. QED
    BY <2>2 DEF e1, e2
<1>2. QED
  BY <1>1 DEF QuestionInv, QuestionsAreWaitedFor

(* What is in the table of the active run has an asker that waits, the       *)
(* tables keep their limits, and each question is shown as opened and closed *)
(* once, in the stream of its own run (user_input.go, mcp_elicitation.go).  *)
THEOREM QuestionsWaitedFor == QuestionSpec => []QuestionsAreWaitedFor
BY QuestionInvariant, EventsFromInvariant, PTL

(* An asker gets only an answer the user was told is accepted, and no second *)
(* answer to a question is accepted (ResolveUserInput,                      *)
(* ResolveMCPElicitation).                                                 *)
THEOREM AnswersAccepted == QuestionSpec => []AnswersAreAccepted
BY QuestionInvariant, EventsFromInvariant, PTL
-----------------------------------------------------------------------------
(* The calls use the questions as they are: what an elicitation does to its *)
(* question is what it may do at any time.                                 *)
LEMMA CallStepsAreQuestionSteps ==
  ASSUME [Next]_vars
  PROVE  [QuestionNext]_questionVars
<1>1. CASE RunStep
  BY <1>1 DEF QuestionNext
<1>2. CASE \E q \in Questions : AskUser(q) \/ QuestionStep(q)
  BY <1>2 DEF QuestionNext
<1>3. ASSUME NEW q \in Elicitations, NEW c \in Calls, Elicit(q, c)
      PROVE  QuestionNext
  <2>1. q \in Questions /\ ElicitAtAnyTime(q)
    BY <1>3 DEF Elicit, ElicitAtAnyTime, Questions
  <2>2. QED
    BY <2>1 DEF QuestionNext
<1>4. CASE UNCHANGED questionVars
  BY <1>4
<1>5. QED
  BY <1>1, <1>2, <1>3, <1>4
     DEF Next, CallStep, CallTool, Returns, FinishToolCall, StopTimeout, CancelToolCall, TimerFires,
         Expire, EndElicitation, vars

(* The tool calls implement the specification of the questions: whatever is *)
(* shown of the questions alone holds of the questions of the calls         *)
(* (mcpruntime/elicitation.go over engine/mcp_elicitation.go).             *)
THEOREM CallsImplementQuestions == Spec => QuestionSpec
<1>1. Init => QuestionInit
  BY DEF Init
<1>2. QED
  BY <1>1, CallStepsAreQuestionSteps, PTL DEF Spec, QuestionSpec

-----------------------------------------------------------------------------
(* The pauses of a call can be counted.                                    *)
LEMMA HoldersAreFinite ==
  ASSUME NEW S \in SUBSET Elicitations
  PROVE  /\ IsFiniteSet(S) /\ Cardinality(S) \in 0 .. Cardinality(Elicitations)
         /\ Cardinality(S) = 0 <=> S = {}
<1>1. IsFiniteSet(Elicitations)
  BY FS_Subset, QuestionsAssumption DEF Questions
<1>2. /\ IsFiniteSet(S) /\ Cardinality(S) <= Cardinality(Elicitations)
      /\ Cardinality(Elicitations) \in Nat
  BY <1>1, FS_Subset, FS_CardinalityType
<1>3. Cardinality(S) \in Nat /\ (Cardinality(S) = 0 <=> S = {})
  BY <1>2, FS_CardinalityType, FS_EmptySet
<1>4. QED
  BY <1>2, <1>3

(* No call is made at first.                                               *)
LEMMA CallsInitial == Init => CallInv
<1> SUFFICES ASSUME Init PROVE CallInv
  OBVIOUS
<1>1. 0 \in 0 .. MaxRuns /\ 0 \in 0 .. Cardinality(Elicitations)
  BY QuestionsAssumption, HoldersAreFinite
<1>2. TypeOK
  BY <1>1, QuestionsInitial DEF Init, TypeOK, QuestionInv
<1>3. \A c \in Calls : HoldersOf(c) = {} /\ callPc[c] = "none" /\ pauses[c] = 0
  BY DEF Init, HoldersOf
<1>4. \A c \in Calls : pauses[c] = Cardinality(HoldersOf(c))
  BY <1>3, FS_EmptySet
<1>5. TimerFollowsPauses
  BY <1>3 DEF TimerFollowsPauses
<1>6. QED
  BY <1>2, <1>4, <1>5 DEF Init, CallInv

(* What a question does leaves the calls alone.                            *)
LEMMA QuestionsKeepCalls ==
  ASSUME CallInv, QuestionTypeOK', UNCHANGED callVars,
         \A q \in Questions : pc[q] # "none" => pc'[q] # "none"
  PROVE  CallInv'
<1> USE DEF CallInv
<1>1. UNCHANGED <<callPc, callRun, activeCalls, userStopped, ctxDone, pauses, timer, expiring,
                 stopped, timedOut, outcome, matched, holds>>
  BY DEF callVars, timeout
<1>2. TypeOK'
  BY <1>1 DEF TypeOK
<1>3. /\ \A c \in activeCalls' : callPc'[c] # "none"
      /\ \A q \in holds' : pc'[q] # "none" /\ matched'[q] \in Calls /\ callPc'[matched'[q]] # "none"
  BY <1>1 DEF TypeOK, Questions
<1>4. /\ \A c \in Calls : pauses'[c] = Cardinality(HoldersOf(c)')
      /\ TimerFollowsPauses'
  BY <1>1 DEF HoldersOf, TimerFollowsPauses, Asked
<1>5. QED
  BY <1>2, <1>3, <1>4

(* No question takes back that it was asked.                               *)
LEMMA AskedStays ==
  ASSUME QuestionTypeOK, [QuestionNext]_questionVars, NEW q \in Questions, pc[q] # "none"
  PROVE  pc'[q] # "none"
BY DEF QuestionTypeOK, QuestionNext, RunStep, StartRun, CancelRun, AnnounceDone, ReleaseRun, AskUser,
       ElicitAtAnyTime, QuestionStep, Admit, PublishRequest, ReceiveAnswer, GiveUp, RemovePending,
       Resolve, PublishResolved, questionVars, asker

(* A call starts with a timer that runs; nobody has asked on its behalf.   *)
LEMMA CallStarts ==
  ASSUME CallInv, NEW c \in Calls, CallTool(c)
  PROVE  CallInv'
<1> USE DEF CallInv
<1>1. /\ callPc[c] = "none" /\ callPc' = [callPc EXCEPT ![c] = "calling"]
      /\ callRun' = [callRun EXCEPT ![c] = current]
      /\ activeCalls' = activeCalls \cup {c} /\ timer' = timer \cup {c}
      /\ UNCHANGED questionVars /\ UNCHANGED pc
      /\ UNCHANGED <<userStopped, ctxDone, pauses, expiring, stopped, timedOut, outcome, matched, holds>>
  BY DEF CallTool, questionVars, asker
<1>2. QuestionTypeOK'
  BY <1>1 DEF TypeOK, QuestionTypeOK, questionVars, run, asker, answer
<1>3. TypeOK'
  BY <1>1, <1>2 DEF TypeOK, QuestionTypeOK
<1>4. /\ \A d \in activeCalls' : callPc'[d] # "none"
      /\ \A q \in holds' : pc'[q] # "none" /\ matched'[q] \in Calls /\ callPc'[matched'[q]] # "none"
  BY <1>1 DEF TypeOK
<1>5. \A d \in Calls : pauses'[d] = Cardinality(HoldersOf(d)')
  BY <1>1 DEF HoldersOf
<1>6. TimerFollowsPauses'
  <2>1. HoldersOf(c) = {}
    BY <1>1 DEF HoldersOf
  <2>2. pauses[c] = 0 /\ ~Asked(c)
    BY <2>1, FS_EmptySet DEF HoldersOf, Asked
  <2>3. QED
    BY <1>1, <2>2 DEF TimerFollowsPauses, Asked, TypeOK
<1>7. QED
  BY <1>3, <1>4, <1>5, <1>6

(* The ends of a call: nothing starts its timer again, or stops it while it *)
(* is in flight.                                                           *)
LEMMA CallEnds ==
  ASSUME CallInv, NEW c \in Calls, Returns(c) \/ CallStep(c) \/ CancelToolCall(c)
  PROVE  CallInv'
<1> USE DEF CallInv
<1>1. /\ UNCHANGED questionVars /\ UNCHANGED <<pc, callRun, pauses, expiring, timedOut, matched, holds>>
      /\ activeCalls' \subseteq activeCalls
      /\ userStopped' \subseteq userStopped \cup {c} /\ ctxDone' \subseteq ctxDone \cup {c}
      /\ outcome' \in [Calls -> {"none", "reply", "cancelled", "timedOut"}]
      /\ \/ UNCHANGED <<callPc, timer, stopped>>
         \/ /\ callPc[c] # "none"
            /\ callPc' \in {[callPc EXCEPT ![c] = to] : to \in {"returned", "finished", "stopped"}}
            /\ UNCHANGED <<timer, stopped>>
               \/ (callPc[c] = "finished" /\ timer' = timer \ {c} /\ stopped' = stopped \cup {c})
  BY DEF Returns, Outcome, CallStep, FinishToolCall, StopTimeout, CancelToolCall, questionVars, asker,
         timeout, TypeOK
<1>2. QuestionTypeOK'
  BY <1>1 DEF TypeOK, QuestionTypeOK, questionVars, run, asker, answer
<1>3. /\ callPc' \in [Calls -> {"none", "calling", "returned", "finished", "stopped"}]
      /\ \A d \in Calls : /\ callPc[d] # "none" => callPc'[d] # "none"
                          /\ callPc'[d] = "calling" => callPc[d] = "calling"
      /\ timer' \subseteq Calls /\ stopped' \subseteq Calls /\ stopped \subseteq stopped'
  BY <1>1 DEF TypeOK
<1>4. TypeOK'
  BY <1>1, <1>2, <1>3 DEF TypeOK
<1>5. /\ \A d \in activeCalls' : callPc'[d] # "none"
      /\ \A q \in holds' : pc'[q] # "none" /\ matched'[q] \in Calls /\ callPc'[matched'[q]] # "none"
  BY <1>1, <1>3 DEF TypeOK
<1>6. \A d \in Calls : pauses'[d] = Cardinality(HoldersOf(d)')
  BY <1>1 DEF HoldersOf
<1>7. TimerFollowsPauses'
  <2> SUFFICES ASSUME NEW d \in Calls, callPc'[d] = "calling", d \notin stopped'
               PROVE  IF Asked(d)' THEN d \notin timer'
                      ELSE pauses'[d] = 0 /\ (d \in timer' \/ expiring'[d] # {})
    BY DEF TimerFollowsPauses
  <2>1. callPc[d] = "calling" /\ d \notin stopped /\ (d \in timer' <=> d \in timer)
    BY <1>1, <1>3
  <2>2. QED
    BY <1>1, <2>1 DEF TimerFollowsPauses, Asked
<1>8. QED
  BY <1>4, <1>5, <1>6, <1>7

(* The timer fires, and its goroutine finds the call paused, stopped, or in  *)
(* flight: then the call is timed out.                                     *)
LEMMA TimeoutSteps ==
  ASSUME CallInv, NEW c \in Calls, TimerFires(c) \/ \E age \in {"fresh", "stale"} : Expire(c, age)
  PROVE  CallInv'
<1> USE DEF CallInv
<1>1. CASE TimerFires(c)
  <2>1. /\ c \in timer /\ timer' = timer \ {c}
        /\ expiring' = [expiring EXCEPT ![c] = @ \cup {"fresh"}]
        /\ UNCHANGED questionVars
        /\ UNCHANGED <<pc, callPc, callRun, activeCalls, userStopped, ctxDone, pauses, stopped, timedOut,
                       outcome, matched, holds>>
    BY <1>1 DEF TimerFires, questionVars, asker
  <2>2. QuestionTypeOK'
    BY <2>1 DEF TypeOK, QuestionTypeOK, questionVars, run, asker, answer
  <2>3. TypeOK'
    BY <2>1, <2>2 DEF TypeOK
  <2>4. \A d \in Calls : pauses'[d] = Cardinality(HoldersOf(d)')
    BY <2>1 DEF HoldersOf
  <2>5. TimerFollowsPauses'
    BY <2>1 DEF TimerFollowsPauses, Asked, TypeOK
  <2>6. QED
    BY <2>1, <2>3, <2>4, <2>5
<1>2. ASSUME NEW age \in {"fresh", "stale"}, Expire(c, age)
      PROVE  CallInv'
  <2>1. /\ expiring' = [expiring EXCEPT ![c] = @ \ {age}]
        /\ \/ c \notin stopped /\ pauses[c] = 0 /\ stopped' = stopped \cup {c}
              /\ timedOut' = timedOut \cup {c} /\ ctxDone' = ctxDone \cup {c}
           \/ (c \in stopped \/ pauses[c] # 0) /\ UNCHANGED <<stopped, timedOut, ctxDone>>
        /\ UNCHANGED questionVars
        /\ UNCHANGED <<pc, callPc, callRun, activeCalls, userStopped, pauses, timer, outcome, matched, holds>>
    BY <1>2 DEF Expire, questionVars, asker
  <2>2. QuestionTypeOK'
    BY <2>1 DEF TypeOK, QuestionTypeOK, questionVars, run, asker, answer
  <2>3. TypeOK'
    BY <2>1, <2>2 DEF TypeOK
  <2>4. \A d \in Calls : pauses'[d] = Cardinality(HoldersOf(d)')
    BY <2>1 DEF HoldersOf
  <2>5. TimerFollowsPauses'
    <3>1. \A d \in Calls : d # c => expiring'[d] = expiring[d]
      BY <2>1 DEF TypeOK
    <3>2. \A d \in Calls : Asked(d)' = Asked(d)
      BY <2>1 DEF Asked
    <3>3. QED
      BY <2>1, <3>1, <3>2 DEF TimerFollowsPauses
  <2>6. QED
    BY <2>1, <2>3, <2>4, <2>5
<1>3. QED
  BY <1>1, <1>2
(* An elicitation holds a pause of the call it is attributed to, unless that *)
(* call's timeout is over.                                                 *)
LEMMA ElicitKeeps ==
  ASSUME CallInv, QuestionTypeOK', NEW q \in Elicitations, NEW c \in Calls, Elicit(q, c)
  PROVE  CallInv'
<1> USE DEF CallInv
<1>1. PICK d \in Candidates(c) :
        /\ matched' = [matched EXCEPT ![q] = d]
        /\ IF d # NoCall /\ d \notin stopped THEN Pause(q, d) ELSE UNCHANGED <<timeout, holds>>
  BY DEF Elicit
<1>2. /\ pc[q] = "none" /\ callPc[c] # "none" /\ pc' = [pc EXCEPT ![q] = "called"]
      /\ UNCHANGED <<callPc, callRun, activeCalls, userStopped, ctxDone, outcome>>
  BY DEF Elicit
<1>3. d = NoCall \/ (d \in Calls /\ callPc[d] # "none")
  BY <1>2 DEF Candidates, TypeOK
<1>4. q \notin holds /\ q \in Questions
  BY <1>2 DEF Questions
<1>5. /\ matched' \in [Elicitations -> Calls \cup {NoCall}] /\ matched'[q] = d
      /\ \A p \in Elicitations : p # q => matched'[p] = matched[p]
  BY <1>1, <1>3 DEF TypeOK
<1>6. \A p \in Questions : pc'[p] # "none" <=> pc[p] # "none" \/ p = q
  BY <1>2, <1>4 DEF TypeOK, QuestionTypeOK
<1>7. CASE d # NoCall /\ d \notin stopped
  <2>1. /\ d \in Calls /\ callPc[d] # "none"
        /\ pauses' = [pauses EXCEPT ![d] = @ + 1] /\ timer' = timer \ {d}
        /\ expiring' = [expiring EXCEPT ![d] = IF @ = {} THEN {} ELSE {"stale"}]
        /\ holds' = holds \cup {q} /\ UNCHANGED <<stopped, timedOut>>
    BY <1>1, <1>3, <1>7 DEF Pause
  <2>2. HoldersOf(d)' = HoldersOf(d) \cup {q} /\ q \notin HoldersOf(d)
    BY <1>4, <1>5, <2>1 DEF HoldersOf, TypeOK
  <2>3. \A e \in Calls : e # d => HoldersOf(e)' = HoldersOf(e)
    BY <1>4, <1>5, <2>1 DEF HoldersOf, TypeOK
  <2>4. pauses'[d] = Cardinality(HoldersOf(d)')
    <3>1. HoldersOf(d) \in SUBSET Elicitations
      BY DEF HoldersOf, TypeOK
    <3>2. Cardinality(HoldersOf(d)') = Cardinality(HoldersOf(d)) + 1
      BY <2>2, <3>1, HoldersAreFinite, FS_AddElement, Zenon
    <3>3. QED
      BY <2>1, <3>2 DEF TypeOK
  <2>5. \A e \in Calls : pauses'[e] = Cardinality(HoldersOf(e)')
    BY <2>1, <2>3, <2>4 DEF TypeOK
  <2>6. pauses' \in [Calls -> 0 .. Cardinality(Elicitations)]
    <3>1. HoldersOf(d)' \in SUBSET Elicitations
      BY <2>1 DEF HoldersOf, TypeOK
    <3>2. pauses'[d] \in 0 .. Cardinality(Elicitations)
      BY <2>4, <3>1, HoldersAreFinite
    <3>3. QED
      BY <2>1, <3>2 DEF TypeOK
  <2>7. TypeOK'
    BY <1>2, <1>5, <2>1, <2>6 DEF TypeOK
  <2>8. /\ \A e \in activeCalls' : callPc'[e] # "none"
        /\ \A p \in holds' : pc'[p] # "none" /\ matched'[p] \in Calls /\ callPc'[matched'[p]] # "none"
    BY <1>2, <1>5, <1>6, <2>1 DEF TypeOK, Questions
  <2>9. TimerFollowsPauses'
    <3> SUFFICES ASSUME NEW e \in Calls, callPc[e] = "calling", e \notin stopped
                 PROVE  IF Asked(e)' THEN e \notin timer'
                        ELSE pauses'[e] = 0 /\ (e \in timer' \/ expiring'[e] # {})
      BY <1>2, <2>1 DEF TimerFollowsPauses
    <3>1. CASE e = d
      <4>1. Asked(e)'
        BY <2>1, <1>5, <3>1 DEF Asked
      <4>2. QED
        BY <2>1, <3>1, <4>1
    <3>2. CASE e # d
      <4>1. Asked(e)' <=> Asked(e)
        BY <1>4, <1>5, <2>1, <3>2 DEF Asked, TypeOK
      <4>2. pauses'[e] = pauses[e] /\ expiring'[e] = expiring[e] /\ (e \in timer' <=> e \in timer)
        BY <2>1, <3>2 DEF TypeOK
      <4>3. QED
        BY <4>1, <4>2 DEF TimerFollowsPauses
    <3>3. QED
      BY <3>1, <3>2
  <2>10. QED
    BY <2>5, <2>7, <2>8, <2>9
<1>8. CASE ~(d # NoCall /\ d \notin stopped)
  <2>1. UNCHANGED <<pauses, timer, expiring, stopped, timedOut, holds>>
    BY <1>1, <1>8 DEF timeout
  <2>2. \A e \in Calls : HoldersOf(e)' = HoldersOf(e) /\ (Asked(e)' <=> Asked(e))
    BY <1>4, <1>5, <2>1 DEF HoldersOf, Asked, TypeOK
  <2>3. TypeOK'
    BY <1>2, <1>5, <2>1 DEF TypeOK
  <2>4. /\ \A e \in activeCalls' : callPc'[e] # "none"
        /\ \A p \in holds' : pc'[p] # "none" /\ matched'[p] \in Calls /\ callPc'[matched'[p]] # "none"
    BY <1>2, <1>4, <1>5, <1>6, <2>1 DEF TypeOK, Questions
  <2>5. TimerFollowsPauses'
    BY <1>2, <2>1, <2>2 DEF TimerFollowsPauses
  <2>6. QED
    BY <2>1, <2>2, <2>3, <2>4, <2>5
<1>9. QED
  BY <1>7, <1>8

(* An elicitation gives its pause back, and the last one starts the timer.  *)
LEMMA ResumeKeeps ==
  ASSUME CallInv, NEW q \in Elicitations, EndElicitation(q)
  PROVE  CallInv'
<1> USE DEF CallInv
<1>0. PICK c \in Calls : c = matched[q]
  BY DEF EndElicitation
<1>1. /\ q \in holds /\ holds' = holds \ {q} /\ callPc[c] # "none"
      /\ UNCHANGED questionVars
      /\ UNCHANGED <<pc, callPc, callRun, activeCalls, userStopped, ctxDone, expiring, stopped, timedOut,
                     outcome, matched>>
  BY <1>0 DEF EndElicitation, Resume, questionVars, asker
<1>2. HoldersOf(c) \in SUBSET Elicitations /\ q \in HoldersOf(c) /\ HoldersOf(c)' = HoldersOf(c) \ {q}
  BY <1>0, <1>1 DEF HoldersOf, TypeOK
<1>3. pauses[c] # 0
  <2>1. Cardinality(HoldersOf(c)) # 0
    BY <1>2, HoldersAreFinite
  <2>2. QED
    BY <1>1, <2>1
<1>4. /\ pauses' = [pauses EXCEPT ![c] = @ - 1]
      /\ timer' = IF pauses'[c] = 0 /\ c \notin stopped THEN timer \cup {c} ELSE timer
  BY <1>0, <1>3 DEF EndElicitation, Resume, Restarts
<1>5. \A e \in Calls : e # c => HoldersOf(e)' = HoldersOf(e)
  BY <1>0, <1>1 DEF HoldersOf
<1>6. pauses'[c] = Cardinality(HoldersOf(c)') /\ pauses'[c] \in 0 .. Cardinality(Elicitations)
  <2>1. Cardinality(HoldersOf(c)') = Cardinality(HoldersOf(c)) - 1
    BY <1>2, HoldersAreFinite, FS_RemoveElement, Zenon
  <2>2. HoldersOf(c)' \in SUBSET Elicitations
    BY <1>2
  <2>3. pauses'[c] = Cardinality(HoldersOf(c)')
    BY <1>1, <1>4, <2>1 DEF TypeOK
  <2>4. QED
    BY <2>2, <2>3, HoldersAreFinite
<1>7. QuestionTypeOK'
  BY <1>1 DEF TypeOK, QuestionTypeOK, questionVars, run, asker, answer
<1>8. TypeOK'
  BY <1>1, <1>4, <1>6, <1>7 DEF TypeOK
<1>9. \A e \in Calls : pauses'[e] = Cardinality(HoldersOf(e)')
  BY <1>1, <1>4, <1>5, <1>6 DEF TypeOK
<1>10. TimerFollowsPauses'
  <2> SUFFICES ASSUME NEW e \in Calls, callPc[e] = "calling", e \notin stopped
               PROVE  IF Asked(e)' THEN e \notin timer'
                      ELSE pauses'[e] = 0 /\ (e \in timer' \/ expiring[e] # {})
    BY <1>1 DEF TimerFollowsPauses
  <2>1. Asked(e)' <=> pauses'[e] # 0
    <3>1. HoldersOf(e)' \in SUBSET Elicitations
      BY <1>1 DEF HoldersOf, TypeOK
    <3>2. Asked(e)' <=> HoldersOf(e)' # {}
      BY DEF Asked, HoldersOf
    <3>3. QED
      BY <1>9, <3>1, <3>2, HoldersAreFinite
  <2>2. CASE e = c
    <3>1. c \notin timer
      BY <1>0, <1>1, <2>2 DEF TimerFollowsPauses, Asked
    <3>2. QED
      BY <1>4, <2>1, <2>2, <3>1
  <2>3. CASE e # c
    <3>1. /\ pauses'[e] = pauses[e] /\ (e \in timer' <=> e \in timer)
          /\ Asked(e)' <=> Asked(e)
      BY <1>0, <1>1, <1>4, <2>3 DEF TypeOK, Asked
    <3>2. QED
      BY <3>1 DEF TimerFollowsPauses
  <2>4. QED
    BY <2>2, <2>3
<1>11. QED
  BY <1>1, <1>8, <1>9, <1>10

(* Every step of the calls and of their questions keeps the invariant.      *)
LEMMA CallInvIsInductive ==
  ASSUME QuestionInv, QuestionInv', CallInv, [Next]_vars
  PROVE  CallInv'
<1>1. QuestionTypeOK /\ QuestionTypeOK'
  BY DEF QuestionInv
<1>2. CASE UNCHANGED callVars
  <2>1. \A q \in Questions : pc[q] # "none" => pc'[q] # "none"
    BY <1>1, CallStepsAreQuestionSteps, AskedStays
  <2>2. QED
    BY <1>1, <1>2, <2>1, QuestionsKeepCalls
<1>3. QED
  BY <1>1, <1>2, CallStarts, CallEnds, TimeoutSteps, ElicitKeeps, ResumeKeeps DEF Next, vars

(* In every reachable state a call's pauses are the elicitations that hold   *)
(* one (mcpruntime/call_timeout.go, mcpruntime/elicitation.go).            *)
THEOREM CallInvariant == Spec => []CallInv
<1>1. Spec => []QuestionInv
  BY CallsImplementQuestions, QuestionInvariant, PTL
<1>2. QED
  BY <1>1, CallsInitial, CallInvIsInductive, PTL DEF Spec

(* The timer of a call in flight runs, or has fired, exactly while no         *)
(* elicitation holds the call, however many of them overlap and whatever    *)
(* the end of each was (call_timeout.go, elicitation.go).                   *)
THEOREM CallsTimed == Spec => []CallsAreTimed
<1>1. CallInv => CallsAreTimed
  BY DEF CallInv, CallsAreTimed
<1>2. QED
  BY <1>1, CallInvariant, PTL
=============================================================================
