-------------------------- MODULE AgentWork_proofs --------------------------
(***************************************************************************)
(* What an agent does in a session, for any number of tools, responses,     *)
(* sections, writes, calls and questions: the prompts of a compaction fit,  *)
(* the transcript of an external agent keeps what was shown, the live       *)
(* timeline ends up as the transcript, a model's calls are answered, the    *)
(* log stays usable, nothing of the context is lost, a compaction is enough, *)
(* and pages keep delegations whole.                                        *)
(*                                                                         *)
(* The summary's prompts fit because the collected part leaves the room     *)
(* that the words around it take.  The transcript's proof follows a worker  *)
(* from the update it was given to the rows it writes.  The timeline's      *)
(* gives every shown thought one owner, so that counting the responses      *)
(* bounds the ids.  The loop's says where the question of every call is     *)
(* that asks, and that its handle on the session is current.  The           *)
(* compaction's numbers the contents of a shortened request as those it was *)
(* made of.  What recursive functions and folds compute follows from the    *)
(* least number for which it would be wrong (LeastNumber, RecursionExists,  *)
(* UpTo): the sizes of a context, the rounds of a page, a repaired log.     *)
(***************************************************************************)
EXTENDS ContextSummary, AcpTimeline, LiveTimeline, AgentLoop, ContextCompaction, TranscriptPages,
        FiniteSetTheorems, WellFoundedInduction, SequenceTheorems, TLAPS

-----------------------------------------------------------------------------
(* Lengths are numbers, and what has been collected leaves the prompt its    *)
(* room: the words around it need at most 65 of the 1022 bytes that are left.*)
SummaryInv ==
  /\ sections \in Seq(Nat) /\ batch \in Nat /\ summary \in Nat
  /\ batch > 0 => batch + summary <= InputChars - 1022
  /\ PromptsFit

(* There is always room for a piece of a section.                         *)
LEMMA BudgetIsPositive == InputChars \in Nat /\ InputChars >= 2560 /\ SectionChars \in Nat
<1>1. BudgetTokens \in Int /\ BudgetTokens >= 1024
  BY SummaryAssumption DEF BudgetTokens, AtLeast, AtMost
<1>2. InputChars \in Nat /\ InputChars >= 2560
  BY <1>1 DEF InputChars, Chars
<1>3. SectionChars \in Nat
  BY <1>2, SummaryAssumption DEF SectionChars, AtLeast, Chars
<1>4. QED
  BY <1>2, <1>3

(* A fragment is a piece of the section, and not all of what is added needs
   to fit.                                                                 *)
LEMMA AddingFits ==
  ASSUME sections \in Seq(Nat), sections # <<>>,
         NEW fragment \in FragmentLengths(Head(sections)), NEW kept \in Nat,
         NEW collected \in Nat, collected > 0 => collected + kept <= InputChars - 1022,
         Add(fragment, kept, collected)
  PROVE  /\ sections' \in Seq(Nat) /\ batch' \in Nat /\ summary' \in Nat
         /\ batch' > 0 => batch' + summary' <= InputChars - 1022
<1> DEFINE room == Available(kept, collected)
<1>1. InputChars \in Nat /\ SectionChars \in Nat /\ Head(sections) \in Nat /\ Tail(sections) \in Seq(Nat)
  BY BudgetIsPositive
<1>2. fragment \in Nat /\ fragment <= Head(sections)
  <2> DEFINE most == AtMost(Head(sections), SectionChars)
  <2>1. most \in Nat /\ most <= Head(sections)
    BY <1>1 DEF AtMost
  <2>2. AtMost(most, most \div 2 + 1) \in Nat /\ AtMost(most, most \div 2 + 1) <= most
    <3> HIDE DEF most
    <3>1. most \div 2 + 1 \in Nat
      BY <2>1
    <3>2. QED
      BY <2>1, <3>1 DEF AtMost
  <2>3. fragment \in {Head(sections), most, AtMost(most, most \div 2 + 1)}
    BY DEF FragmentLengths
  <2>4. QED
    BY <1>1, <2>1, <2>2, <2>3
<1>3. room \in Int /\ room = InputChars - kept - collected - 1024
  BY <1>1 DEF Available
<1>4. summary' = kept
  BY DEF Add
<1>5. CASE room <= 0
  BY <1>1, <1>4, <1>5 DEF Add
<1>6. CASE ~(room <= 0)
  <2>1. sections' = IF fragment = Head(sections) THEN Tail(sections)
                    ELSE <<Head(sections) - fragment>> \o Tail(sections)
    BY <1>6 DEF Add
  <2>2. Head(sections) - fragment \in Nat
    BY <1>1, <1>2
  <2>3. sections' \in Seq(Nat)
    BY <1>1, <2>1, <2>2
  <2>4. batch' = (IF collected = 0 THEN 0 ELSE collected + 2) + AtMost(fragment, room)
    BY <1>6 DEF Add
  <2>5. AtMost(fragment, room) \in Nat /\ AtMost(fragment, room) <= room
    BY <1>2, <1>3, <1>6 DEF AtMost
  <2>6. batch' \in Nat /\ batch' <= collected + 2 + room
    BY <2>4, <2>5, <1>3
  <2>7. batch' + kept <= InputChars - 1022
    <3>1. PICK b \in Nat : batch' = b
      BY <2>6
    <3>2. b <= collected + 2 + (InputChars - kept - collected - 1024)
      BY <1>3, <2>6, <3>1
    <3>3. b + kept <= InputChars - 1022
      BY <1>1, <3>2
    <3>4. QED
      BY <3>1, <3>3
  <2>8. QED
    BY <1>4, <2>3, <2>6, <2>7
<1>7. QED
  BY <1>5, <1>6

(* A compaction begins with all its sections.                             *)
LEMMA SummaryInitial == SummaryInit => SummaryInv
<1> SUFFICES ASSUME SummaryInit PROVE SummaryInv
  OBVIOUS
<1>1. sections \in Seq(Nat)
  <2>1. PICK n \in 1 .. MaxSections : sections \in [1 .. n -> SectionLengths]
    BY DEF SummaryInit
  <2>2. n \in Nat
    BY SummaryAssumption
  <2>3. sections \in [1 .. n -> Nat]
    BY <2>1, SummaryAssumption
  <2>4. QED
    BY <2>2, <2>3, SeqDef
<1>2. QED
  BY <1>1, BudgetIsPositive DEF SummaryInit, SummaryInv, PromptsFit

(* Every prompt that is sent.                                             *)
LEMMA SummarySteps == SummaryInv /\ [SummaryNext]_summaryVars => SummaryInv'
<1> SUFFICES ASSUME SummaryInv, [SummaryNext]_summaryVars PROVE SummaryInv'
  OBVIOUS
<1>1. InputChars \in Nat /\ InputChars >= 2560
  BY BudgetIsPositive
<1>2. \A length \in ReplyLengths : Flushed(length) \in Nat
  BY SummaryAssumption DEF Flushed, SummaryInv
<1>3. batch > 0 => PromptLength(summary, batch) <= InputChars
  BY <1>1 DEF SummaryInv, PromptLength
<1>4. CASE FoldFragment
  <2>1. PICK fragment \in FragmentLengths(Head(sections)) :
          IF batch > 0 /\ fragment > Available(summary, batch)
          THEN /\ prompt' = PromptLength(summary, batch)
               /\ \E length \in ReplyLengths : Add(fragment, Flushed(length), 0)
          ELSE /\ Add(fragment, summary, batch)
               /\ UNCHANGED prompt
    BY <1>4 DEF FoldFragment
  <2>2. sections # <<>> /\ sections \in Seq(Nat)
    BY <1>4 DEF FoldFragment, SummaryInv
  <2>3. CASE batch > 0 /\ fragment > Available(summary, batch)
    <3>1. PICK length \in ReplyLengths : Add(fragment, Flushed(length), 0)
      BY <2>1, <2>3
    <3>2. sections' \in Seq(Nat) /\ batch' \in Nat /\ summary' \in Nat
          /\ (batch' > 0 => batch' + summary' <= InputChars - 1022)
      <4>1. PICK kept \in Nat : kept = Flushed(length)
        BY <1>2
      <4>2. Add(fragment, kept, 0)
        BY <3>1, <4>1
      <4>3. QED
        BY <2>2, <4>2, AddingFits
    <3>3. QED
      BY <3>2, <2>1, <2>3, <1>3 DEF SummaryInv, PromptsFit, InputChars, BudgetTokens
  <2>4. CASE ~(batch > 0 /\ fragment > Available(summary, batch))
    <3>1. sections' \in Seq(Nat) /\ batch' \in Nat /\ summary' \in Nat
          /\ (batch' > 0 => batch' + summary' <= InputChars - 1022)
      BY <2>1, <2>2, <2>4, AddingFits DEF SummaryInv
    <3>2. QED
      BY <3>1, <2>1, <2>4 DEF SummaryInv, PromptsFit, InputChars, BudgetTokens
  <2>5. QED
    BY <2>3, <2>4
<1>5. CASE FlushLast
  <2>1. summary' \in Nat /\
          (prompt' = prompt \/ (batch > 0 /\ prompt' = PromptLength(summary, batch)))
    <3>1. CASE batch = 0
      BY <3>1, <1>5 DEF FlushLast, SummaryInv
    <3>2. CASE batch # 0
      BY <3>2, <1>2, <1>5 DEF FlushLast, SummaryInv
    <3>3. QED
      BY <3>1, <3>2
  <2>2. QED
    BY <2>1, <1>3, <1>5 DEF FlushLast, SummaryInv, PromptsFit, InputChars, BudgetTokens
<1>6. CASE SummarizerFails
  BY <1>6 DEF SummarizerFails, SummaryInv, PromptsFit, InputChars, BudgetTokens
<1>7. CASE UNCHANGED summaryVars
  BY <1>7 DEF summaryVars, SummaryInv, PromptsFit, InputChars, BudgetTokens
<1>8. QED
  BY <1>4, <1>5, <1>6, <1>7 DEF SummaryNext

(* No call of the summarizer is longer than its budget allows, for every     *)
(* length of the sections and of the model's answers                        *)
(* (context_compaction.go, summarizeBatch).                                *)
THEOREM PromptsAlwaysFit == SummarySpec => []PromptsFit
<1>1. SummaryInv => PromptsFit
  BY DEF SummaryInv
<1>2. QED
  BY <1>1, SummaryInitial, SummarySteps, PTL DEF SummarySpec

-----------------------------------------------------------------------------
(* The prompt of an external agent.  What a segment shows is part of what    *)
(* is saved of it, which is part of what is known of it.                    *)
Held(part, whole) == \A i \in DOMAIN part : \E j \in DOMAIN whole : whole[j] = part[i]

TextsTypeOK ==
  /\ chunks \in Nat
  /\ \A id \in DOMAIN segments : segments[id] \in Seq(Nat)
  /\ \A id \in DOMAIN shown : shown[id] \in Seq(Nat)

ShownIsHeld ==
  \A id \in DOMAIN shown :
    /\ id \in DOMAIN segments /\ Held(shown[id], segments[id])
    /\ id \in DOMAIN texts /\ Held(shown[id], texts[id])

TextsInv == TextsTypeOK /\ ShownIsHeld

(* The output is with the tool that holds the terminal, or waits for one.    *)
Numbers(output) == output \in Seq(Nat) /\ \A i \in DOMAIN output : output[i] = i

OutputIsInOrder ==
  /\ writes \in Nat /\ holder \in AcpTools \cup {NoTool}
  /\ LET written == [i \in 1 .. writes |-> i] IN
     IF holder = NoTool THEN toolOutput = <<>> /\ pendingOutput = written
                        ELSE toolOutput = written /\ pendingOutput = <<>>

(* A worker that still has to save knows what, and comes to the result after *)
(* the call.                                                                *)
SavingWork ==
  [at : {"save call", "save result"}, tool : AcpTools, finishes : BOOLEAN, output : Seq(Nat),
   announces : BOOLEAN]

WorkIsKnown ==
  /\ work = [w \in Workers |-> work[w]]
  /\ \A w \in Workers : work[w].at \in {"save call", "save result"} =>
       work[w] \in SavingWork /\ Numbers(work[w].output)

CallIsSaved ==
  \A w \in Workers : work[w].at = "save result" =>
    \E j \in DOMAIN rows : rows[j] = <<"call", work[w].tool>>

RowsAreOrdered == rows = [i \in 1 .. Len(rows) |-> rows[i]] /\ Len(rows) \in Nat

OutputsAreInOrder == \A t \in DOMAIN outputs : Numbers(outputs[t])

RequestIsKnown ==
  permission.at = "asked" =>
    permission \in [at : {"asked"}, tool : AcpTools, offered : {Options, {"allow_once"}}]

SegmentIsText == segment.kind \in Kinds => segment.id[1] = segment.kind

ToolsInv ==
  /\ SegmentIsText /\ OutputIsInOrder /\ WorkIsKnown /\ CallIsSaved /\ RowsAreOrdered
  /\ OutputsAreInOrder /\ ResultsFollowTheirCalls

PermissionInv == RequestIsKnown /\ AnswersMatchDecisions

-----------------------------------------------------------------------------
(* Only a chunk of text changes what is shown.                             *)
LEMMA OthersLeaveTexts ==
  ASSUME HandlerNext \/ UNCHANGED handlerVars
  PROVE  \/ UNCHANGED <<segments, chunks, texts, shown>>
         \/ \E kind \in Kinds, name \in MessageIds \cup {Unnamed}, saves \in BOOLEAN :
              AppendText(kind, name, saves)
<1> USE DEF textVars, toolVars
<1>1. ASSUME NEW w, NEW t, NEW s, NEW hasTerminal, Apply(w, t, s, hasTerminal)
      PROVE  UNCHANGED <<segments, chunks, texts, shown>>
  BY <1>1 DEF Apply
<1>2. ASSUME NEW w \in Workers, SaveCall(w) \/ SaveResult(w) \/ SaveFails(w)
      PROVE  UNCHANGED <<segments, chunks, texts, shown>>
  BY <1>2 DEF SaveCall, SaveResult, SaveFails
<1>3. ASSUME NEW approved, NEW option, Answered(approved, option)
      PROVE  UNCHANGED <<segments, chunks, texts, shown>>
  BY <1>3 DEF Answered
<1>4. ASSUME AllowNotes \/ AskUser \/ RequestFails
      PROVE  UNCHANGED <<segments, chunks, texts, shown>>
  BY <1>3, <1>4 DEF AllowNotes, AskUser, RequestFails
<1>5. CASE UpdateEnds \/ TerminalOutput \/ UNCHANGED handlerVars
  BY <1>5 DEF UpdateEnds, TerminalOutput, handlerVars
<1>6. ASSUME NEW t \in AcpTools, NEW s, NEW hasTerminal, UpdateTool(t, s, hasTerminal)
      PROVE  UNCHANGED <<segments, chunks, texts, shown>>
  BY <1>1, <1>6 DEF UpdateTool
<1>7. ASSUME NEW t \in AcpTools, NEW hasTerminal, NEW offered,
             RequestPermission(t, hasTerminal, offered)
      PROVE  UNCHANGED <<segments, chunks, texts, shown>>
  BY <1>1, <1>7 DEF RequestPermission
<1>8. QED
  BY <1>2, <1>4, <1>5, <1>6, <1>7 DEF HandlerNext

(* A chunk is added to all that is known of its segment, and if it is saved
   it is saved and shown with it.                                          *)
LEMMA TextsStep ==
  ASSUME TextsInv, NEW kind, NEW name, NEW saves \in BOOLEAN, AppendText(kind, name, saves)
  PROVE  TextsInv'
<1>1. PICK id : /\ chunks' = chunks + 1
                /\ segments' = Put(segments, id, Append(TextOf(segments, id), chunks'))
                /\ IF saves
                   THEN /\ texts' = Put(texts, id, Saved(id, chunks'))
                        /\ shown' = Put(shown, id, Append(TextOf(shown, id), chunks'))
                   ELSE UNCHANGED <<texts, shown>>
  BY DEF AppendText
<1>2. PICK c \in Nat : c = chunks + 1
  BY DEF TextsInv, TextsTypeOK
<1> DEFINE old == TextOf(segments, id)
           was == TextOf(shown, id)
<1>3. old \in Seq(Nat) /\ was \in Seq(Nat) /\ Held(was, old)
  BY DEF TextsInv, TextsTypeOK, ShownIsHeld, TextOf, Held
<1>4. /\ Append(old, c) \in Seq(Nat) /\ Append(was, c) \in Seq(Nat)
      /\ Held(was, Append(old, c)) /\ Held(Append(was, c), Append(old, c))
  <2> HIDE DEF old, was
  <2>1. /\ Append(old, c) \in Seq(Nat) /\ Append(was, c) \in Seq(Nat)
        /\ DOMAIN Append(old, c) = 1 .. Len(old) + 1 /\ DOMAIN Append(was, c) = 1 .. Len(was) + 1
        /\ DOMAIN old = 1 .. Len(old) /\ DOMAIN was = 1 .. Len(was)
        /\ Len(old) \in Nat /\ Len(was) \in Nat
        /\ \A i \in 1 .. Len(old) : Append(old, c)[i] = old[i]
        /\ \A i \in 1 .. Len(was) : Append(was, c)[i] = was[i]
        /\ Append(old, c)[Len(old) + 1] = c /\ Append(was, c)[Len(was) + 1] = c
    BY <1>3
  <2>2. Held(was, Append(old, c))
    BY <1>3, <2>1 DEF Held
  <2>3. Held(Append(was, c), Append(old, c))
    <3> SUFFICES ASSUME NEW i \in 1 .. Len(was) + 1
                 PROVE  \E j \in DOMAIN Append(old, c) : Append(old, c)[j] = Append(was, c)[i]
      BY <2>1 DEF Held
    <3>1. CASE i \in 1 .. Len(was)
      BY <2>1, <2>2, <3>1 DEF Held
    <3>2. CASE i = Len(was) + 1
      BY <2>1, <3>2
    <3>3. QED
      BY <2>1, <3>1, <3>2
  <2>4. QED
    BY <2>1, <2>2, <2>3
<1>5. chunks' = c /\ c \in Nat
  BY <1>1, <1>2
<1>6. /\ DOMAIN segments' = DOMAIN segments \cup {id}
      /\ \A x \in DOMAIN segments' : segments'[x] = IF x = id THEN Append(old, c) ELSE segments[x]
  BY <1>1, <1>5 DEF Put
<1>7. CASE saves
  <2>1. /\ DOMAIN texts' = DOMAIN texts \cup {id} /\ DOMAIN shown' = DOMAIN shown \cup {id}
        /\ \A x \in DOMAIN texts' : texts'[x] = IF x = id THEN Append(old, c) ELSE texts[x]
        /\ \A x \in DOMAIN shown' : shown'[x] = IF x = id THEN Append(was, c) ELSE shown[x]
    BY <1>1, <1>5, <1>7 DEF Put, Saved
  <2> HIDE DEF old, was
  <2>2. TextsTypeOK'
    BY <1>4, <1>5, <1>6, <2>1 DEF TextsInv, TextsTypeOK
  <2>3. ShownIsHeld'
    BY <1>4, <1>6, <2>1 DEF TextsInv, ShownIsHeld
  <2>4. QED
    BY <2>2, <2>3 DEF TextsInv
<1>8. CASE ~saves
  <2>1. texts' = texts /\ shown' = shown
    BY <1>1, <1>8
  <2>2. \A x \in DOMAIN shown : x = id => was = shown[x]
    BY DEF TextOf
  <2> HIDE DEF old, was
  <2>3. TextsTypeOK'
    BY <1>4, <1>5, <1>6, <2>1 DEF TextsInv, TextsTypeOK
  <2>4. ShownIsHeld'
    BY <1>4, <1>6, <2>1, <2>2 DEF TextsInv, ShownIsHeld
  <2>5. QED
    BY <2>3, <2>4 DEF TextsInv
<1>9. QED
  BY <1>7, <1>8

(* A row that is written is there afterwards, behind all that was.           *)
LEMMA Inserting ==
  ASSUME RowsAreOrdered, NEW id, rows' = Inserted(id)
  PROVE  /\ RowsAreOrdered' /\ Len(rows) <= Len(rows')
         /\ \A i \in 1 .. Len(rows) : rows'[i] = rows[i]
         /\ \E j \in 1 .. Len(rows') : rows'[j] = id
         /\ \A i \in 1 .. Len(rows') : i \in 1 .. Len(rows) \/ (i = Len(rows) + 1 /\ rows'[i] = id)
<1>1. DOMAIN rows = 1 .. Len(rows) /\ Len(rows) \in Nat
  BY DEF RowsAreOrdered
<1>2. CASE \E i \in DOMAIN rows : rows[i] = id
  BY <1>1, <1>2 DEF Inserted, RowsAreOrdered
<1>3. CASE ~\E i \in DOMAIN rows : rows[i] = id
  <2> DEFINE RowIds == {rows[i] : i \in 1 .. Len(rows)} \cup {id}
  <2>1. rows \in [1 .. Len(rows) -> RowIds]
    BY DEF RowsAreOrdered
  <2>2. rows \in Seq(RowIds)
    BY <1>1, <2>1, SeqDef
  <2>3. rows' = Append(rows, id)
    BY <1>3 DEF Inserted
  <2> HIDE DEF RowIds
  <2>4. id \in RowIds
    BY DEF RowIds
  <2>5. /\ rows' \in Seq(RowIds) /\ Len(rows') = Len(rows) + 1
        /\ \A i \in 1 .. Len(rows) : rows'[i] = rows[i]
        /\ rows'[Len(rows) + 1] = id
    BY <2>2, <2>3, <2>4, AppendProperties
  <2>6. rows' = [i \in 1 .. Len(rows') |-> rows'[i]]
    BY <2>5
  <2>7. QED
    BY <1>1, <2>5, <2>6 DEF RowsAreOrdered
<1>4. QED
  BY <1>2, <1>3

(* A row of a call, or of a result whose call is there, keeps the order.     *)
LEMMA InsertingKeepsOrder ==
  ASSUME RowsAreOrdered, ResultsFollowTheirCalls, NEW id, rows' = Inserted(id),
         \A t \in AcpTools : id = <<"result", t>> =>
           \E j \in DOMAIN rows : rows[j] = <<"call", t>>
  PROVE  ResultsFollowTheirCalls' /\ RowsAreOrdered'
<1>1. /\ RowsAreOrdered' /\ Len(rows) <= Len(rows')
      /\ \A i \in 1 .. Len(rows) : rows'[i] = rows[i]
      /\ \A i \in 1 .. Len(rows') : i \in 1 .. Len(rows) \/ (i = Len(rows) + 1 /\ rows'[i] = id)
  BY Inserting
<1>2. /\ DOMAIN rows = 1 .. Len(rows) /\ Len(rows) \in Nat
      /\ DOMAIN rows' = 1 .. Len(rows') /\ Len(rows') \in Nat
  BY <1>1 DEF RowsAreOrdered
<1>3. ASSUME NEW t \in AcpTools, NEW i \in DOMAIN rows', rows'[i] = <<"result", t>>
      PROVE  \E j \in 1 .. i - 1 : rows'[j] = <<"call", t>>
  <2>1. CASE i \in 1 .. Len(rows)
    <3>1. PICK j \in 1 .. i - 1 : rows[j] = <<"call", t>>
      BY <1>1, <1>2, <1>3, <2>1 DEF ResultsFollowTheirCalls
    <3>2. j \in 1 .. Len(rows)
      BY <1>2, <2>1, <3>1
    <3>3. QED
      BY <1>1, <3>1, <3>2
  <2>2. CASE i = Len(rows) + 1 /\ rows'[i] = id
    <3>1. PICK j \in DOMAIN rows : rows[j] = <<"call", t>>
      BY <1>3, <2>2
    <3>2. j \in 1 .. i - 1
      BY <1>2, <2>2, <3>1
    <3>3. QED
      BY <1>1, <1>2, <3>1, <3>2
  <2>3. QED
    BY <1>1, <1>2, <1>3, <2>1, <2>2
<1>4. QED
  BY <1>1, <1>3 DEF ResultsFollowTheirCalls

(* What stands in the rows goes on standing there.                         *)
LEMMA CallsStay ==
  ASSUME RowsAreOrdered, NEW id, rows' = Inserted(id) \/ rows' = rows, NEW t,
         \E j \in DOMAIN rows : rows[j] = <<"call", t>>
  PROVE  \E j \in DOMAIN rows' : rows'[j] = <<"call", t>>
<1>1. CASE rows' = rows
  BY <1>1
<1>2. CASE rows' = Inserted(id)
  BY <1>2, Inserting DEF RowsAreOrdered
<1>3. QED
  BY <1>1, <1>2

(* The part of an update under the mutex: its worker has something to save,  *)
(* or is done, and the output is still whole.                              *)
LEMMA UpdateIsApplied ==
  ASSUME ToolsInv, NEW w \in Workers, NEW t \in AcpTools, NEW s, NEW hasTerminal \in BOOLEAN,
         hasTerminal => MayHold(t), Apply(w, t, s, hasTerminal)
  PROVE  ToolsInv'
<1>1. UNCHANGED <<rows, outputs, writes>>
  BY DEF Apply
<1>2. OutputIsInOrder' /\ Numbers(toolOutput')
  <2>1. writes \in Nat /\ holder \in AcpTools \cup {NoTool} /\ NoTool \notin AcpTools
    BY AcpTimelineAssumption DEF ToolsInv, OutputIsInOrder, NoTool
  <2> DEFINE written == [i \in 1 .. writes |-> i]
  <2>2. written \in Seq(Nat) /\ Numbers(written) /\ Numbers(<<>>)
        /\ <<>> \o written = written /\ written \o <<>> = written
    <3>1. written \in [1 .. writes -> Nat]
      BY <2>1
    <3>2. written \in Seq(Nat)
      BY <2>1, <3>1, SeqDef
    <3>3. QED
      BY <3>2, ConcatEmptySeq DEF Numbers
  <2>3. IF holder = NoTool THEN toolOutput = <<>> /\ pendingOutput = written
                           ELSE toolOutput = written /\ pendingOutput = <<>>
    BY DEF ToolsInv, OutputIsInOrder
  <2>4. AttachedOutput(t) = written
    BY <2>2, <2>3 DEF AttachedOutput
  <2>5. \/ UNCHANGED <<holder, pendingOutput, toolOutput>>
        \/ holder' = t /\ toolOutput' = written /\ pendingOutput' = <<>>
    BY <2>4 DEF Apply
  <2> HIDE DEF written
  <2>6. IF holder' = NoTool THEN toolOutput' = <<>> /\ pendingOutput' = written
                            ELSE toolOutput' = written /\ pendingOutput' = <<>>
    BY <2>1, <2>3, <2>5
  <2>7. Numbers(toolOutput')
    <3>1. toolOutput' = <<>> \/ toolOutput' = written
      BY <2>6
    <3>2. QED
      BY <2>2, <3>1 DEF Numbers
  <2>8. written = [i \in 1 .. writes' |-> i] /\ writes' \in Nat
    BY <1>1, <2>1 DEF written
  <2>9. QED
    BY <2>1, <2>5, <2>6, <2>7, <2>8 DEF OutputIsInOrder
<1>3. PICK new : /\ work' = [work EXCEPT ![w] = new]
                 /\ \/ new.at = "done"
                    \/ new.at = "save call" /\ new \in SavingWork /\ Numbers(new.output)
  <2>1. CASE t \in NotesTools
    <3> DEFINE new == [at |-> "done", tool |-> t]
    <3>1. work' = [work EXCEPT ![w] = new] /\ new.at = "done"
      BY <2>1 DEF Apply
    <3>2. QED
      BY <3>1
  <2>2. CASE t \notin NotesTools
    <3> DEFINE new == [at |-> "save call", tool |-> t, finishes |-> s = "completed",
                       output |-> toolOutput', announces |-> t \notin announced]
    <3>1. work' = [work EXCEPT ![w] = new]
      BY <2>2 DEF Apply
    <3>2. (s = "completed") \in BOOLEAN /\ (t \notin announced) \in BOOLEAN
      BY Zenon
    <3>3. new.at = "save call" /\ new.output = toolOutput'
      OBVIOUS
    <3>4. new \in SavingWork
      BY <1>2, <3>2 DEF SavingWork, Numbers
    <3>5. QED
      BY <1>2, <3>1, <3>3, <3>4
  <2>3. QED
    BY <2>1, <2>2
<1>4. WorkIsKnown' /\ CallIsSaved'
  <2>1. /\ work' = [v \in Workers |-> work'[v]]
        /\ \A v \in Workers : work'[v] = IF v = w THEN new ELSE work[v]
    BY <1>3 DEF ToolsInv, WorkIsKnown
  <2>2. QED
    BY <1>1, <1>3, <2>1 DEF ToolsInv, WorkIsKnown, CallIsSaved
<1>5. RowsAreOrdered' /\ OutputsAreInOrder' /\ ResultsFollowTheirCalls'
  BY <1>1 DEF ToolsInv, RowsAreOrdered, OutputsAreInOrder, ResultsFollowTheirCalls
<1>6. SegmentIsText'
  BY DEF Apply, NoSegment, SegmentIsText, Kinds
<1>7. QED
  BY <1>2, <1>4, <1>5, <1>6 DEF ToolsInv

(* A worker that goes on: it is known how, and no output changes.            *)
LEMMA WorkGoesOn ==
  ASSUME WorkIsKnown, NEW w \in Workers, NEW place, work[w] \in SavingWork, Numbers(work[w].output),
         work' = [work EXCEPT ![w].at = place],
         place \in {"save result", "done", "failed"}
  PROVE  /\ WorkIsKnown' /\ work'[w].at = place /\ work'[w].tool = work[w].tool
         /\ \A v \in Workers : v # w => work'[v] = work[v]
<1> DEFINE new == [work[w] EXCEPT !.at = place]
<1>1. /\ work' = [v \in Workers |-> work'[v]]
      /\ \A v \in Workers : work'[v] = IF v = w THEN new ELSE work[v]
  BY DEF WorkIsKnown
<1>2. new.at = place /\ new.tool = work[w].tool /\ new.output = work[w].output
  BY DEF SavingWork
<1>3. place = "save result" => new \in SavingWork
  BY DEF SavingWork
<1> HIDE DEF new
<1>4. WorkIsKnown'
  BY <1>1, <1>2, <1>3 DEF WorkIsKnown
<1>5. QED
  BY <1>1, <1>2, <1>4

(* What is saved is what the worker knows.                                *)
LEMMA Saving ==
  ASSUME ToolsInv, NEW w \in Workers, SaveCall(w) \/ SaveResult(w) \/ SaveFails(w)
  PROVE  ToolsInv'
<1>1. work[w] \in SavingWork /\ Numbers(work[w].output) /\ work[w].tool \in AcpTools
  BY DEF ToolsInv, WorkIsKnown, SavingWork, SaveCall, SaveResult, SaveFails
<1>2. OutputIsInOrder' /\ SegmentIsText'
  BY DEF ToolsInv, OutputIsInOrder, SegmentIsText, SaveCall, SaveResult, SaveFails, textVars,
     toolVars
<1>3. CASE SaveCall(w)
  <2> DEFINE saved == <<"call", work[w].tool>>
  <2>1. rows' = Inserted(saved) /\ outputs' = outputs
    BY <1>3 DEF SaveCall, SavesCall, toolVars
  <2>2. PICK place \in {"save result", "done"} : work' = [work EXCEPT ![w].at = place]
    BY <1>3 DEF SaveCall
  <2>3. /\ WorkIsKnown' /\ work'[w].at = place /\ work'[w].tool = work[w].tool
        /\ \A v \in Workers : v # w => work'[v] = work[v]
    BY <1>1, <2>2, WorkGoesOn DEF ToolsInv
  <2>4. \A t \in AcpTools : saved # <<"result", t>>
    OBVIOUS
  <2>5. ResultsFollowTheirCalls' /\ RowsAreOrdered'
    BY <2>1, <2>4, InsertingKeepsOrder DEF ToolsInv
  <2>6. CallIsSaved'
    <3> SUFFICES ASSUME NEW v \in Workers, work'[v].at = "save result"
                 PROVE  \E j \in DOMAIN rows' : rows'[j] = <<"call", work'[v].tool>>
      BY DEF CallIsSaved
    <3>1. CASE v = w
      BY <2>1, <2>3, <3>1, Inserting DEF ToolsInv, RowsAreOrdered
    <3>2. CASE v # w
      <4>1. PICK t : t = work[v].tool
        OBVIOUS
      <4>2. \E j \in DOMAIN rows : rows[j] = <<"call", t>>
        BY <2>3, <3>2, <4>1 DEF ToolsInv, CallIsSaved
      <4>3. \E j \in DOMAIN rows' : rows'[j] = <<"call", t>>
        BY <2>1, <4>2, CallsStay DEF ToolsInv
      <4>4. QED
        BY <2>3, <3>2, <4>1, <4>3
    <3>3. QED
      BY <3>1, <3>2
  <2>7. QED
    BY <1>2, <2>1, <2>3, <2>5, <2>6 DEF ToolsInv, OutputsAreInOrder
<1>4. CASE SaveResult(w)
  <2> DEFINE result == <<"result", work[w].tool>>
  <2>1. rows' = Inserted(result) /\ outputs' = Put(outputs, work[w].tool, work[w].output)
        /\ work[w].at = "save result" /\ work' = [work EXCEPT ![w].at = "done"]
    BY <1>4 DEF SaveResult
  <2>2. /\ WorkIsKnown' /\ work'[w].at = "done"
        /\ \A v \in Workers : v # w => work'[v] = work[v]
    BY <1>1, <2>1, WorkGoesOn DEF ToolsInv
  <2>3. \A t \in AcpTools : result = <<"result", t>> =>
          \E j \in DOMAIN rows : rows[j] = <<"call", t>>
    BY <2>1 DEF ToolsInv, CallIsSaved
  <2>4. ResultsFollowTheirCalls' /\ RowsAreOrdered'
    BY <2>1, <2>3, InsertingKeepsOrder DEF ToolsInv
  <2>5. CallIsSaved'
    <3> SUFFICES ASSUME NEW v \in Workers, work'[v].at = "save result"
                 PROVE  \E j \in DOMAIN rows' : rows'[j] = <<"call", work'[v].tool>>
      BY DEF CallIsSaved
    <3>1. PICK t : t = work[v].tool
      OBVIOUS
    <3>2. v # w /\ work'[v] = work[v]
      BY <2>2
    <3>3. \E j \in DOMAIN rows : rows[j] = <<"call", t>>
      BY <3>1, <3>2 DEF ToolsInv, CallIsSaved
    <3>4. \E j \in DOMAIN rows' : rows'[j] = <<"call", t>>
      BY <2>1, <3>3, CallsStay DEF ToolsInv
    <3>5. QED
      BY <3>1, <3>2, <3>4
  <2>6. OutputsAreInOrder'
    BY <1>1, <2>1 DEF ToolsInv, OutputsAreInOrder, Put
  <2>7. QED
    BY <1>2, <2>2, <2>4, <2>5, <2>6 DEF ToolsInv
<1>5. CASE SaveFails(w)
  <2>1. rows' = rows /\ outputs' = outputs /\ work' = [work EXCEPT ![w].at = "failed"]
    BY <1>5 DEF SaveFails, toolVars
  <2>2. /\ WorkIsKnown' /\ work'[w].at = "failed"
        /\ \A v \in Workers : v # w => work'[v] = work[v]
    BY <1>1, <2>1, WorkGoesOn DEF ToolsInv
  <2>3. CallIsSaved'
    BY <2>1, <2>2 DEF ToolsInv, CallIsSaved
  <2>4. RowsAreOrdered' /\ OutputsAreInOrder' /\ ResultsFollowTheirCalls'
    BY <2>1 DEF ToolsInv, RowsAreOrdered, OutputsAreInOrder, ResultsFollowTheirCalls
  <2>5. QED
    BY <1>2, <2>2, <2>3, <2>4 DEF ToolsInv
<1>6. QED
  BY <1>3, <1>4, <1>5

(* What the terminal writes next goes to the end of all it wrote.            *)
LEMMA Writing ==
  ASSUME ToolsInv, TerminalOutput PROVE ToolsInv'
<1>1. UNCHANGED <<segment, rows, outputs, work, holder>> /\ writes' = writes + 1
  BY DEF TerminalOutput, textVars
<1>2. OutputIsInOrder'
  <2> DEFINE written == [i \in 1 .. writes |-> i]
             longer  == [i \in 1 .. writes + 1 |-> i]
  <2>1. writes \in Nat /\ holder \in AcpTools \cup {NoTool}
    BY DEF ToolsInv, OutputIsInOrder
  <2>2. Append(written, writes + 1) = longer
    <3>1. written \in [1 .. writes -> Nat]
      BY <2>1
    <3>2. written \in Seq(Nat) /\ Len(written) = writes
      BY <2>1, <3>1, SeqDef
    <3>3. QED
      BY <2>1, <3>2
  <2>3. IF holder = NoTool THEN toolOutput = <<>> /\ pendingOutput = written
                           ELSE toolOutput = written /\ pendingOutput = <<>>
    BY DEF ToolsInv, OutputIsInOrder
  <2>4. IF holder = NoTool
        THEN pendingOutput' = Append(pendingOutput, writes + 1) /\ UNCHANGED toolOutput
        ELSE toolOutput' = Append(toolOutput, writes + 1) /\ UNCHANGED pendingOutput
    BY <1>1 DEF TerminalOutput
  <2> HIDE DEF written, longer
  <2>5. IF holder' = NoTool THEN toolOutput' = <<>> /\ pendingOutput' = longer
                            ELSE toolOutput' = longer /\ pendingOutput' = <<>>
    BY <1>1, <2>2, <2>3, <2>4
  <2>6. longer = [i \in 1 .. writes' |-> i] /\ writes' \in Nat
    BY <1>1, <2>1 DEF longer
  <2>7. QED
    BY <1>1, <2>1, <2>5, <2>6 DEF OutputIsInOrder
<1>3. QED
  BY <1>1, <1>2 DEF ToolsInv, WorkIsKnown, CallIsSaved, RowsAreOrdered, OutputsAreInOrder,
     ResultsFollowTheirCalls, SegmentIsText

(* A worker that has nothing to do has nothing to save.                    *)
LEMMA Resting ==
  ASSUME ToolsInv, NEW w \in Workers, work' = [work EXCEPT ![w] = AtRest],
         UNCHANGED <<segment, toolVars, rows>>
  PROVE  ToolsInv'
<1>1. /\ work' = [v \in Workers |-> work'[v]]
      /\ \A v \in Workers : work'[v] = IF v = w THEN AtRest ELSE work[v]
  BY DEF ToolsInv, WorkIsKnown
<1>2. AtRest.at = "idle"
  BY DEF AtRest
<1>3. WorkIsKnown' /\ CallIsSaved'
  BY <1>1, <1>2 DEF ToolsInv, WorkIsKnown, CallIsSaved
<1>4. QED
  BY <1>3 DEF ToolsInv, OutputIsInOrder, RowsAreOrdered, OutputsAreInOrder,
     ResultsFollowTheirCalls, SegmentIsText, toolVars

(* A chunk of text changes no tool.                                       *)
LEMMA TextLeavesTools ==
  ASSUME ToolsInv, NEW kind \in Kinds, NEW name, NEW saves \in BOOLEAN,
         AppendText(kind, name, saves)
  PROVE  ToolsInv'
<1>1. UNCHANGED <<toolVars, work>>
  BY DEF AppendText
<1>2. OutputIsInOrder' /\ WorkIsKnown' /\ OutputsAreInOrder'
  BY <1>1 DEF ToolsInv, OutputIsInOrder, WorkIsKnown, OutputsAreInOrder, toolVars
<1>3. PICK id : id = SegmentId(kind, name)
  OBVIOUS
<1>4. rows' = Inserted(id) \/ rows' = rows
  BY <1>3 DEF AppendText
<1>5. id[1] = kind
  BY <1>3 DEF SegmentId, ToolsInv, SegmentIsText
<1>6. SegmentIsText'
  <2>1. segment' = [kind |-> kind, id |-> id]
    BY <1>3 DEF AppendText
  <2>2. QED
    BY <1>5, <2>1 DEF SegmentIsText
<1>7. \A t \in AcpTools : id # <<"result", t>>
  <2>1. kind # "result"
    BY DEF Kinds
  <2>2. QED
    BY <1>5, <2>1
<1>8. CallIsSaved'
  <2> SUFFICES ASSUME NEW v \in Workers, work[v].at = "save result"
               PROVE  \E j \in DOMAIN rows' : rows'[j] = <<"call", work[v].tool>>
    BY <1>1 DEF CallIsSaved
  <2>1. PICK t : t = work[v].tool
    OBVIOUS
  <2>2. \E j \in DOMAIN rows : rows[j] = <<"call", t>>
    BY <2>1 DEF ToolsInv, CallIsSaved
  <2>3. QED
    BY <1>4, <2>1, <2>2, CallsStay DEF ToolsInv
<1>9. ResultsFollowTheirCalls' /\ RowsAreOrdered'
  <2>1. CASE rows' = rows
    BY <2>1 DEF ToolsInv, ResultsFollowTheirCalls, RowsAreOrdered
  <2>2. CASE rows' = Inserted(id)
    BY <1>7, <2>2, InsertingKeepsOrder DEF ToolsInv
  <2>3. QED
    BY <1>4, <2>1, <2>2
<1>10. QED
  BY <1>2, <1>6, <1>8, <1>9 DEF ToolsInv

(* Every step of a tool's updates, its worker and its terminal.           *)
LEMMA ToolsStep ==
  ASSUME ToolsInv, [HandlerNext]_handlerVars PROVE ToolsInv'
<1>1. ASSUME NEW kind \in Kinds, NEW name \in MessageIds \cup {Unnamed}, NEW saves \in BOOLEAN,
             AppendText(kind, name, saves)
      PROVE  ToolsInv'
  BY <1>1, TextLeavesTools
<1>2. ASSUME NEW t \in AcpTools, NEW s \in {"pending", "completed"}, NEW hasTerminal \in BOOLEAN,
             UpdateTool(t, s, hasTerminal)
      PROVE  ToolsInv'
  BY <1>2, UpdateIsApplied DEF UpdateTool, Workers
<1>3. ASSUME NEW w \in Workers, SaveCall(w) \/ SaveResult(w) \/ SaveFails(w)
      PROVE  ToolsInv'
  BY <1>3, Saving
<1>4. ASSUME UpdateEnds PROVE ToolsInv'
  BY <1>4, Resting DEF UpdateEnds, Workers, textVars
<1>5. ASSUME TerminalOutput PROVE ToolsInv'
  BY <1>5, Writing
<1>6. ASSUME NEW t \in AcpTools, NEW hasTerminal \in BOOLEAN,
             NEW offered \in {Options, {"allow_once"}}, RequestPermission(t, hasTerminal, offered)
      PROVE  ToolsInv'
  BY <1>6, UpdateIsApplied DEF RequestPermission, Workers
<1>7. ASSUME NEW approved, NEW option, Answered(approved, option) PROVE ToolsInv'
  BY <1>7, Resting DEF Answered, Workers, textVars
<1>8. ASSUME AllowNotes \/ AskUser \/ RequestFails PROVE ToolsInv'
  BY <1>7, <1>8 DEF AllowNotes, AskUser, RequestFails
<1>9. ASSUME UNCHANGED handlerVars PROVE ToolsInv'
  BY <1>9 DEF handlerVars, textVars, toolVars, ToolsInv, OutputIsInOrder, WorkIsKnown, CallIsSaved,
     RowsAreOrdered, OutputsAreInOrder, ResultsFollowTheirCalls, SegmentIsText
<1>10. QED
  BY <1>1, <1>2, <1>3, <1>4, <1>5, <1>6, <1>8, <1>9 DEF HandlerNext

(* Nothing is known before the first chunk.                               *)
LEMMA HandlerInitial == HandlerInit => TextsInv /\ ToolsInv /\ PermissionInv
<1> SUFFICES ASSUME HandlerInit PROVE TextsInv /\ ToolsInv /\ PermissionInv
  OBVIOUS
<1>1. TextsInv
  BY DEF HandlerInit, TextsInv, TextsTypeOK, ShownIsHeld
<1>2. OutputIsInOrder
  <2>1. [i \in 1 .. 0 |-> i] = <<>>
    OBVIOUS
  <2>2. QED
    BY <2>1 DEF HandlerInit, OutputIsInOrder
<1>3. WorkIsKnown /\ CallIsSaved
  BY DEF HandlerInit, WorkIsKnown, CallIsSaved, AtRest
<1>4. RowsAreOrdered /\ OutputsAreInOrder /\ ResultsFollowTheirCalls /\ SegmentIsText
  BY DEF HandlerInit, RowsAreOrdered, OutputsAreInOrder, ResultsFollowTheirCalls, SegmentIsText,
     NoSegment, Kinds
<1>5. PermissionInv
  BY DEF HandlerInit, PermissionInv, RequestIsKnown, AnswersMatchDecisions
<1>6. QED
  BY <1>1, <1>2, <1>3, <1>4, <1>5 DEF ToolsInv

(* The texts, in one step.                                                *)
LEMMA TextsInvIsInductive ==
  ASSUME TextsInv, [HandlerNext]_handlerVars PROVE TextsInv'
<1>1. CASE UNCHANGED <<segments, chunks, texts, shown>>
  BY <1>1 DEF TextsInv, TextsTypeOK, ShownIsHeld
<1>2. ASSUME NEW kind \in Kinds, NEW name \in MessageIds \cup {Unnamed}, NEW saves \in BOOLEAN,
             AppendText(kind, name, saves)
      PROVE  TextsInv'
  BY <1>2, TextsStep
<1>3. QED
  BY <1>1, <1>2, OthersLeaveTexts

(* What the user saw of an agent's prompt is in the transcript, its results  *)
(* stand behind their calls, and its terminals' output is whole, whichever   *)
(* writes fail (acp.go, appendText, applyToolUpdate and TerminalOutput).     *)
THEOREM TranscriptsKeepWhatWasShown == HandlerSpec => []TranscriptKeepsWhatWasShown
<1>1. TextsInv /\ ToolsInv /\ [HandlerNext]_handlerVars => TextsInv' /\ ToolsInv'
  BY TextsInvIsInductive, ToolsStep
<1>2. TextsInv /\ ToolsInv => TranscriptKeepsWhatWasShown
  <2> SUFFICES ASSUME TextsInv, ToolsInv PROVE TranscriptKeepsWhatWasShown
    OBVIOUS
  <2>1. ShownIsStored
    BY DEF TextsInv, ShownIsHeld, Held, ShownIsStored
  <2>2. TerminalOutputIsKept
    <3> DEFINE written == [i \in 1 .. writes |-> i]
    <3>1. writes \in Nat /\ written \in [1 .. writes -> Nat]
      BY DEF ToolsInv, OutputIsInOrder
    <3>2. written \in Seq(Nat)
      BY <3>1, SeqDef
    <3>3. written \o <<>> = written /\ <<>> \o written = written
      BY <3>2, ConcatEmptySeq
    <3>4. toolOutput \o pendingOutput = written
      BY <3>3 DEF ToolsInv, OutputIsInOrder
    <3>5. QED
      BY <3>4 DEF ToolsInv, OutputsAreInOrder, Numbers, TerminalOutputIsKept
  <2>3. QED
    BY <2>1, <2>2 DEF ToolsInv, TranscriptKeepsWhatWasShown
<1>3. QED
  BY <1>1, <1>2, HandlerInitial, PTL DEF HandlerSpec

(* What is chosen without the user.                                       *)
LEMMA DefaultsMatch ==
  ASSUME NEW approved \in BOOLEAN, NEW offered
  PROVE  LET option == DefaultOption(approved, offered) IN
         option \in Options => (option \in Allowing <=> approved)
<1> DEFINE fit == {i \in {1, 2} : Preferred(approved)[i] \in offered}
<1>1. CASE fit = {}
  BY <1>1 DEF DefaultOption, Options
<1>2. CASE fit # {}
  <2>1. \E i \in fit : \A j \in fit : i <= j
    BY <1>2
  <2>2. (CHOOSE i \in fit : \A j \in fit : i <= j) \in {1, 2}
    BY <2>1
  <2>3. DefaultOption(approved, offered) \in {Preferred(approved)[1], Preferred(approved)[2]}
    BY <1>2, <2>2 DEF DefaultOption
  <2>4. QED
    BY <2>3 DEF Preferred, Allowing, Options
<1>3. QED
  BY <1>1, <1>2

(* A request for permission, and its answer.                              *)
LEMMA PermissionStep ==
  ASSUME PermissionInv, [HandlerNext]_handlerVars PROVE PermissionInv'
<1>1. CASE UNCHANGED permission
  BY <1>1 DEF PermissionInv, RequestIsKnown, AnswersMatchDecisions
<1>2. ASSUME NEW t \in AcpTools, NEW hasTerminal \in BOOLEAN,
             NEW offered \in {Options, {"allow_once"}}, RequestPermission(t, hasTerminal, offered)
      PROVE  PermissionInv'
  BY <1>2 DEF RequestPermission, PermissionInv, RequestIsKnown, AnswersMatchDecisions
<1>3. ASSUME NEW approved \in BOOLEAN, NEW option, Answered(approved, option),
             option \in Options => (option \in Allowing <=> approved)
      PROVE  PermissionInv'
  BY <1>3 DEF Answered, PermissionInv, RequestIsKnown, AnswersMatchDecisions
<1>4. CASE AllowNotes
  BY <1>3, <1>4, DefaultsMatch DEF AllowNotes
<1>5. CASE AskUser
  <2>1. CASE \E o \in permission.offered : Answered(o \in Allowing, o)
    <3>1. PICK o \in permission.offered : Answered(o \in Allowing, o)
      BY <2>1
    <3>2. permission' = [at |-> "answered", approved |-> o \in Allowing, option |-> o]
      BY <3>1 DEF Answered
    <3>3. QED
      BY <3>2 DEF PermissionInv, RequestIsKnown, AnswersMatchDecisions
  <2>2. CASE \E approved \in BOOLEAN :
               Answered(approved, DefaultOption(approved, permission.offered))
    BY <1>3, <2>2, DefaultsMatch
  <2>3. CASE Answered(FALSE, "cancelled")
    BY <1>3, <2>3 DEF Options
  <2>4. QED
    BY <1>5, <2>1, <2>2, <2>3 DEF AskUser
<1>6. CASE RequestFails
  BY <1>3, <1>6 DEF RequestFails, Options
<1>7. QED
  <2>1. ASSUME \/ \E kind \in Kinds, name \in MessageIds \cup {Unnamed}, saves \in BOOLEAN :
                    AppendText(kind, name, saves)
               \/ \E t \in AcpTools, s \in {"pending", "completed"}, hasTerminal \in BOOLEAN :
                    UpdateTool(t, s, hasTerminal)
               \/ \E w \in Workers : SaveCall(w) \/ SaveResult(w) \/ SaveFails(w)
               \/ UpdateEnds \/ TerminalOutput \/ UNCHANGED handlerVars
        PROVE  UNCHANGED permission
    BY <2>1 DEF AppendText, UpdateTool, SaveCall, SaveResult, SaveFails, UpdateEnds,
       TerminalOutput, handlerVars
  <2>2. QED
    BY <1>1, <1>2, <1>4, <1>5, <1>6, <2>1 DEF HandlerNext

(* An agent is told to go on only when the user, or the rule of the notes,    *)
(* allowed it, whatever options it offers (acp.go, RequestPermission).       *)
THEOREM AnswersMatch == HandlerSpec => []AnswersMatchDecisions
<1>1. PermissionInv => AnswersMatchDecisions
  BY DEF PermissionInv
<1>2. QED
  BY <1>1, HandlerInitial, PermissionStep, PTL DEF HandlerSpec

-----------------------------------------------------------------------------
(* What a stream is at.                                                      *)
LiveTypeOK ==
  /\ step \in [Streams -> {"model", "command", "asking", "results"}]
  /\ responses \in [Streams -> 0 .. MaxResponses] /\ partials \in [Streams -> Nat]
  /\ active \in [Streams -> Nat] /\ thoughtSequence \in Nat
  /\ thoughtsShown \in [Ids -> Seq(Every)]
  /\ published \subseteq Every /\ resultsShown \in [Every -> Nat]
Begun(c) == c[2] <= responses[c[1]]
OneEach ==
  /\ \A i \in 1 .. thoughtSequence :
       /\ i \in Ids /\ thoughtsShown[i] # <<>> /\ Begun(thoughtsShown[i][1])
       /\ \A k \in DOMAIN thoughtsShown[i] : thoughtsShown[i][k] = thoughtsShown[i][1]
  /\ \A i \in Ids : i > thoughtSequence => thoughtsShown[i] = <<>>
  /\ \A i, j \in 1 .. thoughtSequence : thoughtsShown[i][1] = thoughtsShown[j][1] => i = j
ActiveIsCurrent ==
  \A s \in Streams :
    /\ partials[s] = 0 => active[s] = 0
    /\ partials[s] # 0 => /\ step[s] = "model"
                          /\ active[s] \in 1 .. thoughtSequence
                          /\ thoughtsShown[active[s]][1] = Response(s)
    /\ partials[s] # 0 \/ step[s] # "model" => responses[s] > 0
StoredAreShown ==
  \A c \in Every : <<"thought", c>> \in transcript =>
    /\ Begun(c) /\ (c = Response(c[1]) => partials[c[1]] = 0)
    /\ \E i \in 1 .. thoughtSequence : thoughtsShown[i] = <<c>>
ResultsAreCounted ==
  /\ \A c \in Every :
       /\ c \in published => resultsShown[c] = 1
       /\ resultsShown[c] # 0 => Begun(c)
       /\ <<"result", c>> \in transcript =>
            /\ resultsShown[c] = 1
            /\ c = Response(c[1]) => step[c[1]] = "model" /\ partials[c[1]] = 0
  /\ \A s \in Streams :
       partials[s] # 0 \/ (step[s] # "model" /\ Response(s) \notin published)
         => resultsShown[Response(s)] = 0
TimelineInv ==
  /\ LiveTypeOK /\ OneEach /\ ActiveIsCurrent /\ StoredAreShown /\ ResultsAreCounted
-----------------------------------------------------------------------------
(* Every thought has an id of its own, so that there is room for one more.   *)
LEMMA RoomForThought ==
  ASSUME TimelineInv, NEW s \in Streams
  PROVE  thoughtSequence <= Cardinality(Every) /\ (Every # {} => thoughtSequence + 1 \in Ids)
<1>1. /\ IsFiniteSet(Every) /\ Cardinality(Every) \in Nat
      /\ Cardinality(Every) = Cardinality(Streams) * MaxResponses
      /\ Cardinality(Streams) \in Nat /\ MaxResponses \in Nat
  <2>1. IsFiniteSet(1 .. MaxResponses) /\ Cardinality(1 .. MaxResponses) = MaxResponses
    BY TimelineAssumption, FS_Interval
  <2>2. Every = Streams \X (1 .. MaxResponses)
    BY DEF Every
  <2>3. QED
    BY <2>1, <2>2, FS_Product, FS_CardinalityType, TimelineAssumption
<1> DEFINE owner == [i \in 1 .. thoughtSequence |-> thoughtsShown[i][1]]
<1>2. owner \in Injection(1 .. thoughtSequence, Every)
  <2>1. \A i \in 1 .. thoughtSequence : thoughtsShown[i][1] \in Every
    BY DEF TimelineInv, LiveTypeOK, OneEach
  <2>2. QED
    BY <2>1 DEF TimelineInv, OneEach, Injection, IsInjective
<1>3. Cardinality(1 .. thoughtSequence) = thoughtSequence /\ thoughtSequence \in Nat
  BY FS_Interval DEF TimelineInv, LiveTypeOK
<1>4. thoughtSequence <= Cardinality(Every)
  BY <1>1, <1>2, <1>3, FS_Injection
<1>5. ASSUME Every # {} PROVE thoughtSequence + 1 \in Ids
  <2>1. Cardinality(Every) # 0
    BY <1>1, <1>5, FS_EmptySet
  <2>2. PICK n \in Nat : n = Cardinality(Streams) * MaxResponses
    BY <1>1
  <2>3. Ids = 1 .. n * 2 /\ n # 0 /\ thoughtSequence <= n
    BY <1>1, <1>4, <2>1, <2>2 DEF Ids
  <2>4. QED
    BY <1>3, <2>3
<1>6. QED
  BY <1>4, <1>5

(* A piece of a thought, or the whole of it, is shown under the current     *)
(* thought's id or under the next one.                                      *)
Showing(s, c, id, text) ==
  /\ s \in Streams /\ c \in Every /\ step[s] = "model"
  /\ responses' = [responses EXCEPT ![s] = c[2]] /\ c = <<s, c[2]>>
  /\ \/ partials[s] = 0 /\ c[2] = responses[s] + 1 /\ id = thoughtSequence + 1
     \/ partials[s] # 0 /\ c[2] = responses[s] /\ id = active[s]
  /\ text \in Seq(Every) /\ text # <<>> /\ \A k \in DOMAIN text : text[k] = c
  /\ thoughtsShown' = [thoughtsShown EXCEPT ![id] = text]
  /\ thoughtSequence' = IF id > thoughtSequence THEN thoughtSequence + 1 ELSE thoughtSequence

(* What is shown then has one owner again.                                *)
LEMMA ThoughtIsShown ==
  ASSUME TimelineInv, NEW s, NEW c, NEW id, NEW text, Showing(s, c, id, text)
  PROVE  /\ OneEach' /\ thoughtsShown' \in [Ids -> Seq(Every)] /\ responses' \in [Streams -> 0 .. MaxResponses]
         /\ id \in 1 .. thoughtSequence' /\ thoughtSequence' \in Nat
         /\ thoughtSequence <= thoughtSequence'
         /\ thoughtsShown'[id] = text /\ text[1] = c
         /\ \A i \in 1 .. thoughtSequence :
              i # id => thoughtsShown'[i] = thoughtsShown[i] /\ thoughtsShown[i][1] # c
         /\ \A b \in Every : Begun(b) => Begun(b)'
<1> USE DEF TimelineInv, Showing
<1>1. /\ thoughtSequence \in Nat /\ thoughtSequence' \in Nat /\ id \in Nat \ {0}
      /\ id \in Ids /\ id \in 1 .. thoughtSequence' /\ thoughtSequence <= thoughtSequence'
      /\ thoughtSequence' <= thoughtSequence + 1
      /\ id > thoughtSequence => thoughtSequence' = id /\ partials[s] = 0
      /\ id <= thoughtSequence => thoughtSequence' = thoughtSequence
  <2>1. thoughtSequence \in Nat /\ thoughtSequence + 1 \in Ids
    BY RoomForThought DEF LiveTypeOK
  <2>2. CASE partials[s] = 0
    BY <2>1, <2>2
  <2>3. CASE partials[s] # 0
    <3>1. id \in 1 .. thoughtSequence /\ id \in Ids
      BY <2>3 DEF ActiveIsCurrent, OneEach
    <3>2. QED
      BY <2>1, <3>1
  <2>4. QED
    BY <2>2, <2>3
<1>2. thoughtsShown' \in [Ids -> Seq(Every)] /\ thoughtsShown'[id] = text
  BY <1>1 DEF LiveTypeOK
<1>3. \A i \in Ids : i # id => thoughtsShown'[i] = thoughtsShown[i]
  BY <1>1 DEF LiveTypeOK
<1>4. /\ responses' \in [Streams -> 0 .. MaxResponses] /\ responses'[s] = c[2]
      /\ responses[s] <= c[2] /\ c[2] \in 1 .. MaxResponses /\ responses[s] \in Nat
      /\ \A t \in Streams : t # s => responses'[t] = responses[t]
  <2>1. c[2] \in 1 .. MaxResponses /\ MaxResponses \in Nat
    BY TimelineAssumption DEF Every
  <2>2. responses \in [Streams -> 0 .. MaxResponses]
    BY DEF LiveTypeOK
  <2>3. QED
    BY <2>1, <2>2
<1>5. \A b \in Every : Begun(b) => Begun(b)'
  <2> SUFFICES ASSUME NEW b \in Every, Begun(b) PROVE b[2] <= responses'[b[1]]
    BY DEF Begun
  <2>1. b[1] \in Streams /\ b[2] \in Nat /\ b[2] <= responses[b[1]]
    BY DEF Begun, Every
  <2>2. QED
    BY <1>4, <2>1
<1>6. text[1] = c /\ \A k \in DOMAIN text : text[k] = text[1]
  BY EmptySeq, LenProperties
<1>7. \A i \in 1 .. thoughtSequence : /\ i # id => thoughtsShown[i][1] # c
                                      /\ i \in Ids /\ thoughtsShown[i][1] \in Every
  <2> SUFFICES ASSUME NEW i \in 1 .. thoughtSequence
               PROVE  (i # id => thoughtsShown[i][1] # c) /\ i \in Ids /\ thoughtsShown[i][1] \in Every
    OBVIOUS
  <2>1. i \in Ids /\ thoughtsShown[i][1] \in Every /\ Begun(thoughtsShown[i][1])
    BY DEF OneEach, LiveTypeOK
  <2>2. CASE partials[s] = 0
    <3>1. ~Begun(c)
      BY <1>4, <2>2 DEF Begun
    <3>2. QED
      BY <2>1, <3>1
  <2>3. CASE partials[s] # 0
    <3>1. id \in 1 .. thoughtSequence /\ thoughtsShown[id][1] = c
      BY <2>3 DEF ActiveIsCurrent, Response
    <3>2. QED
      BY <2>1, <3>1 DEF OneEach
  <2>4. QED
    BY <2>2, <2>3
<1>8. OneEach'
  <2>1. ASSUME NEW i \in 1 .. thoughtSequence'
        PROVE  /\ i \in Ids /\ thoughtsShown'[i] # <<>> /\ thoughtsShown'[i][1][2] <= responses'[thoughtsShown'[i][1][1]]
               /\ \A k \in DOMAIN thoughtsShown'[i] : thoughtsShown'[i][k] = thoughtsShown'[i][1]
    <3>1. CASE i = id
      <4>1. text[1][2] <= responses'[text[1][1]]
        BY <1>4, <1>6
      <4>2. QED
        BY <1>1, <1>2, <1>6, <3>1, <4>1
    <3>2. CASE i # id
      <4>1. i \in 1 .. thoughtSequence
        BY <1>1, <3>2
      <4>2. QED
        BY <1>3, <1>5, <1>7, <3>2, <4>1 DEF OneEach, Begun
    <3>3. QED
      BY <3>1, <3>2
  <2>2. \A i \in Ids : i > thoughtSequence' => thoughtsShown'[i] = <<>>
    BY <1>1, <1>3 DEF OneEach, Ids
  <2>3. ASSUME NEW i \in 1 .. thoughtSequence', NEW j \in 1 .. thoughtSequence',
               thoughtsShown'[i][1] = thoughtsShown'[j][1]
        PROVE  i = j
    <3>1. \A k \in 1 .. thoughtSequence' : k # id => k \in 1 .. thoughtSequence
      BY <1>1
    <3>2. CASE i = id \/ j = id
      BY <1>2, <1>3, <1>6, <1>7, <2>3, <3>1, <3>2
    <3>3. CASE i # id /\ j # id
      BY <1>3, <1>7, <2>3, <3>1, <3>3 DEF OneEach
    <3>4. QED
      BY <3>2, <3>3
  <2>4. QED
    BY <2>1, <2>2, <2>3 DEF OneEach, Begun
<1>9. QED
  BY <1>1, <1>2, <1>3, <1>4, <1>5, <1>6, <1>7, <1>8

(* The response a stream is at, which it may just have begun.                *)
LEMMA CurrentResponse ==
  ASSUME TimelineInv, NEW s \in Streams, step[s] = "model",
         IF partials[s] = 0
         THEN responses[s] < MaxResponses /\ responses' = [responses EXCEPT ![s] = @ + 1]
         ELSE UNCHANGED responses,
         NEW c, c = <<s, responses'[s]>>
  PROVE  /\ c \in Every /\ responses' = [responses EXCEPT ![s] = c[2]]
         /\ c[2] = IF partials[s] = 0 THEN responses[s] + 1 ELSE responses[s]
         /\ responses' \in [Streams -> 0 .. MaxResponses]
         /\ \A t \in Streams : t # s => responses'[t] = responses[t]
         /\ \A b \in Every : Begun(b) => b[2] <= responses'[b[1]]
         /\ resultsShown[c] = 0 /\ <<"thought", c>> \notin transcript
         /\ <<"result", c>> \notin transcript /\ c \notin published
<1> USE DEF TimelineInv
<1>1. /\ c \in Every /\ responses' = [responses EXCEPT ![s] = c[2]]
      /\ c[2] = IF partials[s] = 0 THEN responses[s] + 1 ELSE responses[s]
      /\ responses' \in [Streams -> 0 .. MaxResponses]
      /\ \A t \in Streams : t # s => responses'[t] = responses[t]
  <2>1. MaxResponses \in Nat /\ responses \in [Streams -> 0 .. MaxResponses]
    BY TimelineAssumption DEF LiveTypeOK
  <2>2. CASE partials[s] = 0
    BY <2>1, <2>2 DEF Every
  <2>3. CASE partials[s] # 0
    <3>1. responses' = responses /\ responses[s] \in 1 .. MaxResponses
      BY <2>1, <2>3 DEF ActiveIsCurrent
    <3>2. QED
      BY <2>1, <2>3, <3>1 DEF Every
  <2>4. QED
    BY <2>2, <2>3
<1>2. \A b \in Every : Begun(b) => b[2] <= responses'[b[1]]
  <2> SUFFICES ASSUME NEW b \in Every, Begun(b) PROVE b[2] <= responses'[b[1]]
    OBVIOUS
  <2>1. b[1] \in Streams /\ b[2] \in Nat /\ b[2] <= responses[b[1]]
    BY DEF Begun, Every
  <2>2. responses[b[1]] \in Nat /\ responses'[b[1]] \in Nat
    BY <1>1, <2>1 DEF LiveTypeOK
  <2>3. QED
    BY <1>1, <2>1, <2>2
<1>3. resultsShown[c] = 0 /\ <<"thought", c>> \notin transcript
  <2>1. CASE partials[s] = 0
    <3>1. ~Begun(c)
      BY <1>1, <2>1 DEF Begun, LiveTypeOK
    <3>2. QED
      BY <1>1, <3>1 DEF StoredAreShown, ResultsAreCounted
  <2>2. CASE partials[s] # 0
    <3>1. c = Response(s) /\ c[1] = s
      BY <2>2 DEF Response
    <3>2. QED
      BY <1>1, <2>2, <3>1 DEF StoredAreShown, ResultsAreCounted
  <2>3. QED
    BY <2>1, <2>2
<1>4. QED
  BY <1>1, <1>2, <1>3 DEF ResultsAreCounted

(* A piece of a thought: the stream's entry grows.                           *)
LEMMA PiecesAreShown ==
  ASSUME TimelineInv, NEW s \in Streams, PartialThought(s)
  PROVE  TimelineInv'
<1> USE DEF TimelineInv
<1> DEFINE n == responses'[s]
<1>1. PICK c : c = <<s, n>>
  OBVIOUS
<1>2. PICK id : id = ThoughtId(s)
  OBVIOUS
<1>3. PICK text : text = Append(thoughtsShown[id], c)
  OBVIOUS
<1>4. /\ c \in Every /\ responses' = [responses EXCEPT ![s] = c[2]]
      /\ c[2] = IF partials[s] = 0 THEN responses[s] + 1 ELSE responses[s]
      /\ responses' \in [Streams -> 0 .. MaxResponses]
      /\ \A t \in Streams : t # s => responses'[t] = responses[t]
      /\ \A b \in Every : Begun(b) => b[2] <= responses'[b[1]]
      /\ resultsShown[c] = 0 /\ <<"thought", c>> \notin transcript
      /\ <<"result", c>> \notin transcript /\ c \notin published
  BY <1>1, CurrentResponse DEF PartialThought
<1>5. /\ step[s] = "model" /\ UNCHANGED <<step, published, resultsShown, transcript>>
      /\ partials' = [partials EXCEPT ![s] = @ + 1] /\ active' = [active EXCEPT ![s] = id]
      /\ thoughtsShown' = [thoughtsShown EXCEPT ![id] = text]
      /\ thoughtSequence' = IF id > thoughtSequence THEN thoughtSequence + 1 ELSE thoughtSequence
  <2>1. id \in Ids
    <3>1. CASE active[s] = 0
      BY <1>2, <1>4, <3>1, RoomForThought DEF ThoughtId, ThoughtKey
    <3>2. CASE active[s] # 0
      BY <1>2, <3>2 DEF ThoughtId, ThoughtKey, ActiveIsCurrent, OneEach
    <3>3. QED
      BY <3>1, <3>2
  <2>2. QED
    BY <1>1, <1>2, <1>3, <2>1 DEF PartialThought, ThoughtKey, LiveTypeOK
<1>6. Showing(s, c, id, text)
  <2>1. CASE partials[s] = 0
    <3>1. id = thoughtSequence + 1
      BY <1>2, <2>1 DEF ThoughtId, ThoughtKey, ActiveIsCurrent
    <3>2. id \in Ids /\ thoughtSequence \in Nat
      BY <1>4, <3>1, RoomForThought DEF LiveTypeOK
    <3>3. thoughtsShown[id] = <<>>
      BY <3>1, <3>2 DEF OneEach
    <3>4. text = <<c>>
      BY <1>3, <3>3
    <3>5. text \in Seq(Every) /\ text # <<>> /\ \A k \in DOMAIN text : text[k] = c
      BY <1>4, <3>4
    <3>6. QED
      BY <1>1, <1>4, <1>5, <2>1, <3>1, <3>5 DEF Showing
  <2>2. CASE partials[s] # 0
    <3>1. /\ id = active[s] /\ id \in 1 .. thoughtSequence /\ id \in Ids
          /\ thoughtsShown[id][1] = c /\ c[2] = responses[s]
      <4>1. active[s] \in 1 .. thoughtSequence /\ thoughtsShown[active[s]][1] = Response(s)
        BY <2>2 DEF ActiveIsCurrent
      <4>2. c = Response(s)
        BY <1>1, <1>4, <2>2 DEF Response
      <4>3. QED
        BY <1>2, <1>4, <2>2, <4>1, <4>2 DEF ThoughtId, ThoughtKey, OneEach
    <3>2. PICK was : was = thoughtsShown[id]
      OBVIOUS
    <3>3. was \in Seq(Every) /\ \A k \in DOMAIN was : was[k] = c
      BY <3>1, <3>2 DEF OneEach, LiveTypeOK
    <3>4. text \in Seq(Every) /\ text # <<>> /\ \A k \in DOMAIN text : text[k] = c
      BY <1>3, <1>4, <3>2, <3>3, AppendProperties
    <3>5. QED
      BY <1>1, <1>4, <1>5, <2>2, <3>1, <3>4 DEF Showing
  <2>3. QED
    BY <2>1, <2>2
<1>7. /\ OneEach' /\ thoughtsShown' \in [Ids -> Seq(Every)]
      /\ id \in 1 .. thoughtSequence' /\ thoughtSequence' \in Nat
      /\ thoughtSequence <= thoughtSequence' /\ thoughtSequence \in Nat
      /\ thoughtsShown'[id] = text /\ text[1] = c
      /\ \A i \in 1 .. thoughtSequence :
           i # id => thoughtsShown'[i] = thoughtsShown[i] /\ thoughtsShown[i][1] # c
  BY <1>6, ThoughtIsShown DEF LiveTypeOK
<1>8. LiveTypeOK'
  BY <1>4, <1>5, <1>7 DEF LiveTypeOK
<1>9. \A t \in Streams : partials'[t] = (IF t = s THEN partials[s] + 1 ELSE partials[t])
                         /\ partials[t] \in Nat /\ active'[t] = (IF t = s THEN id ELSE active[t])
                         /\ responses[t] \in Nat /\ responses'[t] \in Nat
  BY <1>4, <1>5 DEF LiveTypeOK
<1>10. ASSUME NEW i \in 1 .. thoughtSequence, thoughtsShown[i][1] # c
       PROVE  i \in 1 .. thoughtSequence' /\ thoughtsShown'[i] = thoughtsShown[i]
  <2>1. i # id
    <3>1. CASE partials[s] = 0
      BY <1>6, <1>7, <3>1 DEF Showing
    <3>2. CASE partials[s] # 0
      <4>1. thoughtsShown[id][1] = Response(s) /\ c = Response(s)
        BY <1>4, <1>6, <3>2 DEF Showing, ActiveIsCurrent, Response
      <4>2. QED
        BY <1>10, <4>1
    <3>3. QED
      BY <3>1, <3>2
  <2>2. QED
    BY <1>7, <2>1
<1>11. ActiveIsCurrent'
  <2>1. ASSUME NEW t \in Streams
        PROVE  /\ partials'[t] = 0 => active'[t] = 0
               /\ partials'[t] # 0 => /\ step[t] = "model" /\ active'[t] \in 1 .. thoughtSequence'
                                      /\ thoughtsShown'[active'[t]][1] = <<t, responses'[t]>>
               /\ partials'[t] # 0 \/ step[t] # "model" => responses'[t] > 0
    <3>1. CASE t = s
      <4>1. c[2] > 0
        BY <1>4, TimelineAssumption DEF Every
      <4>2. QED
        BY <1>1, <1>4, <1>5, <1>7, <1>9, <3>1, <4>1
    <3>2. CASE t # s
      <4>1. Response(t) # c /\ Response(t) = <<t, responses'[t]>>
        BY <1>1, <1>4, <3>2 DEF Response
      <4>2. QED
        BY <1>4, <1>9, <1>10, <3>2, <4>1 DEF ActiveIsCurrent
    <3>3. QED
      BY <3>1, <3>2
  <2>2. QED
    BY <1>5, <2>1 DEF ActiveIsCurrent, Response
<1>12. StoredAreShown'
  <2> SUFFICES ASSUME NEW b \in Every, <<"thought", b>> \in transcript
               PROVE  /\ b[2] <= responses'[b[1]] /\ (b = <<b[1], responses'[b[1]]>> => partials'[b[1]] = 0)
                      /\ \E i \in 1 .. thoughtSequence' : thoughtsShown'[i] = <<b>>
    BY <1>5 DEF StoredAreShown, Begun, Response
  <2>1. b # c /\ b[1] \in Streams
    BY <1>4 DEF Every
  <2>2. PICK i \in 1 .. thoughtSequence : thoughtsShown[i] = <<b>>
    BY DEF StoredAreShown
  <2>3. thoughtsShown'[i] = <<b>> /\ i \in 1 .. thoughtSequence'
    BY <1>10, <2>1, <2>2
  <2>4. b = <<b[1], responses'[b[1]]>> => partials'[b[1]] = 0
    BY <1>1, <1>4, <1>9, <2>1 DEF StoredAreShown, Response
  <2>5. QED
    BY <1>4, <2>3, <2>4 DEF StoredAreShown
<1>13. ResultsAreCounted'
  <2>1. ASSUME NEW b \in Every
        PROVE  /\ resultsShown[b] # 0 => b[2] <= responses'[b[1]]
               /\ <<"result", b>> \in transcript /\ b = <<b[1], responses'[b[1]]>>
                    => step[b[1]] = "model" /\ partials'[b[1]] = 0
    <3>1. resultsShown[b] # 0 => b[2] <= responses'[b[1]]
      BY <1>4 DEF ResultsAreCounted
    <3>2. ASSUME <<"result", b>> \in transcript, b = <<b[1], responses'[b[1]]>>
          PROVE  step[b[1]] = "model" /\ partials'[b[1]] = 0
      <4>1. b[1] \in Streams /\ b[1] # s
        BY <1>1, <1>4, <3>2 DEF Every
      <4>2. b = Response(b[1])
        BY <1>4, <3>2, <4>1 DEF Response
      <4>3. QED
        BY <1>9, <3>2, <4>1, <4>2 DEF ResultsAreCounted
    <3>3. QED
      BY <3>1, <3>2
  <2>2. ASSUME NEW t \in Streams,
               partials'[t] # 0 \/ (step[t] # "model" /\ <<t, responses'[t]>> \notin published)
        PROVE  resultsShown[<<t, responses'[t]>>] = 0
    <3>1. CASE t = s
      BY <1>1, <1>4, <3>1
    <3>2. CASE t # s
      BY <1>4, <1>9, <2>2, <3>2 DEF ResultsAreCounted, Response
    <3>3. QED
      BY <3>1, <3>2
  <2>3. QED
    BY <1>5, <2>1, <2>2 DEF ResultsAreCounted, Begun, Response
<1>14. QED
  BY <1>7, <1>8, <1>11, <1>12, <1>13

(* The final event, with the whole thought or without one.                   *)
LEMMA ThoughtsAreStored ==
  ASSUME TimelineInv, NEW s \in Streams, FinalResponse(s)
  PROVE  TimelineInv'
<1> USE DEF TimelineInv
<1> DEFINE n == responses'[s]
<1>1. PICK c : c = <<s, n>>
  OBVIOUS
<1>2. PICK id : id = ThoughtId(s)
  OBVIOUS
<1>3. /\ c \in Every /\ responses' = [responses EXCEPT ![s] = c[2]]
      /\ c[2] = IF partials[s] = 0 THEN responses[s] + 1 ELSE responses[s]
      /\ responses' \in [Streams -> 0 .. MaxResponses]
      /\ \A t \in Streams : t # s => responses'[t] = responses[t]
      /\ \A b \in Every : Begun(b) => b[2] <= responses'[b[1]]
      /\ resultsShown[c] = 0 /\ <<"thought", c>> \notin transcript
      /\ <<"result", c>> \notin transcript /\ c \notin published
  BY <1>1, CurrentResponse DEF FinalResponse
<1>4. PICK thinks \in BOOLEAN, after \in {"model", "command"} :
        /\ step[s] = "model" /\ step' = [step EXCEPT ![s] = after]
        /\ UNCHANGED <<published, resultsShown>>
        /\ partials' = [partials EXCEPT ![s] = 0] /\ active' = [active EXCEPT ![s] = 0]
        /\ thinks \/ partials[s] = 0
        /\ IF thinks
           THEN /\ thoughtsShown' = [thoughtsShown EXCEPT ![id] = <<c>>]
                /\ thoughtSequence' = IF id > thoughtSequence THEN thoughtSequence + 1 ELSE thoughtSequence
                /\ transcript' = transcript \cup {<<"thought", c>>}
           ELSE UNCHANGED <<thoughtsShown, thoughtSequence, transcript>>
  BY <1>1, <1>2 DEF FinalResponse, ThoughtKey
<1>5. /\ OneEach' /\ thoughtsShown' \in [Ids -> Seq(Every)] /\ thoughtSequence' \in Nat
      /\ \A i \in 1 .. thoughtSequence : thoughtsShown[i][1] # c =>
           i \in 1 .. thoughtSequence' /\ thoughtsShown'[i] = thoughtsShown[i]
      /\ \A b : <<"thought", b>> \in transcript' =>
           \/ <<"thought", b>> \in transcript
           \/ b = c /\ \E i \in 1 .. thoughtSequence' : thoughtsShown'[i] = <<c>>
      /\ \A b : <<"result", b>> \in transcript' => <<"result", b>> \in transcript
  <2>1. CASE thinks
    <3>1. Showing(s, c, id, <<c>>)
      <4>1. CASE partials[s] = 0
        <5>1. id = thoughtSequence + 1
          BY <1>2, <4>1 DEF ThoughtId, ThoughtKey, ActiveIsCurrent
        <5>2. QED
          BY <1>1, <1>3, <1>4, <2>1, <4>1, <5>1 DEF Showing
      <4>2. CASE partials[s] # 0
        <5>1. id = active[s]
          BY <1>2, <4>2 DEF ThoughtId, ThoughtKey, ActiveIsCurrent
        <5>2. QED
          BY <1>1, <1>3, <1>4, <2>1, <4>2, <5>1 DEF Showing
      <4>3. QED
        BY <4>1, <4>2
    <3>2. PICK text : text = <<c>>
      OBVIOUS
    <3>3. Showing(s, c, id, text)
      BY <3>1, <3>2
    <3>4. /\ OneEach' /\ thoughtsShown' \in [Ids -> Seq(Every)]
          /\ id \in 1 .. thoughtSequence' /\ thoughtSequence' \in Nat
          /\ thoughtSequence <= thoughtSequence' /\ thoughtsShown'[id] = text
          /\ \A i \in 1 .. thoughtSequence :
               i # id => thoughtsShown'[i] = thoughtsShown[i] /\ thoughtsShown[i][1] # c
      BY <3>3, ThoughtIsShown DEF LiveTypeOK
    <3>5. ASSUME NEW i \in 1 .. thoughtSequence, thoughtsShown[i][1] # c
          PROVE  thoughtsShown'[i] = thoughtsShown[i]
      <4>1. CASE partials[s] = 0
        BY <3>1, <3>4, <4>1 DEF Showing, LiveTypeOK
      <4>2. CASE partials[s] # 0
        <5>1. id = active[s] /\ thoughtsShown[id][1] = Response(s) /\ c = Response(s)
          BY <1>3, <3>1, <4>2 DEF Showing, ActiveIsCurrent, Response
        <5>2. QED
          BY <3>4, <3>5, <5>1
      <4>3. QED
        BY <4>1, <4>2
    <3>6. \A i \in 1 .. thoughtSequence : i \in 1 .. thoughtSequence'
      BY <3>4 DEF LiveTypeOK
    <3>7. QED
      BY <1>4, <2>1, <3>2, <3>4, <3>5, <3>6
  <2>2. CASE ~thinks
    <3>1. /\ UNCHANGED <<thoughtsShown, thoughtSequence, transcript>>
          /\ \A i \in 1 .. thoughtSequence : thoughtsShown[i][1] \in Every
      BY <1>4, <2>2 DEF OneEach, LiveTypeOK
    <3>2. \A i \in 1 .. thoughtSequence : thoughtsShown[i][1][2] <= responses'[thoughtsShown[i][1][1]]
      BY <1>3, <3>1 DEF OneEach
    <3>3. QED
      BY <3>1, <3>2 DEF OneEach, Begun, LiveTypeOK
  <2>3. QED
    BY <2>1, <2>2
<1>6. LiveTypeOK'
  BY <1>3, <1>4, <1>5 DEF LiveTypeOK
<1>7. \A t \in Streams : partials'[t] = (IF t = s THEN 0 ELSE partials[t])
                         /\ partials[t] \in Nat /\ active'[t] = (IF t = s THEN 0 ELSE active[t])
                         /\ step'[t] = (IF t = s THEN after ELSE step[t])
                         /\ responses[t] \in Nat /\ responses'[t] \in Nat
  BY <1>3, <1>4 DEF LiveTypeOK
<1>8. ActiveIsCurrent'
  <2>1. ASSUME NEW t \in Streams
        PROVE  /\ partials'[t] = 0 => active'[t] = 0
               /\ partials'[t] # 0 => /\ step'[t] = "model" /\ active'[t] \in 1 .. thoughtSequence'
                                      /\ thoughtsShown'[active'[t]][1] = <<t, responses'[t]>>
               /\ partials'[t] # 0 \/ step'[t] # "model" => responses'[t] > 0
    <3>1. CASE t = s
      <4>1. c[2] > 0
        BY <1>3, TimelineAssumption DEF Every
      <4>2. QED
        BY <1>1, <1>7, <3>1, <4>1
    <3>2. CASE t # s
      <4>1. Response(t) # c /\ Response(t) = <<t, responses'[t]>>
        BY <1>1, <1>3, <3>2 DEF Response
      <4>2. partials[t] # 0 => active'[t] \in 1 .. thoughtSequence'
                               /\ thoughtsShown'[active'[t]][1] = Response(t)
        BY <1>5, <1>7, <3>2, <4>1, SMTT(30) DEF ActiveIsCurrent
      <4>3. QED
        BY <1>3, <1>7, <3>2, <4>1, <4>2 DEF ActiveIsCurrent
    <3>3. QED
      BY <3>1, <3>2
  <2>2. QED
    BY <2>1 DEF ActiveIsCurrent, Response
<1>9. StoredAreShown'
  <2> SUFFICES ASSUME NEW b \in Every, <<"thought", b>> \in transcript'
               PROVE  /\ b[2] <= responses'[b[1]] /\ (b = <<b[1], responses'[b[1]]>> => partials'[b[1]] = 0)
                      /\ \E i \in 1 .. thoughtSequence' : thoughtsShown'[i] = <<b>>
    BY DEF StoredAreShown, Begun, Response
  <2>0. b[1] \in Streams
    BY DEF Every
  <2>1. CASE b = c /\ \E i \in 1 .. thoughtSequence' : thoughtsShown'[i] = <<c>>
    <3>1. b[1] = s /\ b[2] = responses'[s] /\ responses'[s] \in Nat /\ partials'[s] = 0
      BY <1>1, <1>7, <2>1
    <3>2. QED
      BY <2>1, <3>1
  <2>2. CASE <<"thought", b>> \in transcript
    <3>1. b # c
      BY <1>3, <2>2
    <3>2. PICK i \in 1 .. thoughtSequence : thoughtsShown[i] = <<b>>
      BY <2>2 DEF StoredAreShown
    <3>3. thoughtsShown'[i] = <<b>> /\ i \in 1 .. thoughtSequence'
      BY <1>5, <3>1, <3>2
    <3>4. b = <<b[1], responses'[b[1]]>> => partials'[b[1]] = 0
      BY <1>1, <1>3, <1>7, <2>0, <2>2, <3>1 DEF StoredAreShown, Response
    <3>5. QED
      BY <1>3, <2>2, <3>3, <3>4 DEF StoredAreShown
  <2>3. QED
    BY <1>5, <2>1, <2>2
<1>10. ResultsAreCounted'
  <2>1. ASSUME NEW b \in Every
        PROVE  /\ resultsShown[b] # 0 => b[2] <= responses'[b[1]]
               /\ <<"result", b>> \in transcript => resultsShown[b] = 1
               /\ <<"result", b>> \in transcript /\ b = <<b[1], responses'[b[1]]>>
                    => step'[b[1]] = "model" /\ partials'[b[1]] = 0
    <3>1. /\ resultsShown[b] # 0 => b[2] <= responses'[b[1]]
          /\ <<"result", b>> \in transcript => resultsShown[b] = 1
      BY <1>3 DEF ResultsAreCounted
    <3>2. ASSUME <<"result", b>> \in transcript, b = <<b[1], responses'[b[1]]>>
          PROVE  step'[b[1]] = "model" /\ partials'[b[1]] = 0
      <4>1. b[1] \in Streams /\ b[1] # s
        BY <1>1, <1>3, <3>2 DEF Every
      <4>2. b = Response(b[1])
        BY <1>3, <3>2, <4>1 DEF Response
      <4>3. QED
        BY <1>7, <3>2, <4>1, <4>2 DEF ResultsAreCounted
    <3>3. QED
      BY <3>1, <3>2
  <2>2. ASSUME NEW t \in Streams,
               partials'[t] # 0 \/ (step'[t] # "model" /\ <<t, responses'[t]>> \notin published)
        PROVE  resultsShown[<<t, responses'[t]>>] = 0
    <3>1. CASE t = s
      BY <1>1, <1>3, <3>1
    <3>2. CASE t # s
      BY <1>3, <1>7, <2>2, <3>2 DEF ResultsAreCounted, Response
    <3>3. QED
      BY <3>1, <3>2
  <2>3. QED
    BY <1>4, <1>5, <2>1, <2>2 DEF ResultsAreCounted, Begun, Response
<1>11. QED
  BY <1>5, <1>6, <1>8, <1>9, <1>10

(* A command's result is announced, unless approval is needed first.         *)
LEMMA CommandsAreAnnounced ==
  ASSUME TimelineInv, NEW s \in Streams, CommandEnds(s) \/ Approval(s)
  PROVE  TimelineInv'
<1> USE DEF TimelineInv
<1>1. /\ UNCHANGED <<responses, partials, active, thoughtSequence, thoughtsShown, transcript>>
      /\ step[s] # "model" /\ step' \in [Streams -> {"model", "command", "asking", "results"}]
      /\ \A t \in Streams : (step'[t] = "model") = (step[t] = "model")
      /\ \/ UNCHANGED <<published, resultsShown>>
         \/ /\ Response(s) \notin published /\ published' = published \cup {Response(s)}
            /\ resultsShown' = [resultsShown EXCEPT ![Response(s)] = @ + 1]
  <2>1. step \in [Streams -> {"model", "command", "asking", "results"}]
    BY DEF LiveTypeOK
  <2>2. CASE CommandEnds(s)
    BY <2>1, <2>2 DEF CommandEnds
  <2>3. CASE Approval(s)
    BY <2>1, <2>3 DEF Approval
  <2>4. QED
    BY <2>2, <2>3
<1>2. PICK c \in Every : c = Response(s)
  <2>1. responses[s] > 0 /\ responses[s] \in 0 .. MaxResponses /\ MaxResponses \in Nat
    BY <1>1, TimelineAssumption DEF ActiveIsCurrent, LiveTypeOK
  <2>2. Response(s) \in Every
    BY <2>1 DEF Response, Every
  <2>3. QED
    BY <2>2
<1>3. /\ c \in published => UNCHANGED <<published, resultsShown>>
      /\ c \notin published => resultsShown[c] = 0
      /\ <<"result", c>> \notin transcript /\ Begun(c)
  <2>1. c[1] = s /\ c[2] = responses[s] /\ responses[s] \in Nat
    BY <1>2 DEF Response, LiveTypeOK
  <2>2. QED
    BY <1>1, <1>2, <2>1 DEF ResultsAreCounted, Begun
<1>4. LiveTypeOK' /\ OneEach' /\ ActiveIsCurrent' /\ StoredAreShown'
  <2>1. LiveTypeOK'
    <3>1. published' \subseteq Every /\ resultsShown' \in [Every -> Nat]
      BY <1>1, <1>2 DEF LiveTypeOK
    <3>2. QED
      BY <1>1, <3>1 DEF LiveTypeOK
  <2>2. OneEach' /\ StoredAreShown'
    BY <1>1 DEF OneEach, StoredAreShown, Begun, Response
  <2>3. ActiveIsCurrent'
    BY <1>1 DEF ActiveIsCurrent, Response
  <2>4. QED
    BY <2>1, <2>2, <2>3
<1>5. ASSUME NEW b \in Every
      PROVE  /\ b \in published' => resultsShown'[b] = 1
             /\ resultsShown'[b] # 0 => Begun(b)
             /\ <<"result", b>> \in transcript => resultsShown'[b] = 1
  <2>1. CASE b = c
    BY <1>1, <1>2, <1>3, <2>1 DEF ResultsAreCounted, LiveTypeOK
  <2>2. CASE b # c
    BY <1>1, <1>2, <2>2 DEF ResultsAreCounted, LiveTypeOK
  <2>3. QED
    BY <2>1, <2>2
<1>6. ASSUME NEW t \in Streams,
             partials[t] # 0 \/ (step[t] # "model" /\ Response(t) \notin published')
      PROVE  resultsShown'[Response(t)] = 0
  <2>1. CASE t = s
    <3>1. UNCHANGED <<published, resultsShown>>
      BY <1>1, <1>6, <2>1 DEF ActiveIsCurrent
    <3>2. QED
      BY <1>6, <3>1 DEF ResultsAreCounted
  <2>2. CASE t # s
    <3>1. resultsShown[Response(t)] = 0 /\ Response(t) # Response(s)
      BY <1>1, <1>6, <2>2 DEF ResultsAreCounted, Response
    <3>2. responses[t] \in 1 .. MaxResponses
      BY <1>6, TimelineAssumption DEF ActiveIsCurrent, LiveTypeOK
    <3>3. Response(t) \in Every
      BY <3>2 DEF Response, Every
    <3>4. QED
      BY <1>1, <3>1, <3>3 DEF LiveTypeOK
  <2>3. QED
    BY <2>1, <2>2
<1>7. ASSUME NEW b \in Every, <<"result", b>> \in transcript, b = Response(b[1])
      PROVE  step'[b[1]] = "model" /\ partials[b[1]] = 0
  <2>1. b[1] \in Streams
    BY DEF Every
  <2>2. QED
    BY <1>1, <1>7, <2>1 DEF ResultsAreCounted
<1>8. ResultsAreCounted'
  <2>1. \A t \in Streams : Response(t)' = Response(t)
    BY <1>1 DEF Response
  <2>2. QED
    BY <1>1, <1>5, <1>6, <1>7, <2>1 DEF ResultsAreCounted, Begun, Response
<1>9. QED
  BY <1>4, <1>8

(* The event with the result shows it if nobody has announced it.            *)
LEMMA ResultsAreStored ==
  ASSUME TimelineInv, NEW s \in Streams, ResultEvent(s)
  PROVE  TimelineInv'
<1> USE DEF TimelineInv
<1>1. /\ UNCHANGED <<responses, partials, thoughtSequence, thoughtsShown, published>>
      /\ step[s] = "results" /\ step' = [step EXCEPT ![s] = "model"]
      /\ active' = [active EXCEPT ![s] = 0] /\ transcript' = transcript \cup {<<"result", Response(s)>>}
      /\ resultsShown' =
           [resultsShown EXCEPT ![Response(s)] = IF Response(s) \in published THEN @ ELSE @ + 1]
  BY DEF ResultEvent, ThoughtKey, WasPublished
<1>2. PICK c \in Every : c = Response(s)
  <2>1. responses[s] > 0 /\ responses[s] \in 0 .. MaxResponses /\ MaxResponses \in Nat
    BY <1>1, TimelineAssumption DEF ActiveIsCurrent, LiveTypeOK
  <2>2. Response(s) \in Every
    BY <2>1 DEF Response, Every
  <2>3. QED
    BY <2>2
<1>3. partials[s] = 0 /\ resultsShown'[c] = 1 /\ c[1] = s /\ Begun(c)
  <2>1. partials[s] = 0
    BY <1>1 DEF ActiveIsCurrent
  <2>2. c \in published => resultsShown[c] = 1
    BY DEF ResultsAreCounted
  <2>3. c \notin published => resultsShown[c] = 0
    BY <1>1, <1>2 DEF ResultsAreCounted
  <2>4. QED
    BY <1>1, <1>2, <2>1, <2>2, <2>3 DEF LiveTypeOK, Response, Begun
<1>4. LiveTypeOK' /\ OneEach' /\ StoredAreShown'
  <2>1. LiveTypeOK'
    BY <1>1, <1>2 DEF LiveTypeOK
  <2>2. OneEach'
    BY <1>1 DEF OneEach, Begun
  <2>3. StoredAreShown'
    BY <1>1 DEF StoredAreShown, Begun, Response
  <2>4. QED
    BY <2>1, <2>2, <2>3
<1>5. ActiveIsCurrent'
  <2>1. \A t \in Streams : step'[t] = (IF t = s THEN "model" ELSE step[t])
                           /\ active'[t] = (IF t = s THEN 0 ELSE active[t])
    BY <1>1 DEF LiveTypeOK
  <2>2. QED
    BY <1>1, <1>3, <2>1 DEF ActiveIsCurrent, Response
<1>6. ASSUME NEW b \in Every
      PROVE  /\ b \in published => resultsShown'[b] = 1
             /\ resultsShown'[b] # 0 => Begun(b)
             /\ <<"result", b>> \in transcript' => resultsShown'[b] = 1
  <2>1. CASE b = c
    BY <1>3, <2>1
  <2>2. CASE b # c
    BY <1>1, <1>2, <2>2 DEF ResultsAreCounted, LiveTypeOK
  <2>3. QED
    BY <2>1, <2>2
<1>7. ASSUME NEW t \in Streams,
             partials[t] # 0 \/ (step'[t] # "model" /\ Response(t) \notin published)
      PROVE  resultsShown'[Response(t)] = 0
  <2>1. t # s /\ (partials[t] # 0 \/ (step[t] # "model" /\ Response(t) \notin published))
    BY <1>1, <1>3, <1>7 DEF LiveTypeOK
  <2>2. resultsShown[Response(t)] = 0 /\ Response(t) # Response(s)
    BY <2>1 DEF ResultsAreCounted, Response
  <2>3. responses[t] \in 1 .. MaxResponses
    BY <2>1, TimelineAssumption DEF ActiveIsCurrent, LiveTypeOK
  <2>4. Response(t) \in Every
    BY <2>3 DEF Response, Every
  <2>5. QED
    BY <1>1, <2>2, <2>4 DEF LiveTypeOK
<1>8. ASSUME NEW b \in Every, <<"result", b>> \in transcript', b = Response(b[1])
      PROVE  step'[b[1]] = "model" /\ partials[b[1]] = 0
  <2>1. b[1] \in Streams
    BY DEF Every
  <2>2. CASE b[1] = s
    BY <1>1, <1>3, <2>2 DEF LiveTypeOK
  <2>3. CASE b[1] # s
    <3>1. b # c
      BY <1>3, <2>3
    <3>2. QED
      BY <1>1, <1>2, <1>8, <2>1, <2>3, <3>1 DEF ResultsAreCounted, LiveTypeOK
  <2>4. QED
    BY <2>2, <2>3
<1>9. ResultsAreCounted'
  <2>1. \A t \in Streams : Response(t)' = Response(t)
    BY <1>1 DEF Response
  <2>2. QED
    BY <1>1, <1>6, <1>7, <1>8, <2>1 DEF ResultsAreCounted, Begun, Response
<1>10. QED
  BY <1>4, <1>5, <1>9

(* What the timeline has is what the transcript has.                         *)
LEMMA TimelineFollows ==
  ASSUME TimelineInv
  PROVE  TimelineIsTranscript
<1> USE DEF TimelineInv
<1>1. ASSUME NEW c \in Every, <<"thought", c>> \in transcript
      PROVE  \E i \in Ids :
               /\ thoughtsShown[i] = <<c>>
               /\ \A j \in Ids \ {i} : \A k \in DOMAIN thoughtsShown[j] : thoughtsShown[j][k] # c
  <2>1. PICK i \in 1 .. thoughtSequence : thoughtsShown[i] = <<c>>
    BY <1>1 DEF StoredAreShown
  <2>2. i \in Ids /\ thoughtsShown[i][1] = c
    BY <2>1 DEF OneEach
  <2>3. ASSUME NEW j \in Ids \ {i}, NEW k \in DOMAIN thoughtsShown[j]
        PROVE  thoughtsShown[j][k] # c
    <3>1. thoughtsShown[j] # <<>>
      <4>1. DOMAIN <<>> = {}
        OBVIOUS
      <4>2. QED
        BY <4>1
    <3>2. j \in 1 .. thoughtSequence
      BY <3>1 DEF OneEach, Ids, LiveTypeOK
    <3>3. QED
      BY <2>2, <3>2 DEF OneEach
  <2>4. QED
    BY <2>1, <2>2, <2>3
<1>2. \A c \in Every : resultsShown[c] = 1 \/ <<"result", c>> \notin transcript
  BY DEF ResultsAreCounted
<1>3. QED
  BY <1>1, <1>2 DEF TimelineIsTranscript

(* The live timeline ends up as the transcript, for any number of streams,   *)
(* responses and partial events: an id belongs to one response, which keeps  *)
(* it from its first piece to its final event, and a result is counted when  *)
(* it is announced or else when it is stored.                                *)
THEOREM TimelineFollowsTranscript == TimelineSpec => []TimelineIsTranscript
<1>1. TimelineInit => TimelineInv
  <2> SUFFICES ASSUME TimelineInit PROVE TimelineInv
    OBVIOUS
  <2>1. LiveTypeOK
    BY TimelineAssumption DEF TimelineInit, LiveTypeOK
  <2>2. QED
    BY <2>1 DEF TimelineInit, TimelineInv, OneEach, ActiveIsCurrent, StoredAreShown,
                ResultsAreCounted, Ids
<1>2. TimelineInv /\ [TimelineNext]_timelineVars => TimelineInv'
  <2> SUFFICES ASSUME TimelineInv, [TimelineNext]_timelineVars PROVE TimelineInv'
    OBVIOUS
  <2>1. CASE TimelineNext
    BY <2>1, PiecesAreShown, ThoughtsAreStored, CommandsAreAnnounced, ResultsAreStored
       DEF TimelineNext
  <2>2. CASE UNCHANGED timelineVars
    BY <2>2 DEF timelineVars, TimelineInv, LiveTypeOK, OneEach, ActiveIsCurrent, StoredAreShown,
                ResultsAreCounted, Begun, Response
  <2>3. QED
    BY <2>1, <2>2
<1>3. QED
  BY <1>1, <1>2, TimelineFollows, PTL DEF TimelineSpec

-----------------------------------------------------------------------------
(* Between the tools of one model step and the next, a call is asked about   *)
(* or has its result.  The tools of one step are all ordinary or all         *)
(* delegations, and only ordinary ones ask.                                  *)
LoopTypeOK ==
  /\ pc \in {"idle", "run", "resume", "model", "tools", "emitting", "iterated", "waiting", "completed"}
  /\ call \in [Calls -> {"new", "called", "running", "asks", "returned", "done"}]
  /\ yields \in BOOLEAN /\ handle \in [version : Nat, loaded : Nat] /\ version \in Nat
  /\ answer \subseteq Calls /\ asked \subseteq Calls /\ requested \subseteq Calls
  /\ surfaced \subseteq Calls /\ deferred \subseteq Delegations
  /\ pc = "emitting" => emits \in Seq([kind : {"results"}, calls : SUBSET Calls] \cup {Event("confirm", requested)})

Started == Being("called") \cup Being("running") \cup Being("returned")

OneKindAtATime ==
  /\ pc # "tools" => Started = {}
  /\ pc = "tools" => Started \cup Being("asks") \subseteq Ordinary
                       \/ Started \cup Being("asks") \subseteq Delegations
  /\ pc = "tools" => Being("asks") \subseteq Ordinary /\ Being("running") \subseteq Delegations

(* Every call that asks has its question on the way: with the user, just     *)
(* answered, or among those the iteration still has to put.                  *)
QuestionsAreOnTheWay ==
  /\ pc = "idle" => Being("asks") = {}
  /\ pc \in {"run", "resume"} => /\ Being("asks") = asked \cup answer /\ asked \cap answer = {}
                                 /\ yields <=> (asked # {})
  /\ pc \in {"resume", "model", "tools"} => surfaced = {}
  /\ pc = "resume" => requested = {} /\ answer # {}
  /\ pc = "model" => /\ Being("asks") = asked \cup requested
                     /\ yields <=> (Being("asks") # {})
  /\ pc \in {"tools", "emitting"} => ~yields
  /\ pc = "tools" => asked = {} /\ requested = {}
  /\ pc = "emitting" => /\ Being("asks") = requested /\ asked = surfaced
                        /\ surfaced \subseteq requested /\ emits # <<>>
  /\ pc = "iterated" => /\ Being("asks") = asked \cup Dangling
                        /\ deferred # {} => Being("asks") # {}
  /\ pc = "waiting" => Being("asks") = asked
  /\ pc = "completed" => Being("asks") = {} /\ asked = {} /\ deferred = {}

(* While the runner appends, nobody else advances the version.               *)
HandleIsCurrent == pc \in {"resume", "model", "tools", "emitting"} => handle.version = version

LoopInv == LoopTypeOK /\ OneKindAtATime /\ QuestionsAreOnTheWay /\ HandleIsCurrent

-----------------------------------------------------------------------------
(* A call is one of ordinary tools and delegations, in one state.            *)
LEMMA Progress ==
  ASSUME LoopInv
  PROVE  /\ \A p : \A c \in Calls : c \in Being(p) <=> call[c] = p
         /\ \A c \in Calls : c \in Started <=> call[c] \in {"called", "running", "returned"}
         /\ \A c \in Calls : ~(c \in Ordinary /\ c \in Delegations)
         /\ Ordinary \subseteq Calls /\ Delegations \subseteq Calls
BY AgentLoopAssumption DEF Being, Started, Calls

(* When the model is to speak, all that asks is on the way.                  *)
LEMMA QuestionsOfModel ==
  ASSUME LoopInv, pc = "model"
  PROVE  /\ Being("asks") = asked \cup requested /\ surfaced = {}
         /\ yields <=> (Being("asks") # {})
<1>1. QuestionsAreOnTheWay
  BY DEF LoopInv
<1>2. Being("asks") = asked \cup requested /\ surfaced = {}
  BY <1>1 DEF QuestionsAreOnTheWay
<1>3. yields <=> (Being("asks") # {})
  BY <1>1 DEF QuestionsAreOnTheWay
<1>4. QED
  BY <1>2, <1>3, Zenon

(* The runner's append succeeds, and leaves its handle current.              *)
LEMMA AppendSucceeds ==
  ASSUME LoopInv, pc \in {"resume", "model", "tools", "emitting"},
         NEW event, NEW next, AppendEvent(event, next)
  PROVE  /\ pc' = next /\ version' = version + 1 /\ handle'.version = version'
         /\ handle' \in [version : Nat, loaded : Nat] /\ version' \in Nat
<1>1. handle.version = version /\ version \in Nat /\ handle \in [version : Nat, loaded : Nat]
  BY DEF LoopInv, LoopTypeOK, HandleIsCurrent
<1>2. /\ pc' = next /\ version' = version + 1 /\ handle' = [handle EXCEPT !.version = @ + 1]
  BY <1>1 DEF AppendEvent
<1>3. QED
  BY <1>1, <1>2

(* A run starts, and each of its iterations.                                 *)
LEMMA IterationsStart ==
  ASSUME LoopInv, StartRun \/ RunnerRun
  PROVE  LoopInv'
<1> USE DEF LoopInv
<1>1. CASE StartRun
  <2>1. /\ pc \in {"idle", "completed"} /\ pc' = "run"
        /\ answer' = {} /\ deferred' = {} /\ asked' = {} /\ yields' = FALSE
        /\ UNCHANGED <<log, version, handle, requested, surfaced, emits, call, asks>>
    BY <1>1 DEF StartRun
  <2>2. LoopTypeOK'
    BY <2>1 DEF LoopTypeOK
  <2>3. Being("asks")' = {} /\ Started' = {}
    BY <2>1 DEF Being, Started, OneKindAtATime, QuestionsAreOnTheWay
  <2>4. QED
    BY <2>1, <2>2, <2>3 DEF OneKindAtATime, QuestionsAreOnTheWay, HandleIsCurrent
<1>2. CASE RunnerRun
  <2>1. /\ pc = "run" /\ pc' = (IF answer = {} THEN "model" ELSE "resume")
        /\ version' = version + 1 /\ handle'.version = version' /\ requested' = {} /\ surfaced' = {}
        /\ UNCHANGED <<answer, deferred, yields, asked, emits, call, asks, runs>>
        /\ handle' \in [version : Nat, loaded : Nat] /\ version' \in Nat
    BY <1>2 DEF RunnerRun, LoopTypeOK
  <2>2. LoopTypeOK'
    BY <2>1 DEF LoopTypeOK, Event
  <2>3. Being("asks")' = Being("asks") /\ Started' = {}
    BY <2>1 DEF Being, Started, OneKindAtATime
  <2>4. OneKindAtATime' /\ HandleIsCurrent'
    BY <2>1, <2>3 DEF OneKindAtATime, HandleIsCurrent
  <2>5. QuestionsAreOnTheWay'
    BY <2>1, <2>3 DEF QuestionsAreOnTheWay
  <2>6. QED
    BY <2>2, <2>4, <2>5
<1>3. QED
  BY <1>1, <1>2

(* An answered tool is done or asks again.                                   *)
LEMMA Resuming ==
  ASSUME LoopInv, Resume
  PROVE  LoopInv'
<1> USE DEF LoopInv
<1>1. PICK again \in BOOLEAN :
        /\ call' = Become(answer, IF again THEN "asks" ELSE "done")
        /\ requested' = (IF again THEN requested \cup answer ELSE requested)
        /\ yields' = (yields \/ again)
  BY DEF Resume, EnableYield
<1>2. /\ pc = "resume" /\ pc' = "model" /\ handle'.version = version'
      /\ handle' \in [version : Nat, loaded : Nat] /\ version' \in Nat
      /\ UNCHANGED <<answer, deferred, asked, surfaced, emits, runs>>
  <2>1. PICK event : event = Event("results", answer)
    OBVIOUS
  <2>2. pc = "resume" /\ AppendEvent(event, "model")
    BY <2>1 DEF Resume
  <2>3. QED
    BY <2>2, AppendSucceeds DEF Resume
<1>3. /\ Being("asks") = asked \cup answer /\ asked \cap answer = {} /\ (yields <=> asked # {})
      /\ requested = {} /\ surfaced = {} /\ Started = {} /\ answer # {}
  BY <1>2 DEF QuestionsAreOnTheWay, OneKindAtATime
<1>4. \A c \in Calls : call'[c] = IF c \in answer THEN (IF again THEN "asks" ELSE "done") ELSE call[c]
  BY <1>1 DEF Become
<1>5. Being("asks")' = asked \cup (IF again THEN answer ELSE {}) /\ Started' = {}
  <2>1. answer \subseteq Calls /\ asked \subseteq Calls
    BY DEF LoopTypeOK
  <2>2. Being("asks")' = {c \in Calls : call'[c] = "asks"}
    BY DEF Being
  <2>3. \A c \in Calls : call'[c] = "asks" <=> c \in asked \cup (IF again THEN answer ELSE {})
    BY <1>3, <1>4, Progress
  <2>4. \A c \in Calls : call'[c] \notin {"called", "running", "returned"}
    BY <1>3, <1>4, Progress
  <2>5. QED
    BY <2>1, <2>2, <2>3, <2>4 DEF Being, Started
<1>6. yields' \in BOOLEAN
  BY <1>1
<1>7. LoopTypeOK'
  <2>1. call' \in [Calls -> {"new", "called", "running", "asks", "returned", "done"}]
    BY <1>1 DEF LoopTypeOK, Become
  <2>2. QED
    BY <1>1, <1>2, <1>6, <2>1 DEF LoopTypeOK
<1>8. yields' <=> Being("asks")' # {}
  BY <1>1, <1>3, <1>5
<1>9. requested' = IF again THEN answer ELSE {}
  BY <1>1, <1>3
<1>10. QED
  BY <1>2, <1>3, <1>5, <1>7, <1>8, <1>9 DEF OneKindAtATime, QuestionsAreOnTheWay, HandleIsCurrent

(* The model says something, or nothing while questions are open.            *)
LEMMA ModelSpeaks ==
  ASSUME LoopInv, ModelYields \/ ContextCompacted \/ ModelAnswersText
  PROVE  LoopInv'
<1> USE DEF LoopInv
<1>1. /\ pc = "model" /\ UNCHANGED <<answer, deferred, yields, asked, requested, surfaced, emits, call>>
      /\ handle' \in [version : Nat, loaded : Nat] /\ version' \in Nat
      /\ \/ pc' = "model" /\ handle'.version = version'
         \/ pc' = "iterated" /\ (yields \/ deferred = {})
  <2>1. CASE ModelYields
    BY <2>1 DEF ModelYields, LoopTypeOK
  <2>2. CASE ContextCompacted
    BY <2>2 DEF ContextCompacted, AppendTranscriptEvent, LoopTypeOK, HandleIsCurrent
  <2>3. CASE ModelAnswersText
    <3>1. PICK event : event = Event("text", {})
      OBVIOUS
    <3>2. pc = "model" /\ AppendEvent(event, "iterated")
      BY <2>3, <3>1 DEF ModelAnswersText
    <3>3. QED
      BY <2>3, <3>2, AppendSucceeds DEF ModelAnswersText
  <2>4. QED
    BY <2>1, <2>2, <2>3
<1>2. Being("asks")' = Being("asks") /\ Started' = {} /\ Started = {}
  BY <1>1 DEF Being, Started, OneKindAtATime
<1>3. LoopTypeOK'
  BY <1>1 DEF LoopTypeOK
<1>4. surfaced = {} /\ Dangling' = requested /\ Being("asks") = asked \cup requested
      /\ (yields <=> (Being("asks") # {}))
  <2>1. surfaced = {} /\ Being("asks") = asked \cup requested
    BY <1>1, QuestionsOfModel
  <2>2. yields <=> (Being("asks") # {})
    BY <1>1, QuestionsOfModel, Zenon
  <2>3. Dangling' = requested
    BY <1>1, <2>1 DEF Dangling
  <2>4. QED
    BY <2>1, <2>2, <2>3
<1>5. OneKindAtATime' /\ HandleIsCurrent'
  BY <1>1, <1>2 DEF OneKindAtATime, HandleIsCurrent
<1>6. CASE pc' = "model"
  <2>1. pc' = "model" => (Being("asks")' = asked' \cup requested' /\ (yields' <=> (Being("asks")' # {})))
    BY <1>1, <1>2, <1>4
  <2>2. QuestionsAreOnTheWay'
    BY <1>1, <1>4, <1>6, <2>1 DEF QuestionsAreOnTheWay
  <2>3. QED
    BY <1>3, <1>5, <2>2
<1>7. CASE pc' = "iterated"
  <2>1. Being("asks")' = asked' \cup Dangling'
    BY <1>1, <1>2, <1>4
  <2>2. deferred' # {} => Being("asks")' # {}
    BY <1>1, <1>2, <1>4, <1>7
  <2>3. QuestionsAreOnTheWay'
    BY <1>1, <1>7, <2>1, <2>2 DEF QuestionsAreOnTheWay
  <2>4. QED
    BY <1>3, <1>5, <2>3
<1>8. QED
  BY <1>1, <1>6, <1>7

(* The model calls tools: ordinary ones, or delegations.                     *)
LEMMA ModelCallsTools ==
  ASSUME LoopInv, ModelCalls
  PROVE  LoopInv'
<1> USE DEF LoopInv
<1>1. PICK calls \in SUBSET Calls :
        /\ deferred # {} => calls = deferred
        /\ deferred' = calls \ Immediate(calls)
        /\ call' = Become(Immediate(calls), "called")
        /\ AppendEvent(Event("calls", Immediate(calls)), "tools")
  BY DEF ModelCalls
<1>2. /\ pc = "model" /\ ~yields /\ pc' = "tools" /\ handle'.version = version'
      /\ handle' \in [version : Nat, loaded : Nat] /\ version' \in Nat
      /\ UNCHANGED <<answer, yields, asked, requested, surfaced, emits>>
  <2>1. PICK event : event = Event("calls", Immediate(calls))
    OBVIOUS
  <2>2. pc = "model" /\ AppendEvent(event, "tools")
    BY <1>1, <2>1 DEF ModelCalls
  <2>3. QED
    BY <2>2, AppendSucceeds DEF ModelCalls
<1>3. /\ Immediate(calls) \subseteq Ordinary \/ Immediate(calls) \subseteq Delegations
      /\ deferred' \subseteq Delegations
  BY <1>1, Progress DEF Immediate, Calls
<1>4. Being("asks") = {} /\ Started = {} /\ asked = {} /\ requested = {} /\ surfaced = {}
  <2>1. yields <=> (Being("asks") # {})
    BY <1>2, QuestionsOfModel, Zenon
  <2>2. Being("asks") = {}
    BY <1>2, <2>1
  <2>3. Being("asks") = asked \cup requested /\ surfaced = {} /\ Started = {}
    BY <1>2, QuestionsOfModel DEF OneKindAtATime
  <2>4. QED
    BY <2>2, <2>3
<1>5. \A c \in Calls : call'[c] = IF c \in Immediate(calls) THEN "called" ELSE call[c]
  BY <1>1 DEF Become
<1>6. Being("asks")' = {} /\ Being("running")' = {} /\ Started' \subseteq Immediate(calls)
  <2>1. \A c \in Calls : call'[c] \notin {"asks", "running"}
                         /\ (call'[c] \in {"called", "running", "returned"} => c \in Immediate(calls))
    BY <1>4, <1>5, Progress
  <2>2. QED
    BY <2>1 DEF Being, Started
<1>7. LoopTypeOK'
  <2>1. call' \in [Calls -> {"new", "called", "running", "asks", "returned", "done"}]
    BY <1>1 DEF LoopTypeOK, Become
  <2>2. QED
    BY <1>2, <1>3, <2>1 DEF LoopTypeOK
<1>8. QED
  BY <1>2, <1>3, <1>4, <1>6, <1>7 DEF OneKindAtATime, QuestionsAreOnTheWay, HandleIsCurrent

(* A tool runs, or a delegation does: one call takes a step.                 *)
LEMMA ToolsRun ==
  ASSUME LoopInv, NEW c \in Calls, RunTool(c) \/ AcquireSlot(c) \/ ChildEvent(c) \/ ReleaseSlot(c)
  PROVE  LoopInv'
<1> USE DEF LoopInv
<1>1. /\ pc = "tools" /\ call[c] \in {"called", "running"}
      /\ UNCHANGED <<version, handle, pc, answer, deferred, yields, asked, requested, surfaced, emits>>
      /\ \/ UNCHANGED call
         \/ c \in Delegations /\ call' = Become({c}, "running")
         \/ call' = Become({c}, "returned")
         \/ c \in Ordinary /\ call' = Become({c}, "asks")
  BY DEF RunTool, AcquireSlot, ChildEvent, ReleaseSlot, AppendTranscriptEvent
<1>2. CASE UNCHANGED call
  BY <1>1, <1>2 DEF LoopTypeOK, OneKindAtATime, QuestionsAreOnTheWay, HandleIsCurrent, Being, Started
<1>3. ASSUME NEW p \in {"running", "returned", "asks"}, call' = Become({c}, p),
             p = "asks" => c \in Ordinary, p = "running" => c \in Delegations
      PROVE  LoopInv'
  <2>1. \A d \in Calls : call'[d] = IF d = c THEN p ELSE call[d]
    BY <1>3 DEF Become
  <2>2. /\ Being("asks")' \subseteq Being("asks") \cup (IF p = "asks" THEN {c} ELSE {})
        /\ Being("running")' \subseteq Being("running") \cup (IF p = "running" THEN {c} ELSE {})
        /\ Started' \subseteq Started /\ c \in Started
    BY <1>1, <2>1 DEF Being, Started
  <2>3. LoopTypeOK'
    <3>1. call' \in [Calls -> {"new", "called", "running", "asks", "returned", "done"}]
      BY <1>3 DEF LoopTypeOK, Become
    <3>2. QED
      BY <1>1, <3>1 DEF LoopTypeOK
  <2>4. OneKindAtATime'
    BY <1>1, <1>3, <2>2, Progress DEF OneKindAtATime
  <2>5. QED
    BY <1>1, <2>3, <2>4 DEF QuestionsAreOnTheWay, HandleIsCurrent
<1>4. QED
  BY <1>1, <1>2, <1>3

(* All tools of a step have returned: what asks is to be asked about.        *)
LEMMA ToolsHaveReturned ==
  ASSUME LoopInv, ToolsReturn
  PROVE  LoopInv'
<1> USE DEF LoopInv
<1>1. /\ pc = "tools" /\ pc' = "emitting" /\ Being("called") = {} /\ Being("running") = {}
      /\ UNCHANGED <<version, handle, answer, deferred, yields, asked, surfaced>>
      /\ call' = Become(Being("returned"), "done") /\ requested' = requested \cup Asking
  BY DEF ToolsReturn
<1>2. Asking = Being("asks") /\ requested' = Being("asks") /\ asked = {} /\ surfaced = {} /\ ~yields
  BY <1>1 DEF Asking, QuestionsAreOnTheWay
<1>3. Being("asks")' = Being("asks") /\ Started' = {}
  <2>1. \A c \in Calls : call'[c] = IF call[c] = "returned" THEN "done" ELSE call[c]
    BY <1>1 DEF Become, Being
  <2>2. QED
    BY <1>1, <2>1 DEF Being, Started
<1>4. emits' # <<>>
        /\ emits' \in Seq([kind : {"results"}, calls : SUBSET Calls] \cup {Event("confirm", Being("asks"))})
  <2> DEFINE results == Event("results", Being("returned") \cup Asking)
             question == Event("confirm", Asking)
  <2>1. results \in [kind : {"results"}, calls : SUBSET Calls]
    BY <1>2 DEF Event, Being
  <2>2. question = Event("confirm", Being("asks"))
    BY <1>2
  <2>3. emits' \in {<<results>>, <<question, results>>, <<results, question>>}
    BY DEF ToolsReturn
  <2>4. PICK E : E = [kind : {"results"}, calls : SUBSET Calls] \cup {Event("confirm", Being("asks"))}
    OBVIOUS
  <2>5. results \in E /\ question \in E
    BY <2>1, <2>2, <2>4
  <2> HIDE DEF results, question
  <2>6. emits' # <<>> /\ emits' \in Seq(E)
    <3>1. CASE emits' = <<results>>
      BY <2>5, <3>1
    <3>2. CASE emits' = <<question, results>>
      BY <2>5, <3>2
    <3>3. CASE emits' = <<results, question>>
      BY <2>5, <3>3
    <3>4. QED
      BY <2>3, <3>1, <3>2, <3>3
  <2>7. QED
    BY <2>4, <2>6
<1>5. LoopTypeOK'
  <2>1. call' \in [Calls -> {"new", "called", "running", "asks", "returned", "done"}]
    BY <1>1 DEF LoopTypeOK, Become
  <2>2. Being("asks") \subseteq Calls
    BY DEF Being
  <2>3. QED
    BY <1>1, <1>2, <1>4, <2>1, <2>2 DEF LoopTypeOK, Event
<1>6. QED
  BY <1>1, <1>2, <1>3, <1>4, <1>5 DEF OneKindAtATime, QuestionsAreOnTheWay, HandleIsCurrent

(* An event is stored, and the questions in it are put to the user.          *)
LEMMA Emitting ==
  ASSUME LoopInv, Emit
  PROVE  LoopInv'
<1> USE DEF LoopInv
<1> DEFINE E == [kind : {"results"}, calls : SUBSET Calls] \cup {Event("confirm", requested)}
<1>1. /\ pc = "emitting" /\ emits \in Seq(E) /\ emits # <<>> /\ emits' = Tail(emits)
      /\ Being("asks") = requested /\ asked = surfaced /\ surfaced \subseteq requested /\ ~yields
      /\ UNCHANGED <<answer, deferred, yields, requested, call>>
  BY DEF Emit, LoopTypeOK, QuestionsAreOnTheWay
<1>2. Head(emits) \in E /\ emits' \in Seq(E) /\ (Len(emits) > 1 => emits' # <<>>)
  <2>1. PICK S : S = E
    OBVIOUS
  <2>2. emits \in Seq(S) /\ emits # <<>>
    BY <1>1, <2>1
  <2>3. Head(emits) \in S /\ Tail(emits) \in Seq(S) /\ Len(Tail(emits)) = Len(emits) - 1
    BY <2>2
  <2>4. Len(emits) > 1 => Tail(emits) # <<>>
    BY <2>2, <2>3
  <2>5. QED
    BY <1>1, <2>1, <2>3, <2>4
<1>3. /\ pc' = (IF Len(emits) > 1 THEN "emitting" ELSE IF requested # {} THEN "iterated" ELSE "model")
      /\ handle'.version = version' /\ handle' \in [version : Nat, loaded : Nat] /\ version' \in Nat
  <2>1. PICK event : event = Head(emits)
    OBVIOUS
  <2>2. PICK next : next = IF Len(emits) > 1 THEN "emitting"
                           ELSE IF requested # {} THEN "iterated" ELSE "model"
    OBVIOUS
  <2>3. AppendEvent(event, next)
    BY <2>1, <2>2 DEF Emit
  <2>4. QED
    BY <1>1, <2>2, <2>3, AppendSucceeds
<1>4. asked' = surfaced' /\ surfaced' \subseteq requested
  <2>1. CASE Head(emits).kind = "confirm"
    <3>1. Head(emits).calls = requested
      BY <1>2, <2>1 DEF Event
    <3>2. QED
      BY <1>1, <2>1, <3>1 DEF Emit
  <2>2. CASE Head(emits).kind # "confirm"
    BY <1>1, <2>2 DEF Emit
  <2>3. QED
    BY <2>1, <2>2
<1>5. Being("asks")' = requested /\ Started' = {}
  BY <1>1 DEF Being, Started, OneKindAtATime
<1>6. LoopTypeOK'
  BY <1>1, <1>2, <1>3, <1>4 DEF LoopTypeOK, Event
<1>7. requested \subseteq asked' \cup Dangling' /\ asked' \cup Dangling' \subseteq requested
  BY <1>1, <1>4 DEF Dangling
<1>8. QED
  BY <1>1, <1>2, <1>3, <1>4, <1>5, <1>6, <1>7
     DEF OneKindAtATime, QuestionsAreOnTheWay, HandleIsCurrent

(* Between iterations: what is left is asked, and the user decides.          *)
LEMMA BetweenIterations ==
  ASSUME LoopInv, Iterated \/ Decide
  PROVE  LoopInv'
<1> USE DEF LoopInv
<1>1. Being("asks")' = Being("asks") /\ Started' = {}
  BY DEF Iterated, Decide, Being, Started, OneKindAtATime
<1>2. CASE Iterated
  <2>1. /\ pc = "iterated" /\ pc' = (IF asked' = {} THEN "completed" ELSE "waiting")
        /\ asked' = asked \cup Dangling /\ version' \in Nat /\ asked' \subseteq Calls
        /\ UNCHANGED <<handle, answer, deferred, yields, requested, surfaced, emits, call>>
    BY <1>2 DEF Iterated, LoopTypeOK, Dangling
  <2>2. LoopTypeOK'
    BY <2>1 DEF LoopTypeOK
  <2>3. QED
    BY <1>1, <2>1, <2>2 DEF OneKindAtATime, QuestionsAreOnTheWay, HandleIsCurrent
<1>3. CASE Decide
  <2>1. PICK c \in asked : answer' = {c} /\ asked' = asked \ {c} /\ yields' = (asked' # {})
    BY <1>3 DEF Decide, YieldsAfter
  <2>2. /\ pc = "waiting" /\ pc' = "run"
        /\ UNCHANGED <<version, handle, deferred, requested, surfaced, emits, call>>
    BY <1>3 DEF Decide
  <2>3. LoopTypeOK'
    <3>1. yields' \in BOOLEAN
      BY <2>1
    <3>2. answer' \subseteq Calls /\ asked' \subseteq Calls
      BY <2>1 DEF LoopTypeOK
    <3>3. QED
      BY <2>2, <3>1, <3>2 DEF LoopTypeOK
  <2>4. Being("asks")' = asked' \cup answer' /\ asked' \cap answer' = {} /\ (yields' <=> asked' # {})
    BY <1>1, <2>1, <2>2 DEF QuestionsAreOnTheWay
  <2>5. QED
    BY <1>1, <2>2, <2>3, <2>4 DEF OneKindAtATime, QuestionsAreOnTheWay, HandleIsCurrent
<1>4. QED
  BY <1>2, <1>3

(* A run that ends early leaves no call open.                                *)
LEMMA RunsEnd ==
  ASSUME LoopInv, RunEnds
  PROVE  LoopInv'
<1> USE DEF LoopInv
<1>1. /\ pc' = "idle" /\ call' = Become(Calls \ Being("new"), "done") /\ UNCHANGED <<version, handle>>
      /\ deferred' = {} /\ asked' = {} /\ yields' = FALSE /\ answer' = {} /\ requested' = {}
      /\ surfaced' = {} /\ emits' = <<>>
  BY DEF RunEnds
<1>2. \A c \in Calls : call'[c] \in {"new", "done"}
  BY <1>1 DEF Become, Being
<1>3. Being("asks")' = {} /\ Started' = {}
  BY <1>2 DEF Being, Started
<1>4. LoopTypeOK'
  <2>1. call' \in [Calls -> {"new", "called", "running", "asks", "returned", "done"}]
    BY <1>1 DEF LoopTypeOK, Become
  <2>2. QED
    BY <1>1, <2>1 DEF LoopTypeOK
<1>5. QED
  BY <1>1, <1>3, <1>4 DEF OneKindAtATime, QuestionsAreOnTheWay, HandleIsCurrent

(* The loop's invariant, by its steps.                                    *)
LEMMA LoopInvariant == LoopSpec => []LoopInv
<1>1. LoopInit => LoopInv
  <2> SUFFICES ASSUME LoopInit PROVE LoopInv
    OBVIOUS
  <2>1. Being("asks") = {} /\ Started = {}
    BY DEF LoopInit, Being, Started
  <2>2. LoopTypeOK
    BY DEF LoopInit, LoopTypeOK
  <2>3. QED
    BY <2>1, <2>2 DEF LoopInit, LoopInv, OneKindAtATime, QuestionsAreOnTheWay, HandleIsCurrent
<1>2. LoopInv /\ [LoopNext]_loopVars => LoopInv'
  <2> SUFFICES ASSUME LoopInv, [LoopNext]_loopVars PROVE LoopInv'
    OBVIOUS
  <2>1. CASE LoopNext
    BY <2>1, IterationsStart, Resuming, ModelSpeaks, ModelCallsTools, ToolsRun, ToolsHaveReturned,
       Emitting, BetweenIterations, RunsEnd DEF LoopNext
  <2>2. CASE UNCHANGED loopVars
    <3>1. UNCHANGED <<Started, Dangling>> /\ Being("asks")' = Being("asks")
      BY <2>2 DEF loopVars, Started, Dangling, Being
    <3>2. UNCHANGED Being("running")
      BY <2>2 DEF loopVars, Being
    <3>3. LoopTypeOK' /\ OneKindAtATime' /\ HandleIsCurrent'
      BY <2>2, <3>1, <3>2 DEF loopVars, LoopInv, LoopTypeOK, OneKindAtATime, HandleIsCurrent, Event
    <3>4. QuestionsAreOnTheWay'
      BY <2>2, <3>1 DEF loopVars, LoopInv, QuestionsAreOnTheWay
    <3>5. QED
      BY <3>3, <3>4 DEF LoopInv
  <2>3. QED
    BY <2>1, <2>2
<1>3. QED
  BY <1>1, <1>2, PTL DEF LoopSpec

(* A model step is completed as it was asked, whatever approvals it takes,   *)
(* for any number of calls, delegations and questions (engine.go,            *)
(* tool_batch.go and approval_resume.go).                                    *)
THEOREM BatchesFinish == LoopSpec => []BatchesAreFinished
<1>1. LoopInv => BatchesAreFinished
  <2> SUFFICES ASSUME LoopInv PROVE BatchesAreFinished
    OBVIOUS
  <2> USE DEF LoopInv
  <2>1. NothingLeftBehind
    <3>1. pc = "completed" => Being("asks") = {} /\ Started = {}
      BY DEF QuestionsAreOnTheWay, OneKindAtATime
    <3>2. QED
      BY <3>1 DEF NothingLeftBehind, QuestionsAreOnTheWay, LoopTypeOK, Being, Started
  <2>2. DelegationsWaitForSiblings
    <3>1. SUFFICES ASSUME NEW c \in Being("running"), NEW d \in Being("asks") PROVE FALSE
      BY DEF DelegationsWaitForSiblings
    <3>2. c \in Started
      BY DEF Started
    <3>3. pc = "tools"
      BY <3>2 DEF OneKindAtATime
    <3>4. Being("running") \subseteq Delegations
      BY <3>3 DEF OneKindAtATime
    <3>5. QED
      BY <3>2, <3>3, Progress DEF OneKindAtATime
  <2>3. QED
    BY <2>1, <2>2 DEF BatchesAreFinished
<1>2. QED
  BY <1>1, LoopInvariant, PTL

-----------------------------------------------------------------------------
(* What can be sent of a history of n contents: every position once, and     *)
(* every result right behind its call.                                       *)
ContentKinds == {"user", "model", "call", "result"}
ContentSet == [kind : ContentKinds, call : Nat, size : Nat, of : SUBSET Nat]

Of(contents, n) == UNION {contents[i].of : i \in 1 .. n}

Sendable(contents, n) ==
  /\ contents \in Seq(ContentSet) /\ contents # <<>>
  /\ Of(contents, Len(contents)) = 1 .. n
  /\ \A i, j \in 1 .. Len(contents) : i # j => contents[i].of \cap contents[j].of = {}
  /\ \A j \in 1 .. Len(contents) : contents[j].kind = "result" =>
       j > 1 /\ contents[j - 1].kind = "call" /\ contents[j - 1].call = contents[j].call
  /\ \A i \in 1 .. Len(contents) : contents[i].kind = "call" =>
       i < Len(contents) /\ contents[i + 1].kind = "result"

(* In the history too, except that its last call may still run.              *)
HistoryInv ==
  /\ history \in Seq([kind : ContentKinds, call : Nat, size : Nat])
  /\ \A j \in 1 .. Len(history) : history[j].kind = "result" =>
       j > 1 /\ history[j - 1].kind = "call" /\ history[j].call = j - 1
  /\ \A i \in 1 .. Len(history) : history[i].kind = "call" =>
       history[i].call = i /\ (i < Len(history) => history[i + 1].kind = "result")
  /\ turn \in {"idle", "ready", "sent", "tools"}
  /\ turn = "tools" => history # <<>> /\ history[Len(history)].kind = "call"
  /\ turn \in {"ready", "sent"} => history # <<>> /\ history[Len(history)].kind # "call"

(* The summary stands for what it replaced, whose last content was no call.  *)
CheckpointInv ==
  /\ checkpoint.count \in Nat /\ checkpoint.prefix \in Seq(ContentSet)
  /\ Len(checkpoint.prefix) = checkpoint.count
  /\ checkpoint.count > 0 =>
       /\ checkpoint.summary \in ContentSet /\ checkpoint.summary.kind = "user"
       /\ checkpoint.summary.of = Of(checkpoint.prefix, checkpoint.count)
       /\ checkpoint.prefix[checkpoint.count].kind # "call"

CompactionInv ==
  /\ HistoryInv /\ CheckpointInv
  /\ turn = "sent" => Sendable(request, Len(history))

-----------------------------------------------------------------------------
(* Every nonempty set of numbers has a least one.                            *)
LEMMA LeastNumber ==
  ASSUME NEW S, S \subseteq Nat, S # {}
  PROVE  \E n \in S : \A m \in S : n <= m
<1> DEFINE Less == {pair \in Nat \X Nat : pair[1] < pair[2]}
<1>1. IsWellFoundedOn(Less, Nat)
  BY NatLessThanWellFounded DEF OpToRel
<1>2. PICK n \in S : \A m \in S : ~ (<<m, n>> \in Less)
  <2> HIDE DEF Less
  <2>1. QED
    BY <1>1, WFMin
<1>3. ASSUME NEW m \in S PROVE n <= m
  <2>1. <<m, n>> \in Nat \X Nat /\ <<m, n>>[1] = m /\ <<m, n>>[2] = n
    OBVIOUS
  <2>2. ~ (m < n)
    BY <1>2, <2>1
  <2>3. QED
    BY <2>2
<1>4. QED
  BY <1>3

(* No contents have no tokens.                                              *)
LEMMA EmptyTokens == Tokens(<<>>) = 0
<1> DEFINE iter[s \in SUBSET {}] == IF s = {} THEN 0 ELSE LET x == Max(s) IN iter[s \ {x}] + <<>>[x].size
<1>1. Tokens(<<>>) = iter[{}]
  BY DEF Tokens, FoldLeft, MapThenFoldSet
<1>2. QED
  BY <1>1

(* The budget of what is not summarized is a number.                         *)
LEMMA BudgetIsNumber == SuffixBudget \in Nat
<1>1. \A x, y \in Int : Larger(x, y) \in {x, y} /\ Smaller(x, y) \in {x, y}
                        /\ Larger(x, y) >= y
  BY DEF Larger, Smaller
<1>2. InputBudget \in Nat
  <2>1. Window - Reserve \in Int
    BY CompactionAssumption
  <2>2. QED
    BY <1>1, <2>1 DEF InputBudget
<1>3. Percentage(InputBudget, 30) \in Int
  BY <1>2 DEF Percentage
<1>4. SummaryTokens \in Int
  <2>1. Window \in Nat /\ Window \div 100 \in Int /\ Window \div 4 \in Int
    BY CompactionAssumption
  <2>2. Larger(Window \div 100, 512) \in Int /\ Larger(Window \div 4, 1) \in Int
    BY <2>1 DEF Larger
  <2>3. Smaller(Larger(Window \div 100, 512), 8192) \in Int
    BY <2>2 DEF Smaller
  <2>4. QED
    BY <2>2, <2>3 DEF SummaryTokens, Smaller
<1>5. Percentage(InputBudget, 30) - Fixed - SummaryTokens \in Int
  BY <1>3, <1>4, CompactionAssumption
<1>6. QED
  BY <1>1, <1>5 DEF SuffixBudget

(* The contents are cut behind the first, and not in front of a result.      *)
LEMMA Cutting ==
  ASSUME NEW contents \in Seq(ContentSet), contents # <<>>, NEW found \in BOOLEAN
  PROVE  /\ CompactionCut(contents, found) \in 1 .. Len(contents)
         /\ CompactionCut(contents, found) < Len(contents) =>
              contents[CompactionCut(contents, found) + 1].kind # "result"
<1> DEFINE least(S) == CHOOSE n \in S : \A m \in S : n <= m
           fits == {n \in 0 .. Len(contents) : Tokens(From(contents, n + 1)) <= SuffixBudget}
           start == Larger(least(fits), IF found THEN 2 ELSE 1)
           safe == {Larger(start, Len(contents))} \cup
                     {n \in start .. Len(contents) : SafeBoundary(contents, n)}
<1>1. CompactionCut(contents, found) = Smaller(Len(contents), least(safe))
  BY DEF CompactionCut
<1>2. Len(contents) \in Nat /\ Len(contents) > 0
  OBVIOUS
<1>3. Len(contents) \in fits /\ fits \subseteq Nat
  <2>1. From(contents, Len(contents) + 1) = <<>>
    BY <1>2 DEF From
  <2>2. QED
    BY <1>2, <2>1, EmptyTokens, BudgetIsNumber
<1>4. least(fits) \in Nat
  <2> HIDE DEF fits
  <2>1. \E n \in fits : \A m \in fits : n <= m
    BY <1>3, LeastNumber
  <2>2. QED
    BY <1>3, <2>1
<1>5. start \in Nat /\ start >= 1
  <2> HIDE DEF fits, least
  <2>1. QED
    BY <1>4 DEF Larger
<1>6. safe \subseteq Nat /\ safe # {} /\ \A n \in safe : n >= start
  <2> HIDE DEF start
  <2>1. QED
    BY <1>2, <1>5 DEF Larger
<1>7. least(safe) \in safe
  <2> HIDE DEF safe
  <2>1. \E n \in safe : \A m \in safe : n <= m
    BY <1>6, LeastNumber
  <2>2. QED
    BY <2>1
<1>8. PICK n \in safe : n = least(safe)
  BY <1>7
<1>9. n \in Nat /\ n >= 1
  <2> HIDE DEF safe, start
  <2>1. QED
    BY <1>5, <1>6
<1>10. n < Len(contents) => SafeBoundary(contents, n)
  <2> HIDE DEF start
  <2>1. n \in safe
    OBVIOUS
  <2>2. QED
    BY <1>2, <1>5, <2>1 DEF Larger
<1>11. n < Len(contents) => contents[n + 1].kind # "result"
  <2> HIDE DEF safe
  <2>1. QED
    BY <1>2, <1>9, <1>10 DEF SafeBoundary
<1>12. QED
  <2> HIDE DEF safe, least
  <2>1. QED
    BY <1>1, <1>2, <1>8, <1>9, <1>11 DEF Smaller

(* A sequence with an element in front.                                      *)
LEMMA InFront ==
  ASSUME NEW S, NEW x \in S, NEW rest \in Seq(S), NEW all, all = <<x>> \o rest
  PROVE  /\ all \in Seq(S) /\ Len(all) = Len(rest) + 1 /\ all[1] = x
         /\ \A i \in 2 .. Len(all) : all[i] = rest[i - 1]
<1>1. PICK one \in Seq(S) : one = <<x>> /\ Len(one) = 1 /\ one[1] = x
  <2>1. <<x>> \in Seq(S) /\ Len(<<x>>) = 1 /\ <<x>>[1] = x
    OBVIOUS
  <2>2. QED
    BY <2>1, Zenon
<1>2. all = one \o rest /\ Len(rest) \in Nat
  BY <1>1
<1>3. /\ one \o rest \in Seq(S) /\ Len(one \o rest) = Len(one) + Len(rest)
      /\ \A i \in 1 .. Len(one) + Len(rest) :
           (one \o rest)[i] = IF i <= Len(one) THEN one[i] ELSE rest[i - Len(one)]
  BY ConcatProperties
<1>4. QED
  BY <1>1, <1>2, <1>3

(* A summary of n contents takes their place, or joins the first that is     *)
(* left.                                                                     *)
Shortened(working, contents, n, condensed, inserted) ==
  /\ working \in Seq(ContentSet) /\ Len(working) = Len(contents) - n + inserted
  /\ inserted = 0 => n < Len(contents) /\ contents[n + 1].kind = "user"
  /\ working[1].kind = "user"
  /\ working[1].of = IF inserted = 1 THEN condensed.of ELSE condensed.of \cup contents[n + 1].of
  /\ \A i \in 2 .. Len(working) : working[i] = contents[n + i - inserted]

(* Where the contents are that a summary leaves.                             *)
LEMMA WithSummary ==
  ASSUME NEW contents \in Seq(ContentSet), NEW n \in 1 .. Len(contents),
         NEW condensed \in ContentSet, condensed.kind = "user",
         NEW working, working = ContentsWithSummary(condensed, From(contents, n + 1))
  PROVE  \E inserted \in {0, 1} : Shortened(working, contents, n, condensed, inserted)
<1> DEFINE suffix == From(contents, n + 1)
<1>1. /\ suffix \in Seq(ContentSet) /\ Len(suffix) = Len(contents) - n
      /\ \A i \in 1 .. Len(suffix) : suffix[i] = contents[n + i]
  BY DEF From
<1>2. CASE suffix # <<>> /\ suffix[1].kind = "user"
  <2> DEFINE first == [suffix[1] EXCEPT !.size = @ + condensed.size, !.of = @ \cup condensed.of]
  <2>1. suffix[1] \in ContentSet /\ suffix[1] = contents[n + 1] /\ Len(suffix) > 0
    <3> HIDE DEF suffix
    <3>1. suffix \in Seq(ContentSet) /\ suffix # <<>>
      BY <1>1, <1>2
    <3>2. Len(suffix) > 0 /\ 1 \in 1 .. Len(suffix)
      BY <3>1
    <3>3. QED
      BY <1>1, <3>1, <3>2, ElementOfSeq
  <2>2. first \in ContentSet /\ first.kind = "user" /\ first.of = contents[n + 1].of \cup condensed.of
    <3>1. PICK c \in ContentSet : c = suffix[1]
      BY <2>1
    <3>2. c.kind = "user" /\ c = contents[n + 1]
      BY <1>2, <2>1, <3>1
    <3>3. first = [c EXCEPT !.size = @ + condensed.size, !.of = @ \cup condensed.of]
      BY <3>1
    <3> HIDE DEF first, suffix
    <3>4. c.size + condensed.size \in Nat /\ c.of \cup condensed.of \subseteq Nat
      BY DEF ContentSet
    <3>5. QED
      BY <3>2, <3>3, <3>4 DEF ContentSet
  <2>3. working = <<first>> \o Tail(suffix)
    BY <1>2 DEF ContentsWithSummary
  <2> HIDE DEF suffix, first
  <2>4. /\ Tail(suffix) \in Seq(ContentSet) /\ Len(Tail(suffix)) = Len(suffix) - 1
        /\ \A i \in 1 .. Len(suffix) - 1 : Tail(suffix)[i] = suffix[i + 1]
    BY <1>1, <2>1
  <2>5. /\ working \in Seq(ContentSet) /\ Len(working) = Len(suffix) /\ working[1] = first
        /\ \A i \in 2 .. Len(working) : working[i] = Tail(suffix)[i - 1]
    <3>1. PICK rest \in Seq(ContentSet) : rest = Tail(suffix) /\ Len(rest) = Len(suffix) - 1
      BY <2>4
    <3>2. /\ working \in Seq(ContentSet) /\ Len(working) = Len(rest) + 1 /\ working[1] = first
          /\ \A i \in 2 .. Len(working) : working[i] = rest[i - 1]
      BY <2>2, <2>3, <3>1, InFront
    <3>3. Len(working) = Len(suffix)
      BY <3>1, <3>2, LenProperties
    <3>4. \A i \in 2 .. Len(working) : working[i] = Tail(suffix)[i - 1]
      BY <3>1, <3>2, Zenon
    <3>5. QED
      BY <3>2, <3>3, <3>4
  <2>6. \A i \in 2 .. Len(working) : working[i] = contents[n + i]
    BY <1>1, <2>4, <2>5
  <2>7. Shortened(working, contents, n, condensed, 0)
    <3>1. Len(working) = Len(contents) - n /\ n < Len(contents)
      <4>1. PICK length \in Nat, left \in Nat : length = Len(contents) /\ left = Len(suffix)
        BY <1>1, LenProperties
      <4>2. left = length - n /\ left > 0
        BY <1>1, <2>1, <4>1
      <4>3. QED
        BY <2>5, <4>1, <4>2
    <3>2. contents[n + 1].kind = "user"
      BY <1>2, <2>1
    <3>3. working[1].kind = "user" /\ working[1].of = condensed.of \cup contents[n + 1].of
      BY <2>2, <2>5
    <3>4. QED
      BY <2>5, <2>6, <3>1, <3>2, <3>3 DEF Shortened
  <2>8. QED
    BY <2>7
<1>3. CASE ~(suffix # <<>> /\ suffix[1].kind = "user")
  <2>1. working = <<condensed>> \o suffix
    BY <1>3 DEF ContentsWithSummary
  <2> HIDE DEF suffix
  <2>2. /\ working \in Seq(ContentSet) /\ Len(working) = Len(suffix) + 1 /\ working[1] = condensed
        /\ \A i \in 2 .. Len(working) : working[i] = suffix[i - 1]
    <3>1. PICK rest \in Seq(ContentSet) : rest = suffix
      BY <1>1
    <3>2. working = <<condensed>> \o rest
      BY <2>1, <3>1
    <3>3. /\ working \in Seq(ContentSet) /\ Len(working) = Len(rest) + 1 /\ working[1] = condensed
          /\ \A i \in 2 .. Len(working) : working[i] = rest[i - 1]
      <4>1. condensed \in ContentSet
        OBVIOUS
      <4>2. QED
        BY ONLY <3>2, <4>1, InFront
    <3>4. QED
      BY <3>1, <3>3
  <2>3. \A i \in 2 .. Len(working) : working[i] = contents[n + i - 1]
    BY <1>1, <2>2
  <2>4. Shortened(working, contents, n, condensed, 1)
    BY <1>1, <2>2, <2>3 DEF Shortened
  <2>5. QED
    BY <2>4
<1>4. QED
  BY <1>2, <1>3

(* The contents behind a summary, and what is in front of a cut.             *)
Renumbered(working, contents, n, inserted) ==
  /\ Len(working) = Len(contents) - n + inserted
  /\ \A i \in 2 .. Len(working) : working[i] = contents[n + i - inserted]
  /\ \A cut \in 1 .. Len(working) : Of(working, cut) = Of(contents, n + cut - inserted)

(* Contents whose beginning is replaced by its summary can still be sent.    *)
LEMMA SummariesStandForContents ==
  ASSUME NEW size \in Nat, NEW contents, Sendable(contents, size),
         NEW n \in 1 .. Len(contents), contents[n].kind # "call",
         NEW condensed \in ContentSet, condensed.kind = "user", condensed.of = Of(contents, n),
         NEW working, working = ContentsWithSummary(condensed, From(contents, n + 1))
  PROVE  /\ Sendable(working, size)
         /\ \E inserted \in {0, 1} : Renumbered(working, contents, n, inserted)
<1>1. contents \in Seq(ContentSet) /\ Len(contents) \in Nat
  BY DEF Sendable
<1>2. PICK inserted \in {0, 1} :
        /\ working \in Seq(ContentSet) /\ Len(working) = Len(contents) - n + inserted
        /\ inserted = 0 => n < Len(contents) /\ contents[n + 1].kind = "user"
        /\ working[1].kind = "user"
        /\ working[1].of = IF inserted = 1 THEN condensed.of ELSE condensed.of \cup contents[n + 1].of
        /\ \A i \in 2 .. Len(working) : working[i] = contents[n + i - inserted]
  <2>1. PICK inserted \in {0, 1} : Shortened(working, contents, n, condensed, inserted)
    BY <1>1, WithSummary
  <2>2. QED
    BY <2>1 DEF Shortened
<1>3. Len(working) \in Nat /\ Len(working) >= 1
  BY <1>1, <1>2
<1>4. working[1].of = Of(contents, n + 1 - inserted)
  <2>1. CASE inserted = 1
    BY <1>2, <2>1
  <2>2. CASE inserted = 0
    <3>1. 1 .. n + 1 = (1 .. n) \cup {n + 1}
      OBVIOUS
    <3>2. Of(contents, n + 1) = Of(contents, n) \cup contents[n + 1].of
      BY <3>1 DEF Of
    <3>3. working[1].of = condensed.of \cup contents[n + 1].of
      BY <1>2, <2>2
    <3>4. n + 1 - inserted = n + 1
      BY <2>2
    <3>5. QED
      BY <3>2, <3>3, <3>4
  <2>3. QED
    BY <2>1, <2>2
<1>5. ASSUME NEW cut \in 1 .. Len(working)
      PROVE  Of(working, cut) = Of(contents, n + cut - inserted)
  <2>1. ASSUME NEW p \in Of(working, cut) PROVE p \in Of(contents, n + cut - inserted)
    <3>1. PICK i \in 1 .. cut : p \in working[i].of
      BY DEF Of
    <3>2. CASE i = 1
      <4>1. PICK j \in 1 .. n + 1 - inserted : p \in contents[j].of
        BY <1>4, <3>1, <3>2 DEF Of
      <4>2. j \in 1 .. n + cut - inserted
        BY <1>3
      <4>3. QED
        BY <4>1, <4>2 DEF Of
    <3>3. CASE i # 1
      <4>1. i \in 2 .. Len(working) /\ n + i - inserted \in 1 .. n + cut - inserted
        BY <1>3, <3>3
      <4>2. p \in contents[n + i - inserted].of
        BY <1>2, <3>1, <4>1
      <4>3. QED
        BY <4>1, <4>2 DEF Of
    <3>4. QED
      BY <3>2, <3>3
  <2>2. ASSUME NEW p \in Of(contents, n + cut - inserted) PROVE p \in Of(working, cut)
    <3>1. PICK j \in 1 .. n + cut - inserted : p \in contents[j].of
      BY DEF Of
    <3>2. CASE j <= n + 1 - inserted
      <4>1. j \in 1 .. n + 1 - inserted
        BY <3>2
      <4>2. p \in working[1].of
        BY <1>4, <3>1, <4>1 DEF Of
      <4>3. QED
        BY <1>3, <4>2 DEF Of
    <3>3. CASE j > n + 1 - inserted
      <4>1. PICK i \in 2 .. cut : n + i - inserted = j
        <5>1. j - n + inserted \in 2 .. cut
          BY <1>3, <3>3
        <5>2. QED
          BY <5>1
      <4>2. p \in working[i].of /\ i \in 1 .. cut
        <5>1. i \in 2 .. Len(working) /\ i \in 1 .. cut
          BY <1>3, <4>1
        <5>2. working[i] = contents[j]
          BY <1>2, <4>1, <5>1
        <5>3. QED
          BY <3>1, <5>1, <5>2
      <4>3. QED
        BY <4>2 DEF Of
    <3>4. QED
      BY <3>2, <3>3
  <2>3. QED
    BY <2>1, <2>2
<1>6. Of(working, Len(working)) = 1 .. size
  <2>1. Len(working) \in 1 .. Len(working) /\ n + Len(working) - inserted = Len(contents)
    BY <1>1, <1>2, <1>3
  <2>2. Of(working, Len(working)) = Of(contents, Len(contents))
    BY <1>5, <2>1
  <2>3. QED
    BY <2>2 DEF Sendable
<1>7. ASSUME NEW i \in 1 .. Len(working), NEW j \in 1 .. Len(working), i < j
      PROVE  working[i].of \cap working[j].of = {}
  <2>1. j \in 2 .. Len(working) /\ n + j - inserted \in 1 .. Len(contents)
    BY <1>1, <1>2, <1>3, <1>7
  <2>2. working[j] = contents[n + j - inserted]
    BY <1>2, <2>1
  <2>3. CASE i = 1
    <3>1. \A k \in 1 .. n + 1 - inserted : k \in 1 .. Len(contents) /\ k # n + j - inserted
      <4>1. n + 1 - inserted <= Len(contents) /\ n + 1 - inserted < n + j - inserted
        BY <1>1, <1>2, <2>1
      <4>2. QED
        BY <1>1, <4>1
    <3>2. \A k \in 1 .. n + 1 - inserted : contents[k].of \cap working[j].of = {}
      BY <2>1, <2>2, <3>1 DEF Sendable
    <3>3. ASSUME NEW x \in working[i].of PROVE x \notin working[j].of
      <4>1. x \in Of(contents, n + 1 - inserted)
        BY <1>4, <2>3
      <4>2. PICK k \in 1 .. n + 1 - inserted : x \in contents[k].of
        BY <4>1 DEF Of
      <4>3. QED
        BY <3>2, <4>2
    <3>4. QED
      BY <3>3
  <2>4. CASE i # 1
    <3>1. i \in 2 .. Len(working) /\ n + i - inserted \in 1 .. Len(contents)
          /\ n + i - inserted # n + j - inserted
      <4>1. i \in 2 .. Len(working)
        BY <2>4
      <4>2. Len(working) = Len(contents) - n + inserted
        BY <1>2
      <4>3. QED
        BY <1>1, <1>7, <4>1, <4>2
    <3>2. working[i] = contents[n + i - inserted]
      BY <1>2, <3>1
    <3>3. QED
      BY <2>1, <2>2, <3>1, <3>2 DEF Sendable
  <2>5. QED
    BY <2>3, <2>4
<1>8. ASSUME NEW j \in 1 .. Len(working), working[j].kind = "result"
      PROVE  j > 1 /\ working[j - 1].kind = "call" /\ working[j - 1].call = working[j].call
  <2>0. j # 1
    BY <1>2, <1>8
  <2>1. j \in 2 .. Len(working) /\ n + j - inserted \in 1 .. Len(contents)
    BY <1>1, <1>2, <1>3, <2>0
  <2>2. contents[n + j - inserted].kind = "result" /\ working[j] = contents[n + j - inserted]
    BY <1>2, <1>8, <2>1
  <2>3. PICK k \in 1 .. Len(contents) : k = n + j - inserted
    BY <2>1
  <2>4. /\ k > 1 /\ contents[k - 1].kind = "call" /\ contents[k - 1].call = contents[k].call
    BY <2>2, <2>3 DEF Sendable
  <2>5. j # 2
    <3>1. SUFFICES ASSUME j = 2 PROVE FALSE
      OBVIOUS
    <3>2. inserted = 1
      <4>1. inserted = 0 => k - 1 = n + 1
        BY <2>3, <3>1
      <4>2. inserted # 0
        BY <1>2, <2>4, <4>1
      <4>3. QED
        BY <4>2
    <3>3. QED
      BY <2>3, <2>4, <3>1, <3>2
  <2>6. j - 1 \in 2 .. Len(working) /\ n + (j - 1) - inserted = k - 1
    BY <1>3, <2>1, <2>3, <2>5, SMTT(30)
  <2>7. working[j - 1] = contents[k - 1]
    BY <1>2, <2>6
  <2>8. QED
    BY <2>1, <2>2, <2>3, <2>4, <2>7, SMTT(30)
<1>9. ASSUME NEW i \in 1 .. Len(working), working[i].kind = "call"
      PROVE  i < Len(working) /\ working[i + 1].kind = "result"
  <2>1. i \in 2 .. Len(working) /\ n + i - inserted \in 1 .. Len(contents)
    BY <1>1, <1>2, <1>3, <1>9
  <2>2. PICK k \in 1 .. Len(contents) : k = n + i - inserted
    BY <2>1
  <2>3. k < Len(contents) /\ contents[k + 1].kind = "result"
    BY <1>2, <1>9, <2>1, <2>2 DEF Sendable
  <2>4. i + 1 \in 2 .. Len(working) /\ n + (i + 1) - inserted = k + 1
    <3>1. PICK length \in Nat : length = Len(contents)
      BY <1>1
    <3>2. Len(working) = length - n + inserted /\ k < length
      BY <1>2, <2>3, <3>1
    <3>3. i + 1 <= Len(working)
      BY <2>2, <3>2
    <3>4. i \in Nat /\ i >= 2 /\ k = n + i - inserted
      BY <2>1, <2>2
    <3>5. PICK last \in Nat : last = Len(working)
      BY <1>3
    <3>6. i + 1 \in 2 .. last
      BY <3>3, <3>4, <3>5
    <3>7. n + (i + 1) - inserted = k + 1
      BY ONLY <3>4, n \in Nat, inserted \in {0, 1}
    <3>8. QED
      BY <3>5, <3>6, <3>7
  <2>5. working[i + 1] = contents[k + 1]
    BY <1>2, <2>4
  <2>6. QED
    BY <2>3, <2>4, <2>5
<1>10. Sendable(working, size)
  <2>1. \A i, j \in 1 .. Len(working) : i # j => working[i].of \cap working[j].of = {}
    BY <1>3, <1>7
  <2>2. working # <<>>
    BY <1>2, <1>3
  <2>3. QED
    BY <1>2, <1>6, <1>8, <1>9, <2>1, <2>2 DEF Sendable
<1>11. Renumbered(working, contents, n, inserted)
  BY <1>2, <1>5 DEF Renumbered
<1>12. QED
  BY <1>10, <1>11

-----------------------------------------------------------------------------
(* What is built from the history can be sent when it is the model's turn.   *)
LEMMA OriginalIsSendable ==
  ASSUME HistoryInv, turn \in {"ready", "sent"}
  PROVE  Sendable(Original, Len(history))
<1>1. /\ Len(history) \in Nat /\ history # <<>> /\ history[Len(history)].kind # "call"
      /\ \A i \in 1 .. Len(history) : history[i] \in [kind : ContentKinds, call : Nat, size : Nat]
  <2>1. history \in Seq([kind : ContentKinds, call : Nat, size : Nat])
    BY DEF HistoryInv
  <2>2. history # <<>> /\ history[Len(history)].kind # "call"
    BY DEF HistoryInv
  <2>3. \A i \in 1 .. Len(history) : history[i] \in [kind : ContentKinds, call : Nat, size : Nat]
    BY <2>1, ElementOfSeq
  <2>4. Len(history) \in Nat
    BY <2>1, LenProperties
  <2>5. QED
    BY <2>2, <2>3, <2>4
<1>2. PICK contents : contents = Original
  OBVIOUS
<1>3. \A i \in 1 .. Len(history) :
        /\ contents[i].kind = history[i].kind /\ contents[i].call = history[i].call
        /\ contents[i].of = {i}
  BY <1>2 DEF Original
<1>4. contents \in Seq(ContentSet) /\ Len(contents) = Len(history)
  <2>1. \A i \in 1 .. Len(history) :
          [kind |-> history[i].kind, call |-> history[i].call,
           size |-> history[i].size, of |-> {i}] \in ContentSet
    BY <1>1 DEF ContentSet
  <2>2. contents \in [1 .. Len(history) -> ContentSet]
    BY <1>2, <2>1 DEF Original
  <2>3. QED
    BY <1>1, <2>2
<1>5. contents # <<>>
  BY <1>1, <1>4
<1>6. Of(contents, Len(contents)) = 1 .. Len(history)
  <2>1. PICK n \in Nat : n = Len(history) /\ n = Len(contents)
    BY <1>1, <1>4
  <2>2. \A i \in 1 .. n : contents[i].of = {i}
    BY <1>3, <2>1
  <2>3. Of(contents, n) = 1 .. n
    BY <2>2 DEF Of
  <2>4. QED
    BY <2>1, <2>3
<1>7. \A i, j \in 1 .. Len(contents) : i # j => contents[i].of \cap contents[j].of = {}
  BY <1>3, <1>4
<1>8. ASSUME NEW j \in 1 .. Len(contents), contents[j].kind = "result"
      PROVE  j > 1 /\ contents[j - 1].kind = "call" /\ contents[j - 1].call = contents[j].call
  <2>1. j \in 1 .. Len(history) /\ history[j].kind = "result"
    BY <1>3, <1>4, <1>8
  <2>2. j > 1 /\ history[j - 1].kind = "call" /\ history[j].call = j - 1
    BY <2>1 DEF HistoryInv
  <2>3. j - 1 \in 1 .. Len(history)
    BY <1>1, <2>1, <2>2
  <2>4. history[j - 1].call = j - 1
    BY <2>2, <2>3 DEF HistoryInv
  <2>5. QED
    BY <1>3, <2>1, <2>2, <2>3, <2>4
<1>9. ASSUME NEW i \in 1 .. Len(contents), contents[i].kind = "call"
      PROVE  i < Len(contents) /\ contents[i + 1].kind = "result"
  <2>1. i \in 1 .. Len(history) /\ history[i].kind = "call"
    BY <1>3, <1>4, <1>9
  <2>2. i < Len(history)
    BY <1>1, <2>1
  <2>3. history[i + 1].kind = "result" /\ i + 1 \in 1 .. Len(history)
    BY <1>1, <2>1, <2>2 DEF HistoryInv
  <2>4. QED
    BY <1>3, <1>4, <2>2, <2>3
<1>10. QED
  BY <1>2, <1>4, <1>5, <1>6, <1>7, <1>8, <1>9 DEF Sendable

(* A checkpoint that applies makes of contents what can be sent instead.     *)
LEMMA CheckpointStandsForContents ==
  ASSUME CheckpointInv, NEW size \in Nat, NEW contents, Sendable(contents, size), Applies(contents)
  PROVE  LET n == checkpoint.count
             working == Checkpointed(contents)
         IN /\ n \in 1 .. Len(contents)
            /\ Sendable(working, size)
            /\ \E inserted \in {0, 1} : Renumbered(working, contents, n, inserted)
<1>1. PICK n : n = checkpoint.count
  OBVIOUS
<1>2. n \in 1 .. Len(contents) /\ SubSeq(contents, 1, n) = checkpoint.prefix
  BY <1>1 DEF Applies
<1>3. contents \in Seq(ContentSet)
  BY DEF Sendable
<1>4. \A i \in 1 .. n : checkpoint.prefix[i] = contents[i]
  BY <1>2, <1>3
<1>5. /\ checkpoint.summary \in ContentSet /\ checkpoint.summary.kind = "user"
      /\ checkpoint.summary.of = Of(checkpoint.prefix, n)
      /\ checkpoint.prefix[n].kind # "call"
  BY <1>1, <1>2 DEF CheckpointInv
<1>6. checkpoint.summary.of = Of(contents, n)
  BY <1>4, <1>5 DEF Of
<1>7. contents[n].kind # "call"
  BY <1>2, <1>4, <1>5
<1>8. Checkpointed(contents) = ContentsWithSummary(checkpoint.summary, From(contents, n + 1))
  BY <1>1 DEF Checkpointed
<1>9. PICK condensed \in ContentSet :
        /\ condensed = checkpoint.summary /\ condensed.kind = "user" /\ condensed.of = Of(contents, n)
  BY <1>5, <1>6
<1>10. PICK working : working = Checkpointed(contents)
  OBVIOUS
<1>11. working = ContentsWithSummary(condensed, From(contents, n + 1))
  BY <1>8, <1>9, <1>10
<1>12. /\ Sendable(working, size)
       /\ \E inserted \in {0, 1} : Renumbered(working, contents, n, inserted)
  BY <1>2, <1>7, <1>9, <1>11, SummariesStandForContents
<1>13. QED
  BY <1>1, <1>2, <1>10, <1>12

(* The new checkpoint counts what its summary stands for.                    *)
LEMMA CheckpointAdvances ==
  ASSUME CheckpointInv, NEW size \in Nat, NEW contents, Sendable(contents, size),
         Summarized(contents)
  PROVE  \E count \in 1 .. Len(contents), condensed \in ContentSet :
           /\ contents[count].kind # "call"
           /\ condensed.kind = "user" /\ condensed.of = Of(contents, count)
           /\ checkpoint' = [count |-> count, prefix |-> SubSeq(contents, 1, count),
                             summary |-> condensed]
           /\ request' = ContentsWithSummary(condensed, From(contents, count + 1))
<1>1. PICK working, inserted, cut, count :
        /\ working = Checkpointed(contents)
        /\ inserted = Len(working) - (Len(contents) - checkpoint.count)
        /\ cut = CompactionCut(working, Applies(contents))
        /\ count = IF Applies(contents) THEN Advanced(cut, inserted) ELSE cut
  OBVIOUS
<1>2. PICK tokens \in SummarySizes :
        checkpoint' = [count |-> count, prefix |-> SubSeq(contents, 1, count),
                       summary |-> [kind |-> "user", call |-> 0, size |-> tokens,
                                    of |-> UNION {working[i].of : i \in 1 .. cut}]]
  BY <1>1 DEF Summarized
<1>3. request' = ContentsWithSummary(checkpoint'.summary, From(contents, count + 1))
  BY <1>1 DEF Summarized
<1>4. /\ contents \in Seq(ContentSet) /\ contents # <<>> /\ Len(contents) \in Nat
      /\ Len(contents) > 0
  BY DEF Sendable
<1>5. /\ working \in Seq(ContentSet) /\ working # <<>> /\ Len(working) \in Nat
      /\ count \in 1 .. Len(contents)
      /\ Of(working, cut) = Of(contents, count)
      /\ count < Len(contents) => contents[count + 1].kind # "result"
  <2>1. CASE Applies(contents)
    <3>1. PICK n \in 1 .. Len(contents) : n = checkpoint.count
      BY <2>1, CheckpointStandsForContents
    <3>2. Sendable(working, size)
      BY <1>1, <2>1, CheckpointStandsForContents
    <3>3. PICK added \in {0, 1} :
            /\ Len(working) = Len(contents) - n + added
            /\ \A i \in 2 .. Len(working) : working[i] = contents[n + i - added]
            /\ \A c \in 1 .. Len(working) : Of(working, c) = Of(contents, n + c - added)
      <4>1. \E added \in {0, 1} : Renumbered(working, contents, n, added)
        BY <1>1, <2>1, <3>1, CheckpointStandsForContents
      <4>2. QED
        BY <4>1 DEF Renumbered
    <3>4. working \in Seq(ContentSet) /\ working # <<>> /\ Len(working) \in Nat
      BY <3>2 DEF Sendable
    <3>5. cut = CompactionCut(working, TRUE)
      BY <1>1, <2>1
    <3>6. cut \in 1 .. Len(working) /\ (cut < Len(working) => working[cut + 1].kind # "result")
      BY <3>4, <3>5, Cutting
    <3>7. inserted = added
      BY <1>1, <1>4, <3>1, <3>3
    <3>8. count = n + cut - added
      BY <1>1, <2>1, <3>1, <3>7 DEF Advanced
    <3>9. count \in 1 .. Len(contents) /\ (count < Len(contents) => cut < Len(working))
      <4>1. PICK length \in Nat : length = Len(contents)
        BY <1>4
      <4>2. Len(working) = length - n + added
        BY <3>3, <4>1
      <4>3. QED
        BY <3>4, <3>6, <3>8, <4>1, <4>2
    <3>10. cut < Len(working) => working[cut + 1] = contents[count + 1]
      <4>1. SUFFICES ASSUME cut < Len(working) PROVE working[cut + 1] = contents[count + 1]
        OBVIOUS
      <4>2. cut + 1 \in 2 .. Len(working) /\ n + (cut + 1) - added = count + 1
        <5>1. PICK a \in Nat, b \in Nat : a = cut /\ b = Len(working) /\ 1 <= a /\ a < b
          BY <3>4, <3>6, <4>1
        <5>2. a + 1 \in 2 .. b /\ n + (a + 1) - added = n + a - added + 1
          BY ONLY <5>1, n \in Int, added \in Int
        <5>3. n \in Int /\ added \in Int
          OBVIOUS
        <5>4. QED
          BY <3>8, <5>1, <5>2, <5>3
      <4>3. QED
        <5>1. PICK i \in 2 .. Len(working) : i = cut + 1
          BY <4>2
        <5>2. n + i - added = count + 1
          BY <4>2, <5>1
        <5>3. working[i] = contents[n + i - added]
          BY <3>3
        <5>4. QED
          BY <5>1, <5>2, <5>3
    <3>11. Of(working, cut) = Of(contents, count)
      BY <3>3, <3>6, <3>8
    <3>12. QED
      BY <3>4, <3>6, <3>9, <3>10, <3>11
  <2>2. CASE ~Applies(contents)
    <3>1. working = contents /\ cut = CompactionCut(contents, FALSE) /\ count = cut
      <4>1. working = contents
        BY <1>1, <2>2 DEF Checkpointed
      <4>2. Applies(contents) = FALSE
        BY <2>2 DEF Applies
      <4>3. QED
        BY <1>1, <2>2, <4>1, <4>2
    <3>2. QED
      BY <1>4, <3>1, Cutting
  <2>3. QED
    BY <2>1, <2>2
<1>6. contents[count].kind # "call"
  BY <1>4, <1>5 DEF Sendable
<1>7. Of(contents, count) \subseteq Nat
  <2>1. \A i \in 1 .. count : contents[i] \in ContentSet
    BY <1>4, <1>5
  <2>2. \A c \in ContentSet : c.of \subseteq Nat
    BY DEF ContentSet
  <2>3. QED
    BY <2>1, <2>2 DEF Of
<1>8. PICK condensed : condensed = [kind |-> "user", call |-> 0, size |-> tokens, of |-> Of(contents, count)]
  OBVIOUS
<1>9. condensed \in ContentSet /\ condensed.kind = "user" /\ condensed.of = Of(contents, count)
  <2>1. tokens \in Nat
    BY CompactionAssumption
  <2>2. QED
    BY <1>7, <1>8, <2>1 DEF ContentSet, ContentKinds
<1>10. checkpoint' = [count |-> count, prefix |-> SubSeq(contents, 1, count), summary |-> condensed]
  BY <1>2, <1>5, <1>8 DEF Of
<1>11. request' = ContentsWithSummary(condensed, From(contents, count + 1))
  BY <1>3, <1>10
<1>12. QED
  BY <1>5, <1>6, <1>9, <1>10, <1>11

(* A compaction makes a request that can be sent, and a sound checkpoint.    *)
LEMMA Compacting ==
  ASSUME CheckpointInv, NEW size \in Nat, NEW contents, Sendable(contents, size),
         Reuse(contents) \/ Summarized(contents)
  PROVE  CheckpointInv' /\ Sendable(request', size)
<1>1. CASE Reuse(contents)
  <2>1. Applies(contents) /\ request' = Checkpointed(contents) /\ checkpoint' = checkpoint
    BY <1>1 DEF Reuse
  <2>2. Sendable(Checkpointed(contents), size)
    BY <2>1, CheckpointStandsForContents
  <2>3. QED
    BY <2>1, <2>2 DEF CheckpointInv
<1>2. CASE Summarized(contents)
  <2>1. PICK count \in 1 .. Len(contents), condensed \in ContentSet :
           /\ contents[count].kind # "call"
           /\ condensed.kind = "user" /\ condensed.of = Of(contents, count)
           /\ checkpoint' = [count |-> count, prefix |-> SubSeq(contents, 1, count),
                             summary |-> condensed]
           /\ request' = ContentsWithSummary(condensed, From(contents, count + 1))
    BY <1>2, CheckpointAdvances
  <2>2. PICK sent : sent = request'
    OBVIOUS
  <2>3. Sendable(sent, size)
    BY <2>1, <2>2, SummariesStandForContents
  <2>4. PICK prefix \in Seq(ContentSet) :
          /\ prefix = SubSeq(contents, 1, count) /\ Len(prefix) = count
          /\ \A i \in 1 .. count : prefix[i] = contents[i]
    <3>1. contents \in Seq(ContentSet)
      BY DEF Sendable
    <3>2. /\ SubSeq(contents, 1, count) \in Seq(ContentSet) /\ Len(SubSeq(contents, 1, count)) = count
          /\ \A i \in 1 .. count : SubSeq(contents, 1, count)[i] = contents[i]
      BY <3>1
    <3>3. QED
      BY <3>2
  <2>5. /\ checkpoint'.count = count /\ checkpoint'.prefix = prefix /\ checkpoint'.summary = condensed
    BY <2>1, <2>4
  <2>6. Of(prefix, count) = Of(contents, count)
    BY <2>4 DEF Of
  <2>7. CheckpointInv'
    BY <2>1, <2>4, <2>5, <2>6 DEF CheckpointInv, Of
  <2>8. QED
    BY <2>2, <2>3, <2>7
<1>3. QED
  BY <1>1, <1>2

(* A content is added to the history: a result behind its call.              *)
LEMMA HistoryGrows ==
  ASSUME HistoryInv, turn # "sent" \/ turn' \in {"idle", "tools"},
         NEW kind \in ContentKinds, NEW id \in Nat, Content(kind, id),
         kind = "result" <=> (history # <<>> /\ history[Len(history)].kind = "call"),
         kind = "result" => id = Len(history),
         kind = "call" => id = Len(history) + 1,
         turn' \in {"idle", "ready", "tools"},
         turn' = "tools" => kind = "call", turn' = "ready" => kind # "call"
  PROVE  HistoryInv'
<1>1. PICK tokens \in Sizes : history' = Append(history, [kind |-> kind, call |-> id, size |-> tokens])
  BY DEF Content
<1>2. PICK new \in [kind : ContentKinds, call : Nat, size : Nat] :
        /\ new = [kind |-> kind, call |-> id, size |-> tokens]
        /\ new.kind = kind /\ new.call = id
  <2>1. tokens \in Nat
    BY CompactionAssumption
  <2>2. PICK new : new = [kind |-> kind, call |-> id, size |-> tokens]
    OBVIOUS
  <2>3. new \in [kind : ContentKinds, call : Nat, size : Nat] /\ new.kind = kind /\ new.call = id
    BY <2>1, <2>2
  <2>4. QED
    BY <2>2, <2>3
<1>3. history \in Seq([kind : ContentKinds, call : Nat, size : Nat]) /\ Len(history) \in Nat
  BY DEF HistoryInv
<1>4. /\ history' \in Seq([kind : ContentKinds, call : Nat, size : Nat]) /\ Len(history') = Len(history) + 1
      /\ history'[Len(history) + 1] = new
      /\ \A i \in 1 .. Len(history) : history'[i] = history[i]
  BY <1>1, <1>2, <1>3, AppendProperties
<1>5. ASSUME NEW j \in 1 .. Len(history'), history'[j].kind = "result"
      PROVE  j > 1 /\ history'[j - 1].kind = "call" /\ history'[j].call = j - 1
  <2>1. CASE j = Len(history) + 1
    <3>1. new.kind = "result" /\ new.call = id
      BY <1>2, <1>4, <1>5, <2>1
    <3>2. Len(history) > 0 /\ history[Len(history)].kind = "call" /\ id = Len(history)
      BY <1>2, <1>3, <3>1
    <3>3. QED
      BY <1>3, <1>4, <2>1, <3>1, <3>2
  <2>2. CASE j # Len(history) + 1
    <3>1. j \in 1 .. Len(history) /\ history[j].kind = "result"
      <4>1. j \in 1 .. Len(history)
        BY <1>3, <1>4, <2>2
      <4>2. QED
        BY <1>4, <1>5, <4>1
    <3>2. j > 1 /\ history[j - 1].kind = "call" /\ history[j].call = j - 1
      BY <3>1 DEF HistoryInv
    <3>3. j - 1 \in 1 .. Len(history)
      BY <3>1, <3>2
    <3>4. QED
      BY <1>4, <3>1, <3>2, <3>3
  <2>3. QED
    BY <2>1, <2>2
<1>6. ASSUME NEW i \in 1 .. Len(history'), history'[i].kind = "call"
      PROVE  history'[i].call = i /\ (i < Len(history') => history'[i + 1].kind = "result")
  <2>1. CASE i = Len(history) + 1
    BY <1>2, <1>3, <1>4, <1>6, <2>1
  <2>2. CASE i = Len(history)
    <3>1. history # <<>> /\ history[i].kind = "call" /\ i \in 1 .. Len(history)
      BY <1>3, <1>4, <1>6, <2>2
    <3>2. new.kind = "result" /\ history[i].call = i
      BY <1>2, <2>2, <3>1 DEF HistoryInv
    <3>3. QED
      BY <1>4, <2>2, <3>1, <3>2
  <2>3. CASE i # Len(history) + 1 /\ i # Len(history)
    <3>1. i \in 1 .. Len(history) /\ i < Len(history) /\ i + 1 \in 1 .. Len(history)
      <4>1. PICK length \in Nat : length = Len(history)
        BY <1>3
      <4>2. i \in 1 .. length + 1
        BY <1>4, <4>1
      <4>3. QED
        BY <2>3, <4>1, <4>2
    <3>2. history[i].kind = "call"
      BY <1>4, <1>6, <3>1
    <3>3. history[i].call = i /\ history[i + 1].kind = "result"
      BY <3>1, <3>2 DEF HistoryInv
    <3>4. QED
      BY <1>4, <3>1, <3>3
  <2>4. QED
    BY <2>1, <2>2, <2>3
<1>7. history' # <<>> /\ history'[Len(history')].kind = kind
  BY <1>2, <1>3, <1>4
<1>8. QED
  BY <1>4, <1>5, <1>6, <1>7 DEF HistoryInv

(* The compaction's invariant, by its steps.                                 *)
LEMMA CompactionInvariant == CompactionSpec => []CompactionInv
<1>1. CompactionInit => CompactionInv
  BY DEF CompactionInit, CompactionInv, HistoryInv, CheckpointInv, NoCheckpoint
<1>2. CompactionInv /\ [CompactionNext]_compactionVars => CompactionInv'
  <2> SUFFICES ASSUME CompactionInv, [CompactionNext]_compactionVars PROVE CompactionInv'
    OBVIOUS
  <2> USE DEF CompactionInv
  <2>1. PICK n \in Nat : n = Len(history)
    BY DEF HistoryInv
  <2>2. CASE StartTurn
    <3>1. /\ turn = "idle" /\ turn' = "ready" /\ checkpoint' = checkpoint
          /\ IF history # <<>> /\ history[Len(history)].kind = "call"
             THEN Content("result", Len(history)) ELSE Content("user", 0)
      BY <2>2 DEF StartTurn, Last
    <3>2. HistoryInv'
      <4>1. CASE history # <<>> /\ history[Len(history)].kind = "call"
        BY <2>1, <3>1, <4>1, HistoryGrows DEF ContentKinds
      <4>2. CASE ~(history # <<>> /\ history[Len(history)].kind = "call")
        BY <3>1, <4>2, HistoryGrows DEF ContentKinds
      <4>3. QED
        BY <4>1, <4>2
    <3>3. QED
      BY <3>1, <3>2 DEF CheckpointInv
  <2>3. CASE BeforeModel
    <3>1. turn = "ready" /\ turn' = "sent" /\ history' = history
      BY <2>3 DEF BeforeModel
    <3>2. PICK contents : contents = Original
      OBVIOUS
    <3>3. Sendable(contents, n)
      BY <2>1, <3>1, <3>2, OriginalIsSendable
    <3>4. CheckpointInv' /\ Sendable(request', n)
      <4>1. CASE request' = Original /\ UNCHANGED checkpoint
        BY <3>2, <3>3, <4>1 DEF CheckpointInv
      <4>2. CASE Reuse(contents) \/ Summarized(contents)
        BY <3>3, <4>2, Compacting
      <4>3. QED
        BY <2>3, <3>2, <4>1, <4>2 DEF BeforeModel
    <3>5. HistoryInv'
      BY <3>1 DEF HistoryInv
    <3>6. QED
      BY <2>1, <3>1, <3>4, <3>5
  <2>4. CASE Answer
    <3>1. /\ turn = "sent" /\ checkpoint' = checkpoint
          /\ \/ Content("model", 0) /\ turn' = "idle"
             \/ Content("call", Len(history) + 1) /\ turn' = "tools"
      BY <2>4 DEF Answer
    <3>2. history # <<>> /\ history[Len(history)].kind # "call"
      BY <3>1 DEF HistoryInv
    <3>3. HistoryInv'
      <4>1. CASE Content("model", 0) /\ turn' = "idle"
        BY <3>2, <4>1, HistoryGrows DEF ContentKinds
      <4>2. CASE Content("call", Len(history) + 1) /\ turn' = "tools"
        BY <2>1, <3>2, <4>2, HistoryGrows DEF ContentKinds
      <4>3. QED
        BY <3>1, <4>1, <4>2
    <3>4. QED
      BY <3>1, <3>3 DEF CheckpointInv
  <2>5. CASE ToolResult
    <3>1. /\ turn = "tools" /\ turn' = "ready" /\ checkpoint' = checkpoint
          /\ Content("result", Len(history))
      BY <2>5 DEF ToolResult
    <3>2. history # <<>> /\ history[Len(history)].kind = "call"
      BY <3>1 DEF HistoryInv
    <3>3. HistoryInv'
      BY <2>1, <3>1, <3>2, HistoryGrows DEF ContentKinds
    <3>4. QED
      BY <3>1, <3>3 DEF CheckpointInv
  <2>6. CASE Rejected
    <3>1. turn = "sent" /\ turn' = "idle" /\ history' = history
      BY <2>6 DEF Rejected
    <3>2. PICK contents : contents = request
      OBVIOUS
    <3>3. Sendable(contents, n) /\ (Reuse(contents) \/ Summarized(contents))
      BY <2>1, <2>6, <3>1, <3>2 DEF Rejected
    <3>4. CheckpointInv'
      BY <3>3, Compacting
    <3>5. HistoryInv'
      BY <3>1 DEF HistoryInv
    <3>6. QED
      BY <3>1, <3>4, <3>5
  <2>7. CASE BeforeModelFails \/ TurnInterrupted \/ RejectedHopelessly
    <3>1. turn' = "idle" /\ UNCHANGED <<history, checkpoint>>
      BY <2>7 DEF BeforeModelFails, TurnInterrupted, RejectedHopelessly
    <3>2. QED
      BY <3>1 DEF HistoryInv, CheckpointInv
  <2>8. CASE UNCHANGED compactionVars
    BY <2>8 DEF compactionVars, HistoryInv, CheckpointInv, Sendable
  <2>9. QED
    BY <2>2, <2>3, <2>4, <2>5, <2>6, <2>7, <2>8 DEF CompactionNext
<1>3. QED
  BY <1>1, <1>2, PTL DEF CompactionSpec

(* Every content reaches the model exactly once, verbatim or in the one      *)
(* summary, and no result without its call, for histories, windows and       *)
(* estimates of any size and however often the provider rejects a request    *)
(* (context_compaction.go, compactRequest and compactionCut).                *)
THEOREM NothingIsLost == CompactionSpec => []CompactionLosesNothing
<1>1. CompactionInv => CompactionLosesNothing
  <2> SUFFICES ASSUME CompactionInv, turn = "sent"
               PROVE  EveryContentReachesModel /\ ResultsFollowCalls
    BY DEF CompactionLosesNothing, EveryContentReachesModel, ResultsFollowCalls
  <2>1. /\ Sendable(request, Len(history))
        /\ DOMAIN request = 1 .. Len(request) /\ DOMAIN history = 1 .. Len(history)
        /\ Len(request) \in Nat
    BY DEF CompactionInv, HistoryInv, Sendable
  <2>2. EveryContentReachesModel
    BY <2>1 DEF Sendable, Of, EveryContentReachesModel
  <2>3. ResultsFollowCalls
    <3> SUFFICES ASSUME NEW j \in 1 .. Len(request), request[j].kind = "result"
                 PROVE  \E i \in 1 .. j - 1 : request[i].kind = "call" /\ request[i].call = request[j].call
      BY <2>1 DEF ResultsFollowCalls
    <3>1. j > 1 /\ request[j - 1].kind = "call" /\ request[j - 1].call = request[j].call
      BY <2>1 DEF Sendable
    <3>2. j - 1 \in 1 .. j - 1
      BY <3>1
    <3>3. QED
      BY <3>1, <3>2
  <2>4. QED
    BY <2>2, <2>3
<1>2. QED
  BY <1>1, CompactionInvariant, PTL

-----------------------------------------------------------------------------
(* What a recursive definition says of its function: the value at M, and    *)
(* how a value follows from the one before.                                 *)
IsStep(nextOf, X) == nextOf \in [Nat -> [X -> X]]

Recurs(f, X, base, nextOf, M, N) ==
  /\ f \in [M .. N -> X] /\ f[M] = base
  /\ \A n \in M + 1 .. N : f[n] = nextOf[n][f[n - 1]]

(* A function that is defined by recursion over numbers exists.  (Its step *)
(* is a function, and not an operator, so that the lemma can be used.)      *)
LEMMA RecursionExists ==
  ASSUME NEW X, NEW base \in X, NEW nextOf, IsStep(nextOf, X), NEW M \in Nat, NEW N \in Nat, M <= N
  PROVE  \E f : Recurs(f, X, base, nextOf, M, N)
<1> USE DEF IsStep
<1> DEFINE Defined(k, f) == /\ f \in [M .. k -> X] /\ f[M] = base
                            /\ \A n \in M + 1 .. k : f[n] = nextOf[n][f[n - 1]]
           Bad == {k \in M .. N : ~ \E f : Defined(k, f)}
<1>1. ASSUME Bad # {} PROVE FALSE
  <2>1. PICK k \in Bad : \A m \in Bad : k <= m
    <3>1. Bad \subseteq Nat
      OBVIOUS
    <3> HIDE DEF Bad
    <3>2. QED
      BY <1>1, <3>1, LeastNumber
  <2>2. k # M
    <3>1. Defined(M, [n \in M .. M |-> base])
      OBVIOUS
    <3>2. QED
      BY <3>1
  <2>3. k \in M .. N /\ k - 1 \in M .. N /\ k - 1 \notin Bad
    <3> HIDE DEF Defined
    <3>1. k \in M .. N /\ k - 1 \in M .. N
      BY <2>1, <2>2
    <3>2. k - 1 \notin Bad
      BY <2>1, <3>1
    <3>3. QED
      BY <3>1, <3>2
  <2>4. PICK f : Defined(k - 1, f)
    BY <2>3
  <2> DEFINE g == [n \in M .. k |-> IF n = k THEN nextOf[k][f[k - 1]] ELSE f[n]]
  <2>5. g \in [M .. k -> X]
    BY <2>2, <2>3, <2>4
  <2>6. g[M] = base
    BY <2>2, <2>3, <2>4
  <2>7. ASSUME NEW n \in M + 1 .. k PROVE g[n] = nextOf[n][g[n - 1]]
    <3>1. n \in M .. k /\ n - 1 \in M .. k /\ n - 1 # k /\ (n # k => n \in M + 1 .. k - 1)
      BY <2>3, <2>7
    <3>2. g[n - 1] = f[n - 1]
      BY <3>1
    <3>3. CASE n = k
      BY <3>1, <3>2, <3>3
    <3>4. CASE n # k
      BY <2>4, <3>1, <3>2, <3>4
    <3>5. QED
      BY <3>3, <3>4
  <2>8. Defined(k, g)
    BY <2>5, <2>6, <2>7
  <2>9. QED
    BY <2>8
<1>2. PICK f : Defined(N, f)
  BY <1>1
<1>3. QED
  BY <1>2 DEF Recurs

-----------------------------------------------------------------------------
(* Induction up to a number, over the set of the numbers that are good.     *)
LEMMA UpTo ==
  ASSUME NEW N \in Nat, NEW Good, 0 \in Good, \A n \in 1 .. N : n - 1 \in Good => n \in Good
  PROVE  0 .. N \subseteq Good
<1> DEFINE Bad == {n \in 0 .. N : n \notin Good}
<1>1. ASSUME Bad # {} PROVE FALSE
  <2>1. PICK n \in Bad : \A m \in Bad : n <= m
    <3>1. Bad \subseteq Nat
      OBVIOUS
    <3> HIDE DEF Bad
    <3>2. QED
      BY <1>1, <3>1, LeastNumber
  <2>2. n \in 1 .. N /\ n - 1 \in 0 .. N /\ ~ (n <= n - 1)
    BY <2>1
  <2>3. n - 1 \notin Bad
    BY <2>1, <2>2
  <2>4. QED
    BY <2>2, <2>3
<1>2. QED
  BY <1>1

(* Of numbers that are bounded one is the greatest.                         *)
LEMMA MaxIsMember ==
  ASSUME NEW n \in Nat, NEW S, S \subseteq 1 .. n, S # {}
  PROVE  Max(S) \in S /\ \A x \in S : x <= Max(S)
<1> DEFINE rests == {n - x : x \in S}
<1>1. rests \subseteq Nat /\ rests # {} /\ \A x \in S : x \in Nat /\ x <= n
  <2>1. \A x \in S : x \in Nat /\ x <= n /\ n - x \in Nat
    <3>1. \A x \in 1 .. n : x \in Nat /\ x <= n /\ n - x \in Nat
      OBVIOUS
    <3>2. QED
      BY <3>1
  <2>2. QED
    BY <2>1
<1>2. PICK r \in rests : \A m \in rests : r <= m
  <2> HIDE DEF rests
  <2>1. QED
    BY <1>1, LeastNumber
<1>3. PICK x \in S : r = n - x
  BY <1>2
<1>4. \A y \in S : x >= y
  <2>1. ASSUME NEW y \in S PROVE x >= y
    <3>1. n - x <= n - y
      BY <1>2, <1>3
    <3>2. x \in Nat /\ y \in Nat
      BY <1>1
    <3>3. QED
      BY <3>1, <3>2
  <2>2. QED
    BY <2>1
<1>5. Max(S) \in S /\ \A y \in S : Max(S) >= y
  BY <1>4 DEF Max
<1>6. QED
  BY <1>5

-----------------------------------------------------------------------------
(* The tokens of contents, summed up from the first to the i-th.            *)
Sums(P, contents) ==
  /\ P \in [0 .. Len(contents) -> Nat] /\ P[0] = 0
  /\ \A i \in 1 .. Len(contents) : P[i] = P[i - 1] + contents[i].size

(* The size of a content is a number.                                       *)
LEMMA SizesAreNumbers ==
  ASSUME NEW contents \in Seq(ContentSet), NEW n \in 1 .. Len(contents)
  PROVE  contents[n].size \in Nat
<1>1. contents[n] \in ContentSet
  BY ElementOfSeq
<1>2. QED
  BY <1>1 DEF ContentSet

(* They are defined by recursion.                                           *)
LEMMA SumsExist ==
  ASSUME NEW contents \in Seq(ContentSet)
  PROVE  \E P : Sums(P, contents)
<1> DEFINE nextOf == [n \in Nat |-> [x \in Nat |->
                       x + (IF n \in 1 .. Len(contents) THEN contents[n].size ELSE 0)]]
<1>1. \A n \in 1 .. Len(contents) : contents[n].size \in Nat
  BY SizesAreNumbers
<1>2. IsStep(nextOf, Nat)
  <2>1. ASSUME NEW n \in Nat, NEW x \in Nat
        PROVE  x + (IF n \in 1 .. Len(contents) THEN contents[n].size ELSE 0) \in Nat
    BY <1>1
  <2>2. QED
    BY <2>1 DEF IsStep
<1>3. PICK P : Recurs(P, Nat, 0, nextOf, 0, Len(contents))
  <2>1. Len(contents) \in Nat /\ 0 \in Nat /\ 0 <= Len(contents)
    OBVIOUS
  <2> HIDE DEF nextOf
  <2>2. QED
    BY <1>2, <2>1, RecursionExists
<1>4. P \in [0 .. Len(contents) -> Nat] /\ P[0] = 0
  BY <1>3 DEF Recurs
<1>5. ASSUME NEW i \in 1 .. Len(contents) PROVE P[i] = P[i - 1] + contents[i].size
  <2>1. P[i] = nextOf[i][P[i - 1]]
    <3>1. i \in 0 + 1 .. Len(contents)
      OBVIOUS
    <3> HIDE DEF nextOf
    <3>2. QED
      BY <1>3, <3>1 DEF Recurs
  <2>2. P[i - 1] \in Nat /\ i \in Nat
    BY <1>4
  <2>3. QED
    BY <2>1, <2>2
<1>6. QED
  BY <1>4, <1>5 DEF Sums

(* Tokens of a set of positions, added from the greatest down, as the fold   *)
(* does it.                                                                 *)
Adds(f, contents) ==
  f = [S \in SUBSET DOMAIN contents |->
         IF S = {} THEN 0 ELSE f[S \ {Max(S)}] + contents[Max(S)].size]

(* They exist: each position adds its tokens to the sets that have it.       *)
LEMMA FoldExists ==
  ASSUME NEW contents \in Seq(ContentSet)
  PROVE  \E f : Adds(f, contents)
<1> DEFINE N == Len(contents)
           Positions == SUBSET (1 .. N)
           weight(n) == IF n \in 1 .. N THEN contents[n].size ELSE 0
           add(n, g) == [S \in Positions |-> IF n \in S THEN g[S] + weight(n) ELSE g[S]]
           base == [S \in Positions |-> 0]
           Totals == [Positions -> Nat]
           nextOf == [n \in Nat |-> [g \in Totals |-> add(n, g)]]
<1>1. N \in Nat /\ \A n \in Nat : weight(n) \in Nat
  BY SizesAreNumbers
<1>2. IsStep(nextOf, Totals)
  <2>1. ASSUME NEW n \in Nat, NEW g \in Totals PROVE add(n, g) \in Totals
    <3> HIDE DEF weight, Positions
    <3>1. weight(n) \in Nat
      BY <1>1
    <3>2. QED
      BY <3>1
  <2> HIDE DEF add, Totals
  <2>2. QED
    BY <2>1 DEF IsStep
<1>3. base \in Totals
  OBVIOUS
<1>4. PICK h : Recurs(h, Totals, base, nextOf, 0, N)
  <2>1. 0 \in Nat /\ 0 <= N
    BY <1>1
  <2> HIDE DEF nextOf, Totals, base, N
  <2>2. QED
    BY <1>1, <1>2, <1>3, <2>1, RecursionExists
<1>5. h \in [0 .. N -> Totals] /\ h[0] = base
  BY <1>4 DEF Recurs
<1>6. ASSUME NEW n \in 1 .. N, NEW S \in Positions
      PROVE  h[n][S] = IF n \in S THEN h[n - 1][S] + weight(n) ELSE h[n - 1][S]
  <2>1. n \in Nat /\ n - 1 \in 0 .. N /\ n \in 0 + 1 .. N
    BY <1>1
  <2>2. h[n] = nextOf[n][h[n - 1]]
    <3> HIDE DEF nextOf, N, Totals, base
    <3>1. QED
      BY <1>4, <2>1 DEF Recurs
  <2>3. PICK g \in Totals : g = h[n - 1]
    <3> HIDE DEF Totals, N
    <3>1. QED
      BY <1>5, <2>1
  <2>4. h[n] = add(n, g)
    <3> HIDE DEF add, Totals, N
    <3>1. QED
      BY <2>1, <2>2, <2>3
  <2>5. QED
    <3> HIDE DEF weight, Positions
    <3>1. QED
      BY <2>3, <2>4
<1>7. ASSUME NEW S \in Positions, NEW m \in S
      PROVE  h[N][S] = h[N][S \ {m}] + weight(m)
  <2> DEFINE Good == {n \in 0 .. N :
                       h[n][S] = h[n][S \ {m}] + (IF n >= m THEN weight(m) ELSE 0)}
  <2>1. S \ {m} \in Positions /\ m \in 1 .. N
    OBVIOUS
  <2>2. 0 \in Good
    <3>1. h[0][S] = 0 /\ h[0][S \ {m}] = 0
      BY <1>5, <2>1
    <3>2. ~ (0 >= m)
      BY <2>1
    <3>3. QED
      BY <1>1, <3>1, <3>2
  <2>3. ASSUME NEW n \in 1 .. N, n - 1 \in Good PROVE n \in Good
    <3> HIDE DEF weight, Positions
    <3>1. /\ h[n][S] = IF n \in S THEN h[n - 1][S] + weight(n) ELSE h[n - 1][S]
          /\ h[n][S \ {m}] = IF n \in S \ {m} THEN h[n - 1][S \ {m}] + weight(n) ELSE h[n - 1][S \ {m}]
      BY <1>6, <2>1
    <3>2. h[n - 1][S] = h[n - 1][S \ {m}] + (IF n - 1 >= m THEN weight(m) ELSE 0)
      BY <2>3
    <3>3. PICK a \in Nat, w \in Nat, v \in Nat :
            a = h[n - 1][S \ {m}] /\ w = weight(n) /\ v = weight(m)
      <4>1. n - 1 \in 0 .. N /\ n \in Nat /\ m \in Nat
        BY <1>1, <2>1
      <4>2. PICK g \in [Positions -> Nat] : g = h[n - 1]
        BY <1>5, <4>1
      <4>3. g[S \ {m}] \in Nat
        BY <2>1
      <4>4. QED
        BY <1>1, <4>1, <4>2, <4>3
    <3>4. n \in Nat /\ m \in Nat /\ n \in 0 .. N
      BY <1>1, <2>1
    <3>5. CASE n = m
      BY <3>1, <3>2, <3>3, <3>4, <3>5
    <3>6. CASE n # m
      <4>1. n >= m <=> n - 1 >= m
        BY <3>4, <3>6
      <4>2. n \in S <=> n \in S \ {m}
        BY <3>6
      <4>3. QED
        BY <3>1, <3>2, <3>3, <3>4, <4>1, <4>2
    <3>7. QED
      BY <3>5, <3>6
  <2>4. N \in Good
    <3>1. 0 .. N \subseteq Good
      <4> HIDE DEF Good, N
      <4>1. QED
        BY <1>1, <2>2, <2>3, UpTo
    <3>2. N \in 0 .. N
      BY <1>1
    <3>3. QED
      BY <3>1, <3>2
  <2>5. N >= m
    BY <1>1, <2>1
  <2>6. QED
    BY <2>4, <2>5
<1>8. h[N][{}] = 0
  <2> DEFINE Good == {n \in 0 .. N : h[n][{}] = 0}
  <2>1. 0 \in Good /\ {} \in Positions
    BY <1>1, <1>5
  <2>2. \A n \in 1 .. N : n - 1 \in Good => n \in Good
    BY <1>6, <2>1
  <2>3. 0 .. N \subseteq Good
    <3> HIDE DEF Good, N
    <3>1. QED
      BY <1>1, <2>1, <2>2, UpTo
  <2>4. QED
    BY <1>1, <2>3
<1>9. PICK f \in Totals : f = h[N]
  BY <1>1, <1>5
<1>10. ASSUME NEW S \in Positions
       PROVE  f[S] = IF S = {} THEN 0 ELSE f[S \ {Max(S)}] + contents[Max(S)].size
  <2>1. CASE S = {}
    BY <1>8, <1>9, <2>1
  <2>2. CASE S # {}
    <3>1. PICK m \in S : m = Max(S)
      BY <1>1, <2>2, MaxIsMember
    <3>2. weight(m) = contents[m].size
      OBVIOUS
    <3>3. QED
      BY <1>7, <1>9, <2>2, <3>1, <3>2
  <2>3. QED
    BY <2>1, <2>2
<1>11. Adds(f, contents)
  <2>1. DOMAIN contents = 1 .. N
    OBVIOUS
  <2>2. f = [S \in Positions |-> f[S]]
    BY <1>9
  <2>3. [S \in Positions |-> f[S]] = [S \in Positions |-> IF S = {} THEN 0 ELSE f[S \ {Max(S)}] + contents[Max(S)].size]
    BY <1>10
  <2>4. QED
    BY <2>1, <2>2, <2>3 DEF Adds
<1>12. QED
  BY <1>11

(* The fold is the sum.                                                     *)
LEMMA TokensAreSums ==
  ASSUME NEW contents \in Seq(ContentSet), NEW P, Sums(P, contents)
  PROVE  Tokens(contents) = P[Len(contents)]
<1> DEFINE iter[S \in SUBSET DOMAIN contents] ==
             IF S = {} THEN 0 ELSE LET x == Max(S) IN iter[S \ {x}] + contents[x].size
<1>1. Tokens(contents) = iter[DOMAIN contents]
  BY DEF Tokens, FoldLeft, MapThenFoldSet
<1>2. Adds(iter, contents)
  <2> DEFINE found == CHOOSE f : Adds(f, contents)
  <2>1. Adds(found, contents)
    BY FoldExists
  <2>2. iter = found
    BY DEF Adds
  <2>3. QED
    BY <2>1, <2>2
<1> HIDE DEF iter
<1> DEFINE N == Len(contents)
           Good == {n \in 0 .. N : iter[1 .. n] = P[n]}
<1>3. N \in Nat /\ DOMAIN contents = 1 .. N
  OBVIOUS
<1>4. ASSUME NEW n \in 0 .. N
      PROVE  iter[1 .. n] = IF n = 0 THEN 0 ELSE iter[1 .. n - 1] + contents[n].size
  <2>1. 1 .. n \in SUBSET DOMAIN contents /\ n \in Nat
    BY <1>3
  <2>2. CASE n = 0
    <3>1. 1 .. n = {}
      BY <2>2
    <3>2. QED
      BY <1>2, <2>1, <2>2, <3>1 DEF Adds
  <2>3. CASE n # 0
    <3>1. 1 .. n # {} /\ (1 .. n) \ {n} = 1 .. n - 1
      <4>1. 1 \in 1 .. n
        BY <2>1, <2>3
      <4>2. (1 .. n) \ {n} = 1 .. n - 1
        BY <2>1, <2>3
      <4>3. QED
        BY <4>1, <4>2
    <3>2. Max(1 .. n) = n
      <4>1. n \in 1 .. n
        BY <2>1, <2>3
      <4>2. Max(1 .. n) \in 1 .. n /\ n <= Max(1 .. n)
        BY <2>1, <3>1, <4>1, MaxIsMember
      <4>3. QED
        BY <2>1, <4>2
    <3>3. PICK S \in SUBSET DOMAIN contents : S = 1 .. n
      BY <2>1
    <3>4. iter[S] = IF S = {} THEN 0 ELSE iter[S \ {Max(S)}] + contents[Max(S)].size
      BY <1>2 DEF Adds
    <3>5. QED
      BY <2>3, <3>1, <3>2, <3>3, <3>4
  <2>4. QED
    BY <2>2, <2>3
<1>5. 0 \in Good
  BY <1>3, <1>4 DEF Sums
<1>6. ASSUME NEW n \in 1 .. N, n - 1 \in Good PROVE n \in Good
  <2>1. n \in 0 .. N /\ n # 0
    BY <1>3
  <2>2. iter[1 .. n] = iter[1 .. n - 1] + contents[n].size
    BY <1>4, <2>1
  <2>3. P[n] = P[n - 1] + contents[n].size
    BY DEF Sums
  <2>4. QED
    BY <1>6, <2>1, <2>2, <2>3
<1>7. 0 .. N \subseteq Good
  <2> HIDE DEF Good, N
  <2>1. QED
    BY <1>3, <1>5, <1>6, UpTo
<1>8. N \in Good
  BY <1>3, <1>7
<1>9. QED
  BY <1>1, <1>3, <1>8

(* The contents behind the first n.                                         *)
LEMMA SuffixIs ==
  ASSUME NEW contents \in Seq(ContentSet), NEW n \in 0 .. Len(contents)
  PROVE  /\ From(contents, n + 1) \in Seq(ContentSet)
         /\ Len(From(contents, n + 1)) = Len(contents) - n
         /\ \A i \in 1 .. Len(contents) - n : From(contents, n + 1)[i] = contents[n + i]
<1>1. PICK length \in Nat : length = Len(contents)
  OBVIOUS
<1>2. QED
  BY <1>1 DEF From

(* Sequences of one length that agree everywhere are the same.              *)
LEMMA SameContents ==
  ASSUME NEW s \in Seq(ContentSet), NEW t \in Seq(ContentSet), Len(s) = Len(t),
         \A i \in 1 .. Len(s) : s[i] = t[i]
  PROVE  s = t
  OBVIOUS

(* Contents without the first n have as many tokens less as those.          *)
LEMMA TokensOfSuffix ==
  ASSUME NEW contents \in Seq(ContentSet), NEW P, Sums(P, contents), NEW n \in 0 .. Len(contents)
  PROVE  /\ From(contents, n + 1) \in Seq(ContentSet)
         /\ Tokens(From(contents, n + 1)) = P[Len(contents)] - P[n]
<1> DEFINE suffix == From(contents, n + 1)
<1>1. PICK length \in Nat : length = Len(contents)
  OBVIOUS
<1>2. /\ suffix \in Seq(ContentSet) /\ Len(suffix) = length - n
      /\ \A i \in 1 .. length - n : suffix[i] = contents[n + i]
  BY <1>1, SuffixIs
<1>3. P \in [0 .. length -> Nat] /\ \A i \in 1 .. length : P[i] = P[i - 1] + contents[i].size
  BY <1>1 DEF Sums
<1>4. \A i \in 0 .. length : P[i] >= P[n] \/ i < n
  <2> DEFINE Good == {i \in 0 .. length : i < n \/ P[i] >= P[n]}
  <2>1. 0 \in Good
    BY <1>1, <1>3
  <2>2. ASSUME NEW i \in 1 .. length, i - 1 \in Good PROVE i \in Good
    <3>1. P[i] = P[i - 1] + contents[i].size /\ contents[i].size \in Nat
      BY <1>1, <1>3, SizesAreNumbers
    <3>2. P[i - 1] \in Nat /\ P[n] \in Nat /\ i \in Nat /\ n \in Nat
      BY <1>1, <1>3, SMTT(30)
    <3>3. QED
      BY <2>2, <3>1, <3>2
  <2>3. 0 .. length \subseteq Good
    <3> HIDE DEF Good
    <3>1. QED
      BY <1>1, <2>1, <2>2, UpTo
  <2>4. QED
    BY <2>3
<1> DEFINE Q == [i \in 0 .. length - n |-> P[n + i] - P[n]]
<1>5. Q \in [0 .. length - n -> Nat]
  <2>1. ASSUME NEW i \in 0 .. length - n PROVE P[n + i] - P[n] \in Nat
    <3>1. n + i \in 0 .. length /\ ~ (n + i < n) /\ n \in 0 .. length
      BY <1>1
    <3>2. P[n + i] >= P[n] /\ P[n + i] \in Nat /\ P[n] \in Nat
      BY <1>3, <1>4, <3>1
    <3>3. QED
      BY <3>2
  <2>2. QED
    BY <2>1
<1>6. Q[0] = 0
  BY <1>1, <1>3
<1>7. ASSUME NEW i \in 1 .. length - n PROVE Q[i] = Q[i - 1] + suffix[i].size
  <2>1. i \in 0 .. length - n /\ i - 1 \in 0 .. length - n /\ n + i \in 1 .. length /\ n + (i - 1) = n + i - 1
    BY <1>1
  <2>2. P[n + i] = P[n + i - 1] + contents[n + i].size
    <3>1. PICK j \in 1 .. length : j = n + i
      BY <2>1
    <3>2. P[j] = P[j - 1] + contents[j].size
      BY <1>3
    <3>3. QED
      BY <3>1, <3>2
  <2>3. suffix[i] = contents[n + i]
    BY <1>2
  <2>4. Q[i] = P[n + i] - P[n] /\ Q[i - 1] = P[n + i - 1] - P[n]
    BY <2>1
  <2>5. P[n] \in Nat /\ P[n + i - 1] \in Nat /\ contents[n + i].size \in Nat
    <3>1. n + i - 1 \in 0 .. length /\ n \in 0 .. length
      BY <1>1, <2>1
    <3>2. QED
      BY <1>1, <1>3, <2>1, <3>1, SizesAreNumbers
  <2> HIDE DEF Q, suffix
  <2>6. QED
    BY <2>2, <2>3, <2>4, <2>5
<1>8. Sums(Q, suffix)
  <2> HIDE DEF Q, suffix
  <2>1. QED
    BY <1>2, <1>5, <1>6, <1>7 DEF Sums
<1>9. Tokens(suffix) = Q[length - n]
  <2> HIDE DEF Q, suffix
  <2>1. QED
    BY <1>2, <1>8, TokensAreSums
<1>10. Q[length - n] = P[length] - P[n]
  <2>1. length - n \in 0 .. length - n /\ n + (length - n) = length
    BY <1>1
  <2>2. QED
    BY <2>1
<1>11. QED
  BY <1>1, <1>2, <1>9, <1>10

(* Fewer contents have no more tokens.                                      *)
LEMMA TokensShrink ==
  ASSUME NEW contents \in Seq(ContentSet), NEW n \in 0 .. Len(contents), NEW m \in n .. Len(contents)
  PROVE  /\ Tokens(From(contents, n + 1)) \in Nat
         /\ Tokens(From(contents, m + 1)) <= Tokens(From(contents, n + 1))
<1>1. PICK P : Sums(P, contents)
  BY SumsExist
<1>2. PICK suffix : suffix = From(contents, n + 1)
  OBVIOUS
<1>3. suffix \in Seq(ContentSet) /\ Len(suffix) = Len(contents) - n
      /\ \A i \in 1 .. Len(contents) - n : suffix[i] = contents[n + i]
  BY <1>2, SuffixIs
<1>4. PICK k \in 0 .. Len(suffix) : k = m - n
  BY <1>3
<1>5. From(suffix, k + 1) = From(contents, m + 1)
  <2>1. PICK length \in Nat : length = Len(contents)
    OBVIOUS
  <2>2. Len(suffix) = length - n /\ n + k = m /\ m \in 0 .. length
    BY <1>3, <1>4, <2>1
  <2>3. PICK s \in Seq(ContentSet) : /\ s = From(suffix, k + 1) /\ Len(s) = length - m
        /\ \A i \in 1 .. length - m : s[i] = suffix[k + i]
    <3>1. Len(suffix) - k = length - m
      BY <2>2
    <3>2. /\ From(suffix, k + 1) \in Seq(ContentSet) /\ Len(From(suffix, k + 1)) = Len(suffix) - k
          /\ \A i \in 1 .. Len(suffix) - k : From(suffix, k + 1)[i] = suffix[k + i]
      <4>1. suffix \in Seq(ContentSet)
        BY <1>3
      <4>2. QED
        BY <4>1, SuffixIs
    <3>3. QED
      BY <3>1, <3>2
  <2>4. PICK t \in Seq(ContentSet) : /\ t = From(contents, m + 1) /\ Len(t) = length - m
        /\ \A i \in 1 .. length - m : t[i] = contents[m + i]
    BY <2>1, <2>2, SuffixIs
  <2>5. ASSUME NEW i \in 1 .. length - m PROVE s[i] = t[i]
    <3>1. PICK j \in 1 .. length - n : j = k + i
      BY <2>1, <2>2
    <3>2. suffix[j] = contents[n + j]
      BY <1>3, <2>1
    <3>3. n + j = m + i
      BY <2>2, <3>1
    <3>4. QED
      BY <2>3, <2>4, <3>1, <3>2, <3>3
  <2>6. s = t
    BY <2>3, <2>4, <2>5, SameContents
  <2>7. QED
    BY <2>3, <2>4, <2>6
<1>6. PICK Q : Sums(Q, suffix)
  BY <1>3, SumsExist
<1>7. Tokens(suffix) = Q[Len(suffix)] /\ Tokens(From(suffix, k + 1)) = Q[Len(suffix)] - Q[k]
  BY <1>3, <1>6, TokensAreSums, TokensOfSuffix
<1>8. Q[Len(suffix)] \in Nat /\ Q[k] \in Nat
  <2>1. Len(suffix) \in 0 .. Len(suffix)
    BY <1>3
  <2>2. QED
    BY <1>6, <2>1 DEF Sums
<1>9. QED
  BY <1>2, <1>5, <1>7, <1>8

(* A summary adds its own tokens, wherever it is put.                        *)
LEMMA TokensWithSummary ==
  ASSUME NEW suffix \in Seq(ContentSet), NEW condensed \in ContentSet
  PROVE  Tokens(ContentsWithSummary(condensed, suffix)) = condensed.size + Tokens(suffix)
<1>1. PICK P : Sums(P, suffix)
  BY SumsExist
<1>2. PICK length \in Nat : length = Len(suffix)
  OBVIOUS
<1>3. P \in [0 .. length -> Nat] /\ P[0] = 0
      /\ \A i \in 1 .. length : P[i] = P[i - 1] + suffix[i].size
  BY <1>1, <1>2 DEF Sums
<1>4. condensed.size \in Nat
  BY DEF ContentSet
<1>5. CASE suffix # <<>> /\ suffix[1].kind = "user"
  <2> DEFINE first == [suffix[1] EXCEPT !.size = @ + condensed.size, !.of = @ \cup condensed.of]
             Q == [i \in 0 .. length |-> IF i = 0 THEN 0 ELSE P[i] + condensed.size]
  <2>1. PICK c \in ContentSet : c = suffix[1] /\ length > 0
    <3>1. length > 0 /\ 1 \in 1 .. Len(suffix)
      BY <1>2, <1>5
    <3>2. QED
      BY <3>1, ElementOfSeq
  <2>2. first \in ContentSet /\ first.size = c.size + condensed.size
    <3>1. first = [c EXCEPT !.size = @ + condensed.size, !.of = @ \cup condensed.of]
      BY <2>1
    <3> HIDE DEF first
    <3>2. c.size + condensed.size \in Nat /\ c.of \cup condensed.of \subseteq Nat
      BY DEF ContentSet
    <3>3. QED
      BY <3>1, <3>2 DEF ContentSet
  <2>3. PICK rest \in Seq(ContentSet) :
          /\ rest = Tail(suffix) /\ Len(rest) = length - 1
          /\ \A i \in 1 .. length - 1 : rest[i] = suffix[i + 1]
    <3>1. Tail(suffix) \in Seq(ContentSet) /\ Len(Tail(suffix)) = length - 1
      BY <1>2, <2>1
    <3>2. \A i \in 1 .. length - 1 : Tail(suffix)[i] = suffix[i + 1]
      BY <1>2, <2>1
    <3>3. QED
      BY <3>1, <3>2
  <2>4. PICK working : working = ContentsWithSummary(condensed, suffix)
    OBVIOUS
  <2>5. working = <<first>> \o rest
    BY <1>5, <2>3, <2>4 DEF ContentsWithSummary
  <2> HIDE DEF first
  <2>6. /\ working \in Seq(ContentSet) /\ Len(working) = Len(rest) + 1 /\ working[1] = first
        /\ \A i \in 2 .. Len(working) : working[i] = rest[i - 1]
    BY <2>2, <2>5, InFront
  <2>7. Len(working) = length
    BY <1>2, <2>3, <2>6
  <2>8. ASSUME NEW i \in 1 .. length PROVE Q[i] = Q[i - 1] + working[i].size
    <3>1. P[i] = P[i - 1] + suffix[i].size /\ suffix[i].size \in Nat /\ P[i - 1] \in Nat
      BY <1>2, <1>3, SizesAreNumbers
    <3>2. i \in 0 .. length /\ i - 1 \in 0 .. length /\ i # 0
      BY <1>2
    <3>3. CASE i = 1
      <4>1. Q[i] = P[i] + condensed.size /\ Q[i - 1] = 0 /\ P[i - 1] = 0
        BY <1>3, <3>2, <3>3
      <4>2. working[i].size = suffix[i].size + condensed.size
        BY <2>1, <2>2, <2>6, <3>3
      <4>3. QED
        BY <1>4, <3>1, <4>1, <4>2
    <3>4. CASE i # 1
      <4>1. Q[i] = P[i] + condensed.size /\ Q[i - 1] = P[i - 1] + condensed.size
        BY <3>2, <3>4
      <4>2. working[i] = suffix[i]
        <5>1. i \in 2 .. Len(working) /\ i - 1 \in 1 .. length - 1 /\ (i - 1) + 1 = i
          BY <2>7, <3>4
        <5>2. QED
          BY <2>3, <2>6, <5>1
      <4>3. QED
        BY <1>4, <3>1, <4>1, <4>2
    <3>5. QED
      BY <3>3, <3>4
  <2>9. Sums(Q, working)
    <3>1. Q \in [0 .. length -> Nat] /\ Q[0] = 0
      BY <1>2, <1>3, <1>4
    <3> HIDE DEF Q
    <3>2. QED
      BY <2>7, <2>8, <3>1 DEF Sums
  <2>10. Tokens(working) = Q[length] /\ Tokens(suffix) = P[length]
    <3> HIDE DEF Q
    <3>1. QED
      BY <1>1, <1>2, <2>6, <2>7, <2>9, TokensAreSums
  <2>11. Q[length] = P[length] + condensed.size /\ P[length] \in Nat
    BY <1>2, <1>3, <2>1
  <2>12. QED
    BY <1>4, <2>4, <2>10, <2>11
<1>6. CASE ~(suffix # <<>> /\ suffix[1].kind = "user")
  <2> DEFINE Q == [i \in 0 .. length + 1 |-> IF i = 0 THEN 0 ELSE P[i - 1] + condensed.size]
  <2>1. PICK working : working = ContentsWithSummary(condensed, suffix)
    OBVIOUS
  <2>2. working = <<condensed>> \o suffix
    BY <1>6, <2>1 DEF ContentsWithSummary
  <2>3. /\ working \in Seq(ContentSet) /\ Len(working) = Len(suffix) + 1 /\ working[1] = condensed
        /\ \A i \in 2 .. Len(working) : working[i] = suffix[i - 1]
    BY <2>2, InFront
  <2>4. Len(working) = length + 1
    BY <1>2, <2>3
  <2>5. ASSUME NEW i \in 1 .. length + 1 PROVE Q[i] = Q[i - 1] + working[i].size
    <3>1. i \in 0 .. length + 1 /\ i - 1 \in 0 .. length + 1 /\ i # 0 /\ i - 1 \in 0 .. length
      BY <1>2
    <3>2. Q[i] = P[i - 1] + condensed.size /\ P[i - 1] \in Nat
      BY <1>3, <3>1
    <3>3. CASE i = 1
      <4>1. Q[i - 1] = 0 /\ P[i - 1] = 0
        BY <1>3, <3>1, <3>3
      <4>2. working[i].size = condensed.size
        BY <2>3, <3>3
      <4>3. QED
        BY <1>4, <3>2, <4>1, <4>2
    <3>4. CASE i # 1
      <4>1. PICK j \in 1 .. length : j = i - 1
        BY <3>1, <3>4
      <4>2. P[j] = P[j - 1] + suffix[j].size /\ suffix[j].size \in Nat /\ P[j - 1] \in Nat
        BY <1>2, <1>3, SizesAreNumbers
      <4>3. Q[i - 1] = P[j - 1] + condensed.size
        BY <3>1, <3>4, <4>1
      <4>4. working[i] = suffix[j]
        <5>1. i \in 2 .. Len(working)
          BY <2>4, <3>4
        <5>2. QED
          BY <2>3, <4>1, <5>1
      <4>5. PICK a \in Nat, b \in Nat, w \in Nat :
              a = P[j - 1] /\ b = suffix[j].size /\ w = condensed.size
        BY <1>4, <4>2
      <4>6. Q[i] = (a + b) + w /\ Q[i - 1] = a + w /\ working[i].size = b
        BY <3>2, <4>1, <4>2, <4>3, <4>4, <4>5
      <4>7. QED
        BY <4>6
    <3>5. QED
      BY <3>3, <3>4
  <2>6. Sums(Q, working)
    <3>1. Q \in [0 .. length + 1 -> Nat] /\ Q[0] = 0
      BY <1>2, <1>3, <1>4
    <3> HIDE DEF Q
    <3>2. QED
      BY <2>4, <2>5, <3>1 DEF Sums
  <2>7. Tokens(working) = Q[length + 1] /\ Tokens(suffix) = P[length]
    <3> HIDE DEF Q
    <3>1. QED
      BY <1>1, <1>2, <2>3, <2>4, <2>6, TokensAreSums
  <2>8. Q[length + 1] = P[length] + condensed.size /\ P[length] \in Nat
    BY <1>2, <1>3
  <2>9. QED
    BY <1>4, <2>1, <2>7, <2>8
<1>7. QED
  BY <1>5, <1>6

(* Enough is cut that what is left fits the budget.                         *)
LEMMA CuttingFits ==
  ASSUME NEW contents \in Seq(ContentSet), contents # <<>>, NEW found \in BOOLEAN
  PROVE  Tokens(From(contents, CompactionCut(contents, found) + 1)) <= SuffixBudget
<1> DEFINE least(S) == CHOOSE n \in S : \A m \in S : n <= m
           fits == {n \in 0 .. Len(contents) : Tokens(From(contents, n + 1)) <= SuffixBudget}
           start == Larger(least(fits), IF found THEN 2 ELSE 1)
           safe == {Larger(start, Len(contents))} \cup
                     {n \in start .. Len(contents) : SafeBoundary(contents, n)}
<1>1. CompactionCut(contents, found) = Smaller(Len(contents), least(safe))
  BY DEF CompactionCut
<1>2. Len(contents) \in Nat /\ Len(contents) > 0
  OBVIOUS
<1>3. Len(contents) \in fits /\ fits \subseteq Nat
  <2>1. From(contents, Len(contents) + 1) = <<>>
    BY <1>2 DEF From
  <2>2. QED
    BY <1>2, <2>1, EmptyTokens, BudgetIsNumber
<1>4. PICK fit \in fits : fit = least(fits)
  <2> HIDE DEF fits
  <2>1. \E n \in fits : \A m \in fits : n <= m
    BY <1>3, LeastNumber
  <2>2. QED
    BY <2>1
<1>5. fit \in 0 .. Len(contents) /\ Tokens(From(contents, fit + 1)) <= SuffixBudget
  OBVIOUS
<1>6. start \in Nat /\ start >= fit
  <2> HIDE DEF fits, least
  <2>1. QED
    BY <1>2, <1>4, <1>5 DEF Larger
<1>7. safe \subseteq Nat /\ safe # {} /\ \A n \in safe : n >= fit
  <2> HIDE DEF start
  <2>1. QED
    BY <1>2, <1>5, <1>6 DEF Larger
<1>8. PICK n \in safe : n = least(safe)
  <2> HIDE DEF safe
  <2>1. \E n \in safe : \A m \in safe : n <= m
    BY <1>7, LeastNumber
  <2>2. QED
    BY <2>1
<1>9. n \in Nat /\ n >= fit
  <2> HIDE DEF safe, start
  <2>1. QED
    BY <1>7
<1>10. PICK cut \in fit .. Len(contents) : cut = CompactionCut(contents, found)
  <2> HIDE DEF safe, least
  <2>1. Smaller(Len(contents), n) \in fit .. Len(contents)
    BY <1>2, <1>5, <1>9 DEF Smaller
  <2>2. QED
    BY <1>1, <1>8, <2>1
<1>11. Tokens(From(contents, fit + 1)) \in Nat
       /\ Tokens(From(contents, cut + 1)) <= Tokens(From(contents, fit + 1))
  BY <1>5, <1>10, TokensShrink
<1>12. QED
  <2> HIDE DEF fits
  <2>1. PICK a, b : a \in Nat /\ a = Tokens(From(contents, fit + 1)) /\ b = Tokens(From(contents, cut + 1))
    BY <1>11
  <2>2. b \in Nat
    BY <1>2, <1>5, <1>10, <2>1, TokensShrink
  <2>3. b <= a /\ a <= SuffixBudget
    BY <1>5, <1>11, <2>1
  <2>4. b <= SuffixBudget
    BY <2>1, <2>2, <2>3, BudgetIsNumber
  <2>5. QED
    BY <1>10, <2>1, <2>4

(* What a compaction leaves behind its cut in the original contents is what *)
(* it leaves in the shortened ones.                                         *)
LEMMA SuffixIsKept ==
  ASSUME NEW contents \in Seq(ContentSet), NEW working \in Seq(ContentSet),
         NEW n \in 1 .. Len(contents), NEW inserted \in {0, 1},
         Renumbered(working, contents, n, inserted),
         NEW cut \in 1 .. Len(working), NEW count \in 1 .. Len(contents), count = n + cut - inserted
  PROVE  From(contents, count + 1) = From(working, cut + 1)
<1>1. PICK length \in Nat, left \in Nat : length = Len(contents) /\ left = Len(working)
  OBVIOUS
<1>2. left = length - n + inserted
  BY <1>1 DEF Renumbered
<1>3. left - cut = length - count
  BY <1>2
<1>4. PICK s \in Seq(ContentSet) :
        /\ s = From(contents, count + 1) /\ Len(s) = length - count
        /\ \A i \in 1 .. length - count : s[i] = contents[count + i]
  <2>1. count \in 0 .. Len(contents)
    BY <1>1
  <2>2. /\ From(contents, count + 1) \in Seq(ContentSet)
        /\ Len(From(contents, count + 1)) = Len(contents) - count
        /\ \A i \in 1 .. Len(contents) - count : From(contents, count + 1)[i] = contents[count + i]
    BY <2>1, SuffixIs
  <2>3. QED
    BY <1>1, <2>2
<1>5. PICK t \in Seq(ContentSet) :
        /\ t = From(working, cut + 1) /\ Len(t) = left - cut
        /\ \A i \in 1 .. left - cut : t[i] = working[cut + i]
  <2>1. cut \in 0 .. Len(working)
    BY <1>1
  <2>2. /\ From(working, cut + 1) \in Seq(ContentSet)
        /\ Len(From(working, cut + 1)) = Len(working) - cut
        /\ \A i \in 1 .. Len(working) - cut : From(working, cut + 1)[i] = working[cut + i]
    BY <2>1, SuffixIs
  <2>3. QED
    BY <1>1, <2>2
<1>6. ASSUME NEW i \in 1 .. length - count PROVE s[i] = t[i]
  <2>1. PICK j \in 2 .. left : j = cut + i
    <3>1. i \in 1 .. left - cut /\ cut \in Nat /\ cut >= 1
      BY <1>3
    <3>2. QED
      BY <1>1, <3>1
  <2>2. n + j - inserted = count + i
    BY <1>1, <2>1
  <2>3. working[j] = contents[n + j - inserted]
    BY <1>1 DEF Renumbered
  <2>4. t[i] = working[j]
    BY <1>3, <1>5, <2>1
  <2>5. s[i] = contents[count + i]
    BY <1>4
  <2>6. QED
    BY <2>2, <2>3, <2>4, <2>5
<1>7. s = t
  BY <1>3, <1>4, <1>5, <1>6, SameContents
<1>8. QED
  BY <1>4, <1>5, <1>7

(* After a compaction a request has the tokens of a summary and at most the  *)
(* budget of what follows it.                                               *)
LEMMA CompactedFits ==
  ASSUME CheckpointInv, NEW size \in Nat, NEW contents, Sendable(contents, size),
         Summarized(contents)
  PROVE  \E tokens \in SummarySizes, left \in Nat :
           left <= SuffixBudget /\ Tokens(request') = tokens + left
<1>1. PICK working, inserted, cut, count :
        /\ working = Checkpointed(contents)
        /\ inserted = Len(working) - (Len(contents) - checkpoint.count)
        /\ cut = CompactionCut(working, Applies(contents))
        /\ count = IF Applies(contents) THEN Advanced(cut, inserted) ELSE cut
  OBVIOUS
<1>2. PICK tokens, condensed :
        /\ tokens \in SummarySizes
        /\ checkpoint'.summary = condensed
        /\ condensed = [kind |-> "user", call |-> 0, size |-> tokens,
                        of |-> UNION {working[i].of : i \in 1 .. cut}]
  BY <1>1 DEF Summarized
<1>3. request' = ContentsWithSummary(condensed, From(contents, count + 1))
  BY <1>1, <1>2 DEF Summarized
<1>4. contents \in Seq(ContentSet) /\ contents # <<>>
  BY DEF Sendable
<1>5. /\ working \in Seq(ContentSet) /\ cut \in 1 .. Len(working)
      /\ count \in 1 .. Len(contents)
      /\ From(contents, count + 1) = From(working, cut + 1)
      /\ Tokens(From(working, cut + 1)) <= SuffixBudget
  <2>1. CASE Applies(contents)
    <3>1. PICK n \in 1 .. Len(contents) : n = checkpoint.count
      BY <2>1, CheckpointStandsForContents
    <3>2. Sendable(working, size)
      BY <1>1, <2>1, CheckpointStandsForContents
    <3>3. PICK added \in {0, 1} : Renumbered(working, contents, n, added)
      BY <1>1, <2>1, <3>1, CheckpointStandsForContents
    <3>4. working \in Seq(ContentSet) /\ working # <<>>
      BY <3>2 DEF Sendable
    <3>5. cut = CompactionCut(working, TRUE)
      BY <1>1, <2>1
    <3>6. cut \in 1 .. Len(working) /\ Tokens(From(working, cut + 1)) <= SuffixBudget
      BY <3>4, <3>5, Cutting, CuttingFits
    <3>7. PICK length \in Nat, l \in Nat : length = Len(contents) /\ l = Len(working)
      BY <1>4, <3>4
    <3>8. l = length - n + added
      BY <3>3, <3>7 DEF Renumbered
    <3>9. count = n + cut - added
      <4>1. inserted = added
        BY <1>1, <3>1, <3>7, <3>8
      <4>2. QED
        BY <1>1, <2>1, <3>1, <4>1 DEF Advanced
    <3>10. count \in 1 .. Len(contents)
      BY <3>6, <3>7, <3>8, <3>9
    <3>11. From(contents, count + 1) = From(working, cut + 1)
      <4>1. contents \in Seq(ContentSet) /\ working \in Seq(ContentSet) /\ cut \in 1 .. Len(working)
        BY <1>4, <3>4, <3>6
      <4>2. n \in 1 .. Len(contents) /\ added \in {0, 1} /\ Renumbered(working, contents, n, added)
        BY <3>3
      <4>3. QED
        BY ONLY <3>9, <3>10, <4>1, <4>2, SuffixIsKept, ZenonT(200)
    <3>12. QED
      BY <3>4, <3>6, <3>10, <3>11
  <2>2. CASE ~Applies(contents)
    <3>1. working = contents /\ cut = CompactionCut(contents, FALSE) /\ count = cut
      <4>1. working = contents
        BY <1>1, <2>2 DEF Checkpointed
      <4>2. Applies(contents) = FALSE
        BY <2>2 DEF Applies
      <4>3. QED
        BY <1>1, <2>2, <4>1, <4>2
    <3>2. QED
      BY <1>4, <3>1, Cutting, CuttingFits
  <2>3. QED
    BY <2>1, <2>2
<1>6. PICK suffix \in Seq(ContentSet) :
        suffix = From(contents, count + 1) /\ Tokens(suffix) \in Nat /\ Tokens(suffix) <= SuffixBudget
  <2>1. count \in 0 .. Len(contents) /\ count \in count .. Len(contents)
    BY <1>5
  <2>2. From(contents, count + 1) \in Seq(ContentSet)
    BY <1>4, <2>1, SuffixIs
  <2>3. Tokens(From(contents, count + 1)) \in Nat
    BY <1>4, <2>1, TokensShrink
  <2>4. QED
    BY <1>5, <2>2, <2>3
<1>7. condensed \in ContentSet /\ condensed.size = tokens
  <2>1. \A i \in 1 .. cut : working[i] \in ContentSet
    <3>1. \A i \in 1 .. Len(working) : working[i] \in ContentSet
      BY <1>5, ElementOfSeq
    <3>2. QED
      BY <1>5, <3>1
  <2>2. \A c \in ContentSet : c.of \subseteq Nat
    BY DEF ContentSet
  <2>3. PICK of \in SUBSET Nat : of = UNION {working[i].of : i \in 1 .. cut}
    BY <2>1, <2>2
  <2>4. tokens \in Nat
    BY <1>2, CompactionAssumption
  <2>5. QED
    BY <1>2, <2>3, <2>4 DEF ContentSet, ContentKinds
<1>8. Tokens(request') = condensed.size + Tokens(suffix)
  BY <1>3, <1>6, <1>7, TokensWithSummary
<1>9. QED
  BY <1>2, <1>6, <1>7, <1>8

(* The numbers: what fits the budget is below the trigger.                   *)
LEMMA BudgetIsBelowTrigger ==
  ASSUME SummarySizes \subseteq 1 .. SummaryTokens, Fixed + SummaryTokens < Trigger,
         NEW tokens \in SummarySizes, NEW left \in Nat, left <= SuffixBudget
  PROVE  Fixed + (tokens + left) < Trigger
<1>1. PICK budget \in Nat : budget = InputBudget
  <2>1. Window - Reserve \in Int
    BY CompactionAssumption
  <2>2. QED
    BY <2>1 DEF InputBudget, Larger
<1>2. PICK low \in Int, high \in Int :
        low = Percentage(budget, 30) /\ high = Percentage(budget, 90)
  BY DEF Percentage
<1>3. low > 0 => low < high
  <2>1. PICK q \in Nat, r \in 0 .. 99 : q = budget \div 100 /\ r = budget % 100
    OBVIOUS
  <2>2. low = q * 30 + (r * 30) \div 100 /\ high = q * 90 + (r * 90) \div 100
    BY <1>2, <2>1 DEF Percentage
  <2>3. PICK a \in Nat, b \in Nat : a = (r * 30) \div 100 /\ b = (r * 90) \div 100
    BY <2>1
  <2>4. 100 * a <= r * 30 /\ r * 30 < 100 * a + 100 /\ 100 * b <= r * 90 /\ r * 90 < 100 * b + 100
    BY <2>1, <2>3
  <2>5. b >= a /\ (a > 0 => b > a)
    BY <2>1, <2>3, <2>4
  <2>6. QED
    BY <2>1, <2>2, <2>3, <2>5
<1>4. PICK fixed \in Nat, summaries \in Int :
        fixed = Fixed /\ summaries = SummaryTokens /\ tokens \in 1 .. summaries
  <2>1. SummaryTokens \in Int
    <3>1. Window \in Nat /\ Window \div 100 \in Int /\ Window \div 4 \in Int
      BY CompactionAssumption
    <3>2. Larger(Window \div 100, 512) \in Int /\ Larger(Window \div 4, 1) \in Int
      BY <3>1 DEF Larger
    <3>3. Smaller(Larger(Window \div 100, 512), 8192) \in Int
      BY <3>2 DEF Smaller
    <3>4. QED
      BY <3>2, <3>3 DEF SummaryTokens, Smaller
  <2>2. QED
    BY <2>1, CompactionAssumption
<1>5. Trigger = high /\ SuffixBudget = Larger(low - fixed - summaries, 0)
  BY <1>1, <1>2, <1>4 DEF Trigger, SuffixBudget
<1>6. fixed + summaries < high
  BY <1>4, <1>5
<1>7. left <= IF low - fixed - summaries < 0 THEN 0 ELSE low - fixed - summaries
  BY <1>5 DEF Larger
<1>8. CASE low - fixed - summaries > 0
  <2>1. fixed + (tokens + left) <= low /\ low > 0
    BY <1>4, <1>7, <1>8
  <2>2. low < high
    BY <1>3, <2>1
  <2>3. fixed + (tokens + left) < high
    BY <1>4, <2>1, <2>2
  <2>4. QED
    BY <1>4, <1>5, <2>3
<1>9. CASE ~(low - fixed - summaries > 0)
  <2>1. left = 0
    BY <1>4, <1>7, <1>9
  <2>2. QED
    BY <1>4, <1>5, <1>6, <2>1
<1>10. QED
  BY <1>8, <1>9

(* If a summary keeps the limit it is generated with, and what a request     *)
(* always has leaves room for it, then a compaction does not trigger the     *)
(* next one, whatever the sizes of the contents are.                         *)
THEOREM CompactionIsEnough ==
  ASSUME SummarySizes \subseteq 1 .. SummaryTokens, Fixed + SummaryTokens < Trigger
  PROVE  CompactionSpec => CompactionSuffices
<1> DEFINE Suffices == (turn = "ready" /\ turn' = "sent" /\ request' # Original)
                         => InputTokens(request') < Trigger
<1>1. CompactionInv /\ [CompactionNext]_compactionVars => [Suffices]_compactionVars
  <2> SUFFICES ASSUME CompactionInv, CompactionNext,
                      turn = "ready", turn' = "sent", request' # Original
               PROVE  InputTokens(request') < Trigger
    OBVIOUS
  <2>1. BeforeModel
    BY DEF CompactionNext, StartTurn, BeforeModelFails, Answer, ToolResult, TurnInterrupted,
           Rejected, RejectedHopelessly
  <2>2. CASE Reuse(Original)
    BY <2>2 DEF Reuse
  <2>3. CASE Summarized(Original)
    <3>1. HistoryInv /\ CheckpointInv
      BY DEF CompactionInv
    <3>2. PICK size, contents : size \in Nat /\ contents = Original /\ Sendable(contents, size)
      BY <3>1, OriginalIsSendable, SMTT(30) DEF HistoryInv
    <3>3. PICK tokens \in SummarySizes, left \in Nat :
            left <= SuffixBudget /\ Tokens(request') = tokens + left
      BY <2>3, <3>1, <3>2, CompactedFits
    <3>4. QED
      BY <3>3, BudgetIsBelowTrigger DEF InputTokens
  <2>4. QED
    BY <2>1, <2>2, <2>3 DEF BeforeModel
<1>2. QED
  BY <1>1, CompactionInvariant, PTL DEF CompactionSpec, CompactionSuffices

-----------------------------------------------------------------------------
(* The pages.                                                              *)

Items == [delegation : DelegationIds \cup {Plain}, call : BOOLEAN]

(* A delegation begins with its call, what is plain is no call, and what has *)
(* been loaded ends where the first page did.                               *)
PagesInv ==
  /\ items \in Seq(Items) /\ Len(items) <= MaxItems
  /\ \A i \in 1 .. Len(items) : items[i].call => items[i].delegation # Plain
  /\ \A i \in 1 .. Len(items) : items[i].delegation # Plain =>
       \E j \in 1 .. i : items[j].call /\ items[j].delegation = items[i].delegation
  /\ cursor \in -1 .. Len(items)
  /\ loaded \in Seq(Items)
  /\ IF cursor = -1 THEN loaded = <<>> ELSE cursor + Len(loaded) <= Len(items)
  /\ page[1] \in Nat \ {0} /\ page[2] \in 0 .. Len(items)
  /\ page = <<page[1], page[2]>>
  /\ PagesKeepDelegations

(* A round never moves the start of a page forward.                         *)
LEMMA RoundsGoBack ==
  ASSUME PagesInv, NEW end \in 1 .. Len(items), NEW start \in 0 .. end - 1
  PROVE  /\ Expand(start, end) \in 0 .. start
         /\ Expand(start, end) = start =>
              \A i \in start + 1 .. end : \A j \in CallOf(items[i].delegation, end) : j > start
<1> DEFINE calls == UNION {CallOf(items[i].delegation, end) : i \in start + 1 .. end}
           starts == {start} \cup {i - 1 : i \in calls}
<1>1. calls \subseteq 1 .. end
  BY DEF CallOf
<1>2. starts \subseteq Nat /\ starts # {}
  BY <1>1
<1>3. PICK s \in starts : \A t \in starts : s <= t
  <2> HIDE DEF starts
  <2>1. QED
    BY <1>2, LeastNumber
<1>4. Expand(start, end) \in starts /\ \A t \in starts : Expand(start, end) <= t
  <2> HIDE DEF starts
  <2>1. Expand(start, end) = CHOOSE u \in starts : \A t \in starts : u <= t
    BY DEF Expand, starts
  <2>2. QED
    BY <1>3, <2>1
<1>5. Expand(start, end) \in 0 .. start
  BY <1>2, <1>4
<1>6. ASSUME Expand(start, end) = start,
             NEW i \in start + 1 .. end, NEW j \in CallOf(items[i].delegation, end)
      PROVE  j > start
  <2>1. j - 1 \in starts
    OBVIOUS
  <2>2. j \in 1 .. end
    BY DEF CallOf
  <2> HIDE DEF starts
  <2>3. start <= j - 1
    BY <1>4, <1>6, <2>1
  <2>4. QED
    BY <2>2, <2>3
<1>7. QED
  BY <1>5, <1>6

(* As many rounds as there may be items reach the last one: each but that  *)
(* moves the start at least by one.                                        *)
LEMMA RoundsSuffice ==
  ASSUME PagesInv, NEW end \in 1 .. Len(items), NEW start \in 0 .. end - 1
  PROVE  /\ Expanded(start, end) \in 0 .. start
         /\ Expand(Expanded(start, end), end) = Expanded(start, end)
<1> DEFINE Starts == 0 .. start
           nextOf == [n \in Nat |-> [s \in Starts |-> Expand(s, end)]]
           round(f) == [n \in 0 .. MaxItems |-> IF n = 0 THEN start ELSE Expand(f[n - 1], end)]
           rounds[n \in 0 .. MaxItems] == IF n = 0 THEN start ELSE Expand(rounds[n - 1], end)
<1>1. MaxItems \in Nat /\ Len(items) \in Nat /\ Len(items) <= MaxItems /\ end \in Nat /\ start \in Nat
  BY PagesAssumption DEF PagesInv
<1>2. ASSUME NEW s \in Starts PROVE Expand(s, end) \in 0 .. s
  <2>1. s \in 0 .. end - 1
    BY <1>1
  <2>2. QED
    BY <2>1, RoundsGoBack
<1>3. IsStep(nextOf, Starts)
  <2>1. ASSUME NEW s \in Starts PROVE Expand(s, end) \in Starts
    <3>1. Expand(s, end) \in 0 .. s
      BY <1>2
    <3>2. QED
      BY <1>1, <3>1
  <2>2. QED
    BY <2>1 DEF IsStep
<1>4. PICK f \in [0 .. MaxItems -> Starts] :
        f[0] = start /\ \A n \in 0 + 1 .. MaxItems : f[n] = nextOf[n][f[n - 1]]
  <2>1. start \in Starts /\ 0 \in Nat /\ MaxItems \in Nat /\ 0 <= MaxItems
    BY <1>1
  <2> HIDE DEF nextOf, Starts
  <2>2. PICK f : Recurs(f, Starts, start, nextOf, 0, MaxItems)
    BY <1>3, <2>1, RecursionExists
  <2>3. QED
    BY <2>2 DEF Recurs
<1>5. f = round(f)
  <2>1. ASSUME NEW n \in 0 .. MaxItems, n # 0 PROVE f[n] = Expand(f[n - 1], end)
    <3>1. n - 1 \in 0 .. MaxItems /\ n \in Nat /\ n \in 0 + 1 .. MaxItems
      BY <1>1, <2>1
    <3>2. f[n - 1] \in Starts
      BY <1>4, <3>1
    <3> HIDE DEF Starts
    <3>3. QED
      BY <1>4, <3>1, <3>2
  <2> HIDE DEF nextOf, Starts
  <2>2. QED
    BY <1>4, <2>1
<1>6. rounds = round(rounds)
  <2> DEFINE found == CHOOSE g : g = round(g)
  <2>1. found = round(found)
    <3> HIDE DEF round
    <3>1. QED
      BY <1>5
  <2>2. rounds = found
    OBVIOUS
  <2>3. QED
    BY <2>1, <2>2
<1>7. Expanded(start, end) = rounds[MaxItems]
  BY DEF Expanded
<1> HIDE DEF rounds
<1>8. rounds[0] = start /\ \A n \in 1 .. MaxItems : rounds[n] = Expand(rounds[n - 1], end)
  <2>1. rounds[0] = start
    BY <1>1, <1>6
  <2>2. ASSUME NEW n \in 1 .. MaxItems PROVE rounds[n] = Expand(rounds[n - 1], end)
    <3>1. n \in 0 .. MaxItems /\ n # 0
      BY <1>1
    <3>2. QED
      BY <1>6, <3>1
  <2>3. QED
    BY <2>1, <2>2
<1> DEFINE Good(n) == /\ rounds[n] \in Starts
                      /\ rounds[n] <= start - n \/ Expand(rounds[n], end) = rounds[n]
           Bad == {n \in 0 .. MaxItems : ~ Good(n)}
<1>9. Bad = {}
  <2> SUFFICES ASSUME Bad # {} PROVE FALSE
    OBVIOUS
  <2>1. PICK n \in Bad : \A m \in Bad : n <= m
    <3>1. Bad \subseteq Nat
      BY <1>1
    <3> HIDE DEF Bad
    <3>2. QED
      BY <3>1, LeastNumber
  <2>2. n # 0
    BY <1>1, <1>8
  <2>3. n \in 1 .. MaxItems /\ n - 1 \in 0 .. MaxItems /\ n - 1 \notin Bad
    <3> HIDE DEF Good
    <3>1. n \in 1 .. MaxItems /\ n - 1 \in 0 .. MaxItems
      BY <1>1, <2>1, <2>2
    <3>2. QED
      BY <2>1, <3>1
  <2>4. Good(n - 1)
    BY <2>3
  <2>5. PICK s \in Starts : s = rounds[n - 1] /\ (s <= start - (n - 1) \/ Expand(s, end) = s)
    BY <2>4
  <2>6. PICK t \in 0 .. s : t = Expand(s, end) /\ rounds[n] = t
    BY <1>2, <1>8, <2>3, <2>5
  <2>7. Good(n)
    <3>1. t \in Starts
      BY <1>1
    <3>2. CASE t = s
      BY <2>5, <2>6, <3>1, <3>2
    <3>3. CASE t # s
      <4>1. t <= start - n
        <5>1. n \in Int /\ s \in Int /\ t \in Int /\ t < s
          BY <1>1, <2>3, <3>3
        <5>2. s <= start - (n - 1)
          BY <2>5, <2>6, <3>3
        <5>3. QED
          BY ONLY <1>1, <5>1, <5>2
      <4>2. QED
        BY <2>6, <3>1, <4>1
    <3>4. QED
      BY <3>2, <3>3
  <2>8. QED
    BY <2>1, <2>7
<1>10. Good(MaxItems)
  <2> HIDE DEF Good
  <2>1. MaxItems \in 0 .. MaxItems
    BY <1>1
  <2>2. QED
    BY <1>9, <2>1
<1>11. PICK last \in Starts : last = rounds[MaxItems]
  BY <1>10
<1>12. last <= start - MaxItems \/ Expand(last, end) = last
  BY <1>10, <1>11
<1>13. Expand(last, end) = last
  BY <1>1, <1>12
<1>14. QED
  BY <1>7, <1>11, <1>13

(* The item that is appended is plain, a call, or has its call before it.   *)
Appends(item) ==
  /\ items' = Append(items, item)
  /\ item.call => item.delegation # Plain
  /\ item.delegation # Plain => item.call \/ \E j \in 1 .. Len(items) :
                             items[j].call /\ items[j].delegation = item.delegation

(* An item more leaves what is known of those before.                       *)
LEMMA PagesAppend == PagesInv /\ AppendItem => PagesInv'
<1> SUFFICES ASSUME PagesInv, AppendItem PROVE PagesInv'
  OBVIOUS
<1>1. PICK item \in Items : Appends(item)
  <2>1. ASSUME NEW d \in DelegationIds,
               items' = Append(items, [delegation |-> d, call |-> CallOf(d, Len(items)) = {}])
        PROVE  \E item \in Items : Appends(item)
    <3>1. d # Plain
      BY PagesAssumption
    <3>2. PICK b \in BOOLEAN : b = (CallOf(d, Len(items)) = {})
      BY Zenon
    <3>3. PICK item \in Items : item = [delegation |-> d, call |-> b]
      BY DEF Items
    <3>4. items' = Append(items, item)
      BY <2>1, <3>2, <3>3
    <3>5. ~b => \E j \in 1 .. Len(items) : items[j].call /\ items[j].delegation = d
      BY <3>2 DEF CallOf
    <3>6. item.delegation = d /\ item.call = b
      BY <3>3
    <3>7. QED
      BY <3>1, <3>4, <3>5, <3>6, Zenon DEF Appends
  <2>2. CASE items' = Append(items, [delegation |-> Plain, call |-> FALSE])
    <3>1. PICK item \in Items : item = [delegation |-> Plain, call |-> FALSE]
      BY DEF Items
    <3>2. items' = Append(items, item) /\ item.delegation = Plain /\ ~item.call
      BY <2>2, <3>1
    <3>3. QED
      BY <3>2, Zenon DEF Appends
  <2>3. QED
    BY <2>1, <2>2, Zenon DEF AppendItem
<1>2. /\ items' \in Seq(Items) /\ Len(items') = Len(items) + 1 /\ Len(items) \in Nat
      /\ \A i \in 1 .. Len(items) : items'[i] = items[i]
      /\ items'[Len(items) + 1] = item
  BY <1>1 DEF PagesInv, Appends
<1>3. Len(items') <= MaxItems /\ MaxItems \in Nat
  BY <1>2, PagesAssumption DEF AppendItem
<1>4. \A i \in 1 .. Len(items') : items'[i].call => items'[i].delegation # Plain
  BY <1>1, <1>2 DEF PagesInv, Appends
<1>5. ASSUME NEW i \in 1 .. Len(items'), items'[i].delegation # Plain
      PROVE  \E j \in 1 .. i : items'[j].call /\ items'[j].delegation = items'[i].delegation
  <2>1. CASE i \in 1 .. Len(items)
    <3>1. items'[i] = items[i] /\ items[i].delegation # Plain
      BY <1>2, <1>5, <2>1
    <3>2. PICK j \in 1 .. i : items[j].call /\ items[j].delegation = items[i].delegation
      BY <2>1, <3>1 DEF PagesInv
    <3>3. items'[j] = items[j]
      BY <1>2, <2>1, <3>2
    <3>4. QED
      BY <3>1, <3>2, <3>3
  <2>2. CASE i = Len(items) + 1
    BY <1>1, <1>2, <1>5, <2>2 DEF Appends
  <2>3. QED
    BY <1>2, <2>1, <2>2
<1>6. loaded' = loaded /\ cursor' = cursor /\ page' = page
  BY DEF AppendItem
<1>7. PagesKeepDelegations'
  <2>1. loaded = SubSeq(items, cursor + 1, cursor + Len(loaded)) \/ cursor = -1
    BY DEF PagesInv, PagesKeepDelegations
  <2>2. loaded' = SubSeq(items', cursor' + 1, cursor' + Len(loaded')) \/ cursor' = -1
    <3>1. CASE cursor = -1
      BY <1>6, <3>1
    <3>2. CASE cursor # -1
      <4>1. cursor \in Nat /\ Len(loaded) \in Nat /\ cursor + Len(loaded) <= Len(items)
        BY <3>2 DEF PagesInv
      <4>2. SubSeq(items', cursor + 1, cursor + Len(loaded)) = SubSeq(items, cursor + 1, cursor + Len(loaded))
        <5>1. items \in Seq(Items)
          BY DEF PagesInv
        <5> DEFINE last == cursor + Len(loaded)
        <5>2. last \in Nat /\ last <= Len(items)
          BY <4>1
        <5> HIDE DEF last
        <5>3. \A i \in cursor + 1 .. last : items'[i] = items[i]
          BY <1>2, <4>1, <5>2
        <5>4. SubSeq(items', cursor + 1, last) = SubSeq(items, cursor + 1, last)
          BY <1>2, <4>1, <5>1, <5>2, <5>3
        <5>5. QED
          BY <5>4 DEF last
      <4>3. QED
        BY <1>6, <2>1, <3>2, <4>2
    <3>3. QED
      BY <3>1, <3>2
  <2>3. ASSUME NEW i \in page[1] .. page[2], items'[i].delegation # Plain
        PROVE  \E j \in page[1] .. i : items'[j].call /\ items'[j].delegation = items'[i].delegation
    <3>1. i \in 1 .. Len(items) /\ page[1] \in Nat \ {0} /\ items'[i] = items[i]
      BY <1>2 DEF PagesInv
    <3>2. PICK j \in page[1] .. i : items[j].call /\ items[j].delegation = items[i].delegation
      BY <2>3, <3>1 DEF PagesInv, PagesKeepDelegations
    <3>3. j \in 1 .. Len(items)
      BY <1>2, <3>1, <3>2
    <3>4. QED
      BY <1>2, <3>1, <3>2, <3>3
  <2>4. QED
    BY <1>6, <2>2, <2>3 DEF PagesKeepDelegations
<1>8. QED
  BY <1>2, <1>3, <1>4, <1>5, <1>6, <1>7 DEF PagesInv

(* A page starts at the call of everything that is on it.                   *)
LEMMA PagesLoad == PagesInv /\ LoadPage => PagesInv'
<1> SUFFICES ASSUME PagesInv, LoadPage PROVE PagesInv'
  OBVIOUS
<1>1. PICK end : end = IF cursor = -1 THEN Len(items) ELSE cursor
  OBVIOUS
<1>2. Len(items) \in Nat /\ end \in 1 .. Len(items) /\ items' = items /\ items \in Seq(Items)
  BY <1>1 DEF PagesInv, LoadPage
<1>3. PICK first : first = IF end > Limit THEN end - Limit ELSE 0
  OBVIOUS
<1>4. first \in 0 .. end - 1
  BY <1>2, <1>3, PagesAssumption
<1>5. PICK start \in 0 .. first : start = Expanded(first, end) /\ Expand(start, end) = start
  BY <1>2, <1>4, RoundsSuffice
<1>6. start \in 0 .. end - 1 /\ start \in Nat /\ end \in Nat
  BY <1>2, <1>4, <1>5
<1>7. page' = <<start + 1, end>> /\ cursor' = start /\ loaded' = SubSeq(items, start + 1, end) \o loaded
  BY <1>1, <1>3, <1>5 DEF LoadPage
<1>8. page'[1] = start + 1 /\ page'[2] = end
  BY <1>7
<1>9. PICK part \in Seq(Items) : /\ part = SubSeq(items, start + 1, end) /\ Len(part) = end - start
                                 /\ \A i \in 1 .. end - start : part[i] = items[start + i]
  <2>1. SubSeq(items, start + 1, end) \in Seq(Items)
    BY <1>2, <1>6
  <2>2. Len(SubSeq(items, start + 1, end)) = end - start
    BY <1>2, <1>6
  <2>3. \A i \in 1 .. end - start : SubSeq(items, start + 1, end)[i] = items[start + i]
    BY <1>2, <1>6
  <2>4. QED
    BY <2>1, <2>2, <2>3
<1>10. PICK rest \in Seq(Items) :
         /\ rest = loaded /\ Len(rest) \in Nat /\ end + Len(rest) <= Len(items)
         /\ \A i \in 1 .. Len(rest) : rest[i] = items[end + i]
  <2>1. loaded \in Seq(Items) /\ Len(loaded) \in Nat
    BY DEF PagesInv
  <2>2. CASE cursor = -1
    <3>1. loaded = <<>>
      BY <2>2 DEF PagesInv
    <3>2. Len(loaded) = 0
      BY <3>1
    <3>3. end + Len(loaded) <= Len(items) /\ 1 .. Len(loaded) = {}
      BY <1>2, <3>2
    <3>4. QED
      BY <2>1, <3>3
  <2>3. CASE cursor # -1
    <3>1. end = cursor /\ end + Len(loaded) <= Len(items)
      BY <1>1, <2>3 DEF PagesInv
    <3>2. loaded = SubSeq(items, end + 1, end + Len(loaded))
      BY <2>3, <3>1 DEF PagesInv, PagesKeepDelegations
    <3>3. ASSUME NEW i \in 1 .. Len(loaded) PROVE loaded[i] = items[end + i]
      <4> DEFINE last == end + Len(loaded)
      <4>1. last \in Nat /\ end + 1 \in Nat /\ last <= Len(items) /\ i \in 1 .. last - end
        BY <1>2, <2>1, <3>1
      <4> HIDE DEF last
      <4>2. SubSeq(items, end + 1, last)[i] = items[end + i]
        BY <1>2, <4>1
      <4>3. QED
        BY <3>2, <4>2 DEF last
    <3>4. QED
      BY <2>1, <3>1, <3>3
  <2>4. QED
    BY <2>2, <2>3
<1>11. loaded' = part \o rest
  BY <1>7, <1>9, <1>10
<1>12. loaded' \in Seq(Items) /\ Len(loaded') = end - start + Len(rest)
  BY <1>9, <1>10, <1>11
<1>13. loaded' = SubSeq(items, start + 1, start + Len(loaded'))
  <2>1. \A i \in 1 .. Len(loaded') : loaded'[i] = items[start + i]
    BY <1>6, <1>9, <1>10, <1>11, <1>12
  <2>2. start + Len(loaded') <= Len(items)
    BY <1>6, <1>10, <1>12
  <2>3. PICK kept \in Seq(Items), m \in Nat :
          /\ kept = loaded' /\ m = Len(kept) /\ start + m <= Len(items)
          /\ \A i \in 1 .. m : kept[i] = items[start + i]
    BY <1>12, <2>1, <2>2
  <2> DEFINE read == SubSeq(items, start + 1, start + m)
  <2>4. read \in Seq(Items) /\ Len(read) = m /\ \A i \in 1 .. m : read[i] = items[start + i]
    BY <1>2, <1>6, <2>3
  <2>5. read = kept
    <3> HIDE DEF read
    <3>1. QED
      BY <2>3, <2>4, SeqEqual
  <2>6. QED
    BY <2>3, <2>5
<1>14. ASSUME NEW i \in start + 1 .. end, items[i].delegation # Plain
       PROVE  \E j \in start + 1 .. i : items[j].call /\ items[j].delegation = items[i].delegation
  <2>1. i \in 1 .. Len(items) /\ i \in Nat
    BY <1>2, <1>6
  <2>2. PICK j \in 1 .. i : items[j].call /\ items[j].delegation = items[i].delegation
    BY <1>14, <2>1 DEF PagesInv
  <2>3. j \in CallOf(items[i].delegation, end)
    BY <1>6, <2>1, <2>2 DEF CallOf
  <2>4. j > start
    BY <1>2, <1>5, <1>6, <2>3, RoundsGoBack
  <2>5. QED
    BY <1>6, <2>1, <2>2, <2>4
<1>15. PagesKeepDelegations'
  BY <1>2, <1>7, <1>8, <1>13, <1>14 DEF PagesKeepDelegations
<1>16. cursor' # -1 /\ cursor' \in -1 .. Len(items')
  BY <1>2, <1>6, <1>7
<1>17. cursor' + Len(loaded') <= Len(items')
  BY <1>2, <1>6, <1>7, <1>10, <1>12
<1>18. /\ items' \in Seq(Items) /\ Len(items') <= MaxItems
       /\ \A i \in 1 .. Len(items') : items'[i].call => items'[i].delegation # Plain
       /\ \A i \in 1 .. Len(items') : items'[i].delegation # Plain =>
            \E j \in 1 .. i : items'[j].call /\ items'[j].delegation = items'[i].delegation
  BY <1>2 DEF PagesInv
<1>19. page' = <<page'[1], page'[2]>> /\ page'[1] \in Nat \ {0} /\ page'[2] \in 0 .. Len(items')
  BY <1>2, <1>6, <1>7, <1>8
<1>20. QED
  BY <1>12, <1>15, <1>16, <1>17, <1>18, <1>19 DEF PagesInv

(* For any transcript, page size and interleaving of delegations: the pages *)
(* are consecutive, and no page shows a piece of a delegation without its    *)
(* call.                                                                   *)
THEOREM PagesAreWhole == PagesSpec => []PagesKeepDelegations
<1>1. PagesInit => PagesInv
  BY PagesAssumption DEF PagesInit, PagesInv, PagesKeepDelegations
<1>2. PagesInv /\ [PagesNext]_pagesVars => PagesInv'
  <2> SUFFICES ASSUME PagesInv, [PagesNext]_pagesVars PROVE PagesInv'
    OBVIOUS
  <2>1. CASE UNCHANGED pagesVars
    BY <2>1 DEF pagesVars, PagesInv, PagesKeepDelegations
  <2>2. QED
    BY <2>1, PagesAppend, PagesLoad DEF PagesNext
<1>3. PagesInv => PagesKeepDelegations
  BY DEF PagesInv
<1>4. QED
  BY <1>1, <1>2, <1>3, PTL DEF PagesSpec

-----------------------------------------------------------------------------
(* The session's log.  Calls are open until they are answered; other events *)
(* may come between a call and its answer only if they are of the gaps'      *)
(* kinds.                                                                  *)
Replies == {"results", "interrupted"}
LogKinds == Replies \cup {"user", "answer", "text", "calls", "child", "confirm", "compacted"}
LogEvents == [kind : LogKinds, calls : SUBSET Calls]

Follows(event, gaps, before, after) ==
  \/ event.kind \in Replies /\ after = before \ event.calls
  \/ event.kind = "calls" /\ before = {} /\ after = event.calls
  \/ event.kind \in gaps /\ after = before
  \/ event.kind \notin Replies \cup {"calls"} /\ before = {} /\ after = {}

Opens(open, events, gaps) ==
  /\ open \in [0 .. Len(events) -> SUBSET Calls] /\ open[0] = {}
  /\ \A i \in 1 .. Len(events) : Follows(events[i], gaps, open[i - 1], open[i])

Leaves(events, gaps, rest) ==
  /\ events \in Seq(LogEvents)
  /\ \E open : Opens(open, events, gaps) /\ open[Len(events)] = rest

(* An empty log leaves nothing open.                                        *)
LEMMA EmptyLeaves == ASSUME NEW gaps PROVE Leaves(<<>>, gaps, {})
<1>1. Opens([i \in 0 .. 0 |-> {}], <<>>, gaps)
  BY DEF Opens
<1>2. QED
  BY <1>1 DEF Leaves

(* One event more.                                                          *)
LEMMA AppendLeaves ==
  ASSUME NEW events, NEW gaps, NEW before, Leaves(events, gaps, before),
         NEW event \in LogEvents, NEW after \in SUBSET Calls, Follows(event, gaps, before, after)
  PROVE  Leaves(Append(events, event), gaps, after)
<1>1. PICK open : Opens(open, events, gaps) /\ open[Len(events)] = before
  BY DEF Leaves
<1>2. PICK n \in Nat : n = Len(events) /\ events \in Seq(LogEvents)
  BY DEF Leaves
<1> DEFINE longer == Append(events, event)
           next == [i \in 0 .. n + 1 |-> IF i = n + 1 THEN after ELSE open[i]]
<1>3. /\ longer \in Seq(LogEvents) /\ Len(longer) = n + 1 /\ longer[n + 1] = event
      /\ \A i \in 1 .. n : longer[i] = events[i]
  BY <1>2
<1>4. open \in [0 .. n -> SUBSET Calls] /\ open[0] = {} /\ open[n] = before
      /\ \A i \in 1 .. n : Follows(events[i], gaps, open[i - 1], open[i])
  BY <1>1, <1>2 DEF Opens
<1>5. next \in [0 .. n + 1 -> SUBSET Calls] /\ next[0] = {} /\ next[n + 1] = after
  BY <1>4
<1>6. ASSUME NEW i \in 1 .. n + 1 PROVE Follows(longer[i], gaps, next[i - 1], next[i])
  <2>1. i - 1 \in 0 .. n + 1 /\ i - 1 # n + 1 /\ i \in 0 .. n + 1
    BY <1>2
  <2>2. next[i - 1] = open[i - 1]
    BY <2>1
  <2>3. CASE i = n + 1
    BY <1>2, <1>3, <1>4, <1>5, <2>2, <2>3
  <2>4. CASE i # n + 1
    <3>1. i \in 1 .. n /\ next[i] = open[i]
      BY <1>2, <2>1, <2>4
    <3>2. QED
      BY <1>3, <1>4, <2>2, <3>1
  <2>5. QED
    BY <2>3, <2>4
<1>7. Opens(next, longer, gaps)
  <2> HIDE DEF next, longer
  <2>1. QED
    BY <1>3, <1>5, <1>6 DEF Opens
<1>8. QED
  BY <1>3, <1>5, <1>7 DEF Leaves

(* A log that follows one that leaves nothing open.                         *)
LEMMA JoinLeaves ==
  ASSUME NEW first, NEW second, NEW gaps, Leaves(first, gaps, {}), Leaves(second, gaps, {})
  PROVE  Leaves(first \o second, gaps, {})
<1>1. PICK a, b : /\ Opens(a, first, gaps) /\ a[Len(first)] = {}
                  /\ Opens(b, second, gaps) /\ b[Len(second)] = {}
  BY DEF Leaves
<1>2. PICK n \in Nat, m \in Nat : /\ n = Len(first) /\ m = Len(second)
                                  /\ first \in Seq(LogEvents) /\ second \in Seq(LogEvents)
  BY DEF Leaves
<1> DEFINE both == first \o second
           next == [i \in 0 .. n + m |-> IF i <= n THEN a[i] ELSE b[i - n]]
<1>3. /\ both \in Seq(LogEvents) /\ Len(both) = n + m
      /\ \A i \in 1 .. n : both[i] = first[i]
      /\ \A i \in n + 1 .. n + m : both[i] = second[i - n]
  BY <1>2
<1>4. /\ a \in [0 .. n -> SUBSET Calls] /\ a[0] = {} /\ a[n] = {}
      /\ \A i \in 1 .. n : Follows(first[i], gaps, a[i - 1], a[i])
      /\ b \in [0 .. m -> SUBSET Calls] /\ b[0] = {} /\ b[m] = {}
      /\ \A i \in 1 .. m : Follows(second[i], gaps, b[i - 1], b[i])
  BY <1>1, <1>2 DEF Opens
<1>5. next \in [0 .. n + m -> SUBSET Calls] /\ next[0] = {} /\ next[n + m] = {}
  <2>1. ASSUME NEW i \in 0 .. n + m PROVE (IF i <= n THEN a[i] ELSE b[i - n]) \in SUBSET Calls
    <3>1. CASE i <= n
      <4>1. i \in 0 .. n
        BY <1>2, <3>1
      <4>2. QED
        BY <1>4, <3>1, <4>1
    <3>2. CASE ~ (i <= n)
      <4>1. i - n \in 0 .. m
        BY <1>2, <3>2
      <4>2. b[i - n] \in SUBSET Calls
        BY <1>4, <4>1
      <4>3. QED
        BY <3>2, <4>2
    <3>3. QED
      BY <3>1, <3>2
  <2>2. 0 \in 0 .. n + m /\ n + m \in 0 .. n + m /\ 0 <= n
    BY <1>2
  <2>3. next[0] = {}
    BY <1>4, <2>2
  <2>4. CASE m = 0
    BY <1>2, <1>4, <2>1, <2>2, <2>3, <2>4
  <2>5. CASE m # 0
    <3>1. ~ (n + m <= n) /\ n + m - n = m
      BY <1>2, <2>5
    <3>2. next[n + m] = {}
      BY <1>4, <2>2, <3>1
    <3>3. QED
      BY <2>1, <2>3, <3>2
  <2>6. QED
    BY <2>4, <2>5
<1>6. ASSUME NEW i \in 1 .. n + m PROVE Follows(both[i], gaps, next[i - 1], next[i])
  <2>1. i - 1 \in 0 .. n + m /\ i \in 0 .. n + m /\ i \in Nat
    BY <1>2
  <2>2. CASE i <= n
    <3>1. i \in 1 .. n /\ i - 1 <= n
      BY <1>2, <2>1, <2>2
    <3>2. next[i] = a[i] /\ next[i - 1] = a[i - 1]
      BY <2>1, <2>2, <3>1
    <3>3. QED
      BY <1>3, <1>4, <3>1, <3>2
  <2>3. CASE ~ (i <= n)
    <3>1. i \in n + 1 .. n + m /\ i - n \in 1 .. m
      BY <1>2, <2>1, <2>3
    <3>2. next[i] = b[i - n]
      BY <2>1, <2>3
    <3>3. next[i - 1] = b[(i - n) - 1]
      <4>1. CASE i = n + 1
        <5>1. i - 1 = n /\ i - 1 <= n /\ (i - n) - 1 = 0
          BY <1>2, <4>1
        <5>2. QED
          BY <1>4, <2>1, <5>1
      <4>2. CASE i # n + 1
        <5>1. ~ (i - 1 <= n) /\ (i - 1) - n = (i - n) - 1
          BY <1>2, <2>1, <2>3, <4>2
        <5>2. QED
          BY <2>1, <5>1
      <4>3. QED
        BY <4>1, <4>2
    <3>4. QED
      BY <1>3, <1>4, <3>1, <3>2, <3>3
  <2>4. QED
    BY <2>2, <2>3
<1>7. Opens(next, both, gaps)
  <2> HIDE DEF next, both
  <2>1. QED
    BY <1>3, <1>5, <1>6 DEF Opens
<1>8. QED
  BY <1>3, <1>5, <1>7 DEF Leaves

(* The pieces of a log, joined from the first to the k-th.                   *)
Joins(joined, pieces, n) ==
  /\ joined \in [0 .. n -> Seq(LogEvents)] /\ joined[0] = <<>>
  /\ \A k \in 1 .. n : joined[k] = joined[k - 1] \o pieces[k]
  /\ FlattenSeq(pieces) = joined[n]

LEMMA Flattening ==
  ASSUME NEW n \in Nat, NEW pieces \in [1 .. n -> Seq(LogEvents)]
  PROVE  \E joined : Joins(joined, pieces, n)
<1> DEFINE S == Seq(LogEvents)
           nextOf == [k \in Nat |-> [s \in S |-> s \o (IF k \in 1 .. n THEN pieces[k] ELSE <<>>)]]
<1>1. IsStep(nextOf, S)
  <2>1. ASSUME NEW k \in Nat, NEW s \in S PROVE s \o (IF k \in 1 .. n THEN pieces[k] ELSE <<>>) \in S
    <3>1. CASE k \in 1 .. n
      <4>1. PICK t \in S : t = pieces[k]
        BY <3>1
      <4>2. QED
        BY <3>1, <4>1
    <3>2. CASE k \notin 1 .. n
      BY <3>2
    <3>3. QED
      BY <3>1, <3>2
  <2> HIDE DEF S
  <2>2. QED
    BY <2>1 DEF IsStep
<1>2. PICK joined : Recurs(joined, S, <<>>, nextOf, 0, n)
  <2>1. <<>> \in S /\ 0 \in Nat /\ 0 <= n
    OBVIOUS
  <2> HIDE DEF S, nextOf
  <2>2. QED
    BY <1>1, <2>1, RecursionExists
<1>3. joined \in [0 .. n -> S] /\ joined[0] = <<>>
  BY <1>2 DEF Recurs
<1>4. ASSUME NEW k \in 1 .. n PROVE joined[k] = joined[k - 1] \o pieces[k]
  <2>1. k \in Nat /\ k \in 0 + 1 .. n /\ k - 1 \in 0 .. n
    OBVIOUS
  <2>2. joined[k] = nextOf[k][joined[k - 1]]
    <3> HIDE DEF nextOf, S
    <3>1. QED
      BY <1>2, <2>1 DEF Recurs
  <2>3. joined[k - 1] \in S
    <3> HIDE DEF S
    <3>1. QED
      BY <1>3, <2>1
  <2> HIDE DEF S
  <2>4. QED
    BY <2>1, <2>2, <2>3
<1>5. Len(pieces) = n /\ (n = 0 => pieces = <<>>)
  OBVIOUS
<1>6. FlattenSeq(pieces) = joined[n]
  <2>1. CASE n = 0
    BY <1>3, <1>5, <2>1 DEF FlattenSeq
  <2>2. CASE n # 0
    <3> DEFINE round(f) == [i \in 1 .. Len(pieces) |-> IF i = 1 THEN pieces[i] ELSE f[i - 1] \o pieces[i]]
               flatten[i \in 1 .. Len(pieces)] == IF i = 1 THEN pieces[i] ELSE flatten[i - 1] \o pieces[i]
               known == [i \in 1 .. n |-> joined[i]]
               good == {i \in 0 .. n : i # 0 => flatten[i] = joined[i]}
    <3>1. FlattenSeq(pieces) = flatten[n]
      BY <1>5, <2>2 DEF FlattenSeq
    <3>2. joined[1] = pieces[1]
      <4>1. 1 \in 1 .. n /\ 1 - 1 = 0
        BY <2>2
      <4>2. PICK t \in Seq(LogEvents) : t = pieces[1]
        BY <4>1
      <4>3. <<>> \o t = t
        OBVIOUS
      <4>4. QED
        BY <1>3, <1>4, <4>1, <4>2, <4>3
    <3>3. known = round(known)
      <4>1. ASSUME NEW i \in 1 .. n
            PROVE  joined[i] = IF i = 1 THEN pieces[i] ELSE known[i - 1] \o pieces[i]
        <5>1. CASE i = 1
          BY <3>2, <5>1
        <5>2. CASE i # 1
          <6>1. i - 1 \in 1 .. n
            BY <5>2
          <6>2. QED
            BY <1>4, <5>2, <6>1
        <5>3. QED
          BY <5>1, <5>2
      <4>2. QED
        BY <1>5, <4>1
    <3>4. flatten = round(flatten)
      <4> DEFINE found == CHOOSE f : f = round(f)
      <4>1. found = round(found)
        <5> HIDE DEF round
        <5>1. QED
          BY <3>3
      <4>2. flatten = found
        OBVIOUS
      <4>3. QED
        BY <4>1, <4>2
    <3> HIDE DEF flatten
    <3>5. ASSUME NEW i \in 1 .. n, i - 1 \in good PROVE i \in good
      <4>1. flatten[i] = IF i = 1 THEN pieces[i] ELSE flatten[i - 1] \o pieces[i]
        BY <1>5, <3>4
      <4>2. CASE i = 1
        BY <3>2, <4>1, <4>2
      <4>3. CASE i # 1
        <5>1. i - 1 # 0
          BY <4>3
        <5>2. flatten[i - 1] = joined[i - 1]
          BY <3>5, <5>1
        <5>3. flatten[i] = joined[i]
          BY <1>4, <4>1, <4>3, <5>2
        <5>4. QED
          BY <5>3
      <4>4. QED
        BY <4>2, <4>3
    <3>6. 0 .. n \subseteq good
      <4>1. 0 \in good
        OBVIOUS
      <4> HIDE DEF good
      <4>2. QED
        BY <3>5, <4>1, UpTo
    <3>7. n \in good
      BY <3>6
    <3>8. QED
      BY <2>2, <3>1, <3>7
  <2>3. QED
    BY <2>1, <2>2
<1>7. QED
  BY <1>3, <1>4, <1>6 DEF Joins

-----------------------------------------------------------------------------
(* A log without events that may come between calls and answers leaves open  *)
(* what it left open.                                                       *)
LEMMA WithoutLeaves ==
  ASSUME NEW events, NEW gaps, Leaves(events, gaps, {}),
         NEW unseen, unseen \cap (Replies \cup {"calls"}) = {},
         NEW fewer, gaps \subseteq fewer \cup unseen
  PROVE  Leaves(Without(unseen, events), fewer, {})
<1>1. PICK open : Opens(open, events, gaps) /\ open[Len(events)] = {}
  BY DEF Leaves
<1>2. PICK n \in Nat : n = Len(events) /\ events \in Seq(LogEvents) /\ DOMAIN events = 1 .. n
  BY DEF Leaves
<1>3. /\ open \in [0 .. n -> SUBSET Calls] /\ open[0] = {} /\ open[n] = {}
      /\ \A i \in 1 .. n : Follows(events[i], gaps, open[i - 1], open[i])
  BY <1>1, <1>2 DEF Opens
<1> DEFINE pieces == [i \in 1 .. n |-> IF events[i].kind \in unseen THEN <<>> ELSE <<events[i]>>]
<1>4. \A i \in 1 .. n : events[i] \in LogEvents
  BY <1>2, ElementOfSeq
<1>5. pieces \in [1 .. n -> Seq(LogEvents)]
  <2>1. ASSUME NEW i \in 1 .. n
        PROVE  (IF events[i].kind \in unseen THEN <<>> ELSE <<events[i]>>) \in Seq(LogEvents)
    <3>1. PICK event \in LogEvents : event = events[i]
      BY <1>4
    <3>2. <<event>> \in Seq(LogEvents) /\ <<>> \in Seq(LogEvents)
      BY <3>1
    <3>3. QED
      BY <3>1, <3>2
  <2>2. QED
    BY <2>1
<1>6. PICK joined : Joins(joined, pieces, n)
  <2> HIDE DEF pieces
  <2>1. QED
    BY <1>2, <1>5, Flattening
<1>7. /\ joined \in [0 .. n -> Seq(LogEvents)] /\ joined[0] = <<>>
      /\ \A k \in 1 .. n : joined[k] = joined[k - 1] \o pieces[k]
      /\ FlattenSeq(pieces) = joined[n]
  <2> HIDE DEF pieces
  <2>1. QED
    BY <1>6 DEF Joins
<1>8. Without(unseen, events) = joined[n]
  BY <1>2, <1>7 DEF Without
<1> DEFINE good == {k \in 0 .. n : Leaves(joined[k], fewer, open[k])}
<1>9. ASSUME NEW k \in 1 .. n, k - 1 \in good PROVE k \in good
  <2>1. k \in 0 .. n /\ k - 1 \in 0 .. n
    BY <1>2
  <2>2. PICK event \in LogEvents, before \in SUBSET Calls, after \in SUBSET Calls, kept \in Seq(LogEvents) :
          event = events[k] /\ before = open[k - 1] /\ after = open[k] /\ kept = joined[k - 1]
    BY <1>3, <1>4, <1>7, <2>1
  <2>3. Follows(event, gaps, before, after) /\ Leaves(kept, fewer, before)
    BY <1>3, <1>9, <2>2
  <2>4. CASE event.kind \in unseen
    <3>1. joined[k] = kept \o <<>>
      BY <1>7, <2>2, <2>4
    <3>2. kept \o <<>> = kept
      BY <2>2
    <3>3. after = before
      BY <2>3, <2>4 DEF Follows
    <3>4. Leaves(joined[k], fewer, open[k])
      BY <2>2, <2>3, <3>1, <3>2, <3>3
    <3>5. QED
      BY <2>1, <3>4
  <2>5. CASE event.kind \notin unseen
    <3>1. joined[k] = kept \o <<event>>
      BY <1>7, <2>2, <2>5
    <3>2. kept \o <<event>> = Append(kept, event)
      BY <2>2
    <3>3. Follows(event, fewer, before, after)
      BY <2>3, <2>5 DEF Follows
    <3>4. Leaves(Append(kept, event), fewer, after)
      BY <2>2, <2>3, <3>3, AppendLeaves
    <3>5. Leaves(joined[k], fewer, open[k])
      BY <2>2, <3>1, <3>2, <3>4
    <3>6. QED
      BY <2>1, <3>5
  <2>6. QED
    BY <2>4, <2>5
<1>10. 0 .. n \subseteq good
  <2>1. 0 \in good
    <3>1. Leaves(joined[0], fewer, open[0])
      BY <1>3, <1>7, EmptyLeaves, Zenon
    <3>2. QED
      BY <1>2, <3>1
  <2> HIDE DEF good
  <2>2. QED
    BY <1>2, <1>9, <2>1, UpTo
<1>11. n \in good
  BY <1>2, <1>10
<1>12. QED
  BY <1>3, <1>8, <1>11

(* A repaired log leaves nothing open, whatever was interrupted.             *)
LEMMA RepairedLeaves ==
  ASSUME NEW events \in Seq(LogEvents)
  PROVE  Leaves(Repaired(events), {}, {})
<1>1. PICK n \in Nat : n = Len(events) /\ DOMAIN events = 1 .. n
  OBVIOUS
<1> DEFINE answered(i) == IF i < Len(events) /\ events[i + 1].kind = "results" THEN events[i + 1].calls ELSE {}
           missing(i) == events[i].calls \ answered(i)
           pieces == [i \in 1 .. n |->
                       IF events[i].kind = "calls" /\ missing(i) # {}
                       THEN <<events[i], Interrupted(missing(i))>> ELSE <<events[i]>>]
           open(i) == IF i > 0 /\ events[i].kind = "calls" THEN events[i].calls \cap answered(i) ELSE {}
<1>2. \A i \in 1 .. n : events[i] \in LogEvents
  BY <1>1, ElementOfSeq
<1>3. \A i \in 1 .. n : events[i].calls \in SUBSET Calls
  BY <1>2 DEF LogEvents
<1>4. ASSUME NEW S \in SUBSET Calls PROVE Interrupted(S) \in LogEvents
  BY DEF Interrupted, Event, LogEvents, LogKinds, Replies
<1>5. pieces \in [1 .. n -> Seq(LogEvents)]
  <2>1. ASSUME NEW i \in 1 .. n
        PROVE  (IF events[i].kind = "calls" /\ missing(i) # {}
                THEN <<events[i], Interrupted(missing(i))>> ELSE <<events[i]>>) \in Seq(LogEvents)
    <3>1. PICK event \in LogEvents : event = events[i]
      BY <1>2
    <3>2. PICK reply \in LogEvents : reply = Interrupted(missing(i))
      <4> HIDE DEF answered
      <4>1. missing(i) \in SUBSET Calls
        BY <1>3
      <4>2. QED
        BY <1>4, <4>1
    <3>3. <<event>> \in Seq(LogEvents) /\ <<event, reply>> \in Seq(LogEvents)
      BY <3>1, <3>2
    <3> HIDE DEF missing
    <3>4. QED
      BY <3>1, <3>2, <3>3
  <2> HIDE DEF missing
  <2>2. QED
    BY <2>1
<1>6. PICK joined : Joins(joined, pieces, n)
  <2> HIDE DEF pieces
  <2>1. QED
    BY <1>1, <1>5, Flattening
<1>7. /\ joined \in [0 .. n -> Seq(LogEvents)] /\ joined[0] = <<>>
      /\ \A k \in 1 .. n : joined[k] = joined[k - 1] \o pieces[k]
      /\ FlattenSeq(pieces) = joined[n]
  <2> HIDE DEF pieces
  <2>1. QED
    BY <1>6 DEF Joins
<1>8. Repaired(events) = joined[n]
  BY <1>1, <1>7 DEF Repaired
<1> DEFINE good == {k \in 0 .. n : Leaves(joined[k], {}, open(k))}
<1>9. ASSUME NEW k \in 1 .. n, k - 1 \in good PROVE k \in good
  <2>1. k \in 0 .. n /\ k - 1 \in 0 .. n /\ k > 0 /\ (k - 1) + 1 = k /\ (k - 1 > 0 => k - 1 \in 1 .. n)
    BY <1>1
  <2>2. PICK event \in LogEvents, kept \in Seq(LogEvents) : event = events[k] /\ kept = joined[k - 1]
    BY <1>2, <1>7, <2>1
  <2>3. PICK before \in SUBSET Calls : before = open(k - 1)
    <3>1. CASE k - 1 > 0
      <4> HIDE DEF answered
      <4>1. QED
        BY <1>3, <2>1, <3>1
    <3>2. CASE ~ (k - 1 > 0)
      BY <3>2
    <3>3. QED
      BY <3>1, <3>2
  <2>4. Leaves(kept, {}, before)
    BY <1>9, <2>2, <2>3
  <2>5. IF event.kind = "results" THEN before \subseteq event.calls ELSE before = {}
    BY <1>1, <2>1, <2>2, <2>3
  <2>6. PICK lost, after \in SUBSET Calls :
          /\ lost = missing(k) /\ after = open(k)
          /\ event.kind = "calls" => after = event.calls \ lost
          /\ event.kind # "calls" => after = {}
    <3>1. PICK now : now = answered(k)
      OBVIOUS
    <3>2. missing(k) = event.calls \ now
      BY <2>2, <3>1
    <3>3. open(k) = IF event.kind = "calls" THEN event.calls \cap now ELSE {}
      BY <2>1, <2>2, <3>1
    <3> HIDE DEF missing, open, answered
    <3>4. event.calls \in SUBSET Calls
      BY <1>3, <2>2
    <3>5. QED
      BY <3>2, <3>3, <3>4
  <2>7. event.calls \in SUBSET Calls
    BY <1>3, <2>2
  <2>8. joined[k] = kept \o (IF event.kind = "calls" /\ lost # {}
                              THEN <<event, Interrupted(lost)>> ELSE <<event>>)
    <3> HIDE DEF missing
    <3>1. QED
      BY <1>7, <2>2, <2>6
  <2>9. CASE event.kind = "calls"
    <3>1. Follows(event, {}, before, event.calls)
      BY <2>5, <2>9 DEF Follows
    <3>2. Leaves(Append(kept, event), {}, event.calls)
      BY <2>2, <2>4, <2>7, <3>1, AppendLeaves
    <3>3. CASE lost = {}
      <4>1. joined[k] = Append(kept, event) /\ after = event.calls
        <5>1. joined[k] = kept \o <<event>>
          BY <2>8, <3>3
        <5>2. kept \o <<event>> = Append(kept, event)
          BY <2>2
        <5>3. after = event.calls
          BY <2>6, <2>9, <3>3
        <5>4. QED
          BY <5>1, <5>2, <5>3
      <4>2. QED
        BY <2>1, <2>6, <3>2, <4>1
    <3>4. CASE lost # {}
      <4>1. PICK reply \in LogEvents : reply = Interrupted(lost)
        <5>1. lost \in SUBSET Calls
          <6> HIDE DEF answered
          <6>1. QED
            BY <2>2, <2>6, <2>7
        <5>2. QED
          BY <1>4, <5>1
      <4>2. joined[k] = Append(Append(kept, event), reply)
        <5>1. joined[k] = kept \o <<event, reply>>
          BY <2>8, <2>9, <3>4, <4>1
        <5>2. QED
          BY <2>2, <4>1, <5>1
      <4>3. reply.kind = "interrupted" /\ reply.calls = lost
        BY <4>1 DEF Interrupted, Event
      <4>4. Follows(reply, {}, event.calls, after)
        BY <2>6, <2>9, <4>3 DEF Follows, Replies
      <4>5. PICK longer : longer = Append(kept, event)
        OBVIOUS
      <4>6. Leaves(longer, {}, event.calls)
        BY <3>2, <4>5
      <4>7. Leaves(Append(longer, reply), {}, after)
        BY <2>6, <2>7, <4>1, <4>4, <4>6, AppendLeaves
      <4>8. QED
        BY <2>1, <2>6, <4>2, <4>5, <4>7
    <3>5. QED
      BY <3>3, <3>4
  <2>10. CASE event.kind # "calls"
    <3>1. joined[k] = Append(kept, event)
      BY <2>2, <2>8, <2>10
    <3>2. Follows(event, {}, before, after)
      BY <2>5, <2>6, <2>10 DEF Follows, Replies
    <3>3. Leaves(Append(kept, event), {}, after)
      BY <2>2, <2>4, <2>6, <3>2, AppendLeaves
    <3>4. QED
      BY <2>1, <2>6, <3>1, <3>3
  <2>11. QED
    BY <2>9, <2>10
<1>10. 0 .. n \subseteq good
  <2>1. 0 \in good
    BY <1>1, <1>7, EmptyLeaves
  <2> HIDE DEF good
  <2>2. QED
    BY <1>1, <1>9, <2>1, UpTo
<1>11. open(n) = {}
  BY <1>1
<1>12. n \in good
  <2>1. n \in 0 .. n
    BY <1>1
  <2> HIDE DEF good
  <2>2. QED
    BY <1>10, <2>1
<1>13. QED
  BY <1>8, <1>11, <1>12

(* What leaves nothing open has every call answered at once.                *)
LEMMA NothingOpen ==
  ASSUME NEW events, Leaves(events, {}, {}), NEW i \in 1 .. Len(events), events[i].kind = "calls",
         NEW c \in events[i].calls
  PROVE  \E j \in i + 1 .. Len(events) :
           /\ events[j].kind \in Replies /\ c \in events[j].calls
           /\ \A k \in i + 1 .. j : events[k].kind \in Replies
<1>1. PICK open : Opens(open, events, {}) /\ open[Len(events)] = {}
  BY DEF Leaves
<1>2. PICK n \in Nat : n = Len(events) /\ events \in Seq(LogEvents)
  BY DEF Leaves
<1>3. /\ open \in [0 .. n -> SUBSET Calls] /\ open[n] = {}
      /\ \A k \in 1 .. n : Follows(events[k], {}, open[k - 1], open[k])
  BY <1>1, <1>2 DEF Opens
<1> DEFINE closed == {k \in i .. n : c \notin open[k]}
<1>4. PICK j \in closed : \A k \in closed : j <= k
  <2>1. n \in closed /\ closed \subseteq Nat
    BY <1>2, <1>3
  <2> HIDE DEF closed
  <2>2. QED
    BY <2>1, LeastNumber
<1>5. c \in open[i]
  BY <1>2, <1>3 DEF Follows, Replies
<1>6. j \in i + 1 .. n
  <2>1. j \in i .. n /\ j # i
    BY <1>4, <1>5
  <2>2. QED
    BY <1>2, <2>1
<1>7. ASSUME NEW k \in i + 1 .. j PROVE events[k].kind \in Replies /\ c \in open[k - 1]
  <2>1. k - 1 \in i .. n /\ k \in 1 .. n /\ ~ (j <= k - 1)
    BY <1>2, <1>6
  <2>2. c \in open[k - 1]
    BY <1>4, <2>1
  <2>3. Follows(events[k], {}, open[k - 1], open[k])
    BY <1>3, <2>1
  <2>4. QED
    BY <2>2, <2>3 DEF Follows
<1>8. j \in i + 1 .. j /\ j \in 1 .. n
  BY <1>2, <1>6
<1>9. c \in events[j].calls
  <2>1. events[j].kind \in Replies /\ c \in open[j - 1] /\ c \notin open[j]
    BY <1>4, <1>7, <1>8
  <2>2. Follows(events[j], {}, open[j - 1], open[j])
    BY <1>3, <1>8
  <2>3. QED
    BY <2>1, <2>2 DEF Follows, Replies
<1>10. QED
  BY <1>2, <1>6, <1>7, <1>8, <1>9

-----------------------------------------------------------------------------
(* What has been appended since the runner loaded the session leaves only    *)
(* those calls open whose tools run or whose results are about to be stored. *)
Gaps == Unseen \cup {"child"}
Said == SubSeq(log, handle.loaded + 1, Len(log))

ResultsFollow(rest) ==
  /\ \A i \in DOMAIN emits : emits[i].kind = "results" => rest \subseteq emits[i].calls
  /\ rest # {} => \E i \in DOMAIN emits : emits[i].kind = "results"

LogInv ==
  /\ log \in Seq(LogEvents) /\ handle.loaded \in 0 .. Len(log)
  /\ pc \in {"resume", "model"} => Leaves(Said, Gaps, {})
  /\ pc = "tools" => \E called \in SUBSET (Started \cup Being("asks")) : Leaves(Said, Gaps, called)
  /\ pc = "emitting" => \E rest \in SUBSET Calls : Leaves(Said, Gaps, rest) /\ ResultsFollow(rest)

(* A suffix of a log grows with it.                                         *)
LEMMA SuffixGrows ==
  ASSUME NEW events \in Seq(LogEvents), NEW event \in LogEvents, NEW n \in Nat, n = Len(events),
         NEW k \in Nat, k <= n
  PROVE  SubSeq(Append(events, event), k + 1, n + 1) = Append(SubSeq(events, k + 1, n), event)
<1> DEFINE longer == Append(events, event)
           whole == SubSeq(longer, k + 1, n + 1)
           part == SubSeq(events, k + 1, n)
           next == Append(part, event)
<1>1. /\ longer \in Seq(LogEvents) /\ Len(longer) = n + 1 /\ longer[n + 1] = event
      /\ \A i \in 1 .. n : longer[i] = events[i]
  OBVIOUS
<1>2. /\ whole \in Seq(LogEvents) /\ Len(whole) = n + 1 - k
      /\ \A i \in 1 .. n + 1 - k : whole[i] = longer[k + i]
  <2> HIDE DEF longer
  <2>1. k + 1 \in 1 .. n + 1 /\ n + 1 \in Nat
    OBVIOUS
  <2>2. QED
    BY <1>1, <2>1
<1>3. /\ part \in Seq(LogEvents) /\ Len(part) = n - k
      /\ \A i \in 1 .. n - k : part[i] = events[k + i]
  OBVIOUS
<1>4. /\ next \in Seq(LogEvents) /\ Len(next) = n + 1 - k /\ next[n + 1 - k] = event
      /\ \A i \in 1 .. n - k : next[i] = part[i]
  <2> HIDE DEF part
  <2>1. QED
    BY <1>3
<1> HIDE DEF longer, whole, part, next
<1>5. ASSUME NEW i \in 1 .. n + 1 - k PROVE whole[i] = next[i]
  <2>1. CASE i = n + 1 - k
    <3>1. k + i = n + 1
      BY <2>1
    <3>2. QED
      BY <1>1, <1>2, <1>4, <2>1, <3>1
  <2>2. CASE i # n + 1 - k
    <3>1. i \in 1 .. n - k /\ k + i \in 1 .. n
      BY <2>2
    <3>2. QED
      BY <1>1, <1>2, <1>3, <1>4, <3>1
  <2>3. QED
    BY <2>1, <2>2
<1>6. whole = next
  BY <1>2, <1>4, <1>5, SeqEqual
<1>7. QED
  BY <1>6 DEF whole, next, longer, part

(* The log grows by what is appended.                                       *)
LEMMA SaidGrows ==
  ASSUME LogInv, NEW event \in LogEvents, log' = Append(log, event), handle'.loaded = handle.loaded
  PROVE  /\ log' \in Seq(LogEvents) /\ handle'.loaded \in 0 .. Len(log')
         /\ Said' = Append(Said, event)
<1>1. PICK n \in Nat, k \in Nat : n = Len(log) /\ k = handle.loaded /\ k <= n /\ log \in Seq(LogEvents)
  BY DEF LogInv
<1>2. log' \in Seq(LogEvents) /\ Len(log') = n + 1 /\ k \in 0 .. n + 1
  BY <1>1
<1>3. SubSeq(Append(log, event), k + 1, n + 1) = Append(SubSeq(log, k + 1, n), event)
  BY <1>1, SuffixGrows
<1>4. QED
  BY <1>1, <1>2, <1>3 DEF Said

(* The runner's append.                                                     *)
LEMMA RunnerAppends ==
  ASSUME LoopInv, LogInv, pc \in {"resume", "model", "tools", "emitting"},
         NEW event \in LogEvents, NEW next, AppendEvent(event, next)
  PROVE  /\ pc' = next /\ log' \in Seq(LogEvents) /\ handle'.loaded \in 0 .. Len(log')
         /\ Said' = Append(Said, event)
<1>1. handle.version = version /\ handle \in [version : Nat, loaded : Nat]
  BY DEF LoopInv, LoopTypeOK, HandleIsCurrent
<1>2. /\ pc' = next /\ log' = Append(log, event)
      /\ handle' = [handle EXCEPT !.version = @ + 1]
  BY <1>1 DEF AppendEvent
<1>3. handle'.loaded = handle.loaded
  BY <1>1, <1>2
<1>4. QED
  BY <1>2, <1>3, SaidGrows

(* The kinds of the events.                                                 *)
LEMMA EventsOfLog ==
  ASSUME NEW kind \in LogKinds, NEW calls \in SUBSET Calls
  PROVE  Event(kind, calls) \in LogEvents /\ Event(kind, calls).kind = kind /\ Event(kind, calls).calls = calls
BY DEF Event, LogEvents

(* An iteration starts with its message.                                    *)
LEMMA MessageIsSaid == ASSUME LoopInv, LogInv, RunnerRun PROVE LogInv'
<1>1. PICK event \in LogEvents : log' = Append(log, event) /\ event.kind \in {"user", "answer"}
  <2>1. answer \in SUBSET Calls /\ {} \in SUBSET Calls /\ {"user", "answer"} \subseteq LogKinds
    BY DEF LoopInv, LoopTypeOK, LogKinds
  <2>2. PICK event : event = IF answer = {} THEN Event("user", {}) ELSE Event("answer", answer)
    OBVIOUS
  <2>3. event \in LogEvents /\ event.kind \in {"user", "answer"}
    BY <2>1, <2>2, EventsOfLog
  <2>4. log' = Append(log, event)
    BY <2>2 DEF RunnerRun
  <2>5. QED
    BY <2>3, <2>4
<1>2. handle'.loaded = Len(log) /\ log \in Seq(LogEvents) /\ pc' \in {"model", "resume"}
  BY DEF RunnerRun, LogInv
<1>3. PICK n \in Nat : n = Len(log)
  BY <1>2
<1>4. log' \in Seq(LogEvents) /\ Len(log') = n + 1 /\ handle'.loaded = n
  BY <1>1, <1>2, <1>3
<1>5. Said' = Append(<<>>, event)
  <2>1. SubSeq(Append(log, event), n + 1, n + 1) = Append(<<>>, event)
    <3>1. SubSeq(log, n + 1, n) = <<>>
      BY <1>2, <1>3
    <3>2. SubSeq(Append(log, event), n + 1, n + 1) = Append(SubSeq(log, n + 1, n), event)
      BY <1>2, <1>3, SuffixGrows
    <3>3. QED
      BY <3>1, <3>2
  <2>2. QED
    BY <1>1, <1>4, <2>1 DEF Said
<1>6. Leaves(Said', Gaps, {})
  <2>1. Follows(event, Gaps, {}, {})
    BY <1>1 DEF Follows, Replies
  <2>2. {} \in SUBSET Calls
    OBVIOUS
  <2>3. QED
    BY <1>5, <2>1, <2>2, EmptyLeaves, AppendLeaves
<1>7. handle'.loaded \in 0 .. Len(log')
  BY <1>4
<1>8. QED
  BY <1>2, <1>4, <1>6, <1>7 DEF LogInv

(* An answered tool has its result.                                         *)
LEMMA AnswerIsSaid == ASSUME LoopInv, LogInv, Resume PROVE LogInv'
<1>1. PICK event \in LogEvents : event = Event("results", answer) /\ event.kind = "results"
  <2>1. answer \in SUBSET Calls /\ "results" \in LogKinds
    BY DEF LoopInv, LoopTypeOK, LogKinds, Replies
  <2>2. QED
    BY <2>1, EventsOfLog
<1>2. pc = "resume" /\ AppendEvent(event, "model") /\ Leaves(Said, Gaps, {})
  BY <1>1 DEF Resume, LogInv
<1>3. /\ pc' = "model" /\ log' \in Seq(LogEvents) /\ handle'.loaded \in 0 .. Len(log')
      /\ Said' = Append(Said, event)
  BY <1>2, RunnerAppends
<1>4. Leaves(Said', Gaps, {})
  <2>1. Follows(event, Gaps, {}, {})
    BY <1>1 DEF Follows, Replies
  <2>2. {} \in SUBSET Calls
    OBVIOUS
  <2>3. QED
    BY <1>2, <1>3, <2>1, <2>2, AppendLeaves
<1>5. QED
  BY <1>3, <1>4 DEF LogInv

(* A compaction is a gap, and the model's text ends the iteration.           *)
LEMMA ModelIsHeard ==
  ASSUME LoopInv, LogInv, ModelYields \/ ContextCompacted \/ ModelAnswersText PROVE LogInv'
<1>1. CASE ModelYields
  BY <1>1 DEF ModelYields, LogInv
<1>2. CASE ContextCompacted
  <2>1. PICK event \in LogEvents : event = Event("compacted", {}) /\ event.kind = "compacted"
    <3>1. {} \in SUBSET Calls /\ "compacted" \in LogKinds
      BY DEF LogKinds
    <3>2. QED
      BY <3>1, EventsOfLog
  <2>2. pc = "model" /\ pc' = pc /\ handle' = handle /\ log' = Append(log, event) /\ Leaves(Said, Gaps, {})
    BY <1>2, <2>1 DEF ContextCompacted, AppendTranscriptEvent, LogInv
  <2>3. /\ log' \in Seq(LogEvents) /\ handle'.loaded \in 0 .. Len(log')
        /\ Said' = Append(Said, event)
    BY <2>2, SaidGrows
  <2>4. Leaves(Said', Gaps, {})
    <3>1. Follows(event, Gaps, {}, {})
      BY <2>1 DEF Follows, Replies
    <3>2. {} \in SUBSET Calls
      OBVIOUS
    <3>3. QED
      BY <2>2, <2>3, <3>1, <3>2, AppendLeaves
  <2>5. QED
    BY <2>2, <2>3, <2>4 DEF LogInv
<1>3. CASE ModelAnswersText
  <2>1. PICK event \in LogEvents : event = Event("text", {})
    <3>1. {} \in SUBSET Calls /\ "text" \in LogKinds
      BY DEF LogKinds
    <3>2. QED
      BY <3>1, EventsOfLog
  <2>2. pc = "model" /\ AppendEvent(event, "iterated")
    BY <1>3, <2>1 DEF ModelAnswersText
  <2>3. pc' = "iterated" /\ log' \in Seq(LogEvents) /\ handle'.loaded \in 0 .. Len(log')
    BY <2>2, RunnerAppends
  <2>4. QED
    BY <2>3 DEF LogInv
<1>4. QED
  BY <1>1, <1>2, <1>3

(* The model's calls are open.                                              *)
LEMMA CallsAreOpen == ASSUME LoopInv, LogInv, ModelCalls PROVE LogInv'
<1>1. PICK calls \in SUBSET Calls :
        /\ call' = Become(Immediate(calls), "called")
        /\ AppendEvent(Event("calls", Immediate(calls)), "tools")
  BY DEF ModelCalls
<1>2. PICK called \in SUBSET Calls : called = Immediate(calls)
  BY DEF Immediate
<1>3. PICK event \in LogEvents :
        event = Event("calls", called) /\ event.kind = "calls" /\ event.calls = called
  <2>1. "calls" \in LogKinds
    BY DEF LogKinds
  <2>2. QED
    BY <2>1, EventsOfLog
<1>4. pc = "model" /\ AppendEvent(event, "tools") /\ Leaves(Said, Gaps, {})
  BY <1>1, <1>2, <1>3 DEF ModelCalls, LogInv
<1>5. /\ pc' = "tools" /\ log' \in Seq(LogEvents) /\ handle'.loaded \in 0 .. Len(log')
      /\ Said' = Append(Said, event)
  BY <1>4, RunnerAppends
<1>6. Leaves(Said', Gaps, called)
  <2>1. Follows(event, Gaps, {}, called)
    BY <1>3 DEF Follows
  <2>2. QED
    BY <1>4, <1>5, <2>1, AppendLeaves
<1>7. called \subseteq (Started \cup Being("asks"))'
  BY <1>1, <1>2 DEF Become, Started, Being
<1>8. QED
  BY <1>5, <1>6, <1>7 DEF LogInv

(* While the tools run, only sub-agents write.                              *)
LEMMA ToolsWrite ==
  ASSUME LoopInv, LogInv, NEW c \in Calls, RunTool(c) \/ AcquireSlot(c) \/ ChildEvent(c) \/ ReleaseSlot(c)
  PROVE  LogInv'
<1>1. pc = "tools" /\ pc' = pc /\ handle' = handle
  BY DEF RunTool, AcquireSlot, ChildEvent, ReleaseSlot, AppendTranscriptEvent
<1>2. PICK called \in SUBSET (Started \cup Being("asks")) : Leaves(Said, Gaps, called)
  BY <1>1 DEF LogInv
<1>3. CASE ChildEvent(c)
  <2>1. PICK event \in LogEvents : event = Event("child", {c}) /\ event.kind = "child"
    <3>1. {c} \in SUBSET Calls /\ "child" \in LogKinds
      BY DEF LogKinds
    <3>2. QED
      BY <3>1, EventsOfLog
  <2>2. log' = Append(log, event) /\ call' = call
    BY <1>3, <2>1 DEF ChildEvent, AppendTranscriptEvent
  <2>3. /\ log' \in Seq(LogEvents) /\ handle'.loaded \in 0 .. Len(log')
        /\ Said' = Append(Said, event)
    BY <1>1, <2>2, SaidGrows
  <2>4. Leaves(Said', Gaps, called)
    <3>1. Follows(event, Gaps, called, called)
      BY <2>1 DEF Follows, Gaps
    <3>2. called \in SUBSET Calls
      BY <1>2 DEF Started, Being
    <3>3. QED
      BY <1>2, <2>3, <3>1, <3>2, AppendLeaves
  <2>5. called \in SUBSET (Started \cup Being("asks"))'
    BY <1>2, <2>2 DEF Started, Being
  <2>6. QED
    BY <1>1, <2>3, <2>4, <2>5 DEF LogInv
<1>4. CASE RunTool(c) \/ AcquireSlot(c) \/ ReleaseSlot(c)
  <2>1. log' = log /\ \E p \in {"running", "returned", "asks"} : call' = Become({c}, p)
    BY <1>4 DEF RunTool, AcquireSlot, ReleaseSlot
  <2>2. Said' = Said
    BY <1>1, <2>1 DEF Said
  <2>3. called \in SUBSET (Started \cup Being("asks"))'
    <3>1. ASSUME NEW d \in called
          PROVE  d \in Calls /\ call'[d] \in {"called", "running", "returned", "asks"}
      <4>1. d \in Calls /\ call[d] \in {"called", "running", "returned", "asks"}
        BY <1>2 DEF Started, Being
      <4>2. QED
        BY <2>1, <4>1 DEF Become
    <3>2. QED
      BY <3>1 DEF Started, Being
  <2>4. QED
    BY <1>1, <1>2, <2>1, <2>2, <2>3 DEF LogInv
<1>5. QED
  BY <1>3, <1>4

(* The results of a step answer all that it called.                         *)
LEMMA ResultsAnswer == ASSUME LoopInv, LogInv, ToolsReturn PROVE LogInv'
<1>1. pc = "tools" /\ pc' = "emitting" /\ log' = log /\ handle' = handle
  BY DEF ToolsReturn
<1>2. PICK called \in SUBSET (Started \cup Being("asks")) : Leaves(Said, Gaps, called)
  BY <1>1 DEF LogInv
<1>3. asked = {}
  BY <1>1 DEF LoopInv, QuestionsAreOnTheWay
<1>4. called \in SUBSET Calls /\ called \subseteq Being("returned") \cup Asking
  <2>1. Started \cup Being("asks") = Being("returned") \cup Asking
    BY <1>1, <1>3 DEF ToolsReturn, Started, Asking
  <2>2. called \in SUBSET Calls
    BY <1>2 DEF Started, Being
  <2>3. QED
    BY <1>2, <2>1, <2>2
<1>5. ResultsFollow(called)'
  <2> DEFINE results == Event("results", Being("returned") \cup Asking)
             question == Event("confirm", Asking)
  <2>1. results.kind = "results" /\ called \subseteq results.calls /\ question.kind = "confirm"
    BY <1>4 DEF Event
  <2>2. emits' = <<results>> \/ emits' = <<question, results>> \/ emits' = <<results, question>>
    BY DEF ToolsReturn
  <2> HIDE DEF results, question
  <2>3. ASSUME emits' = <<results>> PROVE ResultsFollow(called)'
    <3>1. DOMAIN emits' = {1} /\ emits'[1] = results
      BY <2>3
    <3>2. QED
      BY <2>1, <3>1 DEF ResultsFollow
  <2>4. ASSUME emits' = <<question, results>> PROVE ResultsFollow(called)'
    <3>1. DOMAIN emits' = {1, 2} /\ emits'[1] = question /\ emits'[2] = results
      BY <2>4
    <3>2. QED
      BY <2>1, <3>1 DEF ResultsFollow
  <2>5. ASSUME emits' = <<results, question>> PROVE ResultsFollow(called)'
    <3>1. DOMAIN emits' = {1, 2} /\ emits'[1] = results /\ emits'[2] = question
      BY <2>5
    <3>2. QED
      BY <2>1, <3>1 DEF ResultsFollow
  <2>6. QED
    BY <2>2, <2>3, <2>4, <2>5
<1>6. Said' = Said
  BY <1>1 DEF Said
<1>7. QED
  BY <1>1, <1>2, <1>4, <1>5, <1>6 DEF LogInv

(* They are stored, with a question among them.                              *)
LEMMA ResultsAreSaid == ASSUME LoopInv, LogInv, Emit PROVE LogInv'
<1>1. PICK next : next = IF Len(emits) > 1 THEN "emitting" ELSE IF requested # {} THEN "iterated" ELSE "model"
  OBVIOUS
<1>2. /\ pc = "emitting" /\ AppendEvent(Head(emits), next) /\ emits' = Tail(emits)
  BY <1>1 DEF Emit
<1>3. PICK E : E = [kind : {"results"}, calls : SUBSET Calls] \cup {Event("confirm", requested)}
  OBVIOUS
<1>4. emits \in Seq(E) /\ emits # <<>>
  BY <1>2, <1>3 DEF LoopInv, LoopTypeOK, QuestionsAreOnTheWay
<1>5. PICK m \in Nat : m = Len(emits) /\ m # 0
  BY <1>4
<1>6. /\ Head(emits) = emits[1] /\ emits[1] \in E /\ DOMAIN emits = 1 .. m
      /\ Tail(emits) \in Seq(E) /\ DOMAIN Tail(emits) = 1 .. m - 1
      /\ \A i \in 1 .. m - 1 : Tail(emits)[i] = emits[i + 1]
  BY <1>4, <1>5
<1>7. PICK event \in LogEvents : /\ event = emits[1]
                                 /\ event.kind \in {"results", "confirm"}
  <2>1. E \subseteq LogEvents /\ \A event \in E : event.kind \in {"results", "confirm"}
    <3>1. requested \in SUBSET Calls /\ "confirm" \in LogKinds
      BY DEF LoopInv, LoopTypeOK, LogKinds
    <3>2. Event("confirm", requested) \in LogEvents /\ Event("confirm", requested).kind = "confirm"
      BY <3>1, EventsOfLog
    <3>3. QED
      BY <1>3, <3>2 DEF LogEvents, LogKinds, Replies
  <2>2. QED
    BY <1>6, <2>1
<1>8. /\ pc' = next /\ log' \in Seq(LogEvents) /\ handle'.loaded \in 0 .. Len(log')
      /\ Said' = Append(Said, event)
  <2>1. AppendEvent(event, next)
    BY <1>2, <1>6, <1>7
  <2>2. QED
    BY <1>2, <2>1, RunnerAppends
<1>9. PICK rest \in SUBSET Calls : Leaves(Said, Gaps, rest) /\ ResultsFollow(rest)
  BY <1>2 DEF LogInv
<1>10. PICK left \in SUBSET Calls : left = IF event.kind = "results" THEN {} ELSE rest
  BY <1>9
<1>11. Leaves(Said', Gaps, left)
  <2>1. Follows(event, Gaps, rest, left)
    <3>1. CASE event.kind = "results"
      <4>1. 1 \in DOMAIN emits
        BY <1>5, <1>6
      <4>2. rest \subseteq event.calls
        BY <1>7, <1>9, <3>1, <4>1 DEF ResultsFollow
      <4>3. QED
        BY <1>10, <3>1, <4>2 DEF Follows, Replies
    <3>2. CASE event.kind = "confirm"
      BY <1>10, <3>2 DEF Follows, Gaps, Unseen
    <3>3. QED
      BY <1>7, <3>1, <3>2
  <2>2. QED
    BY <1>8, <1>9, <2>1, AppendLeaves
<1>12. ResultsFollow(left)'
  <2>1. DOMAIN emits' = 1 .. m - 1 /\ \A i \in 1 .. m - 1 : emits'[i] = emits[i + 1] /\ i + 1 \in 1 .. m
    BY <1>2, <1>5, <1>6
  <2>2. ASSUME NEW i \in DOMAIN emits', emits'[i].kind = "results" PROVE left \subseteq emits'[i].calls
    BY <1>6, <1>9, <1>10, <2>1, <2>2, SMTT(30) DEF ResultsFollow
  <2>3. ASSUME left # {} PROVE \E i \in DOMAIN emits' : emits'[i].kind = "results"
    <3>1. event.kind # "results" /\ rest # {}
      BY <1>10, <2>3
    <3>2. PICK i \in 1 .. m : emits[i].kind = "results"
      BY <1>6, <1>9, <3>1 DEF ResultsFollow
    <3>3. i # 1
      BY <1>7, <3>1, <3>2
    <3>4. i - 1 \in 1 .. m - 1 /\ (i - 1) + 1 = i
      BY <1>5, <3>2, <3>3
    <3>5. QED
      BY <2>1, <3>2, <3>4
  <2>4. QED
    BY <2>2, <2>3 DEF ResultsFollow
<1>13. CASE next = "emitting"
  BY <1>8, <1>11, <1>12, <1>13 DEF LogInv
<1>14. CASE next # "emitting"
  <2>1. left = {}
    <3>1. m = 1
      BY <1>1, <1>5, <1>14
    <3>2. DOMAIN emits' = {}
      BY <1>2, <1>6, <3>1
    <3>3. QED
      BY <1>12, <3>2 DEF ResultsFollow
  <2>2. next \in {"iterated", "model"}
    BY <1>1, <1>14
  <2>3. QED
    BY <1>8, <1>11, <2>1, <2>2 DEF LogInv
<1>15. QED
  BY <1>13, <1>14

(* Between iterations the runner has no session loaded that counts.          *)
LEMMA OthersLeaveLog ==
  ASSUME LoopInv, LogInv, StartRun \/ Iterated \/ Decide \/ RunEnds PROVE LogInv'
<1>1. pc' \in {"run", "completed", "waiting", "idle"} /\ handle' = handle
  BY DEF StartRun, Iterated, Decide, RunEnds
<1>2. log' = log \/ \E event \in LogEvents : log' = Append(log, event)
  <2>1. CASE Iterated
    <3>1. Dangling \in SUBSET Calls /\ "confirm" \in LogKinds
      BY DEF LoopInv, LoopTypeOK, Dangling, LogKinds
    <3>2. PICK event \in LogEvents : event = Event("confirm", Dangling)
      BY <3>1, EventsOfLog
    <3>3. QED
      BY <2>1, <3>2 DEF Iterated
  <2>2. CASE StartRun \/ Decide \/ RunEnds
    BY <2>2 DEF StartRun, Decide, RunEnds
  <2>3. QED
    BY <2>1, <2>2
<1>3. log' \in Seq(LogEvents) /\ handle'.loaded \in 0 .. Len(log')
  <2>1. CASE log' = log
    BY <1>1, <2>1 DEF LogInv
  <2>2. CASE \E event \in LogEvents : log' = Append(log, event)
    BY <1>1, <2>2, SaidGrows
  <2>3. QED
    BY <1>2, <2>1, <2>2
<1>4. QED
  BY <1>1, <1>3 DEF LogInv

(* What the model is shown, by what the log leaves open.                     *)
LEMMA ShownAnswered == ASSUME LogInv, pc = "model" PROVE Leaves(Contents, {}, {})
<1>1. PICK n \in Nat, k \in Nat : n = Len(log) /\ k = handle.loaded /\ k <= n /\ log \in Seq(LogEvents)
  BY DEF LogInv
<1>2. PICK stored \in Seq(LogEvents) : stored = SubSeq(log, 1, k)
  <2>1. \A i \in 1 .. k : log[i] \in LogEvents
    BY <1>1, ElementOfSeq
  <2>2. SubSeq(log, 1, k) \in Seq(LogEvents)
    BY <1>1, <2>1
  <2>3. QED
    BY <2>2
<1>3. PICK unanswered \in Seq(LogEvents) : unanswered = Without({"child"}, stored)
  <2>1. PICK joined : Joins(joined, [i \in 1 .. Len(stored) |->
                              IF stored[i].kind \in {"child"} THEN <<>> ELSE <<stored[i]>>], Len(stored))
    <3>1. [i \in 1 .. Len(stored) |-> IF stored[i].kind \in {"child"} THEN <<>> ELSE <<stored[i]>>]
            \in [1 .. Len(stored) -> Seq(LogEvents)]
      <4>1. ASSUME NEW i \in 1 .. Len(stored)
            PROVE  (IF stored[i].kind \in {"child"} THEN <<>> ELSE <<stored[i]>>) \in Seq(LogEvents)
        <5>1. PICK event \in LogEvents : event = stored[i]
          BY ElementOfSeq
        <5>2. <<event>> \in Seq(LogEvents) /\ <<>> \in Seq(LogEvents)
          BY <5>1
        <5>3. QED
          BY <5>1, <5>2
      <4>2. QED
        BY <4>1
    <3>2. Len(stored) \in Nat
      OBVIOUS
    <3>3. QED
      BY <3>1, <3>2, Flattening
  <2>2. DOMAIN stored = 1 .. Len(stored) /\ Len(stored) \in 0 .. Len(stored)
    OBVIOUS
  <2>3. QED
    BY <2>1, <2>2 DEF Without, Joins
<1>4. Leaves(Repaired(unanswered), {}, {})
  BY RepairedLeaves
<1>5. PICK loadedLog : loadedLog = RunnerGet(SubSeq(log, 1, handle.loaded)) /\ Leaves(loadedLog, {}, {})
  BY <1>1, <1>2, <1>3, <1>4 DEF RunnerGet
<1>6. Leaves(Said, Gaps, {})
  BY DEF LogInv
<1>7. PICK later : later = Without({"child"}, SubSeq(log, handle.loaded + 1, Len(log)))
  OBVIOUS
<1>8. Leaves(later, Unseen, {})
  <2>1. {"child"} \cap (Replies \cup {"calls"}) = {} /\ Gaps \subseteq Unseen \cup {"child"}
    BY DEF Replies, Gaps
  <2>2. PICK kinds : kinds = {"child"}
    OBVIOUS
  <2>3. Leaves(Without(kinds, Said), Unseen, {})
    BY <1>6, <2>1, <2>2, WithoutLeaves
  <2>4. QED
    BY <1>7, <2>2, <2>3 DEF Said
<1>9. Leaves(loadedLog, Unseen, {})
  <2>1. PICK open : Opens(open, loadedLog, {}) /\ open[Len(loadedLog)] = {} /\ loadedLog \in Seq(LogEvents)
    BY <1>5 DEF Leaves
  <2>2. Opens(open, loadedLog, Unseen)
    BY <2>1 DEF Opens, Follows
  <2>3. QED
    BY <2>1, <2>2 DEF Leaves
<1>10. PICK both : both = loadedLog \o later /\ Leaves(both, Unseen, {})
  BY <1>8, <1>9, JoinLeaves
<1>11. Contents = Without(Unseen, both)
  BY <1>5, <1>7, <1>10 DEF Contents
<1>12. Unseen \cap (Replies \cup {"calls"}) = {}
  BY DEF Unseen, Replies
<1>13. PICK none : none = {} /\ Unseen \subseteq none \cup Unseen
  OBVIOUS
<1>14. Leaves(Without(Unseen, both), none, {})
  BY <1>10, <1>12, <1>13, WithoutLeaves
<1>15. QED
  BY <1>11, <1>13, <1>14

(* Whatever is interrupted and however approvals interleave, the log takes   *)
(* what a run appends, and the model is shown every call with its answer     *)
(* (repairInterruptedToolCalls, the optimistic lock of AppendEvent).         *)
THEOREM LogStaysUsable == LoopSpec => []LogIsUsable
<1>1. LoopInit => LogInv
  BY DEF LoopInit, LogInv
<1>2. LoopInv /\ LogInv /\ [LoopNext]_loopVars => LogInv'
  <2> SUFFICES ASSUME LoopInv, LogInv, [LoopNext]_loopVars PROVE LogInv'
    OBVIOUS
  <2>1. CASE LoopNext
    BY <2>1, OthersLeaveLog, MessageIsSaid, AnswerIsSaid, ModelIsHeard, CallsAreOpen, ToolsWrite,
       ResultsAnswer, ResultsAreSaid DEF LoopNext
  <2>2. CASE UNCHANGED loopVars
    <3>1. log' = log /\ handle' = handle /\ pc' = pc /\ emits' = emits /\ call' = call
      BY <2>2 DEF loopVars
    <3>2. Said' = Said /\ (Started \cup Being("asks"))' = Started \cup Being("asks")
      BY <3>1 DEF Said, Started, Being
    <3>3. \A rest : ResultsFollow(rest)' <=> ResultsFollow(rest)
      BY <3>1 DEF ResultsFollow
    <3>4. QED
      BY <3>1, <3>2, <3>3 DEF LogInv
  <2>3. QED
    BY <2>1, <2>2
<1>3. LoopInv /\ LogInv => LogIsUsable
  <2> SUFFICES ASSUME LoopInv, LogInv PROVE LogIsUsable
    OBVIOUS
  <2>1. NoAppendIsRefused
    BY DEF LoopInv, LoopTypeOK, NoAppendIsRefused
  <2>2. ModelSeesAnsweredCalls
    <3>1. SUFFICES ASSUME pc = "model", NEW i \in DOMAIN Contents, Contents[i].kind = "calls",
                          NEW c \in Contents[i].calls
                   PROVE  \E j \in i + 1 .. Len(Contents) :
                            /\ Contents[j].kind \in Replies /\ c \in Contents[j].calls
                            /\ \A k \in i + 1 .. j : Contents[k].kind \in Replies
      BY DEF ModelSeesAnsweredCalls, Replies
    <3>2. PICK contents : contents = Contents
      OBVIOUS
    <3>3. Leaves(contents, {}, {}) /\ contents \in Seq(LogEvents)
      BY <3>1, <3>2, ShownAnswered DEF Leaves
    <3>4. i \in 1 .. Len(contents) /\ contents[i].kind = "calls" /\ c \in contents[i].calls
      BY <3>1, <3>2, <3>3
    <3>5. \E j \in i + 1 .. Len(contents) :
            /\ contents[j].kind \in Replies /\ c \in contents[j].calls
            /\ \A k \in i + 1 .. j : contents[k].kind \in Replies
      BY <3>3, <3>4, NothingOpen
    <3>6. QED
      BY <3>2, <3>5
  <2>3. QED
    BY <2>1, <2>2 DEF LogIsUsable
<1>4. QED
  BY <1>1, <1>2, <1>3, LoopInvariant, PTL DEF LoopSpec
=============================================================================
