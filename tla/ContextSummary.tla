------------------------- MODULE ContextSummary --------------------------
(***************************************************************************)
(* How a prefix of the history is summarized: summarize and summarizeBatch  *)
(* in internal/engine/context_compaction.go.                                *)
(*                                                                         *)
(* The prefix is rendered into sections, a section is split into fragments, *)
(* and fragments are collected into a batch until the next one does not     *)
(* fit.  A batch is sent to the model with the summary so far, and the      *)
(* model's answer is the next summary.  Texts are their lengths in bytes.   *)
(***************************************************************************)
EXTENDS Integers, Sequences

CONSTANTS
  SummaryWindow,      \* maxContextTokens
  InputWindow,        \* inputBudgetTokens: the window without the output allowance
  SummaryOutput,      \* summaryOutputTokens
  InstructionTokens,  \* the estimate of the summarizer's instruction
  SectionLengths,     \* the lengths a section may have
  MaxSections,        \* bound on the number of sections
  ReplyLengths        \* the lengths an answer of the summarizer may have; 0 is blank

ASSUME SummaryAssumption ==
  /\ {SummaryWindow, InputWindow, SummaryOutput, InstructionTokens, MaxSections} \subseteq Nat
  /\ SectionLengths \subseteq Nat \ {0}
  /\ ReplyLengths \subseteq Nat

VARIABLES
  sections,  \* what is left of the prefix
  split,     \* the first of them is the rest of a longer section
  batch,     \* length of the batch
  summary,   \* length of the summary so far, 0 before the first
  prompt,    \* length of the last prompt that was sent
  tail,      \* droppedTail
  stage      \* "folding", "done" or "failed"

summaryVars == <<sections, split, batch, summary, prompt, tail, stage>>

AtLeast(a, b) == IF a < b THEN b ELSE a
AtMost(a, b)  == IF a < b THEN a ELSE b

(* tokensToContextChars: 2.5 bytes a token.                                *)
Chars(tokens) == (tokens * 5) \div 2

BudgetTokens ==
  AtLeast(AtMost((SummaryWindow * 30) \div 100, InputWindow) - (SummaryOutput + InstructionTokens), 1024)

InputChars   == Chars(BudgetTokens)
SectionChars == AtLeast(InputChars - Chars(SummaryOutput) - 1024, 1024)

(* What the prompt says besides the summary and the batch.                 *)
PromptLength(kept, transcript) ==
  transcript + 35 + (IF kept = 0 THEN 0 ELSE kept + 30)

(* splitContextSection: a whole section if it is short enough; otherwise   *)
(* pieces of what fits, each perhaps only up to a newline in its second half. *)
FragmentLengths(section) ==
  LET most == AtMost(section, SectionChars)
  IN IF ~split /\ section <= SectionChars THEN {section}
     ELSE {most, AtMost(most, most \div 2 + 1)}

AvailableAfterSummaryOnly(kept, collected) == InputChars - kept
Available(kept, collected) == InputChars - kept - collected - 1024

(* A blank answer keeps the previous summary.                              *)
Flushed(length) == IF length = 0 THEN summary ELSE length

(* The first fragment joins the batch; what does not fit is cut off.       *)
Add(fragment, kept, collected) ==
  LET room == Available(kept, collected)
  IN /\ summary' = kept
     /\ IF room <= 0
        THEN /\ sections' = <<>> /\ split' = FALSE
             /\ tail' = TRUE /\ batch' = collected
        ELSE /\ sections' = IF fragment = Head(sections) THEN Tail(sections)
                            ELSE <<Head(sections) - fragment>> \o Tail(sections)
             /\ split' = (fragment # Head(sections))
             /\ batch' = (IF collected = 0 THEN 0 ELSE collected + 2) + AtMost(fragment, room)
             /\ UNCHANGED tail

FoldFragment ==
  /\ stage = "folding" /\ sections # <<>>
  /\ \E fragment \in FragmentLengths(Head(sections)) :
       IF batch > 0 /\ fragment > Available(summary, batch)
       THEN /\ prompt' = PromptLength(summary, batch)
            /\ \E length \in ReplyLengths : Add(fragment, Flushed(length), 0)
       ELSE /\ Add(fragment, summary, batch)
            /\ UNCHANGED prompt
  /\ UNCHANGED stage

FlushLast ==
  /\ stage = "folding" /\ sections = <<>>
  /\ IF batch = 0 THEN UNCHANGED <<prompt, summary>>
     ELSE /\ prompt' = PromptLength(summary, batch)
          /\ \E length \in ReplyLengths : summary' = Flushed(length)
  /\ batch' = 0
  /\ stage' = IF summary' = 0 THEN "failed" ELSE "done"
  /\ UNCHANGED <<sections, split, tail>>

(* The model call fails: the caller puts a fixed text in the summary's     *)
(* place.                                                                  *)
SummarizerFails ==
  /\ stage = "folding"
  /\ batch > 0
  /\ stage' = "failed"
  /\ UNCHANGED <<sections, split, batch, summary, prompt, tail>>

SummaryInit ==
  /\ sections \in UNION {[1 .. n -> SectionLengths] : n \in 1 .. MaxSections}
  /\ split = FALSE /\ batch = 0 /\ summary = 0 /\ prompt = 0
  /\ tail = FALSE /\ stage = "folding"

SummaryNext == FoldFragment \/ FlushLast \/ SummarizerFails

SummarySpec == SummaryInit /\ [][SummaryNext]_summaryVars

(* The summarizer's own call never exceeds the budget it was given, which  *)
(* is within the window: it "can never be rejected as too long", however   *)
(* long the summaries are that come back.                                  *)
PromptsFit == prompt <= InputChars
=============================================================================
