----------------------------- MODULE MCAgentWork -----------------------------
(***************************************************************************)
(* One instance of each part of an agent's work that shares no variable    *)
(* with the others: TLC explores their disjoint union, part by part, and   *)
(* checks the invariants of all of them.  A part that is not explored      *)
(* stays in one of its initial states.                                     *)
(***************************************************************************)
EXTENDS AgentLoop, ContextCompaction, ContextSummary, SessionNotes, TranscriptPages, LiveTimeline,
        AcpTimeline, AcpTerminals, FileEdits, CommandApproval, FetchApproval, SessionSettings

VARIABLE part   \* the part that takes steps

OneOf(S) == CHOOSE x \in S : TRUE

(* "./a" is another spelling of the file "a".                              *)
SpellingOf == [s \in {"a", "./a", "b"} |-> IF s = "./a" THEN "a" ELSE s]

(* Two calls of ordinary tools are interchangeable.                        *)
Symmetry == Permutations(Ordinary)

WorkInit ==
  /\ part \in {"loop", "compaction", "summary", "notes", "pages", "timeline",
              "acp", "edits", "command", "fetch", "terminals", "settings"}
  /\ LoopInit
  /\ CompactionInit
  /\ SummaryInit /\ (part # "summary" =>
               sections = <<OneOf(SectionLengths)>>)
  /\ NotesInit
  /\ PagesInit
  /\ TimelineInit
  /\ HandlerInit
  /\ EditsInit /\ (part # "edits" =>
               disk = [f \in Files |-> 0] /\ ~needsApproval /\ ~fullWrite
               /\ changes = <<[op |-> "update", path |-> OneOf(Spellings)]>>)
  /\ CommandInit /\ (part # "command" =>
               found = OneOf(Places) /\ workdir = OneOf(Directories)
               /\ leadsTo = [q \in Places |-> OneOf(Programs)]
               /\ commandRule = "ask" /\ ~inline /\ ~legacy)
  /\ FetchInit /\ (part # "fetch" =>
               firstAddress = OneOf(Addresses))
  /\ TerminalsInit
  /\ SettingsInit /\ (part # "settings" =>
               offeredPermissions = OneOf(PermissionSets))

WorkNext ==
  \/ /\ part = "loop" /\ LoopNext
     /\ UNCHANGED <<part, compactionVars, summaryVars, notesVars, pagesVars, timelineVars,
                    handlerVars, editVars, commandVars, fetchVars, terminalVars, settingsVars>>
  \/ /\ part = "compaction" /\ CompactionNext
     /\ UNCHANGED <<part, loopVars, summaryVars, notesVars, pagesVars, timelineVars,
                    handlerVars, editVars, commandVars, fetchVars, terminalVars, settingsVars>>
  \/ /\ part = "summary" /\ SummaryNext
     /\ UNCHANGED <<part, loopVars, compactionVars, notesVars, pagesVars, timelineVars,
                    handlerVars, editVars, commandVars, fetchVars, terminalVars, settingsVars>>
  \/ /\ part = "notes" /\ NotesNext
     /\ UNCHANGED <<part, loopVars, compactionVars, summaryVars, pagesVars, timelineVars,
                    handlerVars, editVars, commandVars, fetchVars, terminalVars, settingsVars>>
  \/ /\ part = "pages" /\ PagesNext
     /\ UNCHANGED <<part, loopVars, compactionVars, summaryVars, notesVars, timelineVars,
                    handlerVars, editVars, commandVars, fetchVars, terminalVars, settingsVars>>
  \/ /\ part = "timeline" /\ TimelineNext
     /\ UNCHANGED <<part, loopVars, compactionVars, summaryVars, notesVars, pagesVars,
                    handlerVars, editVars, commandVars, fetchVars, terminalVars, settingsVars>>
  \/ /\ part = "acp" /\ HandlerNext
     /\ UNCHANGED <<part, loopVars, compactionVars, summaryVars, notesVars, pagesVars,
                    timelineVars, editVars, commandVars, fetchVars, terminalVars, settingsVars>>
  \/ /\ part = "edits" /\ EditsNext
     /\ UNCHANGED <<part, loopVars, compactionVars, summaryVars, notesVars, pagesVars,
                    timelineVars, handlerVars, commandVars, fetchVars, terminalVars, settingsVars>>
  \/ /\ part = "command" /\ CommandNext
     /\ UNCHANGED <<part, loopVars, compactionVars, summaryVars, notesVars, pagesVars,
                    timelineVars, handlerVars, editVars, fetchVars, terminalVars, settingsVars>>
  \/ /\ part = "fetch" /\ FetchNext
     /\ UNCHANGED <<part, loopVars, compactionVars, summaryVars, notesVars, pagesVars,
                    timelineVars, handlerVars, editVars, commandVars, terminalVars, settingsVars>>
  \/ /\ part = "terminals" /\ TerminalsNext
     /\ UNCHANGED <<part, loopVars, compactionVars, summaryVars, notesVars, pagesVars,
                    timelineVars, handlerVars, editVars, commandVars, fetchVars, settingsVars>>
  \/ /\ part = "settings" /\ SettingsNext
     /\ UNCHANGED <<part, loopVars, compactionVars, summaryVars, notesVars, pagesVars,
                    timelineVars, handlerVars, editVars, commandVars, fetchVars, terminalVars>>

WorkVars == <<part, loopVars, compactionVars, summaryVars, notesVars, pagesVars, timelineVars,
              handlerVars, editVars, commandVars, fetchVars, terminalVars, settingsVars>>

WorkSpec == WorkInit /\ [][WorkNext]_WorkVars
=============================================================================
