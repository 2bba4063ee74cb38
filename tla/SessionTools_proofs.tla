-------------------------- MODULE SessionTools_proofs --------------------------
(***************************************************************************)
(* What the tools of a session do, and which of them it may use: notes,      *)
(* commands, fetches, the settings of servers and permissions, and edits,    *)
(* for any number of authors, files, addresses, servers, sessions and        *)
(* changes.                                                                 *)
(*                                                                         *)
(* That a batch of edits is a transaction rests on two facts: how far the    *)
(* moves and the installations have come, and that of all changes that       *)
(* address one file only one has its hands on it.                            *)
(***************************************************************************)
EXTENDS SessionNotes, CommandApproval, FetchApproval, SessionSettings, FileEdits,
        SequenceTheorems, TLAPS

-----------------------------------------------------------------------------
(* Notes.                                                                  *)

Contents == Texts \cup {""}
Notes    == [content : Contents, revision : Nat]
Updates  == [step : {"none", "asking", "writing"}, content : Contents, expected : Notes]

NotesTypeOK ==
  /\ stored \in Notes
  /\ present \in BOOLEAN
  /\ known \in [Authors -> Notes]
  /\ update \in [Authors -> Updates]

(* What an author has read is an older text or the stored one.             *)
Agrees(read, text) ==
  /\ read.revision <= text.revision
  /\ read.revision = text.revision => read = text

RevisionsNameTexts ==
  /\ Agrees(NoText, stored)
  /\ present => \A a \in Authors :
       Agrees(known[a], stored) /\ Agrees(update[a].expected, stored)

NotesInv == NotesTypeOK /\ RevisionsNameTexts

(* A stored text agrees with itself, and a newer one with all it agreed     *)
(* with before.                                                             *)
LEMMA Agreement ==
  /\ NoText \in Notes /\ NoUpdate \in Updates /\ NoUpdate.expected = NoText
  /\ \A text \in Notes : Agrees(text, text)
  /\ \A read, text, new \in Notes :
       Agrees(read, text) /\ new.revision = text.revision + 1 => Agrees(read, new)
<1>1. NoText \in Notes
  BY DEF NoText, Notes, Contents
<1>2. NoUpdate \in Updates /\ NoUpdate.expected = NoText
  BY <1>1 DEF NoUpdate, Updates, Contents
<1>3. \A text \in Notes : text.revision \in Nat
  BY DEF Notes
<1>4. \A text \in Notes : Agrees(text, text)
  BY <1>3 DEF Agrees
<1>5. \A read, text, new \in Notes :
        Agrees(read, text) /\ new.revision = text.revision + 1 => Agrees(read, new)
  BY <1>3 DEF Agrees
<1>6. QED
  BY <1>1, <1>2, <1>4, <1>5

(* Nobody has read the notes at first.                                     *)
LEMMA NotesInitial == NotesInit => NotesInv
<1> SUFFICES ASSUME NotesInit PROVE NotesInv
  OBVIOUS
<1>1. NotesTypeOK
  BY Agreement DEF NotesInit, NotesTypeOK
<1>2. RevisionsNameTexts
  BY Agreement DEF NotesInit, RevisionsNameTexts
<1>3. QED
  BY <1>1, <1>2 DEF NotesInv

(* Every step keeps the invariant: only Update changes the text, and it     *)
(* gives it a revision nobody has read.                                     *)
LEMMA NotesInductive == NotesInv /\ [NotesNext]_notesVars => NotesInv'
<1> SUFFICES ASSUME NotesInv, [NotesNext]_notesVars PROVE NotesInv'
  OBVIOUS
<1> USE DEF NotesInv, NotesTypeOK, RevisionsNameTexts
<1>1. ASSUME NEW a \in Authors, Read(a) PROVE NotesInv'
  BY <1>1, Agreement DEF Read
<1>2. ASSUME NEW a \in Authors, ProposeUpdate(a) PROVE NotesInv'
  <2>1. UNCHANGED <<stored, present, known>>
    BY <1>2 DEF ProposeUpdate
  <2>2. PICK new \in Updates :
          new.expected = known[a] /\ update' = [update EXCEPT ![a] = new]
    <3>1. PICK text \in Texts, step \in {"asking", "writing"} :
            update' = [update EXCEPT ![a] =
              [step |-> step, content |-> text, expected |-> known[a]]]
      BY <1>2 DEF ProposeUpdate
    <3>2. [step |-> step, content |-> text, expected |-> known[a]] \in Updates
      BY DEF Updates, Contents
    <3>3. QED
      BY <3>1, <3>2
  <2>3. QED
    BY <2>1, <2>2
<1>3. ASSUME NEW a \in Authors, Decided(a) PROVE NotesInv'
  <2>1. UNCHANGED <<stored, present, known>>
    BY <1>3 DEF Decided
  <2>2. CASE update' = [update EXCEPT ![a].step = "writing"]
    <3>1. PICK new \in Updates :
            new.expected = update[a].expected /\ update' = [update EXCEPT ![a] = new]
      <4>1. [update[a] EXCEPT !.step = "writing"] \in Updates
            /\ [update[a] EXCEPT !.step = "writing"].expected = update[a].expected
        BY DEF Updates
      <4>2. QED
        BY <2>2, <4>1
    <3>2. QED
      BY <2>1, <3>1
  <2>3. CASE update' = [update EXCEPT ![a] = NoUpdate]
    BY <2>1, <2>3, Agreement
  <2>4. QED
    BY <1>3, <2>2, <2>3 DEF Decided
<1>4. ASSUME NEW a \in Authors, Update(a) PROVE NotesInv'
  <2>1. update' = [update EXCEPT ![a] = NoUpdate] /\ present' = present
    BY <1>4 DEF Update
  <2>2. CASE /\ stored' = [content |-> update[a].content, revision |-> stored.revision + 1]
             /\ known' = [known EXCEPT ![a] = stored']
    <3>1. stored' \in Notes /\ stored'.revision = stored.revision + 1
      BY <2>2 DEF Notes, Updates
    <3>2. \A read \in Notes : Agrees(read, stored) => Agrees(read, stored')
      BY <3>1, Agreement
    <3>3. NotesTypeOK'
      BY <2>1, <2>2, <3>1, Agreement
    <3>4. \A b \in Authors : update[b].expected \in Notes
      BY DEF Updates
    <3>5. RevisionsNameTexts'
      BY <2>1, <2>2, <3>1, <3>2, <3>4, Agreement
    <3>6. QED
      BY <3>3, <3>5
  <2>3. CASE UNCHANGED <<stored, known>>
    BY <2>1, <2>3, Agreement
  <2>4. QED
    BY <1>4, <2>2, <2>3 DEF Update
<1>5. CASE AcpRun
  BY <1>5 DEF AcpRun
<1>6. CASE Revoke
  BY <1>6 DEF Revoke
<1>7. CASE DeleteNotes
  BY <1>7, Agreement DEF DeleteNotes
<1>8. CASE UNCHANGED notesVars
  BY <1>8 DEF notesVars
<1>9. QED
  BY <1>1, <1>2, <1>3, <1>4, <1>5, <1>6, <1>7, <1>8 DEF NotesNext

(* A revision names one text: what an author has read, or expects when it   *)
(* updates, is the stored text or has an older revision.                    *)
THEOREM RevisionsNameOneText == NotesSpec => []RevisionsNameTexts
<1>1. NotesInv => RevisionsNameTexts
  BY DEF NotesInv
<1>2. QED
  BY <1>1, NotesInitial, NotesInductive, PTL DEF NotesSpec

(* UpdateSessionNotes replaces only the text its author had read, however   *)
(* long the approval took (internal/store/session_notes.go).                *)
THEOREM NoUpdateIsLost == NotesSpec => UpdatesReplaceWhatWasRead
<1>1. NotesInv /\ [NotesNext]_notesVars =>
        [ \A a \in Authors :
            (present' /\ stored' # stored /\ update[a].step = "writing" /\ update'[a] = NoUpdate)
              => update[a].expected = stored ]_notesVars
  <2> SUFFICES ASSUME NotesInv, NotesNext, NEW a \in Authors,
                      present', stored' # stored,
                      update[a].step = "writing", update'[a] = NoUpdate
               PROVE  update[a].expected = stored
    OBVIOUS
  <2>1. PICK b \in Authors : Update(b)
    BY DEF NotesNext, Read, ProposeUpdate, Decided, AcpRun, Revoke, DeleteNotes
  <2>2. b = a
    <3>1. update' = [update EXCEPT ![b] = NoUpdate] /\ update \in [Authors -> Updates]
      BY <2>1 DEF Update, NotesInv, NotesTypeOK
    <3>2. NoUpdate.step # "writing"
      BY DEF NoUpdate
    <3>3. update'[a] # update[a]
      BY <3>2
    <3>4. QED
      BY <3>1, <3>3
  <2>3. present /\ MayReplace(update[a].expected)
    BY <2>1, <2>2 DEF Update
  <2>4. QED
    BY <2>3 DEF MayReplace, NotesInv, RevisionsNameTexts, Agrees
<1>2. QED
  BY <1>1, NotesInitial, NotesInductive, PTL DEF NotesSpec, UpdatesReplaceWhatWasRead

-----------------------------------------------------------------------------
(* Commands.                                                               *)

Resolutions == [place : Places \cup {Missing}, program : Programs \cup {Missing},
                dir : Directories \cup {Missing}]

CommandTypeOK ==
  /\ found \in Places \cup {Missing}
  /\ leadsTo \in [Places -> Programs \cup {Missing}]
  /\ workdir \in Directories \cup {Missing}
  /\ commandRule \in {"ask", "allow"} /\ inline \in BOOLEAN /\ legacy \in BOOLEAN
  /\ phase \in {"called", "asked", "answered", "resolved", "denied", "error", "failed", "completed"}
  /\ payload \in Resolutions /\ resolution \in Resolutions /\ ran \in Resolutions
  /\ stale \in BOOLEAN /\ changed \in Nat

(* What is about to be executed is what the user was shown, and as long as   *)
(* nothing has changed it is still what the place leads to.                *)
ApprovedIsResolved ==
  /\ phase = "resolved" =>
       /\ resolution.place \in Places
       /\ ~stale => leadsTo[resolution.place] = resolution.program
       /\ commandRule = "ask" =>
            /\ resolution.place = payload.place /\ resolution.dir = payload.dir
            /\ legacy \/ resolution.program = payload.program
  /\ phase # "completed" => ran = Unresolved

CommandInv == CommandTypeOK /\ ApprovedIsResolved /\ CommandRunsAsApproved

(* No command is asked for at first.                                       *)
LEMMA CommandInitial == CommandInit => CommandInv
<1> SUFFICES ASSUME CommandInit PROVE CommandInv
  OBVIOUS
<1>1. CommandTypeOK
  <2>1. Unresolved \in Resolutions /\ changed \in Nat
    BY DEF CommandInit, Resolutions, Unresolved
  <2>2. inline \in BOOLEAN /\ legacy \in BOOLEAN /\ stale \in BOOLEAN
    BY Zenon DEF CommandInit
  <2>3. found \in Places \cup {Missing} /\ workdir \in Directories \cup {Missing}
    BY DEF CommandInit
  <2>4. leadsTo \in [Places -> Programs \cup {Missing}]
    BY DEF CommandInit
  <2>5. QED
    BY <2>1, <2>2, <2>3, <2>4 DEF CommandInit, CommandTypeOK
<1>2. ApprovedIsResolved /\ CommandRunsAsApproved
  BY DEF CommandInit, ApprovedIsResolved, CommandRunsAsApproved
<1>3. QED
  BY <1>1, <1>2 DEF CommandInv

(* Every step of a command, and every change of the world.                 *)
LEMMA CommandSteps ==
  ASSUME CommandInv,
         \/ RequestCommand
         \/ DenyCommand
         \/ ApproveCommand
         \/ ResolveAgain
         \/ Execute
         \/ WorldChanges
         \/ UNCHANGED commandVars
  PROVE  CommandInv'
<1> USE DEF CommandInv
<1>1. CASE RequestCommand
  <2>1. CommandTypeOK'
    <3> USE DEF CommandTypeOK, world, settings, EndsCommand, Ready
    <3>1. resolveCommand \in Resolutions
      BY DEF resolveCommand, Program, Resolutions
    <3>2. found' \in Places \cup {Missing} /\ workdir' \in Directories \cup {Missing}
      BY <1>1 DEF RequestCommand
    <3>3. leadsTo' \in [Places -> Programs \cup {Missing}]
      BY <1>1 DEF RequestCommand
    <3>4. commandRule' \in {"ask", "allow"} /\ changed' \in Nat
      BY <1>1 DEF RequestCommand
    <3>5. inline' \in BOOLEAN /\ legacy' \in BOOLEAN
      BY <1>1, Zenon DEF RequestCommand
    <3>6. stale' \in BOOLEAN
      BY <1>1, Zenon DEF RequestCommand
    <3>7. payload' \in Resolutions /\ resolution' \in Resolutions /\ ran' \in Resolutions
      BY <1>1, <3>1 DEF RequestCommand
    <3>8. phase' \in {"called", "asked", "answered", "resolved", "denied", "error", "failed",
                      "completed"}
      BY <1>1 DEF RequestCommand
    <3>9. QED
      BY <3>2, <3>3, <3>4, <3>5, <3>6, <3>7, <3>8
  <2>2. ApprovedIsResolved'
    BY <1>1 DEF RequestCommand, EndsCommand, Ready, Resolvable, resolveCommand, Program,
         Resolutions, Unresolved, settings, world, ApprovedIsResolved, CommandTypeOK
  <2>3. CommandRunsAsApproved'
    BY <1>1 DEF RequestCommand, EndsCommand, Ready, Resolvable, resolveCommand, Program,
         Unresolved, settings, world, CommandRunsAsApproved, ApprovedIsResolved
  <2>4. QED
    BY <2>1, <2>2, <2>3
<1>2. CASE DenyCommand
  <2>1. CommandTypeOK'
    BY <1>2 DEF DenyCommand, EndsCommand, Resolvable, Program, Resolutions, settings, world,
         CommandTypeOK
  <2>2. ApprovedIsResolved'
    BY <1>2 DEF DenyCommand, EndsCommand, Resolvable, Program, Unresolved, settings, world,
         ApprovedIsResolved
  <2>3. CommandRunsAsApproved'
    BY <1>2 DEF DenyCommand, EndsCommand, Resolvable, Program, Unresolved, settings, world,
         CommandRunsAsApproved
  <2>4. QED
    BY <2>1, <2>2, <2>3
<1>3. CASE ApproveCommand
  <2>1. CommandTypeOK'
    BY <1>3 DEF ApproveCommand, EndsCommand, Resolutions, settings, world, CommandTypeOK
  <2>2. ApprovedIsResolved'
    BY <1>3 DEF ApproveCommand, EndsCommand, Unresolved, settings, world, ApprovedIsResolved
  <2>3. CommandRunsAsApproved'
    BY <1>3 DEF ApproveCommand, EndsCommand, Unresolved, settings, world, CommandRunsAsApproved
  <2>4. QED
    BY <2>1, <2>2, <2>3
<1>4. CASE ResolveAgain
  <2>1. CommandTypeOK'
    <3> USE DEF CommandTypeOK, world, settings, EndsCommand, Ready
    <3>1. resolveCommand \in Resolutions
      BY DEF resolveCommand, Program, Resolutions
    <3>2. found' \in Places \cup {Missing} /\ workdir' \in Directories \cup {Missing}
      BY <1>4 DEF ResolveAgain
    <3>3. leadsTo' \in [Places -> Programs \cup {Missing}]
      BY <1>4 DEF ResolveAgain
    <3>4. commandRule' \in {"ask", "allow"} /\ changed' \in Nat
      BY <1>4 DEF ResolveAgain
    <3>5. inline' \in BOOLEAN /\ legacy' \in BOOLEAN
      BY <1>4, Zenon DEF ResolveAgain
    <3>6. stale' \in BOOLEAN
      BY <1>4, Zenon DEF ResolveAgain
    <3>7. payload' \in Resolutions /\ resolution' \in Resolutions /\ ran' \in Resolutions
      BY <1>4, <3>1 DEF ResolveAgain
    <3>8. phase' \in {"called", "asked", "answered", "resolved", "denied", "error", "failed",
                      "completed"}
      BY <1>4 DEF ResolveAgain
    <3>9. QED
      BY <3>2, <3>3, <3>4, <3>5, <3>6, <3>7, <3>8
  <2>2. ApprovedIsResolved'
    BY <1>4 DEF ResolveAgain, EndsCommand, Ready, Resolvable, resolveCommand, Program, Approved,
         sameCommand, Resolutions, Unresolved, settings, world, ApprovedIsResolved, CommandTypeOK
  <2>3. CommandRunsAsApproved'
    BY <1>4 DEF ResolveAgain, EndsCommand, Ready, Resolvable, resolveCommand, Program, Approved,
         sameCommand, Unresolved, settings, world, CommandRunsAsApproved, ApprovedIsResolved
  <2>4. QED
    BY <2>1, <2>2, <2>3
<1>5. CASE Execute
  <2>1. CommandTypeOK'
    BY <1>5 DEF Execute, EndsCommand, Resolutions, Unresolved, settings, world, CommandTypeOK,
         ApprovedIsResolved
  <2>2. ApprovedIsResolved'
    BY <1>5 DEF Execute, EndsCommand, Unresolved, settings, world, ApprovedIsResolved
  <2>3. CommandRunsAsApproved'
    BY <1>5 DEF Execute, EndsCommand, Resolutions, Unresolved, settings, world,
         CommandRunsAsApproved, CommandTypeOK, ApprovedIsResolved
  <2>4. QED
    BY <2>1, <2>2, <2>3
<1>6. CASE WorldChanges
  <2>1. CommandTypeOK'
    <3> USE DEF CommandTypeOK, world, settings, EndsCommand, Ready
    <3>1. resolveCommand \in Resolutions
      BY DEF resolveCommand, Program, Resolutions
    <3>2. found' \in Places \cup {Missing} /\ workdir' \in Directories \cup {Missing}
      BY <1>6 DEF WorldChanges
    <3>3. leadsTo' \in [Places -> Programs \cup {Missing}]
      BY <1>6 DEF WorldChanges
    <3>4. commandRule' \in {"ask", "allow"} /\ changed' \in Nat
      BY <1>6 DEF WorldChanges
    <3>5. inline' \in BOOLEAN /\ legacy' \in BOOLEAN
      BY <1>6, Zenon DEF WorldChanges
    <3>6. stale' \in BOOLEAN
      BY <1>6, Zenon DEF WorldChanges
    <3>7. payload' \in Resolutions /\ resolution' \in Resolutions /\ ran' \in Resolutions
      BY <1>6, <3>1 DEF WorldChanges
    <3>8. phase' \in {"called", "asked", "answered", "resolved", "denied", "error", "failed",
                      "completed"}
      BY <1>6 DEF WorldChanges
    <3>9. QED
      BY <3>2, <3>3, <3>4, <3>5, <3>6, <3>7, <3>8
  <2>2. ApprovedIsResolved'
    BY <1>6 DEF WorldChanges, Unresolved, settings, ApprovedIsResolved
  <2>3. CommandRunsAsApproved'
    BY <1>6 DEF WorldChanges, Unresolved, settings, CommandRunsAsApproved
  <2>4. QED
    BY <2>1, <2>2, <2>3
<1>7. CASE UNCHANGED commandVars
  <2>1. CommandTypeOK'
    BY <1>7 DEF commandVars, Resolutions, CommandTypeOK
  <2>2. ApprovedIsResolved'
    BY <1>7 DEF commandVars, Unresolved, ApprovedIsResolved
  <2>3. CommandRunsAsApproved'
    BY <1>7 DEF commandVars, Unresolved, CommandRunsAsApproved
  <2>4. QED
    BY <2>1, <2>2, <2>3
<1>8. QED
  BY <1>1, <1>2, <1>3, <1>4, <1>5, <1>6, <1>7

(* A command that needed an approval runs what the user was shown: the file   *)
(* it is found under, the directory and, up to the last comparison, the      *)
(* program (command.go, sameCommand and executeCommand).                   *)
THEOREM CommandsRunAsApproved == CommandSpec => []CommandRunsAsApproved
<1>1. CommandInv /\ [CommandNext]_commandVars => CommandInv'
  BY CommandSteps DEF CommandNext
<1>2. CommandInv => CommandRunsAsApproved
  BY DEF CommandInv
<1>3. QED
  BY <1>1, <1>2, CommandInitial, PTL DEF CommandSpec

-----------------------------------------------------------------------------
(* Fetches.                                                                *)

FetchTypeOK ==
  /\ firstAddress \in Addresses /\ here \in Addresses /\ target \in Addresses
  /\ attempt \in {"called", "requesting", "asked", "denied", "failed", "fetched"}
  /\ hops \in Nat /\ attempts \in Nat
  /\ approvedUrls \subseteq Addresses /\ said \subseteq Addresses /\ contacted \subseteq Addresses

(* The payload of a confirmation carries what the user said, and the one     *)
(* address the user is being asked about; the first address comes first.    *)
PayloadIsWhatWasSaid ==
  /\ attempt \in {"called", "requesting"} => approvedUrls \subseteq said
  /\ attempt = "asked" => approvedUrls \subseteq said \cup {target}
  /\ attempt = "requesting" => firstAddress \in AllowedByRule \cup said
  /\ attempt = "asked" => firstAddress \in AllowedByRule \cup said \cup {target}

FetchInv == FetchTypeOK /\ PayloadIsWhatWasSaid /\ OnlyApprovedAddresses

(* No address is asked for at first.                                       *)
LEMMA FetchInitial == FetchInit => FetchInv
<1> SUFFICES ASSUME FetchInit PROVE FetchInv
  OBVIOUS
<1>1. QED
  BY DEF FetchInit, FetchInv, FetchTypeOK, PayloadIsWhatWasSaid, OnlyApprovedAddresses

(* Every step of a request and of the servers.                             *)
LEMMA FetchSteps ==
  ASSUME FetchInv,
         \/ CallFetch
         \/ AnswerFetch
         \/ Redirect
         \/ Respond
         \/ UNCHANGED fetchVars
  PROVE  FetchInv'
<1> USE DEF FetchInv
<1>1. CASE CallFetch
  <2>1. FetchTypeOK'
    BY <1>1 DEF CallFetch, Ask, Send, FetchTypeOK
  <2>2. PayloadIsWhatWasSaid'
    BY <1>1 DEF CallFetch, Ask, Send, PayloadIsWhatWasSaid
  <2>3. OnlyApprovedAddresses'
    BY <1>1 DEF CallFetch, Ask, Send, OnlyApprovedAddresses
  <2>4. QED
    BY <2>1, <2>2, <2>3
<1>2. CASE AnswerFetch
  <2>1. FetchTypeOK'
    BY <1>2 DEF AnswerFetch, FetchTypeOK
  <2>2. PayloadIsWhatWasSaid'
    BY <1>2 DEF AnswerFetch, PayloadIsWhatWasSaid
  <2>3. OnlyApprovedAddresses'
    BY <1>2 DEF AnswerFetch, OnlyApprovedAddresses, PayloadIsWhatWasSaid
  <2>4. QED
    BY <2>1, <2>2, <2>3
<1>3. CASE Redirect
  <2>1. FetchTypeOK'
    BY <1>3 DEF Redirect, Ask, Send, Permitted, FetchTypeOK
  <2>2. PayloadIsWhatWasSaid'
    BY <1>3 DEF Redirect, Ask, Send, Permitted, PayloadIsWhatWasSaid
  <2>3. OnlyApprovedAddresses'
    BY <1>3 DEF Redirect, Ask, Send, Permitted, OnlyApprovedAddresses, PayloadIsWhatWasSaid
  <2>4. QED
    BY <2>1, <2>2, <2>3
<1>4. CASE Respond
  <2>1. FetchTypeOK'
    BY <1>4 DEF Respond, FetchTypeOK
  <2>2. PayloadIsWhatWasSaid'
    BY <1>4 DEF Respond, PayloadIsWhatWasSaid
  <2>3. OnlyApprovedAddresses'
    BY <1>4 DEF Respond, OnlyApprovedAddresses
  <2>4. QED
    BY <2>1, <2>2, <2>3
<1>5. CASE UNCHANGED fetchVars
  <2>1. FetchTypeOK'
    BY <1>5 DEF fetchVars, FetchTypeOK
  <2>2. PayloadIsWhatWasSaid'
    BY <1>5 DEF fetchVars, PayloadIsWhatWasSaid
  <2>3. OnlyApprovedAddresses'
    BY <1>5 DEF fetchVars, OnlyApprovedAddresses
  <2>4. QED
    BY <2>1, <2>2, <2>3
<1>6. QED
  BY <1>1, <1>2, <1>3, <1>4, <1>5

(* No address is contacted that neither the policy allows nor the user has   *)
(* approved, however often the call is redirected and resumed (fetch.go,     *)
(* CheckRedirect and requestFetchConfirmation).                            *)
THEOREM FetchesAreApproved == FetchSpec => []OnlyApprovedAddresses
<1>1. FetchInv /\ [FetchNext]_fetchVars => FetchInv'
  BY FetchSteps DEF FetchNext
<1>2. FetchInv => OnlyApprovedAddresses
  BY DEF FetchInv
<1>3. QED
  BY <1>1, <1>2, FetchInitial, PTL DEF FetchSpec

-----------------------------------------------------------------------------
(* Settings.                                                               *)

Choices == Rules \cup {Off}

SettingsTypeOK ==
  /\ definition \in [Servers -> Nat]
  /\ defaults \in [Servers -> Choices] /\ offered \in [Servers -> Choices]
  /\ offeredPermissions \in PermissionSets /\ granted \in [SettingsSessions -> PermissionSets]
  /\ kind \in [SettingsSessions -> {"adk", "acp"}]
  /\ row \in [SettingsSessions -> {"none", "creating", "handed", "established"}]
  /\ assigned \in [SettingsSessions -> [Servers -> [rule : Choices, version : Nat]]]
  /\ used \in [SettingsSessions -> [Servers -> [rule : Choices, version : Nat]]]
  /\ replacement \in [SettingsSessions -> {"none", "checked"}]
  /\ running \in [SettingsSessions -> {"none", "starting", "active"}]
  /\ overlapped \in [SettingsSessions -> BOOLEAN]

(* Nothing refers to a server that is not there.                           *)
ServersExist ==
  \A x \in Servers :
    /\ defaults[x] # Off \/ offered[x] # Off => definition[x] # 0
    /\ \A s \in SettingsSessions : assigned[s][x].rule # Off => definition[x] # 0

(* A run has a session, and its rules, unless a replacement overlaps it.    *)
RunsHaveTheirRules ==
  \A s \in SettingsSessions : running[s] # "none" =>
    /\ row[s] = "established"
    /\ ~overlapped[s] =>
         /\ replacement[s] = "none"
         /\ \A x \in Servers : used[s][x].rule = assigned[s][x].rule

SettingsInv == SettingsTypeOK /\ ServersExist /\ RunsHaveTheirRules

(* No session has a server at first.                                       *)
LEMMA SettingsInitial == SettingsInit => SettingsInv
<1> SUFFICES ASSUME SettingsInit PROVE SettingsInv
  OBVIOUS
<1>1. SettingsTypeOK
  BY DEF SettingsInit, SettingsTypeOK, Choices, Unassigned
<1>2. ServersExist /\ RunsHaveTheirRules
  BY DEF SettingsInit, ServersExist, RunsHaveTheirRules, Unassigned
<1>3. QED
  BY <1>1, <1>2 DEF SettingsInv

(* Every step of a session's creation, replacement and run.                *)
LEMMA SessionSteps ==
  ASSUME SettingsInv, NEW s \in SettingsSessions,
         \/ CreateSessionRow(s)
         \/ HandToAgent(s)
         \/ ConnectionStored(s)
         \/ CreationFails(s)
         \/ RemoveSession(s)
         \/ ReplaceSessionPermissions(s)
         \/ CheckReplacement(s)
         \/ WriteReplacement(s)
         \/ ReadForRun(s)
         \/ RegisterRun(s)
         \/ SessionRunEnds(s)
  PROVE  SettingsInv'
<1> USE DEF SettingsInv
<1>1. CASE CreateSessionRow(s)
  <2>1. SettingsTypeOK'
    BY <1>1 DEF CreateSessionRow, Choices, catalogue, workspace, run, Copied, SettingsTypeOK
  <2>2. ServersExist'
    BY <1>1 DEF CreateSessionRow, catalogue, workspace, run, Copied, ServersExist
  <2>3. RunsHaveTheirRules'
    BY <1>1 DEF CreateSessionRow, catalogue, workspace, run, Copied, RunsHaveTheirRules
  <2>4. QED
    BY <2>1, <2>2, <2>3
<1>2. CASE HandToAgent(s)
  <2>1. SettingsTypeOK'
    BY <1>2 DEF HandToAgent, Choices, catalogue, workspace, run, SettingsTypeOK
  <2>2. ServersExist'
    BY <1>2 DEF HandToAgent, catalogue, workspace, run, ServersExist
  <2>3. RunsHaveTheirRules'
    BY <1>2 DEF HandToAgent, catalogue, workspace, run, RunsHaveTheirRules
  <2>4. QED
    BY <2>1, <2>2, <2>3
<1>3. CASE ConnectionStored(s)
  <2>1. SettingsTypeOK'
    BY <1>3 DEF ConnectionStored, Choices, catalogue, workspace, run, SettingsTypeOK
  <2>2. ServersExist'
    BY <1>3 DEF ConnectionStored, catalogue, workspace, run, ServersExist
  <2>3. RunsHaveTheirRules'
    BY <1>3 DEF ConnectionStored, catalogue, workspace, run, RunsHaveTheirRules
  <2>4. QED
    BY <2>1, <2>2, <2>3
<1>4. CASE CreationFails(s)
  <2>1. SettingsTypeOK'
    BY <1>4 DEF CreationFails, Choices, catalogue, workspace, run, Unassigned, Gone,
         SettingsTypeOK
  <2>2. ServersExist'
    BY <1>4 DEF CreationFails, catalogue, workspace, run, Unassigned, Gone, ServersExist
  <2>3. RunsHaveTheirRules'
    BY <1>4 DEF CreationFails, catalogue, workspace, run, Unassigned, Gone, RunsHaveTheirRules
  <2>4. QED
    BY <2>1, <2>2, <2>3
<1>5. CASE RemoveSession(s)
  <2>1. SettingsTypeOK'
    BY <1>5 DEF RemoveSession, Choices, catalogue, workspace, run, Unassigned, Gone,
         SettingsTypeOK
  <2>2. ServersExist'
    BY <1>5 DEF RemoveSession, catalogue, workspace, run, Unassigned, Gone, ServersExist
  <2>3. RunsHaveTheirRules'
    BY <1>5 DEF RemoveSession, catalogue, workspace, run, Unassigned, Gone, RunsHaveTheirRules
  <2>4. QED
    BY <2>1, <2>2, <2>3
<1>6. CASE ReplaceSessionPermissions(s)
  <2>1. SettingsTypeOK'
    BY <1>6 DEF ReplaceSessionPermissions, Choices, catalogue, workspace, run, SettingsTypeOK
  <2>2. ServersExist'
    BY <1>6 DEF ReplaceSessionPermissions, catalogue, workspace, run, ServersExist
  <2>3. RunsHaveTheirRules'
    BY <1>6 DEF ReplaceSessionPermissions, catalogue, workspace, run, RunsHaveTheirRules
  <2>4. QED
    BY <2>1, <2>2, <2>3
<1>7. CASE CheckReplacement(s)
  <2>1. SettingsTypeOK'
    BY <1>7 DEF CheckReplacement, Choices, catalogue, workspace, MayReplaceServers,
         SettingsTypeOK
  <2>2. ServersExist'
    BY <1>7 DEF CheckReplacement, catalogue, workspace, MayReplaceServers, ServersExist
  <2>3. RunsHaveTheirRules'
    BY <1>7, SettingsAssumption DEF CheckReplacement, SettingsTypeOK, ServersExist,
         RunsHaveTheirRules, Choices, catalogue, workspace, run, Unassigned, Copied, InUse,
         Existing, SessionServers, Gone, MayReplaceServers
  <2>4. QED
    BY <2>1, <2>2, <2>3
<1>8. CASE WriteReplacement(s)
  <2>1. SettingsTypeOK'
    <3>1. CASE UNCHANGED assigned
      BY <1>8, <3>1 DEF WriteReplacement, SettingsTypeOK, catalogue, workspace, run
    <3>2. CASE assigned' # assigned
      <4>1. PICK rules \in [Servers -> Rules \cup {Off}] :
                 Existing(rules) /\ assigned' = [assigned EXCEPT ![s] = Copied(rules)]
        BY <1>8, <3>2 DEF WriteReplacement
      <4>2. Copied(rules) \in [Servers -> [rule : Choices, version : Nat]]
        BY DEF Copied, Choices, SettingsTypeOK
      <4>3. assigned' \in [SettingsSessions -> [Servers -> [rule : Choices, version : Nat]]]
        BY <4>1, <4>2 DEF SettingsTypeOK
      <4>4. replacement' \in [SettingsSessions -> {"none", "checked"}]
        BY <1>8 DEF WriteReplacement, SettingsTypeOK
      <4>5. QED
        BY <1>8, <4>3, <4>4 DEF WriteReplacement, SettingsTypeOK, catalogue, workspace, run
    <3>3. QED
      BY <3>1, <3>2
  <2>2. ServersExist'
    <3>1. CASE UNCHANGED assigned
      BY <1>8, <3>1 DEF WriteReplacement, ServersExist, catalogue, workspace, run
    <3>2. CASE assigned' # assigned
      <4>1. PICK rules \in [Servers -> Rules \cup {Off}] :
                 Existing(rules) /\ assigned' = [assigned EXCEPT ![s] = Copied(rules)]
        BY <1>8, <3>2 DEF WriteReplacement
      <4>2. Copied(rules) \in [Servers -> [rule : Choices, version : Nat]]
        BY DEF Copied, Choices, SettingsTypeOK
      <4>3. \A x \in Servers : Copied(rules)[x].rule # Off => definition[x] # 0
        BY <4>1 DEF Copied, Existing
      <4>4. \A t \in SettingsSessions :
              assigned'[t] = IF t = s THEN Copied(rules) ELSE assigned[t]
        BY <4>1 DEF SettingsTypeOK
      <4>5. QED
        BY <1>8, <4>3, <4>4 DEF WriteReplacement, ServersExist, catalogue, workspace
    <3>3. QED
      BY <3>1, <3>2
  <2>3. RunsHaveTheirRules'
    BY <1>8 DEF WriteReplacement, Choices, catalogue, workspace, run, Copied, Existing,
         RunsHaveTheirRules, SettingsTypeOK
  <2>4. QED
    BY <2>1, <2>2, <2>3
<1>9. CASE ReadForRun(s)
  <2>1. SettingsTypeOK'
    BY <1>9 DEF ReadForRun, Choices, catalogue, workspace, Copied, SessionServers, SettingsTypeOK
  <2>2. ServersExist'
    BY <1>9 DEF ReadForRun, catalogue, workspace, Copied, SessionServers, ServersExist
  <2>3. RunsHaveTheirRules'
    BY <1>9, SettingsAssumption, ZenonT(60) DEF ReadForRun, SettingsTypeOK, ServersExist, RunsHaveTheirRules,
         Choices, catalogue, workspace, run, Unassigned, Copied, InUse, Existing, SessionServers,
         Gone, MayReplaceServers
  <2>4. QED
    BY <2>1, <2>2, <2>3
<1>10. CASE RegisterRun(s)
  <2>1. SettingsTypeOK'
    BY <1>10 DEF RegisterRun, Choices, catalogue, workspace, SettingsTypeOK
  <2>2. ServersExist'
    BY <1>10 DEF RegisterRun, catalogue, workspace, ServersExist
  <2>3. RunsHaveTheirRules'
    BY <1>10 DEF RegisterRun, catalogue, workspace, RunsHaveTheirRules
  <2>4. QED
    BY <2>1, <2>2, <2>3
<1>11. CASE SessionRunEnds(s)
  <2>1. SettingsTypeOK'
    BY <1>11 DEF SessionRunEnds, Choices, catalogue, workspace, Unassigned, SettingsTypeOK
  <2>2. ServersExist'
    BY <1>11 DEF SessionRunEnds, catalogue, workspace, Unassigned, ServersExist
  <2>3. RunsHaveTheirRules'
    BY <1>11 DEF SessionRunEnds, Choices, catalogue, workspace, Unassigned, RunsHaveTheirRules,
         SettingsTypeOK
  <2>4. QED
    BY <2>1, <2>2, <2>3
<1>12. QED
  BY <1>1, <1>2, <1>3, <1>4, <1>5, <1>6, <1>7, <1>8, <1>9, <1>10, <1>11

(* What is changed for a workspace and its servers.                        *)
LEMMA WorkspaceSteps ==
  ASSUME SettingsInv,
         \/ \E x \in Servers : SaveServer(x)
         \/ \E x \in Servers : UpdateDefaults(x)
         \/ \E x \in Servers : DeleteServer(x)
         \/ CreateWorkspace
         \/ ReplaceWorkspaceServers
         \/ ReplaceWorkspacePermissions
         \/ UNCHANGED settingsVars
  PROVE  SettingsInv'
<1> USE DEF SettingsInv
<1>1. CASE \E x \in Servers : SaveServer(x)
  <2>1. SettingsTypeOK'
    BY <1>1 DEF SaveServer, Choices, workspace, run, SettingsTypeOK
  <2>2. ServersExist'
    BY <1>1 DEF SaveServer, Choices, workspace, run, ServersExist, SettingsTypeOK
  <2>3. RunsHaveTheirRules'
    BY <1>1 DEF SaveServer, workspace, run, RunsHaveTheirRules
  <2>4. QED
    BY <2>1, <2>2, <2>3
<1>2. CASE \E x \in Servers : UpdateDefaults(x)
  <2>1. SettingsTypeOK'
    BY <1>2 DEF UpdateDefaults, Choices, workspace, run, SettingsTypeOK
  <2>2. ServersExist'
    BY <1>2 DEF UpdateDefaults, workspace, run, ServersExist
  <2>3. RunsHaveTheirRules'
    BY <1>2 DEF UpdateDefaults, workspace, run, RunsHaveTheirRules
  <2>4. QED
    BY <2>1, <2>2, <2>3
<1>3. CASE \E x \in Servers : DeleteServer(x)
  <2>1. SettingsTypeOK'
    BY <1>3 DEF DeleteServer, Choices, workspace, run, InUse, SettingsTypeOK
  <2>2. ServersExist'
    BY <1>3 DEF DeleteServer, Choices, workspace, run, InUse, ServersExist, SettingsTypeOK
  <2>3. RunsHaveTheirRules'
    BY <1>3 DEF DeleteServer, workspace, run, InUse, RunsHaveTheirRules
  <2>4. QED
    BY <2>1, <2>2, <2>3
<1>4. CASE CreateWorkspace
  <2>1. SettingsTypeOK'
    BY <1>4 DEF CreateWorkspace, Choices, catalogue, run, SettingsTypeOK
  <2>2. ServersExist'
    BY <1>4 DEF CreateWorkspace, catalogue, run, ServersExist
  <2>3. RunsHaveTheirRules'
    BY <1>4 DEF CreateWorkspace, catalogue, run, RunsHaveTheirRules
  <2>4. QED
    BY <2>1, <2>2, <2>3
<1>5. CASE ReplaceWorkspaceServers
  <2>1. SettingsTypeOK'
    BY <1>5 DEF ReplaceWorkspaceServers, Choices, catalogue, run, Existing, SettingsTypeOK
  <2>2. ServersExist'
    BY <1>5 DEF ReplaceWorkspaceServers, catalogue, run, Existing, ServersExist
  <2>3. RunsHaveTheirRules'
    BY <1>5 DEF ReplaceWorkspaceServers, catalogue, run, Existing, RunsHaveTheirRules
  <2>4. QED
    BY <2>1, <2>2, <2>3
<1>6. CASE ReplaceWorkspacePermissions
  <2>1. SettingsTypeOK'
    BY <1>6 DEF ReplaceWorkspacePermissions, Choices, catalogue, run, SettingsTypeOK
  <2>2. ServersExist'
    BY <1>6 DEF ReplaceWorkspacePermissions, catalogue, run, ServersExist
  <2>3. RunsHaveTheirRules'
    BY <1>6 DEF ReplaceWorkspacePermissions, catalogue, run, RunsHaveTheirRules
  <2>4. QED
    BY <2>1, <2>2, <2>3
<1>7. CASE UNCHANGED settingsVars
  <2>1. SettingsTypeOK'
    BY <1>7 DEF settingsVars, Choices, SettingsTypeOK
  <2>2. ServersExist'
    BY <1>7 DEF settingsVars, ServersExist
  <2>3. RunsHaveTheirRules'
    BY <1>7 DEF settingsVars, RunsHaveTheirRules
  <2>4. QED
    BY <2>1, <2>2, <2>3
<1>8. QED
  BY <1>1, <1>2, <1>3, <1>4, <1>5, <1>6, <1>7

(* A run asks for the calls its session's rules say, of servers that still    *)
(* exist, unless a replacement was admitted before it was registered         *)
(* (mcp.go, ReplaceSessionMCPServers, and engine.go, StartRun).             *)
THEOREM RunsKeepTheirRules == SettingsSpec => []RunsUseTheStoredRules
<1>1. SettingsInv /\ [SettingsNext]_settingsVars => SettingsInv'
  BY SessionSteps, WorkspaceSteps DEF SettingsNext
<1>2. SettingsInv => RunsUseTheStoredRules
  BY DEF SettingsInv, ServersExist, RunsHaveTheirRules, RunsUseTheStoredRules
<1>3. QED
  BY <1>1, <1>2, SettingsInitial, PTL DEF SettingsSpec

-----------------------------------------------------------------------------
(* File edits.  The changes of a call address files, perhaps one file by two *)
(* spellings; a file somebody else has written since is left out of account. *)
Mine(i) == Target(i) \notin others
Busy(i) == i \in installed \/ aside[i] # 0

(* While changes are undone, from the last to the first, those that are left.*)
Undoing == at \in {"undo", "undo_conflict"}
Left(i) == Undoing => i <= next

EditsTypeOK ==
  /\ disk \in [Files -> Nat] /\ original \in [Files -> Nat]
  /\ DOMAIN changes = 1 .. Len(changes) /\ Len(changes) \in Nat \ {0}
  /\ \A i \in Steps : changes[i].op \in Operations /\ Target(i) \in Files
  /\ fullWrite => Len(changes) = 1 /\ changes[1].op = "update"
  /\ at \in {"called", "asked", "staging", "validating", "moving", "installing", "cleaning",
             "undo", "undo_conflict", "applied", "unchanged", "denied", "conflict", "failed"}
  /\ next \in Nat /\ otherWrites \in Nat
  /\ at = "asked" => proposed \in [Steps -> Nat]
  /\ Undoing => next <= Len(changes)
  /\ ~Undoing => next # 0

(* A transaction has the approved proposal as its base, in which what is     *)
(* deleted is there; the other states have none.                            *)
BaseIsProposed ==
  IF base = <<>> THEN aside = <<>> /\ at \in Ended \cup {"called", "asked"} /\ at # "applied"
  ELSE /\ base \in [Steps -> Nat] /\ base = proposed /\ aside \in [Steps -> Nat]
       /\ at \notin {"called", "asked", "unchanged", "denied"}
       /\ \A i \in Steps : Deletes(i) => base[i] # 0

(* A validated file is as it was when the transaction began.                 *)
ValidatedIsOriginal ==
  \A i \in Steps :
    /\ at \in {"moving", "installing", "undo", "undo_conflict"} \/ (at = "validating" /\ i < next)
    /\ Mine(i)
    => base[i] = original[Target(i)]

(* Before anything is moved, and until there is something to undo.           *)
NothingMoved ==
  /\ at \in {"staging", "validating"} => installed = {} /\ \A i \in Steps : aside[i] = 0
  /\ at = "moving" => installed = {}
  /\ at \notin {"undo", "undo_conflict", "conflict", "failed"} => ~ruined

(* How far the moves and the installations have come.                        *)
MovesAreMade ==
  at \in {"moving", "installing", "undo", "undo_conflict"} =>
    \A i \in Steps :
      /\ aside[i] # 0 => base[i] # 0
      /\ aside[i] # 0 /\ Mine(i) => aside[i] = original[Target(i)]
      /\ base[i] # 0 /\ ((at = "moving" /\ i < next) \/ at = "installing") => aside[i] # 0
      /\ i \in installed => ~Deletes(i)
      /\ i \in installed /\ base[i] # 0 /\ Left(i) => aside[i] # 0
      /\ at = "installing" /\ i < next /\ ~Deletes(i) => i \in installed

CheckHolds ==
  checked => /\ at = "moving" /\ next <= Len(changes) /\ Exists(next)
             /\ next \notin raced => disk[Target(next)] = base[next]

(* One change has its hands on a file, and the file is as it left it; a file *)
(* without one is as it was.                                               *)
OneAtAFile ==
  at \in {"staging", "validating", "moving", "installing", "undo", "undo_conflict"} =>
    \A i, j \in Steps : Left(i) /\ Left(j) /\ Busy(i) /\ Busy(j) /\ Mine(i)
                          /\ Target(i) = Target(j) => i = j

FilesFollowChanges ==
  at \in {"staging", "validating", "moving", "installing", "undo", "undo_conflict"} /\ ~ruined =>
    /\ \A i \in Steps : Mine(i) /\ Left(i) =>
         /\ i \in installed => disk[Target(i)] = Result(changes[i], base[i])
         /\ i \notin installed /\ aside[i] # 0 => disk[Target(i)] = 0
    /\ \A f \in Files \ others :
         (\A i \in Steps : Left(i) /\ Target(i) = f => ~Busy(i)) => disk[f] = original[f]

AppliedIsShown ==
  at \in {"cleaning", "applied"} =>
    \A i \in Steps : Mine(i) => disk[Target(i)] = Result(changes[i], base[i])

EditsInv ==
  /\ EditsTypeOK /\ BaseIsProposed /\ ValidatedIsOriginal /\ NothingMoved /\ MovesAreMade
  /\ CheckHolds /\ OneAtAFile /\ FilesFollowChanges /\ AppliedIsShown
  /\ PatchesAreTransactions

-----------------------------------------------------------------------------
(* Before anything is moved every file is as it was, those of others apart.  *)
LEMMA NothingBusy ==
  ASSUME EditsInv, at \in {"staging", "validating"}
  PROVE  /\ ~ruined /\ \A i \in Steps : ~Busy(i)
         /\ \A f \in Files \ others : disk[f] = original[f]
<1>1. ~ruined /\ \A i \in Steps : ~Busy(i)
  BY DEF EditsInv, NothingMoved, Busy
<1>2. QED
  BY <1>1 DEF EditsInv, FilesFollowChanges

(* Only a deletion leaves nothing, and it has something to delete.           *)
LEMMA Results ==
  ASSUME EditsInv, base # <<>>, NEW i \in Steps
  PROVE  /\ base[i] \in Nat /\ Result(changes[i], base[i]) \in Nat
         /\ Deletes(i) => Result(changes[i], base[i]) = 0 /\ base[i] # 0
         /\ ~Deletes(i) => Result(changes[i], base[i]) # 0
<1>1. base[i] \in Nat /\ (Deletes(i) => base[i] # 0)
  BY DEF EditsInv, BaseIsProposed
<1>2. fullWrite => i = 1 /\ changes[1].op = "update"
  BY DEF EditsInv, EditsTypeOK, Steps
<1>3. QED
  BY <1>1, <1>2 DEF Result, Deletes

(* A step that fails after the first move hands over to the undoing.      *)
LEMMA RollingBack ==
  ASSUME EditsInv, at \in {"moving", "installing"}, NEW state \in {"undo", "undo_conflict"},
         RollBack(state)
  PROVE  EditsInv'
<1> USE DEF EditsInv, PatchesAreTransactions
<1>0. /\ UNCHANGED <<disk, changes, fullWrite, base, proposed, aside, installed, others, original,
                     raced, ruined, otherWrites>>
      /\ at' \in {"undo", "undo_conflict"} /\ next' = Len(changes) /\ ~Undoing
  BY DEF RollBack, Goes, Untouched, toolCall, Undoing
<1>11. EditsTypeOK'
  BY DEF RollBack, Target, Steps, Goes, Untouched, toolCall, Undoing, Operations, EditsTypeOK
<1>12. BaseIsProposed'
  BY DEF RollBack, Steps, Goes, Untouched, toolCall, Deletes, Ended, BaseIsProposed
<1>13. ValidatedIsOriginal'
  BY DEF RollBack, Target, Steps, Goes, Untouched, toolCall, Mine, ValidatedIsOriginal
<1>14. NothingMoved'
  BY DEF RollBack, Steps, Goes, Untouched, toolCall, NothingMoved
<1>15. MovesAreMade'
  BY DEF RollBack, Target, Steps, Goes, Untouched, toolCall, Mine, Undoing, Left, Deletes,
       RollBack, MovesAreMade
<1>16. CheckHolds'
  BY DEF RollBack, Target, Goes, Untouched, toolCall, Exists, CheckHolds
<1>17. OneAtAFile'
  BY DEF RollBack, Target, Steps, Goes, Untouched, toolCall, Mine, Busy, Undoing, Left, RollBack,
       OneAtAFile
<1>18. FilesFollowChanges'
  <2>1. \A i \in Steps : Left(i) /\ i <= next'
    BY <1>0 DEF Left, EditsTypeOK, Steps
  <2>2. QED
    BY <1>0, <2>1 DEF Mine, Busy, Left, Undoing, Target, Steps, Result, FilesFollowChanges
<1>19. AppliedIsShown'
  BY DEF RollBack, Target, Steps, Goes, Untouched, toolCall, Mine, Result, AppliedIsShown
<1>20. AllOrNothing'
  BY DEF RollBack, Target, Steps, Goes, Untouched, toolCall, Result, AllOrNothing
<1>21. OriginalsSurvive'
  BY <1>0 DEF OriginalsSurvive, Applying, Ended, Target, Steps
<1>22. ReplacedWasShown'
  BY DEF RollBack, Goes, Untouched, toolCall, ReplacedWasShown
<1>23. QED
  BY <1>11, <1>12, <1>13, <1>14, <1>15, <1>16, <1>17, <1>18, <1>19, <1>20, <1>21, <1>22
     DEF EditsInv, PatchesAreTransactions

(* A step that fails before the first move leaves every file as it was.   *)
LEMMA CleaningUp ==
  ASSUME EditsInv, at \in {"staging", "validating"}, NEW state \in {"conflict", "failed"},
         CleanUp(state)
  PROVE  EditsInv'
<1> USE DEF EditsInv, PatchesAreTransactions
<1>11. EditsTypeOK'
  BY DEF CleanUp, Target, Steps, Goes, Untouched, toolCall, Undoing, Operations, EditsTypeOK
<1>12. BaseIsProposed'
  BY DEF CleanUp, Steps, Goes, Untouched, toolCall, Deletes, Ended, BaseIsProposed
<1>13. ValidatedIsOriginal'
  BY DEF CleanUp, Target, Steps, Goes, Untouched, toolCall, Mine, ValidatedIsOriginal
<1>14. NothingMoved'
  BY DEF CleanUp, Steps, Goes, Untouched, toolCall, NothingMoved
<1>15. MovesAreMade'
  BY DEF CleanUp, Target, Steps, Goes, Untouched, toolCall, Mine, Undoing, Left, Deletes,
       MovesAreMade
<1>16. CheckHolds'
  BY DEF CleanUp, Target, Goes, Untouched, toolCall, Exists, CheckHolds
<1>17. OneAtAFile'
  BY DEF CleanUp, Target, Steps, Goes, Untouched, toolCall, Mine, Busy, Undoing, Left, OneAtAFile
<1>18. FilesFollowChanges'
  BY DEF CleanUp, Target, Steps, Goes, Untouched, toolCall, Mine, Busy, Undoing, Left, Result,
       FilesFollowChanges
<1>19. AppliedIsShown'
  BY DEF CleanUp, Target, Steps, Goes, Untouched, toolCall, Mine, Result, AppliedIsShown
<1>20. AllOrNothing'
  <2>1. /\ UNCHANGED <<disk, changes, others, original>>
        /\ at' \in {"conflict", "failed"}
    BY DEF CleanUp, Goes, Untouched, toolCall
  <2>2. \A i \in Steps : Target(i) \in Files
    BY DEF EditsTypeOK
  <2>3. QED
    BY <2>1, <2>2, NothingBusy DEF AllOrNothing, Target, Steps
<1>21. OriginalsSurvive'
  BY DEF CleanUp, Target, Steps, Goes, Untouched, toolCall, Ended, Applying, CleanUp,
       OriginalsSurvive
<1>22. ReplacedWasShown'
  BY DEF CleanUp, Goes, Untouched, toolCall, ReplacedWasShown
<1>23. QED
  BY <1>11, <1>12, <1>13, <1>14, <1>15, <1>16, <1>17, <1>18, <1>19, <1>20, <1>21, <1>22
     DEF EditsInv, PatchesAreTransactions

(* A new content is staged beside its target.                             *)
LEMMA Staging ==
  ASSUME EditsInv, Stage, at' = "staging"
  PROVE  EditsInv'
<1> USE DEF EditsInv, PatchesAreTransactions
<1>11. EditsTypeOK'
  BY DEF Stage, Target, Steps, Goes, Untouched, toolCall, Undoing, Deletes, Operations, Fault,
       NoFault, CleanUp, EditsTypeOK
<1>12. BaseIsProposed'
  BY DEF Stage, Steps, Goes, Untouched, toolCall, Deletes, Ended, Fault, NoFault, CleanUp,
       BaseIsProposed
<1>13. ValidatedIsOriginal'
  BY DEF Stage, Target, Steps, Goes, Untouched, toolCall, Mine, Deletes, Fault, NoFault, CleanUp,
       ValidatedIsOriginal
<1>14. NothingMoved'
  BY DEF Stage, Steps, Goes, Untouched, toolCall, Deletes, Fault, NoFault, CleanUp, NothingMoved
<1>15. MovesAreMade'
  BY DEF Stage, Target, Steps, Goes, Untouched, toolCall, Mine, Undoing, Left, Deletes, Fault,
       NoFault, CleanUp, MovesAreMade
<1>16. CheckHolds'
  BY DEF Stage, Target, Goes, Untouched, toolCall, Exists, Deletes, Fault, NoFault, CleanUp,
       CheckHolds
<1>17. OneAtAFile'
  BY DEF Stage, Target, Steps, Goes, Untouched, toolCall, Mine, Busy, Undoing, Left, Deletes,
       Fault, NoFault, CleanUp, OneAtAFile
<1>18. FilesFollowChanges'
  BY DEF Stage, Target, Steps, Goes, Untouched, toolCall, Mine, Busy, Undoing, Left, Deletes,
       Result, Fault, NoFault, CleanUp, FilesFollowChanges
<1>19. AppliedIsShown'
  BY DEF Stage, Target, Steps, Goes, Untouched, toolCall, Mine, Deletes, Result, Fault, NoFault,
       CleanUp, AppliedIsShown
<1>20. AllOrNothing'
  BY DEF Stage, Target, Steps, Goes, Untouched, toolCall, Deletes, Result, Fault, NoFault,
       CleanUp, AllOrNothing
<1>21. OriginalsSurvive'
  BY DEF Stage, Target, Steps, Goes, Untouched, toolCall, Deletes, Ended, Applying, Fault,
       NoFault, CleanUp, OriginalsSurvive
<1>22. ReplacedWasShown'
  BY DEF Stage, Goes, Untouched, toolCall, Deletes, Fault, NoFault, CleanUp, ReplacedWasShown
<1>23. QED
  BY <1>11, <1>12, <1>13, <1>14, <1>15, <1>16, <1>17, <1>18, <1>19, <1>20, <1>21, <1>22
     DEF EditsInv, PatchesAreTransactions

(* All is staged.                                                         *)
LEMMA ToValidate ==
  ASSUME EditsInv, ValidateAll
  PROVE  EditsInv'
<1> USE DEF EditsInv, PatchesAreTransactions
<1>11. EditsTypeOK'
  BY DEF ValidateAll, Target, Steps, Goes, Untouched, toolCall, Undoing, Operations, NoFault,
       EditsTypeOK
<1>12. BaseIsProposed'
  BY DEF ValidateAll, Steps, Goes, Untouched, toolCall, Deletes, Ended, NoFault, BaseIsProposed
<1>13. ValidatedIsOriginal'
  BY DEF ValidateAll, Target, Steps, Goes, Untouched, toolCall, Mine, NoFault,
       ValidatedIsOriginal
<1>14. NothingMoved'
  BY DEF ValidateAll, Steps, Goes, Untouched, toolCall, NoFault, NothingMoved
<1>15. MovesAreMade'
  BY DEF ValidateAll, Target, Steps, Goes, Untouched, toolCall, Mine, Undoing, Left, Deletes,
       NoFault, MovesAreMade
<1>16. CheckHolds'
  BY DEF ValidateAll, Target, Goes, Untouched, toolCall, Exists, NoFault, CheckHolds
<1>17. OneAtAFile'
  BY DEF ValidateAll, Target, Steps, Goes, Untouched, toolCall, Mine, Busy, Undoing, Left,
       NoFault, OneAtAFile
<1>18. FilesFollowChanges'
  BY DEF ValidateAll, Target, Steps, Goes, Untouched, toolCall, Mine, Busy, Undoing, Left,
       Result, NoFault, FilesFollowChanges
<1>19. AppliedIsShown'
  BY DEF ValidateAll, Target, Steps, Goes, Untouched, toolCall, Mine, Result, NoFault,
       AppliedIsShown
<1>20. AllOrNothing'
  BY DEF ValidateAll, Target, Steps, Goes, Untouched, toolCall, Result, NoFault, AllOrNothing
<1>21. OriginalsSurvive'
  BY DEF ValidateAll, Target, Steps, Goes, Untouched, toolCall, Ended, Applying, NoFault,
       OriginalsSurvive
<1>22. ReplacedWasShown'
  BY DEF ValidateAll, Goes, Untouched, toolCall, NoFault, ReplacedWasShown
<1>23. QED
  BY <1>11, <1>12, <1>13, <1>14, <1>15, <1>16, <1>17, <1>18, <1>19, <1>20, <1>21, <1>22
     DEF EditsInv, PatchesAreTransactions

(* A file is found as the proposal was built from, which is as it was.    *)
LEMMA Validating ==
  ASSUME EditsInv, Validate, at' # "conflict"
  PROVE  EditsInv'
<1> USE DEF EditsInv, PatchesAreTransactions
<1>0. /\ UNCHANGED <<disk, changes, fullWrite, base, proposed, aside, installed, others, original,
                     raced, ruined, otherWrites>>
      /\ at = "validating" /\ checked' = FALSE
      /\ \/ at' = "moving" /\ next' = 1 /\ next > Len(changes)
         \/ at' = "validating" /\ next' = next + 1 /\ next <= Len(changes) /\ Valid(next)
  BY DEF Validate, CleanUp, Goes, Untouched, toolCall, EditsTypeOK
<1>11. EditsTypeOK'
  BY <1>0 DEF EditsTypeOK, Steps, Target, Undoing
<1>12. BaseIsProposed'
  BY DEF Validate, Target, Steps, Goes, Untouched, toolCall, Deletes, Ended, NoFault, CleanUp,
       BaseIsProposed
<1>13. ValidatedIsOriginal'
  <2>1. ASSUME NEW i \in Steps, Mine(i), (at' = "validating" /\ i < next') \/ at' = "moving"
        PROVE  base[i] = original[Target(i)]
    <3>1. i \in Nat /\ next \in Nat /\ Target(i) \in Files
      BY DEF EditsTypeOK, Steps
    <3>2. CASE i < next
      BY <1>0, <2>1, <3>2 DEF ValidatedIsOriginal
    <3>3. CASE i = next /\ Valid(i)
      BY <1>0, <2>1, <3>1, <3>3, NothingBusy DEF Valid, Mine
    <3>4. i < next \/ (i = next /\ Valid(i))
      BY <1>0, <2>1, <3>1 DEF EditsTypeOK, Steps
    <3>5. QED
      BY <3>2, <3>3, <3>4
  <2>2. QED
    BY <1>0, <2>1 DEF ValidatedIsOriginal, Mine, Target, Steps
<1>14. NothingMoved'
  BY DEF Validate, Target, Steps, Goes, Untouched, toolCall, NoFault, CleanUp, NothingMoved
<1>15. MovesAreMade'
  BY DEF Validate, Target, Steps, Goes, Untouched, toolCall, Mine, Undoing, Left, Deletes,
       NoFault, CleanUp, MovesAreMade, NothingMoved
<1>16. CheckHolds'
  BY DEF Validate, Target, Goes, Untouched, toolCall, Exists, NoFault, CleanUp, CheckHolds
<1>17. OneAtAFile'
  BY DEF Validate, Target, Steps, Goes, Untouched, toolCall, Mine, Busy, Undoing, Left, NoFault,
       CleanUp, OneAtAFile
<1>18. FilesFollowChanges'
  BY DEF Validate, Target, Steps, Goes, Untouched, toolCall, Mine, Busy, Undoing, Left, Result,
       NoFault, CleanUp, FilesFollowChanges
<1>19. AppliedIsShown'
  BY DEF Validate, Target, Steps, Goes, Untouched, toolCall, Mine, Result, NoFault, CleanUp,
       AppliedIsShown
<1>20. AllOrNothing'
  BY DEF Validate, Target, Steps, Goes, Untouched, toolCall, Result, NoFault, CleanUp,
       AllOrNothing
<1>21. OriginalsSurvive'
  BY DEF Validate, Target, Steps, Goes, Untouched, toolCall, Ended, Applying, NoFault, CleanUp,
       OriginalsSurvive
<1>22. ReplacedWasShown'
  BY DEF Validate, Target, Goes, Untouched, toolCall, NoFault, CleanUp, ReplacedWasShown
<1>23. QED
  BY <1>11, <1>12, <1>13, <1>14, <1>15, <1>16, <1>17, <1>18, <1>19, <1>20, <1>21, <1>22
     DEF EditsInv, PatchesAreTransactions

(* There is nothing to move.                                              *)
LEMMA Skipping ==
  ASSUME EditsInv, Skip
  PROVE  EditsInv'
<1> USE DEF EditsInv, PatchesAreTransactions
<1>0. /\ UNCHANGED <<disk, changes, fullWrite, base, proposed, aside, installed, others, original,
                     raced, ruined, otherWrites>>
      /\ at = "moving" /\ at' = "moving" /\ next' = next + 1 /\ base[next] = 0
      /\ next <= Len(changes)
  BY DEF Skip, Goes, Untouched, toolCall, Exists
<1>11. EditsTypeOK'
  BY DEF Skip, Target, Steps, Goes, Untouched, toolCall, Undoing, Exists, Operations, NoFault,
       EditsTypeOK
<1>12. BaseIsProposed'
  BY DEF Skip, Steps, Goes, Untouched, toolCall, Exists, Deletes, Ended, NoFault, BaseIsProposed
<1>13. ValidatedIsOriginal'
  BY DEF Skip, Target, Steps, Goes, Untouched, toolCall, Mine, Exists, NoFault,
       ValidatedIsOriginal
<1>14. NothingMoved'
  BY DEF Skip, Steps, Goes, Untouched, toolCall, Exists, NoFault, NothingMoved
<1>15. MovesAreMade'
  BY DEF Skip, Target, Steps, Goes, Untouched, toolCall, Mine, Undoing, Left, Exists, Deletes,
       Operations, NoFault, MovesAreMade, EditsTypeOK
<1>16. CheckHolds'
  BY DEF Skip, Target, Goes, Untouched, toolCall, Exists, NoFault, CheckHolds
<1>17. OneAtAFile'
  BY <1>0 DEF Mine, Busy, Left, Undoing, Target, Steps, OneAtAFile
<1>18. FilesFollowChanges'
  BY DEF Skip, Target, Steps, Goes, Untouched, toolCall, Mine, Busy, Undoing, Left, Exists,
       Result, NoFault, FilesFollowChanges
<1>19. AppliedIsShown'
  BY DEF Skip, Target, Steps, Goes, Untouched, toolCall, Mine, Exists, Result, NoFault,
       AppliedIsShown
<1>20. AllOrNothing'
  BY DEF Skip, Target, Steps, Goes, Untouched, toolCall, Exists, Result, NoFault, AllOrNothing
<1>21. OriginalsSurvive'
  BY DEF Skip, Target, Steps, Goes, Untouched, toolCall, Exists, Ended, Applying, NoFault,
       OriginalsSurvive
<1>22. ReplacedWasShown'
  BY DEF Skip, Goes, Untouched, toolCall, Exists, NoFault, ReplacedWasShown
<1>23. QED
  BY <1>11, <1>12, <1>13, <1>14, <1>15, <1>16, <1>17, <1>18, <1>19, <1>20, <1>21, <1>22
     DEF EditsInv, PatchesAreTransactions

(* A file is checked once more before it is moved.                        *)
LEMMA Checking ==
  ASSUME EditsInv, ValidateAgain, at' = "moving"
  PROVE  EditsInv'
<1> USE DEF EditsInv, PatchesAreTransactions
<1>11. EditsTypeOK'
  BY DEF ValidateAgain, Target, Steps, Goes, Untouched, toolCall, Exists, Operations, NoFault,
       RollBack, Undoing, EditsTypeOK
<1>12. BaseIsProposed'
  BY DEF ValidateAgain, Target, Steps, Goes, Untouched, toolCall, Exists, Deletes, Ended,
       NoFault, RollBack, BaseIsProposed
<1>13. ValidatedIsOriginal'
  BY DEF ValidateAgain, Target, Steps, Goes, Untouched, toolCall, Mine, Exists, NoFault,
       RollBack, ValidatedIsOriginal
<1>14. NothingMoved'
  BY DEF ValidateAgain, Target, Steps, Goes, Untouched, toolCall, Exists, NoFault, RollBack,
       NothingMoved
<1>15. MovesAreMade'
  BY DEF ValidateAgain, Target, Steps, Goes, Untouched, toolCall, Mine, Undoing, Left, Exists,
       Deletes, NoFault, RollBack, MovesAreMade
<1>16. CheckHolds'
  <2>1. /\ UNCHANGED <<disk, changes, base, raced, next>>
        /\ at' = "moving" /\ Valid(next) /\ next <= Len(changes) /\ Exists(next)
    BY DEF ValidateAgain, RollBack, Goes, Untouched, toolCall
  <2>2. QED
    BY <2>1 DEF CheckHolds, Valid, Exists, Target
<1>17. OneAtAFile'
  BY DEF ValidateAgain, Target, Steps, Goes, Untouched, toolCall, Mine, Busy, Undoing, Left,
       Exists, NoFault, RollBack, OneAtAFile
<1>18. FilesFollowChanges'
  BY DEF ValidateAgain, Target, Steps, Goes, Untouched, toolCall, Mine, Busy, Undoing, Left,
       Exists, Result, NoFault, RollBack, FilesFollowChanges
<1>19. AppliedIsShown'
  BY DEF ValidateAgain, Target, Steps, Goes, Untouched, toolCall, Mine, Exists, Result, NoFault,
       RollBack, AppliedIsShown
<1>20. AllOrNothing'
  BY DEF ValidateAgain, Target, Steps, Goes, Untouched, toolCall, Exists, Result, NoFault,
       RollBack, AllOrNothing
<1>21. OriginalsSurvive'
  BY DEF ValidateAgain, Target, Steps, Goes, Untouched, toolCall, Exists, Ended, Applying,
       NoFault, RollBack, OriginalsSurvive
<1>22. ReplacedWasShown'
  BY DEF ValidateAgain, Target, Goes, Untouched, toolCall, Exists, NoFault, RollBack,
       ReplacedWasShown
<1>23. QED
  BY <1>11, <1>12, <1>13, <1>14, <1>15, <1>16, <1>17, <1>18, <1>19, <1>20, <1>21, <1>22
     DEF EditsInv, PatchesAreTransactions

(* An original is moved aside: nobody else has its file in hand.          *)
LEMMA Moving ==
  ASSUME EditsInv, MoveAside, at' = "moving"
  PROVE  EditsInv'
<1> USE DEF EditsInv, PatchesAreTransactions
<1> DEFINE k == next
           f == Target(k)
<1>0. /\ UNCHANGED <<changes, fullWrite, base, proposed, installed, others, original, raced, ruined,
                     otherWrites>>
      /\ at = "moving" /\ at' = "moving" /\ next' = k + 1 /\ k \in Steps /\ f \in Files
      /\ checked /\ base[k] # 0 /\ base # <<>> /\ installed = {} /\ ~ruined
      /\ \A i \in Steps : Target(i) \in Files
  <2>1. at = "moving" /\ k \in Steps /\ checked
    BY DEF MoveAside, Steps, Undoing, RollBack, Goes, EditsTypeOK
  <2>2. base # <<>> /\ installed = {} /\ ~ruined /\ base[k] # 0
    BY <2>1 DEF BaseIsProposed, NothingMoved, CheckHolds, Exists, Ended
  <2>3. \A i \in Steps : Target(i) \in Files
    BY DEF EditsTypeOK
  <2>4. QED
    BY <2>1, <2>2, <2>3 DEF MoveAside, RollBack, Goes, Untouched, toolCall
<1>a. /\ disk[f] # 0 /\ aside' = [aside EXCEPT ![k] = disk[f]] /\ disk' = [disk EXCEPT ![f] = 0]
  BY DEF MoveAside, RollBack, Goes
<1>b. /\ \A i \in Steps : aside'[i] = IF i = k THEN disk[f] ELSE aside[i]
      /\ \A g \in Files : disk'[g] = IF g = f THEN 0 ELSE disk[g]
  BY <1>0, <1>a DEF EditsTypeOK, BaseIsProposed
<1>c. f \notin others =>
        disk[f] = original[f] /\ \A i \in Steps : Target(i) = f => ~Busy(i)
  <2> SUFFICES ASSUME f \notin others
               PROVE  disk[f] = original[f] /\ \A i \in Steps : Target(i) = f => ~Busy(i)
    OBVIOUS
  <2>1. \A i \in Steps : Target(i) = f => ~Busy(i)
    BY <1>0, <1>a DEF FilesFollowChanges, Mine, Left, Undoing, Busy
  <2>2. QED
    BY <1>0, <2>1 DEF FilesFollowChanges
<1> HIDE DEF k, f
<1>11. EditsTypeOK'
  <2>1. disk' \in [Files -> Nat]
    BY <1>0, <1>a DEF EditsTypeOK
  <2>2. QED
    BY <1>0, <2>1 DEF EditsTypeOK, Steps, Target, Undoing, k
<1>12. BaseIsProposed'
  <2>1. base \in [Steps -> Nat] /\ base = proposed /\ disk[f] \in Nat
    BY <1>0 DEF BaseIsProposed, EditsTypeOK
  <2>2. aside' \in [Steps -> Nat]
    BY <1>0, <1>a, <2>1 DEF BaseIsProposed
  <2>3. QED
    BY <1>0, <2>2 DEF BaseIsProposed, Steps, Deletes, Ended
<1>13. ValidatedIsOriginal'
  BY DEF MoveAside, Target, Steps, Goes, Untouched, toolCall, Mine, Fault, NoFault, RollBack,
       ValidatedIsOriginal
<1>14. NothingMoved'
  BY DEF MoveAside, Target, Steps, Goes, Untouched, toolCall, Fault, NoFault, RollBack,
       NothingMoved
<1>15. MovesAreMade'
  <2>1. \A i \in Steps : aside'[i] # 0 => base[i] # 0
    BY <1>0, <1>b DEF MovesAreMade
  <2>2. \A i \in Steps : aside'[i] # 0 /\ Mine(i) => aside'[i] = original[Target(i)]
    BY <1>0, <1>b, <1>c DEF MovesAreMade, Mine, f
  <2>3. \A i \in Steps : base[i] # 0 /\ i < next' => aside'[i] # 0
    <3>1. k \in Nat /\ Steps \subseteq Nat
      BY <1>0 DEF Steps
    <3>2. QED
      BY <1>0, <1>a, <1>b, <3>1 DEF MovesAreMade, k
  <2>4. QED
    BY <1>0, <2>1, <2>2, <2>3 DEF Mine, Target, Steps, Deletes, Left, MovesAreMade
<1>16. CheckHolds'
  BY DEF MoveAside, Target, Goes, Untouched, toolCall, Exists, Fault, NoFault, RollBack,
       CheckHolds
<1>17. OneAtAFile'
  <2> SUFFICES ASSUME NEW i \in Steps, NEW j \in Steps, aside'[i] # 0, aside'[j] # 0, Mine(i),
                      Target(i) = Target(j)
               PROVE  i = j
    BY <1>0 DEF OneAtAFile, Busy, Mine, Target, Steps
  <2>1. CASE i = k \/ j = k
    BY <1>b, <1>c, <2>1 DEF Busy, Mine, f
  <2>2. CASE i # k /\ j # k
    BY <1>0, <1>b, <2>2 DEF OneAtAFile, Busy, Left, Undoing
  <2>3. QED
    BY <2>1, <2>2
<1>18. FilesFollowChanges'
  <2>1. ASSUME NEW i \in Steps, Mine(i), aside'[i] # 0 PROVE disk'[Target(i)] = 0
    <3>1. CASE i = k
      BY <1>0, <1>b, <3>1 DEF f
    <3>2. CASE i # k
      BY <1>0, <1>b, <2>1, <3>2 DEF FilesFollowChanges, Left, Undoing
    <3>3. QED
      BY <3>1, <3>2
  <2>2. ASSUME NEW g \in Files \ others, \A i \in Steps : Target(i) = g => aside'[i] = 0
        PROVE  disk'[g] = original[g]
    <3>1. g # f
      BY <1>0, <1>a, <1>b, <2>2 DEF f
    <3>2. \A i \in Steps : Target(i) = g => ~Busy(i)
      BY <1>0, <1>b, <2>2, <3>1 DEF Busy, f
    <3>3. QED
      BY <1>0, <1>b, <3>1, <3>2 DEF FilesFollowChanges
  <2>3. QED
    BY <1>0, <2>1, <2>2 DEF Mine, Busy, Left, Undoing, Target, Steps, FilesFollowChanges
<1>19. AppliedIsShown'
  BY DEF MoveAside, Target, Steps, Goes, Untouched, toolCall, Mine, Result, Fault, NoFault,
       RollBack, AppliedIsShown
<1>20. AllOrNothing'
  BY DEF MoveAside, Target, Steps, Goes, Untouched, toolCall, Result, Fault, NoFault, RollBack,
       AllOrNothing
<1>21. OriginalsSurvive'
  <2> SUFFICES ASSUME NEW i \in Steps, original[Target(i)] # 0, Target(i) \notin others
               PROVE  \/ disk'[Target(i)] = original[Target(i)]
                      \/ \E j \in Steps : Target(j) = Target(i) /\ aside'[j] = original[Target(i)]
    BY <1>0 DEF OriginalsSurvive, Target, Steps, BaseIsProposed
  <2>1. CASE Target(i) = f
    BY <1>0, <1>b, <1>c, <2>1 DEF f
  <2>2. CASE Target(i) # f
    <3>1. \/ disk[Target(i)] = original[Target(i)]
          \/ \E j \in Steps : Target(j) = Target(i) /\ aside[j] = original[Target(i)]
      BY <1>0 DEF OriginalsSurvive, Applying, Ended, BaseIsProposed
    <3>2. QED
      BY <1>0, <1>b, <2>2, <3>1 DEF f
  <2>3. QED
    BY <2>1, <2>2
<1>22. ReplacedWasShown'
  <2>1. base = proposed /\ DOMAIN aside = Steps /\ DOMAIN aside' = Steps
    BY <1>0, <1>a DEF BaseIsProposed
  <2>2. k \notin raced => disk[f] = base[k]
    BY <1>0 DEF CheckHolds, k, f
  <2>3. QED
    BY <1>0, <1>b, <2>1, <2>2 DEF ReplacedWasShown
<1>23. QED
  BY <1>11, <1>12, <1>13, <1>14, <1>15, <1>16, <1>17, <1>18, <1>19, <1>20, <1>21, <1>22
     DEF EditsInv, PatchesAreTransactions

(* All that was there is aside.                                           *)
LEMMA ToInstall ==
  ASSUME EditsInv, AllMoved
  PROVE  EditsInv'
<1> USE DEF EditsInv, PatchesAreTransactions
<1>11. EditsTypeOK'
  BY DEF AllMoved, Target, Steps, Goes, Untouched, toolCall, Undoing, Operations, NoFault,
       EditsTypeOK
<1>12. BaseIsProposed'
  BY DEF AllMoved, Steps, Goes, Untouched, toolCall, Deletes, Ended, NoFault, BaseIsProposed
<1>13. ValidatedIsOriginal'
  BY DEF AllMoved, Target, Steps, Goes, Untouched, toolCall, Mine, NoFault, ValidatedIsOriginal
<1>14. NothingMoved'
  BY DEF AllMoved, Steps, Goes, Untouched, toolCall, NoFault, NothingMoved
<1>15. MovesAreMade'
  BY DEF AllMoved, Target, Steps, Goes, Untouched, toolCall, Mine, Undoing, Left, Deletes,
       Operations, NoFault, MovesAreMade, EditsTypeOK
<1>16. CheckHolds'
  BY DEF AllMoved, Target, Goes, Untouched, toolCall, Exists, NoFault, CheckHolds
<1>17. OneAtAFile'
  BY DEF AllMoved, Target, Steps, Goes, Untouched, toolCall, Mine, Busy, Undoing, Left, NoFault,
       OneAtAFile
<1>18. FilesFollowChanges'
  BY DEF AllMoved, Target, Steps, Goes, Untouched, toolCall, Mine, Busy, Undoing, Left, Result,
       NoFault, FilesFollowChanges
<1>19. AppliedIsShown'
  BY DEF AllMoved, Target, Steps, Goes, Untouched, toolCall, Mine, Result, NoFault,
       AppliedIsShown
<1>20. AllOrNothing'
  BY DEF AllMoved, Target, Steps, Goes, Untouched, toolCall, Result, NoFault, AllOrNothing
<1>21. OriginalsSurvive'
  BY DEF AllMoved, Target, Steps, Goes, Untouched, toolCall, Ended, Applying, NoFault,
       OriginalsSurvive
<1>22. ReplacedWasShown'
  BY DEF AllMoved, Goes, Untouched, toolCall, NoFault, ReplacedWasShown
<1>23. QED
  BY <1>11, <1>12, <1>13, <1>14, <1>15, <1>16, <1>17, <1>18, <1>19, <1>20, <1>21, <1>22
     DEF EditsInv, PatchesAreTransactions

(* A new content is put into its file, which is empty or has been         *)
(* emptied.                                                               *)
LEMMA Installing ==
  ASSUME EditsInv, Install, at' = "installing"
  PROVE  EditsInv'
<1> USE DEF EditsInv, PatchesAreTransactions
<1> DEFINE k == next
           f == Target(k)
           new == Result(changes[k], base[k])
<1>0. /\ UNCHANGED <<changes, fullWrite, base, proposed, aside, others, original, raced, ruined,
                     otherWrites>>
      /\ at = "installing" /\ at' = "installing" /\ next' = k + 1 /\ k \in Steps /\ f \in Files
      /\ base # <<>> /\ ~ruined /\ disk \in [Files -> Nat]
      /\ \A i \in Steps : Target(i) \in Files
  <2>1. at = "installing" /\ k \in Steps /\ disk \in [Files -> Nat]
    <3>1. at = "installing" /\ next <= Len(changes)
      BY DEF Install
    <3>2. QED
      BY <3>1 DEF EditsTypeOK, Steps, Undoing
  <2>2. base # <<>> /\ ~ruined
    BY <2>1 DEF BaseIsProposed, NothingMoved, Ended
  <2>3. \A i \in Steps : Target(i) \in Files
    BY DEF EditsTypeOK
  <2>4. QED
    BY <2>1, <2>2, <2>3 DEF Install, RollBack, Goes, Untouched, toolCall
<1>a. \/ UNCHANGED <<disk, installed>> /\ Deletes(k)
      \/ /\ ~Deletes(k) /\ (base[k] = 0 => disk[f] = 0)
         /\ disk' = [disk EXCEPT ![f] = new] /\ installed' = installed \cup {k}
  BY DEF Install, RollBack, Goes, Creates
<1>b. new \in Nat /\ (~Deletes(k) => new # 0)
  BY <1>0, Results
<1>c. \A g \in Files : disk'[g] = disk[g] \/ (g = f /\ disk'[f] = new /\ k \in installed')
  BY <1>0, <1>a
<1>d. ASSUME k \in installed', Mine(k), ~Deletes(k), base[k] = 0 => disk[f] = 0,
             NEW j \in Steps, Target(j) = f, Busy(j)
      PROVE  j = k
  <2>1. base[k] # 0 => Busy(k)
    BY <1>0 DEF MovesAreMade, Busy
  <2>2. CASE base[k] # 0
    BY <1>0, <1>d, <2>1, <2>2 DEF OneAtAFile, Left, Undoing
  <2>3. CASE base[k] = 0
    <3>1. base[k] = original[f] /\ base[j] = original[f] /\ Mine(j)
      BY <1>0, <1>d DEF ValidatedIsOriginal, Mine
    <3>2. j \in installed => disk[f] # 0
      <4>1. j \in installed => disk[f] = Result(changes[j], base[j]) /\ ~Deletes(j)
        BY <1>0, <1>d, <3>1 DEF FilesFollowChanges, MovesAreMade, Left, Undoing
      <4>2. QED
        BY <1>0, <4>1, Results
    <3>3. aside[j] # 0 => base[j] # 0
      BY <1>0 DEF MovesAreMade
    <3>4. QED
      BY <1>d, <2>3, <3>1, <3>2, <3>3 DEF Busy
  <2>4. QED
    BY <2>2, <2>3
<1>e. (UNCHANGED <<disk, installed>> /\ Deletes(k))
        \/ (installed' = installed \cup {k} /\ ~Deletes(k) /\ (base[k] = 0 => disk[f] = 0)
            /\ disk'[f] = new /\ \A g \in Files : g # f => disk'[g] = disk[g])
  BY <1>0, <1>a
<1> HIDE DEF k, f, new
<1>11. EditsTypeOK'
  <2>1. disk' \in [Files -> Nat]
    BY <1>0, <1>a, <1>b
  <2>2. QED
    BY <1>0, <2>1 DEF EditsTypeOK, Steps, Target, Undoing, k
<1>12. BaseIsProposed'
  BY DEF Install, Target, Steps, Goes, Untouched, toolCall, Creates, Deletes, Ended, Result,
       Fault, NoFault, RollBack, BaseIsProposed
<1>13. ValidatedIsOriginal'
  BY DEF Install, Target, Steps, Goes, Untouched, toolCall, Mine, Creates, Deletes, Result,
       Fault, NoFault, RollBack, ValidatedIsOriginal
<1>14. NothingMoved'
  BY DEF Install, Target, Steps, Goes, Untouched, toolCall, Creates, Deletes, Result, Fault,
       NoFault, RollBack, NothingMoved
<1>15. MovesAreMade'
  BY DEF Install, Target, Steps, Goes, Untouched, toolCall, Mine, Undoing, Left, Creates,
       Deletes, Result, Operations, Fault, NoFault, RollBack, MovesAreMade, EditsTypeOK
<1>16. CheckHolds'
  BY DEF Install, Target, Goes, Untouched, toolCall, Exists, Creates, Deletes, Result, Fault,
       NoFault, RollBack, CheckHolds
<1>17. OneAtAFile'
  <2> SUFFICES ASSUME NEW i \in Steps, NEW j \in Steps, i \in installed' \/ aside[i] # 0,
                      j \in installed' \/ aside[j] # 0, Mine(i), Target(i) = Target(j)
               PROVE  i = j
    BY <1>0 DEF OneAtAFile, Busy, Mine, Target, Steps
  <2>1. CASE Busy(i) /\ Busy(j)
    BY <1>0, <2>1 DEF OneAtAFile, Left, Undoing
  <2>2. CASE ~Busy(i)
    <3>1. i = k /\ installed' = installed \cup {k}
      BY <1>e, <2>2 DEF Busy
    <3>2. j = k \/ Busy(j)
      BY <3>1 DEF Busy
    <3>3. QED
      BY <1>d, <1>e, <3>1, <3>2, <2>2 DEF f, Busy
  <2>3. CASE ~Busy(j)
    <3>1. j = k /\ installed' = installed \cup {k}
      BY <1>e, <2>3 DEF Busy
    <3>2. i = k \/ Busy(i)
      BY <3>1 DEF Busy
    <3>3. Mine(k)
      BY <3>1 DEF Mine
    <3>4. QED
      BY <1>d, <1>e, <3>1, <3>2, <3>3, <2>3 DEF f, Busy
  <2>4. QED
    BY <2>1, <2>2, <2>3
<1>18. FilesFollowChanges'
  <2>1. CASE UNCHANGED <<disk, installed>>
    BY <1>0, <2>1 DEF Mine, Busy, Left, Undoing, Target, Steps, Result, FilesFollowChanges
  <2>2. CASE installed' = installed \cup {k} /\ ~Deletes(k) /\ (base[k] = 0 => disk[f] = 0)
               /\ disk'[f] = new /\ \A g \in Files : g # f => disk'[g] = disk[g]
    <3>1. ASSUME NEW i \in Steps, Mine(i), i \in installed'
          PROVE  disk'[Target(i)] = Result(changes[i], base[i])
      <4>1. CASE i = k
        BY <2>2, <4>1 DEF f, new
      <4>2. CASE i # k
        <5>1. i \in installed /\ Busy(i) /\ Target(i) # f
          BY <1>d, <2>2, <3>1, <4>2 DEF Busy, Mine, f
        <5>2. QED
          BY <1>0, <2>2, <3>1, <5>1 DEF FilesFollowChanges, Left, Undoing
      <4>3. QED
        BY <4>1, <4>2
    <3>2. ASSUME NEW i \in Steps, Mine(i), i \notin installed', aside[i] # 0
          PROVE  disk'[Target(i)] = 0
      <4>1. i # k /\ i \notin installed /\ Busy(i) /\ Target(i) # f
        BY <1>d, <2>2, <3>2 DEF Busy, Mine, f
      <4>2. QED
        BY <1>0, <2>2, <3>2, <4>1 DEF FilesFollowChanges, Left, Undoing
    <3>3. ASSUME NEW g \in Files \ others,
                 \A i \in Steps : Target(i) = g => i \notin installed' /\ aside[i] = 0
          PROVE  disk'[g] = original[g]
      <4>1. g # f /\ \A i \in Steps : Target(i) = g => ~Busy(i)
        BY <1>0, <2>2, <3>3 DEF Busy, f
      <4>2. QED
        BY <1>0, <2>2, <4>1 DEF FilesFollowChanges
    <3>4. QED
      BY <1>0, <3>1, <3>2, <3>3 DEF Mine, Busy, Left, Undoing, Target, Steps, Result,
           FilesFollowChanges
  <2>3. QED
    BY <1>e, <2>1, <2>2
<1>19. AppliedIsShown'
  BY DEF Install, Target, Steps, Goes, Untouched, toolCall, Mine, Creates, Deletes, Result,
       Fault, NoFault, RollBack, AppliedIsShown
<1>20. AllOrNothing'
  BY DEF Install, Target, Steps, Goes, Untouched, toolCall, Creates, Deletes, Result, Fault,
       NoFault, RollBack, AllOrNothing
<1>21. OriginalsSurvive'
  <2> SUFFICES ASSUME NEW i \in Steps, original[Target(i)] # 0, Target(i) \notin others
               PROVE  \/ disk'[Target(i)] = original[Target(i)]
                      \/ \E j \in Steps : Target(j) = Target(i) /\ aside[j] = original[Target(i)]
    BY <1>0 DEF OriginalsSurvive, Target, Steps, BaseIsProposed
  <2>1. CASE Target(i) = f
    <3>1. base[k] = original[f]
      BY <1>0, <2>1 DEF ValidatedIsOriginal, Mine, f
    <3>2. aside[k] = original[f]
      BY <1>0, <2>1, <3>1 DEF MovesAreMade, Mine, f
    <3>3. QED
      BY <1>0, <2>1, <3>2 DEF f
  <2>2. CASE Target(i) # f
    <3>1. \/ disk[Target(i)] = original[Target(i)]
          \/ \E j \in Steps : Target(j) = Target(i) /\ aside[j] = original[Target(i)]
      BY <1>0 DEF OriginalsSurvive, Applying, Ended, BaseIsProposed
    <3>2. QED
      BY <1>0, <1>e, <2>2, <3>1
  <2>3. QED
    BY <2>1, <2>2
<1>22. ReplacedWasShown'
  BY DEF Install, Target, Goes, Untouched, toolCall, Creates, Deletes, Result, Fault, NoFault,
       RollBack, ReplacedWasShown
<1>23. QED
  BY <1>11, <1>12, <1>13, <1>14, <1>15, <1>16, <1>17, <1>18, <1>19, <1>20, <1>21, <1>22
     DEF EditsInv, PatchesAreTransactions

(* Every file has the content that was shown.                             *)
LEMMA ToClean ==
  ASSUME EditsInv, AllInstalled
  PROVE  EditsInv'
<1> USE DEF EditsInv, PatchesAreTransactions
<1>11. EditsTypeOK'
  BY DEF AllInstalled, Target, Steps, Goes, Untouched, toolCall, Undoing, Operations, NoFault,
       EditsTypeOK
<1>12. BaseIsProposed'
  BY DEF AllInstalled, Steps, Goes, Untouched, toolCall, Deletes, Ended, NoFault, BaseIsProposed
<1>13. ValidatedIsOriginal'
  BY DEF AllInstalled, Target, Steps, Goes, Untouched, toolCall, Mine, NoFault,
       ValidatedIsOriginal
<1>14. NothingMoved'
  BY DEF AllInstalled, Steps, Goes, Untouched, toolCall, NoFault, NothingMoved
<1>15. MovesAreMade'
  BY DEF AllInstalled, Target, Steps, Goes, Untouched, toolCall, Mine, Undoing, Left, Deletes,
       NoFault, MovesAreMade
<1>16. CheckHolds'
  BY DEF AllInstalled, Target, Goes, Untouched, toolCall, Exists, NoFault, CheckHolds
<1>17. OneAtAFile'
  BY DEF AllInstalled, Target, Steps, Goes, Untouched, toolCall, Mine, Busy, Undoing, Left,
       NoFault, OneAtAFile
<1>18. FilesFollowChanges'
  BY DEF AllInstalled, Target, Steps, Goes, Untouched, toolCall, Mine, Busy, Undoing, Left,
       Result, NoFault, FilesFollowChanges
<1>19. AppliedIsShown'
  <2>0. /\ UNCHANGED <<disk, changes, fullWrite, base, others>>
        /\ at = "installing" /\ next > Len(changes) /\ base # <<>> /\ ~ruined
    BY DEF AllInstalled, Goes, Untouched, toolCall, Ended, BaseIsProposed, NothingMoved
  <2>1. ASSUME NEW i \in Steps, Mine(i) PROVE disk[Target(i)] = Result(changes[i], base[i])
    <3>1. CASE Deletes(i)
      <4>1. base[i] # 0 /\ Result(changes[i], base[i]) = 0
        BY <2>0, <3>1, Results
      <4>2. aside[i] # 0 /\ i \notin installed
        BY <2>0, <3>1, <4>1 DEF MovesAreMade
      <4>3. QED
        BY <2>0, <2>1, <4>1, <4>2 DEF FilesFollowChanges, Left, Undoing
    <3>2. CASE ~Deletes(i)
      <4>1. i < next
        BY <2>0 DEF EditsTypeOK, Steps
      <4>2. i \in installed
        BY <2>0, <3>2, <4>1 DEF MovesAreMade
      <4>3. QED
        BY <2>0, <2>1, <4>2 DEF FilesFollowChanges, Left, Undoing
    <3>3. QED
      BY <3>1, <3>2
  <2>2. QED
    BY <2>0, <2>1 DEF AppliedIsShown, Mine, Target, Steps, Result
<1>20. AllOrNothing'
  BY DEF AllInstalled, Target, Steps, Goes, Untouched, toolCall, Result, NoFault, AllOrNothing
<1>21. OriginalsSurvive'
  BY DEF AllInstalled, Target, Steps, Goes, Untouched, toolCall, Ended, Applying, NoFault,
       OriginalsSurvive
<1>22. ReplacedWasShown'
  BY DEF AllInstalled, Goes, Untouched, toolCall, NoFault, ReplacedWasShown
<1>23. QED
  BY <1>11, <1>12, <1>13, <1>14, <1>15, <1>16, <1>17, <1>18, <1>19, <1>20, <1>21, <1>22
     DEF EditsInv, PatchesAreTransactions

(* Backups are removed; the files stay as they are.                       *)
LEMMA Cleaning ==
  ASSUME EditsInv, Clean
  PROVE  EditsInv'
<1> USE DEF EditsInv, PatchesAreTransactions
<1>11. EditsTypeOK'
  <2>1. /\ UNCHANGED <<disk, changes, fullWrite, proposed, original, otherWrites>>
        /\ at' \in {"cleaning", "applied"} /\ next' \in {1, next + 1}
    BY DEF Clean, Goes, Untouched, toolCall
  <2>2. QED
    BY <2>1 DEF EditsTypeOK, Steps, Target, Undoing
<1>12. BaseIsProposed'
  BY DEF Clean, Steps, Goes, Untouched, toolCall, Deletes, Ended, Fault, NoFault, BaseIsProposed
<1>13. ValidatedIsOriginal'
  BY DEF Clean, Target, Steps, Goes, Untouched, toolCall, Mine, Fault, NoFault,
       ValidatedIsOriginal
<1>14. NothingMoved'
  BY DEF Clean, Steps, Goes, Untouched, toolCall, Fault, NoFault, NothingMoved
<1>15. MovesAreMade'
  BY DEF Clean, Target, Steps, Goes, Untouched, toolCall, Mine, Undoing, Left, Deletes, Fault,
       NoFault, MovesAreMade
<1>16. CheckHolds'
  BY DEF Clean, Target, Goes, Untouched, toolCall, Exists, Fault, NoFault, CheckHolds
<1>17. OneAtAFile'
  BY DEF Clean, Target, Steps, Goes, Untouched, toolCall, Mine, Busy, Undoing, Left, Fault,
       NoFault, OneAtAFile
<1>18. FilesFollowChanges'
  BY DEF Clean, Target, Steps, Goes, Untouched, toolCall, Mine, Busy, Undoing, Left, Result,
       Fault, NoFault, FilesFollowChanges
<1>19. AppliedIsShown'
  BY DEF Clean, Target, Steps, Goes, Untouched, toolCall, Mine, Result, Fault, NoFault,
       AppliedIsShown
<1>20. AllOrNothing'
  <2>1. /\ UNCHANGED <<disk, changes, fullWrite, proposed, base, others, original>>
        /\ at = "cleaning" /\ at' \in {"cleaning", "applied"} /\ base = proposed
    BY DEF Clean, Goes, Untouched, toolCall, BaseIsProposed, Ended
  <2>2. QED
    BY <2>1 DEF AllOrNothing, AppliedIsShown, Mine, Target, Steps, Result
<1>21. OriginalsSurvive'
  BY DEF Clean, Target, Steps, Goes, Untouched, toolCall, Ended, Applying, Fault, NoFault,
       OriginalsSurvive
<1>22. ReplacedWasShown'
  BY DEF Clean, Goes, Untouched, toolCall, Fault, NoFault, ReplacedWasShown
<1>23. QED
  BY <1>11, <1>12, <1>13, <1>14, <1>15, <1>16, <1>17, <1>18, <1>19, <1>20, <1>21, <1>22
     DEF EditsInv, PatchesAreTransactions

(* One change is undone: its file gets the original back, or an installed *)
(* create is removed.                                                     *)
LEMMA Undoes ==
  ASSUME EditsInv, Undo
  PROVE  EditsInv'
<1> USE DEF EditsInv, PatchesAreTransactions
<1> DEFINE k == next
           f == Target(k)
<1>0. /\ UNCHANGED <<changes, fullWrite, base, proposed, installed, others, original, raced,
                     otherWrites, at>>
      /\ Undoing /\ next' = k - 1 /\ k \in Steps /\ f \in Files /\ checked' = FALSE
      /\ base # <<>> => aside \in [Steps -> Nat]
      /\ \A i \in Steps : Target(i) \in Files
  <2>1. Undoing /\ k \in Steps
    BY DEF Undo, Undoing, EditsTypeOK, Steps
  <2>2. \A i \in Steps : Target(i) \in Files
    BY DEF EditsTypeOK
  <2>3. base # <<>> => aside \in [Steps -> Nat]
    BY DEF BaseIsProposed
  <2>4. QED
    BY <2>1, <2>2, <2>3 DEF Undo, Goes, Untouched, toolCall
<1>1. base \in [Steps -> Nat] /\ aside \in [Steps -> Nat] /\ disk \in [Files -> Nat]
  BY <1>0 DEF BaseIsProposed, EditsTypeOK, Undoing, Ended
<1>2. /\ aside[k] # 0 /\ Mine(k) => aside[k] = original[f]
      /\ k \in installed /\ aside[k] = 0 /\ Mine(k) => original[f] = 0
  <2>1. aside[k] # 0 /\ Mine(k) => aside[k] = original[f]
    BY <1>0 DEF MovesAreMade, Undoing
  <2>2. k \in installed /\ aside[k] = 0 => base[k] = 0
    BY <1>0 DEF MovesAreMade, Undoing, Left, Steps
  <2>3. Mine(k) => base[k] = original[f]
    BY <1>0 DEF ValidatedIsOriginal, Undoing
  <2>4. QED
    BY <2>1, <2>2, <2>3
<1> DEFINE emptied == IF k \in installed THEN 0 ELSE disk[f]
<1>3. /\ \A i \in Steps : i # k => aside'[i] = aside[i]
      /\ \A g \in Files : g # f => disk'[g] = disk[g]
      /\ disk' \in [Files -> Nat] /\ aside' \in [Steps -> Nat]
      /\ \/ /\ disk'[f] = IF aside[k] = 0 THEN emptied ELSE aside[k]
            /\ aside'[k] = 0 /\ ruined' = ruined
         \/ /\ disk'[f] = IF aside[k] = 0 THEN disk[f] ELSE aside[k]
            /\ aside'[k] = 0 /\ ruined'
         \/ aside[k] # 0 /\ aside'[k] = aside[k] /\ ruined'
  <2>1. /\ WithoutInstalled(k) \in [Files -> Nat] /\ WithoutInstalled(k)[f] = emptied
        /\ \A g \in Files : g # f => WithoutInstalled(k)[g] = disk[g]
    BY <1>0, <1>1 DEF WithoutInstalled
  <2>2. ASSUME NEW d \in [Files -> Nat]
        PROVE  /\ Restored(k, d) \in [Files -> Nat]
               /\ Restored(k, d)[f] = IF aside[k] = 0 THEN d[f] ELSE aside[k]
               /\ \A g \in Files : g # f => Restored(k, d)[g] = d[g]
    BY <1>0, <1>1 DEF Restored
  <2>3. /\ AsideAfter(k, TRUE) \in [Steps -> Nat] /\ AsideAfter(k, TRUE)[k] = 0
        /\ AsideAfter(k, FALSE) = aside
        /\ \A i \in Steps : i # k => AsideAfter(k, TRUE)[i] = aside[i]
    BY <1>0, <1>1 DEF AsideAfter
  <2>4. \/ /\ disk' = Restored(k, WithoutInstalled(k)) /\ aside' = AsideAfter(k, TRUE)
           /\ ruined' = ruined
        \/ disk' = Restored(k, disk) /\ aside' = AsideAfter(k, TRUE) /\ ruined'
        \/ aside[k] # 0 /\ disk' = WithoutInstalled(k) /\ aside' = AsideAfter(k, FALSE) /\ ruined'
    BY DEF Undo
  <2> HIDE DEF k, f, emptied
  <2>5. CASE /\ disk' = Restored(k, WithoutInstalled(k)) /\ aside' = AsideAfter(k, TRUE)
             /\ ruined' = ruined
    BY <2>1, <2>2, <2>3, <2>5
  <2>6. CASE disk' = Restored(k, disk) /\ aside' = AsideAfter(k, TRUE) /\ ruined'
    BY <1>1, <2>2, <2>3, <2>6
  <2>7. CASE aside[k] # 0 /\ disk' = WithoutInstalled(k) /\ aside' = AsideAfter(k, FALSE)
             /\ ruined'
    BY <1>1, <2>1, <2>3, <2>7
  <2>8. QED
    BY <2>4, <2>5, <2>6, <2>7
<1> HIDE DEF f, k, emptied
<1>11. EditsTypeOK'
  <2>1. k \in Nat /\ k # 0 /\ k - 1 \in Nat /\ next' \in Nat /\ next' <= Len(changes)
    BY <1>0 DEF EditsTypeOK, Steps
  <2>2. QED
    BY <1>0, <1>3, <2>1 DEF EditsTypeOK, Steps, Target, Undoing
<1>12. BaseIsProposed'
  BY FileOfAssumption, SMTT(30) DEF Undo, WithoutInstalled, Restored, AsideAfter, Target, Steps, Goes,
       Untouched, toolCall, Deletes, Ended, Fault, NoFault, BaseIsProposed
<1>13. ValidatedIsOriginal'
  BY DEF Undo, WithoutInstalled, Restored, AsideAfter, Target, Steps, Goes, Untouched, toolCall,
       Mine, Fault, NoFault, ValidatedIsOriginal
<1>14. NothingMoved'
  BY DEF Undo, WithoutInstalled, Restored, AsideAfter, Target, Steps, Goes, Untouched, toolCall,
       Fault, NoFault, NothingMoved
<1>15. MovesAreMade'
  <2>1. \A i \in Steps : i <= k - 1 => i # k /\ Left(i)
    BY <1>0 DEF Left, k, Steps, EditsTypeOK
  <2>2. \A i \in Steps : aside'[i] # 0 => aside'[i] = aside[i]
    BY <1>3
  <2>3. \A i \in Steps : i <= k - 1 => aside'[i] = aside[i]
    BY <1>3, <2>1
  <2>4. ASSUME NEW i \in Steps
        PROVE  /\ aside'[i] # 0 => base[i] # 0
               /\ aside'[i] # 0 /\ Mine(i) => aside'[i] = original[Target(i)]
               /\ i \in installed => ~Deletes(i)
               /\ i \in installed /\ base[i] # 0 /\ i <= k - 1 => aside'[i] # 0
    BY <1>0, <2>1, <2>2, <2>3 DEF MovesAreMade, Undoing
  <2>5. QED
    BY <1>0, <2>4 DEF MovesAreMade, Mine, Target, Steps, Deletes, Left, Undoing
<1>16. CheckHolds'
  BY DEF Undo, WithoutInstalled, Restored, AsideAfter, Target, Goes, Untouched, toolCall, Exists,
       Fault, NoFault, CheckHolds
<1>17. OneAtAFile'
  BY DEF Undo, WithoutInstalled, Restored, AsideAfter, Target, Steps, Goes, Untouched, toolCall,
       Mine, Busy, Undoing, Left, Deletes, Ended, Operations, Fault, NoFault, OneAtAFile,
       EditsTypeOK, BaseIsProposed
<1>18. FilesFollowChanges'
  <2> SUFFICES ASSUME ~ruined', at' \in {"undo", "undo_conflict"}
               PROVE  FilesFollowChanges'
    BY <1>0 DEF FilesFollowChanges, Undoing
  <2>0. /\ disk'[f] = IF aside[k] = 0 THEN emptied ELSE aside[k]
        /\ aside'[k] = 0 /\ ~ruined
    BY <1>3
  <2>1. k \in Nat /\ Steps \subseteq Nat
    BY <1>0 DEF Steps
  <2>2. ASSUME NEW i \in Steps, Mine(i), i <= k - 1, Busy(i), Busy(k)
        PROVE  Target(i) # f
    <3>1. i # k /\ Left(i) /\ Left(k)
      BY <2>1, <2>2 DEF Left, k
    <3>2. QED
      BY <1>0, <2>2, <3>1 DEF OneAtAFile, Undoing, f
  <2>3. ASSUME NEW i \in Steps, Mine(i), i <= k - 1, Busy(i)
        PROVE  disk'[Target(i)] = disk[Target(i)]
    <3>1. CASE Busy(k)
      BY <1>0, <1>3, <2>2, <2>3, <3>1
    <3>2. CASE ~Busy(k)
      BY <1>0, <1>3, <2>0, <3>2 DEF Busy, emptied
    <3>3. QED
      BY <3>1, <3>2
  <2>4. ASSUME NEW i \in Steps, Mine(i), i <= k - 1
        PROVE  /\ i \in installed => disk'[Target(i)] = Result(changes[i], base[i])
               /\ i \notin installed /\ aside'[i] # 0 => disk'[Target(i)] = 0
    <3>1. Left(i) /\ i # k
      BY <2>1, <2>4 DEF Left, k
    <3>2. /\ i \in installed => disk[Target(i)] = Result(changes[i], base[i])
          /\ i \notin installed /\ aside[i] # 0 => disk[Target(i)] = 0
      BY <1>0, <2>0, <2>4, <3>1 DEF FilesFollowChanges, Undoing
    <3>3. QED
      BY <1>3, <2>3, <2>4, <3>1, <3>2 DEF Busy
  <2>5. ASSUME NEW g \in Files \ others,
               \A i \in Steps : i <= k - 1 /\ Target(i) = g => i \notin installed /\ aside'[i] = 0
        PROVE  disk'[g] = original[g]
    <3>1. ASSUME NEW i \in Steps, Target(i) = g, Left(i), i # k PROVE ~Busy(i)
      <4>1. i <= k - 1
        BY <1>0, <2>1, <3>1 DEF Left, k
      <4>2. QED
        BY <1>3, <2>5, <3>1, <4>1 DEF Busy
    <3>2. CASE g # f \/ ~Busy(k)
      <4>1. \A i \in Steps : Left(i) /\ Target(i) = g => ~Busy(i)
        BY <3>1, <3>2 DEF f
      <4>2. disk[g] = original[g]
        BY <1>0, <2>0, <4>1 DEF FilesFollowChanges, Undoing
      <4>3. QED
        BY <1>3, <2>0, <3>2, <4>2 DEF Busy, emptied
    <3>3. CASE g = f /\ Busy(k)
      BY <1>2, <2>0, <2>5, <3>3 DEF Busy, emptied, Mine, f
    <3>4. QED
      BY <3>2, <3>3
  <2>6. QED
    BY <1>0, <2>4, <2>5 DEF Mine, Busy, Left, Undoing, Target, Steps, Result, FilesFollowChanges
<1>19. AppliedIsShown'
  BY DEF Undo, WithoutInstalled, Restored, AsideAfter, Target, Steps, Goes, Untouched, toolCall,
       Mine, Result, Fault, NoFault, AppliedIsShown
<1>20. AllOrNothing'
  BY DEF Undo, WithoutInstalled, Restored, AsideAfter, Target, Steps, Goes, Untouched, toolCall,
       Result, Fault, NoFault, AllOrNothing
<1>21. OriginalsSurvive'
  <2> SUFFICES ASSUME NEW i \in Steps, original[Target(i)] # 0, Target(i) \notin others
               PROVE  \/ disk'[Target(i)] = original[Target(i)]
                      \/ \E j \in Steps : Target(j) = Target(i) /\ aside'[j] = original[Target(i)]
    BY <1>0, <1>1 DEF OriginalsSurvive, Target, Steps
  <2>1. \/ disk[Target(i)] = original[Target(i)]
        \/ \E j \in Steps : Target(j) = Target(i) /\ aside[j] = original[Target(i)]
    BY <1>0, <1>1 DEF OriginalsSurvive, Applying, Ended, Undoing
  <2>2. CASE Target(i) # f
    BY <1>0, <1>3, <2>1, <2>2 DEF f
  <2>3. CASE Target(i) = f /\ aside[k] # 0
    BY <1>0, <1>2, <1>3, <2>3 DEF Mine, f
  <2>4. CASE Target(i) = f /\ aside[k] = 0
    <3>1. k \notin installed
      BY <1>2, <2>4 DEF Mine, f
    <3>2. disk'[f] = disk[f] /\ \A j \in Steps : aside'[j] = aside[j]
      BY <1>3, <2>4, <3>1 DEF emptied
    <3>3. QED
      BY <2>1, <2>4, <3>2
  <2>5. QED
    BY <2>2, <2>3, <2>4
<1>22. ReplacedWasShown'
  BY DEF Undo, WithoutInstalled, Restored, AsideAfter, Target, Goes, Untouched, toolCall, Fault,
       NoFault, ReplacedWasShown
<1>23. QED
  BY <1>11, <1>12, <1>13, <1>14, <1>15, <1>16, <1>17, <1>18, <1>19, <1>20, <1>21, <1>22
     DEF EditsInv, PatchesAreTransactions

(* Nothing is left to undo.                                               *)
LEMMA Ending ==
  ASSUME EditsInv, Undone
  PROVE  EditsInv'
<1> USE DEF EditsInv, PatchesAreTransactions
<1>11. EditsTypeOK'
  BY DEF Undone, WhenUndone, Target, Steps, Goes, Untouched, toolCall, Undoing, Operations,
       NoFault, EditsTypeOK
<1>12. BaseIsProposed'
  BY DEF Undone, WhenUndone, Steps, Goes, Untouched, toolCall, Deletes, Ended, NoFault,
       BaseIsProposed
<1>13. ValidatedIsOriginal'
  BY DEF Undone, WhenUndone, Target, Steps, Goes, Untouched, toolCall, Mine, NoFault,
       ValidatedIsOriginal
<1>14. NothingMoved'
  BY DEF Undone, WhenUndone, Steps, Goes, Untouched, toolCall, NoFault, NothingMoved
<1>15. MovesAreMade'
  BY DEF Undone, WhenUndone, Target, Steps, Goes, Untouched, toolCall, Mine, Undoing, Left,
       Deletes, NoFault, MovesAreMade
<1>16. CheckHolds'
  BY DEF Undone, WhenUndone, Target, Goes, Untouched, toolCall, Exists, NoFault, CheckHolds
<1>17. OneAtAFile'
  BY DEF Undone, WhenUndone, Target, Steps, Goes, Untouched, toolCall, Mine, Busy, Undoing, Left,
       NoFault, OneAtAFile
<1>18. FilesFollowChanges'
  BY DEF Undone, WhenUndone, Target, Steps, Goes, Untouched, toolCall, Mine, Busy, Undoing, Left,
       Result, NoFault, FilesFollowChanges
<1>19. AppliedIsShown'
  BY DEF Undone, WhenUndone, Target, Steps, Goes, Untouched, toolCall, Mine, Result, NoFault,
       AppliedIsShown
<1>20. AllOrNothing'
  <2>1. /\ UNCHANGED <<disk, changes, base, others, original, ruined>>
        /\ Undoing /\ next = 0 /\ at' \in {"conflict", "failed"}
    BY DEF Undone, WhenUndone, Goes, Untouched, toolCall, Undoing
  <2>2. \A i \in Steps : ~Left(i) /\ Target(i) \in Files
    BY <2>1 DEF Left, Steps, EditsTypeOK
  <2>3. ~ruined => \A f \in Files \ others : disk[f] = original[f]
    BY <2>1, <2>2 DEF FilesFollowChanges, Undoing
  <2>4. QED
    BY <2>1, <2>2, <2>3 DEF AllOrNothing, Target, Steps
<1>21. OriginalsSurvive'
  BY DEF Undone, WhenUndone, Target, Steps, Goes, Untouched, toolCall, Ended, Applying, NoFault,
       OriginalsSurvive
<1>22. ReplacedWasShown'
  BY DEF Undone, WhenUndone, Goes, Untouched, toolCall, NoFault, ReplacedWasShown
<1>23. QED
  BY <1>11, <1>12, <1>13, <1>14, <1>15, <1>16, <1>17, <1>18, <1>19, <1>20, <1>21, <1>22
     DEF EditsInv, PatchesAreTransactions

(* What somebody else writes is left out of account from then on.         *)
LEMMA Others ==
  ASSUME EditsInv, OtherWrites
  PROVE  EditsInv'
<1> USE DEF EditsInv, PatchesAreTransactions
<1>0. PICK f \in Files : disk' = [disk EXCEPT ![f] = disk'[f]] /\ others' \in {others, others \cup {f}}
                         /\ (Applying => f \in others')
  BY DEF OtherWrites, EditsTypeOK
<1>1. UNCHANGED <<changes, fullWrite, base, proposed, aside, installed, at, next, original, ruined>>
  BY DEF OtherWrites, toolCall
<1>11. EditsTypeOK'
  <2>1. disk' \in [Files -> Nat] /\ otherWrites' \in Nat
    BY DEF OtherWrites, EditsTypeOK
  <2>2. proposed' = proposed
    BY DEF OtherWrites, toolCall
  <2>3. QED
    BY <1>1, <2>1, <2>2 DEF EditsTypeOK, Steps, Target, Undoing
<1>12. BaseIsProposed'
  BY DEF OtherWrites, Target, Steps, toolCall, Deletes, Ended, Applying, BaseIsProposed
<1>13. ValidatedIsOriginal'
  BY DEF OtherWrites, Target, Steps, toolCall, Mine, Ended, Applying, ValidatedIsOriginal
<1>14. NothingMoved'
  BY DEF OtherWrites, Target, Steps, toolCall, Ended, Applying, NothingMoved
<1>15. MovesAreMade'
  BY DEF OtherWrites, Target, Steps, toolCall, Mine, Undoing, Left, Deletes, Ended, Applying,
       MovesAreMade
<1>16. CheckHolds'
  BY DEF OtherWrites, Target, toolCall, Exists, Ended, Applying, CheckHolds
<1>17. OneAtAFile'
  BY DEF OtherWrites, Target, Steps, toolCall, Mine, Busy, Undoing, Left, Ended, Applying,
       OneAtAFile
<1>18. FilesFollowChanges'
  <2> SUFFICES ASSUME at \in {"staging", "validating", "moving", "installing", "undo", "undo_conflict"},
                      ~ruined
               PROVE  FilesFollowChanges'
    BY <1>1 DEF FilesFollowChanges
  <2>1. \A g \in Files \ others' : disk'[g] = disk[g] /\ g \notin others
    BY <1>0 DEF Applying, Ended, EditsTypeOK
  <2>2. \A i \in Steps : Target(i) \in Files /\ (Mine(i)' => Mine(i))
    BY <1>0, <1>1 DEF EditsTypeOK, Mine, Target
  <2>3. QED
    BY <1>1, <2>1, <2>2 DEF Mine, Busy, Left, Undoing, Target, Steps, Result, FilesFollowChanges
<1>19. AppliedIsShown'
  <2> SUFFICES ASSUME at \in {"cleaning", "applied"} PROVE AppliedIsShown'
    BY <1>1 DEF AppliedIsShown
  <2>1. at = "cleaning" /\ \A g \in Files \ others' : disk'[g] = disk[g] /\ g \notin others
    BY <1>0 DEF OtherWrites, Applying, Ended, EditsTypeOK
  <2>2. \A i \in Steps : Target(i) \in Files
    BY DEF EditsTypeOK
  <2>3. QED
    BY <1>1, <2>1, <2>2 DEF AppliedIsShown, Mine, Target, Steps, Result
<1>20. AllOrNothing'
  BY DEF OtherWrites, Target, Steps, toolCall, Ended, Applying, Result, AllOrNothing
<1>21. OriginalsSurvive'
  BY DEF OtherWrites, Target, Steps, toolCall, Ended, Applying, OriginalsSurvive
<1>22. ReplacedWasShown'
  BY DEF OtherWrites, Target, toolCall, Ended, Applying, ReplacedWasShown
<1>23. QED
  BY <1>11, <1>12, <1>13, <1>14, <1>15, <1>16, <1>17, <1>18, <1>19, <1>20, <1>21, <1>22
     DEF EditsInv, PatchesAreTransactions

(* The transaction begins with the proposal as its base.                  *)
LEMMA Beginning ==
  ASSUME EditsInv, NEW from \in [Steps -> Nat], BeginApply(from), at \in {"called", "asked"}, proposed' = from,
         \A i \in Steps : Deletes(i) => from[i] # 0
  PROVE  EditsInv'
<1> USE DEF EditsInv, PatchesAreTransactions
<1>11. EditsTypeOK'
  BY DEF BeginApply, Target, Steps, Undoing, Operations, EditsTypeOK
<1>12. BaseIsProposed'
  <2>1. /\ base' = from /\ proposed' = from /\ UNCHANGED changes /\ at' = "staging"
        /\ aside' = [i \in Steps |-> 0]
    BY DEF BeginApply
  <2>2. from # <<>>
    BY DEF EditsTypeOK, Steps
  <2>3. QED
    BY <2>1, <2>2 DEF BaseIsProposed, Steps, Deletes, Ended
<1>13. ValidatedIsOriginal'
  BY DEF BeginApply, Target, Steps, Mine, ValidatedIsOriginal
<1>14. NothingMoved'
  BY DEF BeginApply, Steps, NothingMoved
<1>15. MovesAreMade'
  BY DEF BeginApply, Target, Steps, Mine, Undoing, Left, Deletes, MovesAreMade
<1>16. CheckHolds'
  BY DEF BeginApply, Target, Steps, Exists, CheckHolds
<1>17. OneAtAFile'
  BY DEF BeginApply, Target, Steps, Mine, Busy, Undoing, Left, OneAtAFile
<1>18. FilesFollowChanges'
  BY DEF BeginApply, Target, Steps, Mine, Busy, Undoing, Left, Result, FilesFollowChanges
<1>19. AppliedIsShown'
  BY DEF BeginApply, Target, Steps, Mine, Result, AppliedIsShown
<1>20. AllOrNothing'
  BY DEF BeginApply, Target, Steps, Result, AllOrNothing
<1>21. OriginalsSurvive'
  BY DEF BeginApply, Target, Steps, Ended, Applying, OriginalsSurvive
<1>22. ReplacedWasShown'
  BY DEF BeginApply, Steps, ReplacedWasShown
<1>23. QED
  BY <1>11, <1>12, <1>13, <1>14, <1>15, <1>16, <1>17, <1>18, <1>19, <1>20, <1>21, <1>22
     DEF EditsInv, PatchesAreTransactions

(* A call that is refused has touched no file.                            *)
LEMMA Refusing ==
  ASSUME EditsInv, at \in {"called", "asked"}, NEW state \in {"failed", "unchanged", "denied", "conflict"},
         Refused(state)
  PROVE  EditsInv'
<1> USE DEF EditsInv, PatchesAreTransactions
<1>11. EditsTypeOK'
  BY DEF Refused, Target, Steps, toolCall, Undoing, Operations, EditsTypeOK
<1>12. BaseIsProposed'
  BY DEF Refused, Steps, toolCall, Deletes, Ended, BaseIsProposed
<1>13. ValidatedIsOriginal'
  BY DEF Refused, Target, Steps, toolCall, Mine, ValidatedIsOriginal
<1>14. NothingMoved'
  BY DEF Refused, Steps, toolCall, NothingMoved
<1>15. MovesAreMade'
  BY DEF Refused, Target, Steps, toolCall, Mine, Undoing, Left, Deletes, MovesAreMade
<1>16. CheckHolds'
  BY DEF Refused, Target, toolCall, Exists, CheckHolds
<1>17. OneAtAFile'
  BY DEF Refused, Target, Steps, toolCall, Mine, Busy, Undoing, Left, OneAtAFile
<1>18. FilesFollowChanges'
  BY DEF Refused, Target, Steps, toolCall, Mine, Busy, Undoing, Left, Result, FilesFollowChanges
<1>19. AppliedIsShown'
  BY DEF Refused, Target, Steps, toolCall, Mine, Result, AppliedIsShown
<1>20. AllOrNothing'
  BY DEF Refused, Target, Steps, toolCall, Deletes, Ended, Result, AllOrNothing, BaseIsProposed
<1>21. OriginalsSurvive'
  BY DEF Refused, Target, Steps, toolCall, Deletes, Ended, Applying, OriginalsSurvive,
       BaseIsProposed
<1>22. ReplacedWasShown'
  BY DEF Refused, toolCall, ReplacedWasShown
<1>23. QED
  BY <1>11, <1>12, <1>13, <1>14, <1>15, <1>16, <1>17, <1>18, <1>19, <1>20, <1>21, <1>22
     DEF EditsInv, PatchesAreTransactions

(* The user is asked.                                                        *)
LEMMA Asking ==
  ASSUME EditsInv, at = "called", at' = "asked", proposed' \in [Steps -> Nat],
         UNCHANGED <<disk, changes, needsApproval, fullWrite, base, staged, aside, installed, next,
                     checked, raced, others, original, ruined, otherWrites, faults>>
  PROVE  EditsInv'
<1> USE DEF EditsInv, PatchesAreTransactions
<1>1. base = <<>> /\ aside = <<>>
  BY DEF BaseIsProposed
<1>2. EditsTypeOK'
  BY DEF EditsTypeOK, Steps, Target, Undoing
<1>3. (BaseIsProposed /\ ValidatedIsOriginal /\ NothingMoved /\ MovesAreMade /\ CheckHolds)'
  BY <1>1 DEF Ended, BaseIsProposed, ValidatedIsOriginal, NothingMoved, MovesAreMade, CheckHolds
<1>4. (OneAtAFile /\ FilesFollowChanges /\ AppliedIsShown)'
  BY DEF OneAtAFile, FilesFollowChanges, AppliedIsShown
<1>5. (AllOrNothing /\ OriginalsSurvive /\ ReplacedWasShown)'
  BY <1>1 DEF AllOrNothing, OriginalsSurvive, ReplacedWasShown, Applying, Ended
<1>6. QED
  BY <1>2, <1>3, <1>4, <1>5

(* A proposal that starts at once, or one that is asked for.                 *)
LEMMA Proposing ==
  ASSUME EditsInv, at = "called", Proposed, Buildable \/ fullWrite
  PROVE  EditsInv'
<1>1. CurrentBase \in [Steps -> Nat]
  BY DEF EditsInv, EditsTypeOK, CurrentBase
<1>2. PICK from \in [Steps -> Nat] : from = CurrentBase
  BY <1>1
<1>3. \A i \in Steps : Deletes(i) => from[i] # 0
  <2>1. fullWrite => \A i \in Steps : changes[i].op = "update"
    <3>1. fullWrite => Len(changes) = 1 /\ changes[1].op = "update"
      BY DEF EditsInv, EditsTypeOK
    <3>2. Len(changes) = 1 => \A i \in Steps : i = 1
      BY DEF Steps
    <3>3. QED
      BY <3>1, <3>2
  <2>2. Buildable => \A i \in Steps : Deletes(i) => disk[Target(i)] # 0
    BY DEF Buildable, Deletes
  <2>3. \A i \in Steps : from[i] = disk[Target(i)]
    BY <1>2 DEF CurrentBase
  <2>4. QED
    BY <2>1, <2>2, <2>3 DEF Deletes
<1>4. CASE needsApproval
  BY <1>1, <1>4, Asking DEF Proposed
<1>5. CASE ~needsApproval
  <2>1. BeginApply(from) /\ proposed' = from
    BY <1>2, <1>5 DEF Proposed, BeginApply
  <2>2. QED
    BY <1>3, <2>1, Beginning
<1>6. QED
  BY <1>4, <1>5

(* The answer of the user.                                                   *)
LEMMA Answering ==
  ASSUME EditsInv, ApproveEdits \/ ApproveWrite \/ Deny
  PROVE  EditsInv'
<1>1. CASE ApproveEdits /\ MatchesPayload
  <2>1. PICK from \in [Steps -> Nat] : from = proposed
    BY <1>1 DEF EditsInv, EditsTypeOK, ApproveEdits
  <2>2. \A i \in Steps : Deletes(i) => from[i] # 0
    BY <1>1, <2>1 DEF EditsInv, EditsTypeOK, Deletes, MatchesPayload, Buildable, CurrentBase,
         Steps
  <2>3. BeginApply(from) /\ proposed' = from /\ at = "asked"
    BY <1>1, <2>1 DEF ApproveEdits, BeginApply, MatchesPayload
  <2>4. QED
    BY <2>2, <2>3, Beginning
<1>2. CASE ApproveWrite
  <2>1. PICK from \in [Steps -> Nat] : from = proposed
    BY <1>2 DEF EditsInv, EditsTypeOK, ApproveWrite
  <2>2. \A i \in Steps : Deletes(i) => from[i] # 0
    BY <1>2 DEF EditsInv, EditsTypeOK, Deletes, ApproveWrite, Steps
  <2>3. BeginApply(from) /\ proposed' = from /\ at = "asked"
    BY <1>2, <2>1 DEF ApproveWrite, BeginApply
  <2>4. QED
    BY <2>2, <2>3, Beginning
<1>3. CASE ApproveEdits /\ ~MatchesPayload
  BY <1>3, Refusing DEF ApproveEdits
<1>4. CASE Deny
  BY <1>4, Refusing DEF Deny
<1>5. QED
  BY <1>1, <1>2, <1>3, <1>4

(* A function on 1 .. n is a sequence of length n.                           *)
LEMMA FunctionIsSequence ==
  ASSUME NEW S, NEW n \in Nat, NEW q \in [1 .. n -> S]
  PROVE  q \in Seq(S) /\ Len(q) = n
<1>1. q \in Seq(S)
  BY SeqDef
<1>2. QED
  BY <1>1, LenProperties

(* A call has one change at least, and begins before anything is applied.    *)
LEMMA EditsInitial == EditsInit => EditsInv
<1> SUFFICES ASSUME EditsInit PROVE EditsInv
  OBVIOUS
<1>1. PICK n \in 1 .. MaxChanges : changes \in [1 .. n -> [op : Operations, path : Spellings]]
  BY DEF EditsInit
<1>2. n \in Nat \ {0} /\ DOMAIN changes = 1 .. n /\ Len(changes) = n
  <2>1. n \in Nat \ {0} /\ DOMAIN changes = 1 .. n
    BY <1>1, MaxChangesAssumption
  <2>2. Len(changes) = n
    BY <1>1, <2>1, FunctionIsSequence
  <2>3. QED
    BY <2>1, <2>2
<1>3. \A i \in Steps : changes[i].op \in Operations /\ Target(i) \in Files
  BY <1>1, <1>2 DEF Steps, Target, Files
<1>4. disk \in [Files -> Nat] /\ original = disk
  BY DEF EditsInit
<1>5. EditsTypeOK
  BY <1>2, <1>3, <1>4 DEF EditsTypeOK, EditsInit, Undoing
<1>6. BaseIsProposed /\ ValidatedIsOriginal /\ NothingMoved /\ MovesAreMade /\ CheckHolds
  BY DEF EditsInit, Ended, BaseIsProposed, ValidatedIsOriginal, NothingMoved, MovesAreMade,
       CheckHolds
<1>7. OneAtAFile /\ FilesFollowChanges /\ AppliedIsShown
  BY DEF EditsInit, OneAtAFile, FilesFollowChanges, AppliedIsShown
<1>8. AllOrNothing /\ OriginalsSurvive /\ ReplacedWasShown
  BY DEF EditsInit, Applying, Ended, AllOrNothing, OriginalsSurvive, ReplacedWasShown
<1>9. QED
  BY <1>5, <1>6, <1>7, <1>8 DEF EditsInv, PatchesAreTransactions

(* Every step of the call, and every write of others.                        *)
LEMMA EditsSteps == EditsInv /\ [EditsNext]_editVars => EditsInv'
<1> SUFFICES ASSUME EditsInv, [EditsNext]_editVars PROVE EditsInv'
  OBVIOUS
<1>1. CASE ProposeEdits
  BY <1>1, Proposing, Refusing DEF ProposeEdits
<1>2. CASE ProposeWrite
  BY <1>2, Proposing, Refusing DEF ProposeWrite
<1>3. CASE Deny \/ ApproveEdits \/ ApproveWrite
  BY <1>3, Answering
<1>4. CASE Stage
  <2>1. CASE at' = "staging"
    BY <1>4, <2>1, Staging
  <2>2. CASE at' # "staging"
    BY <1>4, <2>2, CleaningUp DEF Stage, Goes
  <2>3. QED
    BY <2>1, <2>2
<1>5. CASE Validate
  <2>1. CASE at' # "conflict"
    BY <1>5, <2>1, Validating
  <2>2. CASE at' = "conflict"
    BY <1>5, <2>2, CleaningUp DEF Validate, Goes
  <2>3. QED
    BY <2>1, <2>2
<1>6. CASE ValidateAll \/ Skip
  BY <1>6, ToValidate, Skipping
<1>7. CASE ValidateAgain
  <2>1. CASE at' = "moving"
    BY <1>7, <2>1, Checking
  <2>2. CASE at' # "moving"
    BY <1>7, <2>2, RollingBack DEF ValidateAgain
  <2>3. QED
    BY <2>1, <2>2
<1>8. CASE MoveAside
  <2>1. CASE at' = "moving"
    BY <1>8, <2>1, Moving
  <2>2. CASE at' # "moving"
    BY <1>8, <2>2, RollingBack DEF MoveAside, Goes
  <2>3. QED
    BY <2>1, <2>2
<1>9. CASE Install
  <2>1. CASE at' = "installing"
    BY <1>9, <2>1, Installing
  <2>2. CASE at' # "installing"
    BY <1>9, <2>2, RollingBack DEF Install, Goes
  <2>3. QED
    BY <2>1, <2>2
<1>10. CASE AllMoved \/ AllInstalled \/ Clean
  BY <1>10, ToInstall, ToClean, Cleaning
<1>11. CASE Undo \/ Undone \/ OtherWrites
  BY <1>11, Undoes, Ending, Others
<1>12. CASE UNCHANGED editVars
  <2>1. UNCHANGED <<EditsTypeOK, BaseIsProposed, ValidatedIsOriginal, NothingMoved, MovesAreMade>>
    BY <1>12 DEF editVars, Steps, Target, Undoing, Mine, Left, Deletes, EditsTypeOK,
         BaseIsProposed, ValidatedIsOriginal, NothingMoved, MovesAreMade
  <2>2. UNCHANGED <<CheckHolds, OneAtAFile, FilesFollowChanges, AppliedIsShown>>
    BY <1>12 DEF editVars, Exists, Steps, Target, Undoing, Mine, Left, Busy, Result, CheckHolds,
         OneAtAFile, FilesFollowChanges, AppliedIsShown
  <2>3. UNCHANGED <<AllOrNothing, OriginalsSurvive, ReplacedWasShown>>
    BY <1>12 DEF editVars, Applying, Steps, Target, Result, AllOrNothing, OriginalsSurvive,
         ReplacedWasShown
  <2>4. QED
    BY <2>1, <2>2, <2>3 DEF EditsInv, PatchesAreTransactions
<1>13. QED
  BY <1>1, <1>2, <1>3, <1>4, <1>5, <1>6, <1>7, <1>8, <1>9, <1>10, <1>11, <1>12 DEF EditsNext

(* A batch of edits is a transaction on what the user was shown: applied     *)
(* whole or not at all, with no original lost whichever step fails, and      *)
(* replacing nothing the user has not seen, for any number of changes,       *)
(* spellings, failing file operations and writes of others.                  *)
THEOREM PatchesAreWhole == EditsSpec => []PatchesAreTransactions
<1>1. EditsSpec => []EditsInv
  BY EditsInitial, EditsSteps, PTL DEF EditsSpec
<1>2. EditsInv => PatchesAreTransactions
  BY DEF EditsInv
<1>3. QED
  BY <1>1, <1>2, PTL
=============================================================================
