------------------------------ MODULE FileEdits ------------------------------
(***************************************************************************)
(* The file edit tool (internal/workspacetools/edit.go, text_file.go) and   *)
(* the write request of an ACP agent (internal/engine/acp.go): a batch of   *)
(* creates, updates and deletes is shown to the user, and after the answer  *)
(* applied as one transaction: new contents are staged beside the targets,  *)
(* the targets are checked against what the proposal was built from, moved  *)
(* aside, replaced, and only then are the originals removed.  A failing     *)
(* step undoes the others.                                                  *)
(*                                                                          *)
(* The user and other programs write the same files at any moment.  A file  *)
(* is its content: 0 when it is absent, a version when somebody wrote it,   *)
(* and what an edit makes of a version.  Permission bits, hashes and diffs  *)
(* identify the content.  A path of a call is a spelling: two spellings may *)
(* name the same file.                                                      *)
(***************************************************************************)
EXTENDS Naturals, Sequences

CONSTANTS
  Spellings,      \* the cleaned paths a call can use
  FileOf,         \* the file each of them resolves to
  MaxChanges,     \* bound: changes of one call
  MaxOtherWrites,      \* bound: writes by others
  MaxFaults       \* bound: file operations that fail

Files == {FileOf[s] : s \in Spellings}

ASSUME FileOfAssumption == DOMAIN FileOf = Spellings
ASSUME MaxChangesAssumption == MaxChanges \in Nat

VARIABLES
  disk,       \* the content of each file
  changes,    \* the batch of the call
  needsApproval,       \* the call needs the user's approval
  fullWrite,  \* the call is an agent's write request: one file, its whole content
  proposed,      \* the contents the approved proposal was built from
  base,       \* the contents the proposal being applied was built from
  staged,     \* changes with a staged file
  aside,      \* the original each change has moved to its backup, or 0
  installed,  \* changes whose new content is in place
  at,         \* the step of the call
  next,       \* the change the step is at
  checked,    \* the change at next has just been validated
  raced,      \* changes whose file was written between that check and the move
  others,     \* files somebody else wrote since the transaction began
  original,   \* the contents when the transaction began
  ruined,     \* undoing has failed
  otherWrites, faults

editVars == <<disk, changes, needsApproval, fullWrite, proposed, base, staged, aside, installed,
              at, next, checked, raced, others, original, ruined, otherWrites, faults>>
toolCall == <<changes, needsApproval, fullWrite, proposed>>

Operations == {"create", "update", "delete"}
Target(i) == FileOf[changes[i].path]
Steps == 1..Len(changes)

\* What a change makes of the content it was proposed for.  A replacement of text depends
\* on it, a full content does not.
Result(change, content) ==
  CASE change.op = "create" -> 1000
    [] change.op = "delete" -> 0
    [] fullWrite            -> 2000
    [] OTHER                -> 3000 + content

EditsInit ==
  /\ disk \in [Files -> {0, 1}]
  /\ changes \in {b \in UNION {[1..n -> [op : Operations, path : Spellings]] : n \in 1..MaxChanges} :
                    \A i, j \in DOMAIN b : b[i].path = b[j].path => i = j}
  /\ needsApproval \in BOOLEAN
  /\ fullWrite \in BOOLEAN
  /\ fullWrite => Len(changes) = 1 /\ changes[1].op = "update"
  /\ proposed = <<>> /\ base = <<>>
  /\ staged = {} /\ aside = <<>> /\ installed = {}
  /\ at = "called" /\ next = 1 /\ checked = FALSE
  /\ others = {} /\ raced = {} /\ original = disk /\ ruined = FALSE
  /\ otherWrites = 0 /\ faults = 0

\* buildPatchProposal refuses a create of a file that exists and an update or a delete of
\* one that does not; a full write chooses between create and update itself.
Buildable ==
  \A i \in Steps : (disk[Target(i)] = 0) = (changes[i].op = "create")
CurrentBase == [i \in Steps |-> disk[Target(i)]]
NothingToDo == disk[Target(1)] = Result(changes[1], disk[Target(1)])

\* The call ends without touching a file.
Refused(state) ==
  /\ at' = state
  /\ UNCHANGED <<disk, toolCall, base, staged, aside, installed, next, checked, raced, others,
                 original,
                 ruined, otherWrites, faults>>

\* applyPatchProposal begins.
BeginApply(from) ==
  /\ base' = from
  /\ aside' = [i \in Steps |-> 0]
  /\ staged' = {} /\ installed' = {}
  /\ next' = 1 /\ checked' = FALSE
  /\ others' = {} /\ raced' = {} /\ original' = disk
  /\ at' = "staging"
  /\ UNCHANGED <<disk, changes, needsApproval, fullWrite, ruined, otherWrites, faults>>

\* The proposal is ready: the user is asked, or it is applied at once.
Proposed ==
  /\ proposed' = CurrentBase
  /\ \/ /\ needsApproval
        /\ at' = "asked"
        /\ UNCHANGED <<disk, changes, needsApproval, fullWrite, base, staged, aside, installed,
                       next, checked, raced, others, original, ruined, otherWrites, faults>>
     \/ ~needsApproval /\ BeginApply(CurrentBase)

\* An edit may also fail because a text to replace is missing or ambiguous.
ProposeEdits ==
  /\ at = "called" /\ ~fullWrite
  /\ Refused("failed") \/ (Buildable /\ Proposed)

ProposeWrite ==
  /\ at = "called" /\ fullWrite
  /\ IF NothingToDo THEN Refused("unchanged") ELSE Proposed

Deny == at = "asked" /\ Refused("denied")

\* An approved edit call builds its proposal again and compares it with the approved one.
MatchesPayload == Buildable /\ CurrentBase = proposed
ApproveEdits ==
  /\ at = "asked" /\ ~fullWrite
  /\ IF MatchesPayload
       THEN BeginApply(CurrentBase) /\ UNCHANGED proposed
       ELSE Refused("conflict")

\* An approved write applies the proposal it prepared.
ApproveWrite ==
  /\ at = "asked" /\ fullWrite
  /\ BeginApply(proposed) /\ UNCHANGED proposed

\* -------------------------------------------------------------- the transaction
Goes(step, n) == at' = step /\ next' = n /\ checked' = FALSE
Untouched == UNCHANGED <<toolCall, base, original, otherWrites, others, raced>>

\* The originals of a delete and an update exist; the operation of a full write follows
\* from what it was prepared from.
Exists(i) == base[i] # 0
Creates(i) == base[i] = 0
Deletes(i) == changes[i].op = "delete"
\* Mutant: the check only asks whether the file is still there.
ValidIfPresent(i) == (disk[Target(i)] = 0) = (base[i] = 0)
Valid(i) == disk[Target(i)] = base[i]

\* A step that fails hands over to the cleanup: before anything was moved only the staged
\* files are removed, afterwards rollbackPatch runs from the last change to the first.
CleanUp(state) ==
  /\ staged' = {}
  /\ Goes(state, 1)
  /\ Untouched /\ UNCHANGED <<disk, aside, installed, ruined>>
RollBack(state) ==
  /\ Goes(state, Len(changes))
  /\ Untouched /\ UNCHANGED <<disk, staged, aside, installed, ruined>>
Fault == faults < MaxFaults /\ faults' = faults + 1
NoFault == UNCHANGED faults

Stage ==
  /\ at = "staging" /\ next <= Len(changes)
  /\ \/ /\ staged' = IF Deletes(next) THEN staged ELSE staged \cup {next}
        /\ Goes("staging", next + 1)
        /\ Untouched /\ NoFault /\ UNCHANGED <<disk, aside, installed, ruined>>
     \/ ~Deletes(next) /\ Fault /\ CleanUp("failed")

\* validatePatchState looks at one file after the other.
ValidateAll ==
  /\ at = "staging" /\ next > Len(changes)
  /\ Goes("validating", 1)
  /\ Untouched /\ NoFault /\ UNCHANGED <<disk, staged, aside, installed, ruined>>
Validate ==
  /\ at = "validating"
  /\ NoFault
  /\ IF next > Len(changes)
       THEN Goes("moving", 1) /\ Untouched /\ UNCHANGED <<disk, staged, aside, installed, ruined>>
     ELSE IF Valid(next)
       THEN Goes("validating", next + 1) /\ Untouched
            /\ UNCHANGED <<disk, staged, aside, installed, ruined>>
     ELSE CleanUp("conflict")

\* Each original is checked once more, then renamed to its backup.
Skip ==
  /\ at = "moving" /\ next <= Len(changes) /\ ~Exists(next)
  /\ Goes("moving", next + 1)
  /\ Untouched /\ NoFault /\ UNCHANGED <<disk, staged, aside, installed, ruined>>
ValidateAgain ==
  /\ at = "moving" /\ next <= Len(changes) /\ Exists(next) /\ ~checked
  /\ NoFault
  /\ IF Valid(next)
       THEN /\ checked' = TRUE
            /\ Untouched /\ UNCHANGED <<disk, staged, aside, installed, ruined, at, next>>
       ELSE RollBack("undo_conflict")
MoveAside ==
  /\ at = "moving" /\ next <= Len(changes) /\ checked
  /\ \/ /\ disk[Target(next)] # 0
        /\ aside' = [aside EXCEPT ![next] = disk[Target(next)]]
        /\ disk' = [disk EXCEPT ![Target(next)] = 0]
        /\ Goes("moving", next + 1)
        /\ Untouched /\ NoFault /\ UNCHANGED <<staged, installed, ruined>>
     \/ disk[Target(next)] = 0 /\ NoFault /\ RollBack("undo")
     \/ Fault /\ RollBack("undo")
AllMoved ==
  /\ at = "moving" /\ next > Len(changes)
  /\ Goes("installing", 1)
  /\ Untouched /\ NoFault /\ UNCHANGED <<disk, staged, aside, installed, ruined>>

\* A create links its staged file, which fails when somebody created the target; an update
\* renames its staged file over the target.
Install ==
  /\ at = "installing" /\ next <= Len(changes)
  /\ LET f == Target(next) IN
     \/ /\ Deletes(next)
        /\ Goes("installing", next + 1)
        /\ Untouched /\ NoFault /\ UNCHANGED <<disk, staged, aside, installed, ruined>>
     \/ /\ ~Deletes(next) /\ (Creates(next) => disk[f] = 0)
        /\ disk' = [disk EXCEPT ![f] = Result(changes[next], base[next])]
        /\ installed' = installed \cup {next}
        /\ staged' = IF Creates(next) THEN staged ELSE staged \ {next}
        /\ Goes("installing", next + 1)
        /\ Untouched /\ NoFault /\ UNCHANGED <<aside, ruined>>
     \/ Creates(next) /\ disk[f] # 0 /\ NoFault /\ RollBack("undo_conflict")
     \/ ~Deletes(next) /\ Fault /\ RollBack("undo")
AllInstalled ==
  /\ at = "installing" /\ next > Len(changes)
  /\ Goes("cleaning", 1)
  /\ Untouched /\ NoFault /\ UNCHANGED <<disk, staged, aside, installed, ruined>>

\* The patch is in place: staged links and backups are removed.
Clean ==
  /\ at = "cleaning"
  /\ IF next > Len(changes)
       THEN Goes("applied", 1) /\ Untouched /\ NoFault
            /\ UNCHANGED <<disk, staged, aside, installed, ruined>>
       ELSE /\ \/ /\ staged' = staged \ {next}
                  /\ aside' = [aside EXCEPT ![next] = 0]
                  /\ NoFault
               \/ Fault /\ UNCHANGED <<staged, aside>>
            /\ Goes("cleaning", next + 1)
            /\ Untouched /\ UNCHANGED <<disk, installed, ruined>>

\* rollbackPatch undoes one change: what was installed is removed, what was moved aside
\* is renamed back.  A failure of either is reported after the other changes were undone.
WhenUndone == IF at = "undo_conflict" THEN "conflict" ELSE "failed"
WithoutInstalled(i) == IF i \in installed THEN [disk EXCEPT ![Target(i)] = 0] ELSE disk
Restored(i, d) == IF aside[i] = 0 THEN d ELSE [d EXCEPT ![Target(i)] = aside[i]]
AsideAfter(i, restored) == IF restored THEN [aside EXCEPT ![i] = 0] ELSE aside
Undo ==
  /\ at \in {"undo", "undo_conflict"} /\ next > 0
  /\ \/ /\ disk' = Restored(next, WithoutInstalled(next))
        /\ aside' = AsideAfter(next, TRUE)
        /\ NoFault /\ UNCHANGED ruined
     \/ /\ next \in installed /\ Fault
        /\ disk' = Restored(next, disk)
        /\ aside' = AsideAfter(next, TRUE)
        /\ ruined' = TRUE
     \/ /\ aside[next] # 0 /\ Fault
        /\ disk' = WithoutInstalled(next)
        /\ aside' = AsideAfter(next, FALSE)
        /\ ruined' = TRUE
  /\ Goes(at, next - 1)
  /\ Untouched /\ UNCHANGED <<staged, installed>>
Undone ==
  /\ at \in {"undo", "undo_conflict"} /\ next = 0
  /\ staged' = {}
  /\ Goes(WhenUndone, 1)
  /\ Untouched /\ NoFault /\ UNCHANGED <<disk, aside, installed, ruined>>

\* Somebody else writes, creates or removes a file while the call is under way.
Ended == {"applied", "unchanged", "denied", "conflict", "failed"}
Applying == at \notin Ended \cup {"called", "asked"}
OtherWrites ==
  \E f \in Files, content \in {0, 10 + otherWrites} :
    /\ at \notin Ended /\ otherWrites < MaxOtherWrites /\ disk[f] # content
    /\ disk' = [disk EXCEPT ![f] = content]
    /\ otherWrites' = otherWrites + 1
    /\ others' = IF Applying THEN others \cup {f} ELSE others
    /\ raced' = IF checked /\ Target(next) = f THEN raced \cup {next} ELSE raced
    /\ UNCHANGED <<toolCall, base, staged, aside, installed, at, next, checked, original, ruined,
                   faults>>

EditsNext ==
  \/ ProposeEdits \/ ProposeWrite \/ Deny \/ ApproveEdits \/ ApproveWrite
  \/ Stage \/ ValidateAll \/ Validate
  \/ Skip \/ ValidateAgain \/ MoveAside \/ AllMoved
  \/ Install \/ AllInstalled \/ Clean
  \/ Undo \/ Undone
  \/ OtherWrites

EditsSpec == EditsInit /\ [][EditsNext]_editVars

-----------------------------------------------------------------------------
\* A patch is applied whole or not at all: when the call reports it as applied, every file
\* has the content the user was shown; when the call fails and undoing did not fail, every
\* file has the content it had before, the files somebody else wrote meanwhile excepted.
AllOrNothing ==
  \A i \in Steps :
    Target(i) \notin others =>
      /\ at = "applied" => disk[Target(i)] = Result(changes[i], proposed[i])
      /\ at \in {"conflict", "failed"} /\ base # <<>> /\ ~ruined =>
            disk[Target(i)] = original[Target(i)]

\* Until the whole patch is in place no original is lost, whichever step fails and even when
\* undoing fails: it is in its file or in the backup beside it, so that a crash at any of
\* these steps loses nothing.  (No code restores the backup afterwards.)
OriginalsSurvive ==
  (Applying /\ at # "cleaning") \/ at \in {"conflict", "failed"} =>
    \A i \in DOMAIN base :
      original[Target(i)] # 0 /\ Target(i) \notin others =>
        \/ disk[Target(i)] = original[Target(i)]
        \/ \E j \in Steps : Target(j) = Target(i) /\ aside[j] = original[Target(i)]

\* What a patch moves aside, and in the end removes, is the content the user saw when
\* approving it, however the file was written between the request, the answer and the
\* transaction.  Only a write between the last check of a file and its renaming, two
\* consecutive system calls, escapes.
ReplacedWasShown ==
  \A i \in DOMAIN aside : aside[i] # 0 /\ i \notin raced => aside[i] = proposed[i]

\* A batch of edits is a transaction on what the user was shown: applied whole or not at all,
\* with no original lost on the way, and replacing nothing the user has not seen.
PatchesAreTransactions == AllOrNothing /\ OriginalsSurvive /\ ReplacedWasShown

=============================================================================
