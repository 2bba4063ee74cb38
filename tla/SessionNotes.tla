--------------------------- MODULE SessionNotes ---------------------------
(***************************************************************************)
(* The durable notes of a session: internal/store/session_notes.go behind   *)
(* the tools of internal/workspacetools/session_notes.go (a native agent    *)
(* and its sub-agents) and of internal/engine/acp_session_notes.go (an      *)
(* external agent, through a subprocess that calls back over HTTP).         *)
(*                                                                         *)
(* An author replaces the whole text.  Between its read and its update, and *)
(* while the user is asked, others may do the same; the revision it read    *)
(* goes with the update.  An author passes the revision of a read, its last *)
(* or an older one, or 0 if it has read nothing.                            *)
(***************************************************************************)
EXTENDS Integers

CONSTANTS
  Authors,       \* callers that act concurrently on one session
  Internal,      \* those of them that call through the internal server
  Texts,         \* what an author may write
  MaxRevision    \* bound on the number of revisions

ASSUME NotesAssumption ==
  /\ Internal \subseteq Authors
  /\ MaxRevision \in Nat

VARIABLES
  stored,   \* the row of session_notes; revision 0 is no row
  present,  \* the session's row exists
  token,    \* the session has an internal token
  handler,  \* the session's active run has an ACP handler
  known,    \* what an author has read last
  update    \* the update an author is at, if any

notesVars == <<stored, present, token, handler, known, update>>

NoText  == [content |-> "", revision |-> 0]
NoUpdate == [step |-> "none", content |-> "", expected |-> NoText]

(* CallACPInternalTool: the token names the session, and its run answers.  *)
Reachable(a) == a \in Internal => token /\ handler

(* GetSessionNotes.                                                        *)
Read(a) ==
  /\ update[a] = NoUpdate /\ Reachable(a)
  /\ present
  /\ known' = [known EXCEPT ![a] = stored]
  /\ UNCHANGED <<stored, present, token, handler, update>>

(* updateSessionNotesWithPolicy: an update that has to be approved keeps   *)
(* its arguments while the user decides.                                   *)
ProposeUpdate(a) ==
  /\ update[a] = NoUpdate /\ Reachable(a)
  /\ \E text \in Texts, step \in {"asking", "writing"} :
       update' = [update EXCEPT ![a] =
         [step |-> step, content |-> text, expected |-> known[a]]]
  /\ UNCHANGED <<stored, present, token, handler, known>>

Decided(a) ==
  /\ update[a].step = "asking"
  /\ update' \in {[update EXCEPT ![a].step = "writing"], [update EXCEPT ![a] = NoUpdate]}
  /\ UNCHANGED <<stored, present, token, handler, known>>

(* UpdateSessionNotes, one transaction: a conflict, no change, or the next *)
(* revision.  The author learns the revision, not the text of others.      *)
MayReplaceAnything(expected) == TRUE
MayReplace(expected) == stored.revision = expected.revision

Update(a) ==
  /\ update[a].step = "writing"
  /\ IF present /\ MayReplace(update[a].expected) /\ stored.content # update[a].content
     THEN /\ stored.revision < MaxRevision
          /\ stored' = [content |-> update[a].content, revision |-> stored.revision + 1]
          /\ known' = [known EXCEPT ![a] = stored']
     ELSE UNCHANGED <<stored, known>>
  /\ update' = [update EXCEPT ![a] = NoUpdate]
  /\ UNCHANGED <<present, token, handler>>

(* A run of an external agent gives its subprocess a token, and ends; the  *)
(* token outlives it.                                                      *)
AcpRun ==
  /\ present
  /\ token' = TRUE /\ handler' = ~handler
  /\ UNCHANGED <<stored, present, known, update>>

(* DeleteSession revokes the token before it removes the rows; the         *)
(* authors' calls may still be under way.                                  *)
Revoke ==
  /\ present /\ ~handler
  /\ token' = FALSE
  /\ UNCHANGED <<stored, present, handler, known, update>>

DeleteNotes ==
  /\ present /\ ~token /\ ~handler
  /\ present' = FALSE /\ stored' = NoText
  /\ UNCHANGED <<token, handler, known, update>>

NotesInit ==
  /\ stored = NoText /\ present = TRUE
  /\ token = FALSE /\ handler = FALSE
  /\ known = [a \in Authors |-> NoText]
  /\ update = [a \in Authors |-> NoUpdate]

NotesNext ==
  \/ \E a \in Authors : Read(a) \/ ProposeUpdate(a) \/ Decided(a) \/ Update(a)
  \/ AcpRun \/ Revoke \/ DeleteNotes

NotesSpec == NotesInit /\ [][NotesNext]_notesVars

-----------------------------------------------------------------------------
(* No update is lost: the text an update replaces is the one its author    *)
(* had in mind when it wrote the new one, however long the approval took,  *)
(* and whatever the others did meanwhile.                                  *)
UpdatesReplaceWhatWasRead ==
  [][ \A a \in Authors :
        (present' /\ stored' # stored /\ update[a].step = "writing" /\ update'[a] = NoUpdate)
          => update[a].expected = stored ]_notesVars
=============================================================================
