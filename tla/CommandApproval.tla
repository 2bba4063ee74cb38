--------------------------- MODULE CommandApproval ---------------------------
(***************************************************************************)
(* One run_command call (internal/workspacetools/command.go).  The command  *)
(* is resolved to the file the shell path names, the file that path leads   *)
(* to through symbolic links, and a working directory; the user approves    *)
(* the resolution; the command is resolved again, compared and executed by  *)
(* the path it was found under.  The PATH, the links and the directories    *)
(* change at any moment.  The user answers while the call waits (a run's    *)
(* own handler), or the call ends as "approval_required" and is resumed     *)
(* later with the payload it was shown with, which an older version of the  *)
(* program may have written.                                                *)
(*                                                                          *)
(* The size limits and the syntax of a command decide only whether it can   *)
(* be resolved.                                                             *)
(***************************************************************************)
EXTENDS Naturals

CONSTANTS
  Places,         \* the files a command can be found under
  Programs,       \* the files they can lead to
  Directories,    \* the real directories a working directory can lead to
  MaxChangesOfWorld   \* bound: changes of the PATH, a link or the directory

Missing == "missing"     \* not found, not a regular file, outside the scope

VARIABLES
  found,      \* where the PATH finds the command, or Missing
  leadsTo,    \* the program each place leads to, or Missing
  workdir,    \* the real directory the requested one leads to, or Missing
  commandRule, \* "ask" or "allow"
  inline,     \* a handler of the run asks while the call waits
  legacy,     \* the payload names the place only
  phase,      \* "called", "asked", "answered", "resolved", or how the call ended
  payload,    \* what the user was shown: place, program, directory
  resolution, \* what the command resolved to when it was about to be executed
  stale,      \* the world changed since
  ran,        \* the place, program and directory of the process started
  changed

commandVars == <<found, leadsTo, workdir, commandRule, inline, legacy, phase, payload,
                 resolution, stale, ran, changed>>
settings == <<commandRule, inline, legacy>>
world == <<found, leadsTo, workdir>>

Unresolved == [place |-> Missing, program |-> Missing, dir |-> Missing]
Program(place) == IF place = Missing THEN Missing ELSE leadsTo[place]
resolveCommand == [place |-> found, program |-> Program(found), dir |-> workdir]
Resolvable == Missing \notin {found, Program(found), workdir}

CommandInit ==
  /\ found \in Places
  /\ leadsTo \in [Places -> Programs]
  /\ workdir \in Directories
  /\ commandRule \in {"ask", "allow"}
  /\ inline \in BOOLEAN
  /\ legacy \in BOOLEAN /\ (legacy => ~inline)
  /\ phase = "called"
  /\ payload = Unresolved /\ resolution = Unresolved /\ ran = Unresolved
  /\ stale = FALSE /\ changed = 0

EndsCommand(state) ==
  /\ phase' = state
  /\ UNCHANGED <<world, settings, payload, resolution, stale, ran, changed>>

\* The command about to be executed, in the same step as its last comparison.
Ready(command) ==
  /\ phase' = "resolved"
  /\ resolution' = command
  /\ stale' = FALSE
  /\ UNCHANGED <<world, settings, payload, ran, changed>>

RequestCommand ==
  /\ phase = "called"
  /\ \/ ~Resolvable /\ EndsCommand("error")
     \/ Resolvable /\ commandRule = "allow" /\ Ready(resolveCommand)
     \/ /\ Resolvable /\ commandRule = "ask"
        /\ phase' = "asked"
        /\ payload' = resolveCommand
        /\ UNCHANGED <<world, settings, resolution, stale, ran, changed>>

\* A denial resolves the command once more, for its result; it never runs.
DenyCommand ==
  /\ phase = "asked"
  /\ EndsCommand(IF inline \/ Resolvable THEN "denied" ELSE "error")

ApproveCommand ==
  /\ phase = "asked"
  /\ EndsCommand("answered")

\* approvedCommand: the payload of an old confirmation has one path for both files.
Approved ==
  IF legacy THEN [payload EXCEPT !.program = Program(payload.place)] ELSE payload
\* Mutant: the comparison leaves out the file the links lead to.
SamePlace(left, right) == left.place = right.place /\ left.dir = right.dir
sameCommand(left, right) == left = right

\* The revalidation, or the resumed call.
ResolveAgain ==
  /\ phase = "answered"
  /\ IF Resolvable /\ Approved.program # Missing /\ sameCommand(resolveCommand, Approved)
       THEN Ready(resolveCommand)
       ELSE EndsCommand("error")

\* executeCommand starts the file found at the resolved place; how it ends (completed, timed
\* out, failed, cancelled) is not told apart.
Execute ==
  /\ phase = "resolved"
  /\ \/ /\ Missing \notin {leadsTo[resolution.place], resolution.dir}
        /\ ran' = [resolution EXCEPT !.program = leadsTo[resolution.place]]
        /\ phase' = "completed"
        /\ UNCHANGED <<world, settings, payload, resolution, stale, changed>>
     \/ EndsCommand("failed")

WorldChanges ==
  /\ changed < MaxChangesOfWorld /\ phase \in {"called", "asked", "answered", "resolved"}
  /\ changed' = changed + 1
  /\ \/ /\ found' \in (Places \cup {Missing}) \ {found}
        /\ UNCHANGED <<leadsTo, workdir>>
     \/ /\ workdir' \in (Directories \cup {Missing}) \ {workdir}
        /\ UNCHANGED <<found, leadsTo>>
     \/ \E p \in Places, x \in Programs \cup {Missing} :
          /\ x # leadsTo[p]
          /\ leadsTo' = [leadsTo EXCEPT ![p] = x]
          /\ UNCHANGED <<found, workdir>>
  /\ stale' = TRUE
  /\ UNCHANGED <<settings, phase, payload, resolution, ran>>

CommandNext ==
  \/ RequestCommand \/ DenyCommand \/ ApproveCommand \/ ResolveAgain \/ Execute
  \/ WorldChanges

CommandSpec == CommandInit /\ [][CommandNext]_commandVars

-----------------------------------------------------------------------------
\* A command that needed an approval runs the program the user was shown, found where the
\* user was shown it and in the directory the user was shown, whatever happened to the PATH,
\* the links and the directories until its last comparison; an approval kept from the older
\* format binds the place and the directory only.
CommandRunsAsApproved ==
  ran # Unresolved /\ commandRule = "ask" =>
    /\ ran.place = payload.place /\ ran.dir = payload.dir
    /\ ran.program = payload.program \/ stale \/ legacy
=============================================================================
