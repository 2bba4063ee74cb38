------------------------------ MODULE EventLog ------------------------------
(***************************************************************************)
(* What the event stream of a run promises its readers, whatever buffers,    *)
(* limits and connections it is made of (internal/engine/hub.go):            *)
(* events are read in the order they were published, none twice and none left *)
(* out, until the reader is told to start over; it is told so only when an   *)
(* event it has not read is gone.  A reader that starts may start late, at   *)
(* any event up to the oldest one that is kept.                             *)
(***************************************************************************)
EXTENDS Integers

CONSTANT Readers

VARIABLES
  published,  \* the sequence number of the last event
  dropped,    \* that of the last event that is not kept any more, or 0
  position    \* the last event each reader has read, 0 before it has read one

vars == <<published, dropped, position>>

Init ==
  /\ published = 0
  /\ dropped = 0
  /\ position = [r \in Readers |-> 0]

Publish ==
  /\ published' = published + 1
  /\ dropped' \in dropped .. published
  /\ UNCHANGED position

Read(r) ==
  /\ position[r] < published
  /\ position' = [position EXCEPT ![r] = @ + 1]
  /\ UNCHANGED <<published, dropped>>

Join(r) ==
  /\ position[r] = 0
  /\ \E n \in 1 .. dropped + 1 :
       /\ n <= published
       /\ position' = [position EXCEPT ![r] = n]
  /\ UNCHANGED <<published, dropped>>

StartOver(r) ==
  /\ position[r] \in 1 .. dropped - 1
  /\ position' = [position EXCEPT ![r] = 0]
  /\ UNCHANGED <<published, dropped>>

Next == Publish \/ \E r \in Readers : Read(r) \/ Join(r) \/ StartOver(r)

Spec == Init /\ [][Next]_vars

=============================================================================
