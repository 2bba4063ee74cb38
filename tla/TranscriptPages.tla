------------------------- MODULE TranscriptPages --------------------------
(***************************************************************************)
(* Reading a transcript backwards, page by page:                            *)
(* internal/engine/transcript.go.                                           *)
(*                                                                         *)
(* A page has the last items before its cursor, and more of them if that is *)
(* needed to keep the items of a delegation (the sub-agent's own and its    *)
(* result) together with the call it began with.  Delegations run           *)
(* concurrently, so that their items interleave; the session goes on while  *)
(* a browser reads.  An item is the delegation it belongs to, with a mark   *)
(* at the call, or Plain.                                                   *)
(***************************************************************************)
EXTENDS Integers, Sequences

CONSTANTS
  DelegationIds,  \* delegations of a transcript
  Plain,          \* an item of no delegation
  Limit,          \* the page size a browser asks for
  MaxItems        \* bound on the length of a transcript

ASSUME PagesAssumption ==
  /\ Plain \notin DelegationIds
  /\ Limit \in Nat \ {0} /\ MaxItems \in Nat

VARIABLES
  items,    \* the transcript
  loaded,   \* the items the browser has
  cursor,   \* nextCursor of the last page, or -1 before the first
  page      \* first and last index of the last page

pagesVars == <<items, loaded, cursor, page>>

CallOf(d, end) == {i \in 1 .. end : items[i].call /\ items[i].delegation = d}

(* One round of expandTranscriptPageForDelegations: the page starts at the *)
(* earliest call of its items; a call pulled in may not be the last.       *)
Expand(start, end) ==
  LET calls == UNION {CallOf(items[i].delegation, end) : i \in start + 1 .. end}
      starts == {start} \cup {i - 1 : i \in calls}
  IN CHOOSE s \in starts : \A t \in starts : s <= t

ExpandedOnce(start, end) == Expand(start, end)
(* Rounds follow one another until nothing changes.                        *)
Expanded(start, end) ==
  LET rounds[n \in 0 .. MaxItems] ==
        IF n = 0 THEN start ELSE Expand(rounds[n - 1], end)
  IN rounds[MaxItems]

(* Events append to the transcript; a delegation begins with its call.     *)
AppendItem ==
  /\ Len(items) < MaxItems
  /\ \/ \E d \in DelegationIds :
          items' = Append(items, [delegation |-> d, call |-> CallOf(d, Len(items)) = {}])
     \/ items' = Append(items, [delegation |-> Plain, call |-> FALSE])
  /\ UNCHANGED <<loaded, cursor, page>>

(* paginateTranscript, for the latest page and then for the cursor of the  *)
(* page before.                                                            *)
LoadPage ==
  /\ cursor # 0 /\ items # <<>>
  /\ LET end   == IF cursor = -1 THEN Len(items) ELSE cursor
         start == Expanded(IF end > Limit THEN end - Limit ELSE 0, end)
     IN /\ page' = <<start + 1, end>>
        /\ cursor' = start
        /\ loaded' = SubSeq(items, start + 1, end) \o loaded
  /\ UNCHANGED items

PagesInit == items = <<>> /\ loaded = <<>> /\ cursor = -1 /\ page = <<1, 0>>

PagesNext == AppendItem \/ LoadPage

PagesSpec == PagesInit /\ [][PagesNext]_pagesVars

(* The pages are consecutive pieces of the transcript, and no page shows a *)
(* piece of a delegation without the call it is shown under, even when     *)
(* several delegations interleave.                                         *)
PagesKeepDelegations ==
  /\ loaded = SubSeq(items, cursor + 1, cursor + Len(loaded)) \/ cursor = -1
  /\ \A i \in page[1] .. page[2] :
       items[i].delegation # Plain =>
         \E j \in page[1] .. i : items[j].call /\ items[j].delegation = items[i].delegation
=============================================================================
