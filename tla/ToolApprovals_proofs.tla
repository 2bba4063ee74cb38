------------------------ MODULE ToolApprovals_proofs ------------------------
(***************************************************************************)
(* What the run's approvals keep, for any number of callers and approvals   *)
(* and for every limit.                                                     *)
(*                                                                         *)
(* The three properties are not inductive by themselves.  The invariant     *)
(* adds what the code relies on without saying it: an approval belongs to   *)
(* the one caller that asked for it, its resolution order is unique and     *)
(* never above the run's counter, what the timeline shows of it is what the *)
(* table says, and whoever still waits has taken every answer given before  *)
(* the ones it has not seen.                                                *)
(***************************************************************************)
EXTENDS ToolApprovals, FiniteSetTheorems, TLAPS

Requested == <<"tool_approval">>
Resolved  == <<"tool_approval", "tool_approval_resolved">>
Completed == <<"tool_approval", "tool_approval_resolved", "tool_approval_started">>

Timelines == {<<>>, Requested, Resolved, Completed}

Typed ==
  /\ ApprovalTypeOK
  /\ shown \in [Approvals -> Timelines]

(* An approval has a verdict exactly when it has a place in the order of    *)
(* the answers, and no two have the same place.                             *)
AnswersAreOrdered ==
  /\ \A a \in Approvals : (order[a] = 0 <=> verdict[a] = "none") /\ order[a] <= nextOrder
  /\ \A a, b \in Approvals : a # b /\ order[a] # 0 => order[a] # order[b]

(* An approval is asked for, or was taken, by one caller.                   *)
EachHasOneCaller ==
  \A c, d \in Callers : c # d => (asked[c] \cup got[c]) \cap (asked[d] \cup got[d]) = {}

(* What was taken was answered and is no longer pending; what is pending    *)
(* was asked for.                                                           *)
TakenIsAnswered ==
  /\ \A c \in Callers : \A a \in got[c] : order[a] # 0 /\ a \notin pending
  /\ \A a \in pending : \E c \in Callers : a \in asked[c]

(* A caller holds a decision between taking it and acting on it.            *)
DecisionIsHeld ==
  \A c \in Callers :
    IF pc[c] = "answered"
      THEN decision[c] \in got[c] /\ got[c] \cap asked[c] = {decision[c]}
      ELSE decision[c] = NoApproval /\ got[c] \cap asked[c] = {}

(* What a caller that goes on still asks for is pending.                    *)
OpenIsPending ==
  Registered => \A c \in Callers :
    pc[c] \in {"working", "waiting", "blocked", "answered"} => asked[c] \ {decision[c]} \subseteq pending

(* What the timeline shows of an approval follows its place in the table.   *)
TimelineFollows ==
  /\ \A a \in Approvals :
       /\ order[a] = 0 => shown[a] \in {<<>>, Requested}
       /\ shown[a] = Completed => verdict[a] = "allow"
       /\ shown[a] # <<>> => order[a] # 0 \/ \E c \in Callers : a \in asked[c]
  /\ run = "active" =>
       /\ \A a \in pending : shown[a] = IF order[a] = 0 THEN Requested ELSE Resolved
       /\ \A c \in Callers : pc[c] = "answered" => shown[decision[c]] = Resolved

(* What a caller has not taken was answered after what it has.              *)
TakenInOrder ==
  \A c \in Callers : \A b \in got[c], a \in asked[c] \ got[c] : order[a] # 0 => order[b] < order[a]

AtMostMaxPending == Cardinality(Unresolved) <= MaxPending

ApprovalInv ==
  /\ Typed
  /\ AnswersAreOrdered /\ EachHasOneCaller /\ TakenIsAnswered /\ DecisionIsHeld
  /\ OpenIsPending /\ TimelineFollows /\ TakenInOrder /\ AtMostMaxPending
-----------------------------------------------------------------------------
(* The events of one approval.                                             *)

(* A timeline is extended by the next event of an approval.                *)
LEMMA TimelinesGrow ==
  /\ Append(<<>>, "tool_approval") = Requested
  /\ Append(Requested, "tool_approval_resolved") = Resolved
  /\ Append(Resolved, "tool_approval_started") = Completed
<1> DEFINE S == {"tool_approval", "tool_approval_resolved", "tool_approval_started"}
<1>1. <<>> \in Seq(S) /\ Requested \in Seq(S) /\ Resolved \in Seq(S)
  BY DEF Requested, Resolved
<1>2. Append(<<>>, "tool_approval") = Requested
  BY <1>1 DEF Requested
<1>3. Append(Requested, "tool_approval_resolved") = Resolved
  <2> DEFINE T == Append(Requested, "tool_approval_resolved")
  <2>1. T \in Seq(S) /\ Len(T) = 2 /\ T[1] = "tool_approval" /\ T[2] = "tool_approval_resolved"
    BY <1>1 DEF Requested
  <2>2. Len(Resolved) = 2 /\ Resolved[1] = "tool_approval" /\ Resolved[2] = "tool_approval_resolved"
    BY DEF Resolved
  <2> HIDE DEF T
  <2>3. T = Resolved
    BY <1>1, <2>1, <2>2
  <2>4. QED
    BY <2>3 DEF T
<1>4. Append(Resolved, "tool_approval_started") = Completed
  <2> DEFINE T == Append(Resolved, "tool_approval_started")
  <2>1. T \in Seq(S) /\ Len(T) = 3 /\ T[1] = "tool_approval" /\ T[2] = "tool_approval_resolved"
        /\ T[3] = "tool_approval_started"
    BY <1>1 DEF Resolved
  <2>2. Completed \in Seq(S) /\ Len(Completed) = 3 /\ Completed[1] = "tool_approval"
        /\ Completed[2] = "tool_approval_resolved" /\ Completed[3] = "tool_approval_started"
    BY DEF Completed
  <2> HIDE DEF T
  <2>3. T = Completed
    BY <2>1, <2>2
  <2>4. QED
    BY <2>3 DEF T
<1>5. QED
  BY <1>2, <1>3, <1>4

(* The four timelines are different ones.                                  *)
LEMMA TimelinesDiffer ==
  /\ <<>> # Requested /\ <<>> # Resolved /\ <<>> # Completed
  /\ Requested # Resolved /\ Requested # Completed /\ Resolved # Completed
BY DEF Requested, Resolved, Completed

(* The timelines are the prefixes of EventOrder.                           *)
LEMMA TimelinesArePrefixes ==
  ASSUME NEW t \in Timelines
  PROVE  /\ t \in Seq({EventOrder[i] : i \in 1 .. 3})
         /\ \E n \in 0 .. 3 : t = SubSeq(EventOrder, 1, n)
         /\ Len(t) = 3 => t = Completed
<1> DEFINE E == EventOrder
<1>1. /\ E \in Seq({E[i] : i \in 1 .. 3}) /\ Len(E) = 3
      /\ E[1] = "tool_approval" /\ E[2] = "tool_approval_resolved" /\ E[3] = "tool_approval_started"
  BY DEF EventOrder
<1>2. \A n \in 0 .. 3 : /\ SubSeq(E, 1, n) \in Seq({E[i] : i \in 1 .. 3})
                        /\ Len(SubSeq(E, 1, n)) = n
                        /\ \A i \in 1 .. n : SubSeq(E, 1, n)[i] = E[i]
  BY <1>1
<1>3. /\ <<>> = SubSeq(E, 1, 0) /\ Requested = SubSeq(E, 1, 1)
      /\ Resolved = SubSeq(E, 1, 2) /\ Completed = SubSeq(E, 1, 3)
  BY <1>1, <1>2 DEF Requested, Resolved, Completed
<1>4. PICK n \in 0 .. 3 : t = SubSeq(E, 1, n)
  <2>1. 0 \in 0 .. 3 /\ 1 \in 0 .. 3 /\ 2 \in 0 .. 3 /\ 3 \in 0 .. 3
    OBVIOUS
  <2>2. QED
    BY <1>3, <2>1, Zenon DEF Timelines
<1>5. Len(t) = 3 => t = Completed
  BY <1>2, <1>3, <1>4
<1>6. QED
  BY <1>2, <1>4, <1>5

(* A timeline is a sequence of events.                                     *)
LEMMA TimelinesAreSequences == Timelines \subseteq Seq({EventOrder[i] : i \in 1 .. 3})
BY TimelinesArePrefixes

(* One event more, while the hub takes events.                             *)
LEMMA PublishedShows ==
  ASSUME Typed, NEW a \in Approvals, NEW event, Published(a, event),
         run = "active" => Append(shown[a], event) \in Timelines
  PROVE  /\ shown' \in [Approvals -> Timelines]
         /\ \A b \in Approvals :
              shown'[b] = IF run = "active" /\ b = a THEN Append(shown[a], event) ELSE shown[b]
BY DEF Typed, Published

-----------------------------------------------------------------------------
(* The invariant holds of a run that has just been registered.             *)
LEMMA ApprovalsInitial == ApprovalInit => ApprovalInv
<1> SUFFICES ASSUME ApprovalInit PROVE ApprovalInv
  OBVIOUS
<1> USE DEF ApprovalInit
<1>1. Typed
  BY TimelinesAreSequences DEF Typed, ApprovalTypeOK, Timelines
<1>2. AnswersAreOrdered /\ EachHasOneCaller /\ TakenIsAnswered /\ DecisionIsHeld /\ OpenIsPending
  BY DEF AnswersAreOrdered, EachHasOneCaller, TakenIsAnswered, DecisionIsHeld, OpenIsPending
<1>3. TimelineFollows /\ TakenInOrder
  BY TimelinesDiffer DEF TimelineFollows, TakenInOrder
<1>4. AtMostMaxPending
  <2>1. Unresolved = {}
    BY DEF Unresolved
  <2>2. QED
    BY <2>1, FS_EmptySet, ApprovalsAssumption DEF AtMostMaxPending
<1>5. QED
  BY <1>1, <1>2, <1>3, <1>4 DEF ApprovalInv

(* What is unresolved can be counted.                                      *)
LEMMA UnresolvedIsFinite ==
  ASSUME Typed
  PROVE  IsFiniteSet(Unresolved) /\ Cardinality(Unresolved) \in Nat
<1>1. Unresolved \in SUBSET Approvals
  BY DEF Typed, ApprovalTypeOK, Unresolved
<1>2. IsFiniteSet(Unresolved)
  BY <1>1, FS_Subset, ApprovalsAssumption
<1>3. QED
  BY <1>2, FS_CardinalityType

(* Fewer unresolved approvals are still within the limit.                  *)
LEMMA FewerAreWithinTheLimit ==
  ASSUME Typed, AtMostMaxPending, Unresolved' \subseteq Unresolved
  PROVE  AtMostMaxPending'
<1>1. Cardinality(Unresolved') <= Cardinality(Unresolved) /\ IsFiniteSet(Unresolved')
  BY UnresolvedIsFinite, FS_Subset
<1>2. Cardinality(Unresolved') \in Nat
  BY <1>1, FS_CardinalityType
<1>3. QED
  BY <1>1, <1>2, UnresolvedIsFinite, ApprovalsAssumption DEF AtMostMaxPending

(* An accepted request: the approval is new, so nobody asked for it, took it *)
(* or was shown it before.                                                 *)
LEMMA AcceptedRequest ==
  ASSUME ApprovalInv, NEW c \in Callers, NEW a \in Approvals, Register(c, a),
         Registered, ~failure, ~TooMany
  PROVE  ApprovalInv'
<1> USE DEF ApprovalInv
<1>1. /\ pc[c] = "working" /\ Fresh(a)
      /\ pending' = pending \cup {a} /\ Published(a, "tool_approval")
      /\ asked' = [asked EXCEPT ![c] = @ \cup {a}]
      /\ pc' = [pc EXCEPT ![c] = IF c \in Loops THEN "working" ELSE "waiting"]
      /\ UNCHANGED <<failure, cause, run, order, verdict, nextOrder, decision, got>>
  BY DEF Register, runStatus
<1>2. /\ order[a] = 0 /\ verdict[a] = "none" /\ a \notin pending
      /\ \A d \in Callers : a \notin asked[d] /\ a \notin got[d]
  BY <1>1 DEF Fresh, AnswersAreOrdered, TakenIsAnswered
<1>3. shown[a] = <<>>
  BY <1>2 DEF TimelineFollows
<1>4. /\ shown' \in [Approvals -> Timelines]
      /\ \A b \in Approvals : shown'[b] = IF run = "active" /\ b = a THEN Requested ELSE shown[b]
  <2>1. Append(shown[a], "tool_approval") = Requested
    BY <1>3, TimelinesGrow
  <2>2. QED
    BY <1>1, <2>1, PublishedShows DEF Timelines
<1>5. Typed'
  BY <1>1, <1>4, TimelinesAreSequences DEF Typed, ApprovalTypeOK
<1>6. AnswersAreOrdered'
  BY <1>1 DEF AnswersAreOrdered
<1>7. EachHasOneCaller'
  BY <1>1, <1>2 DEF EachHasOneCaller, Typed, ApprovalTypeOK
<1>8. TakenIsAnswered'
  BY <1>1, <1>2 DEF TakenIsAnswered, Typed, ApprovalTypeOK
<1>9. DecisionIsHeld'
  BY <1>1, <1>2 DEF DecisionIsHeld, Typed, ApprovalTypeOK
<1>10. OpenIsPending'
  BY <1>1 DEF OpenIsPending, Registered, Typed, ApprovalTypeOK
<1>11. TimelineFollows'
  <2>1. \A b \in Approvals :
          /\ order'[b] = 0 => shown'[b] \in {<<>>, Requested}
          /\ shown'[b] = Completed => verdict'[b] = "allow"
    BY <1>1, <1>2, <1>4, TimelinesDiffer DEF TimelineFollows
  <2>2. \A b \in Approvals : shown'[b] # <<>> => order'[b] # 0 \/ \E d \in Callers : b \in asked'[d]
    BY <1>1, <1>4 DEF TimelineFollows, Typed, ApprovalTypeOK
  <2>3. run' = "active" => \A b \in pending' : shown'[b] = IF order'[b] = 0 THEN Requested ELSE Resolved
    BY <1>1, <1>2, <1>4 DEF TimelineFollows, Typed, ApprovalTypeOK
  <2>4. run' = "active" => \A d \in Callers : pc'[d] = "answered" => shown'[decision'[d]] = Resolved
    BY <1>1, <1>2, <1>4 DEF TimelineFollows, DecisionIsHeld, Typed, ApprovalTypeOK
  <2>5. QED
    BY <2>1, <2>2, <2>3, <2>4 DEF TimelineFollows
<1>12. TakenInOrder'
  BY <1>1, <1>2 DEF TakenInOrder, Typed, ApprovalTypeOK
<1>13. AtMostMaxPending'
  <2>1. Unresolved' = Unresolved \cup {a}
    BY <1>1, <1>2 DEF Unresolved
  <2>2. Cardinality(Unresolved') = Cardinality(Unresolved) + 1
    <3>1. a \notin Unresolved
      BY <1>2 DEF Unresolved
    <3>2. QED
      BY <2>1, <3>1, UnresolvedIsFinite, FS_AddElement, Zenon
  <2>3. Cardinality(Unresolved) < MaxPending
    BY UnresolvedIsFinite, ApprovalsAssumption DEF TooMany
  <2>4. Cardinality(Unresolved') \in Nat
    BY <1>5, UnresolvedIsFinite, <2>1, FS_AddElement, FS_CardinalityType
  <2>5. QED
    BY <2>2, <2>3, <2>4, UnresolvedIsFinite, ApprovalsAssumption DEF AtMostMaxPending
<1>14. QED
  BY <1>5, <1>6, <1>7, <1>8, <1>9, <1>10, <1>11, <1>12, <1>13
(* A caller goes its way: the table and the timelines stay as they are, and *)
(* it asks for nothing more.                                               *)
LEMMA CallerMoves ==
  ASSUME ApprovalInv, NEW c \in Callers, pc[c] # "answered",
         NEW to \in {"waiting", "blocked", "leaving", "returned"},
         to \in {"waiting", "blocked"} => pc[c] \in {"working", "waiting", "blocked"},
         pc' = [pc EXCEPT ![c] = to],
         failure' \in BOOLEAN, cause' \in {"none", "cancelled", "overflow"},
         UNCHANGED <<table, run, asked, decision, got, shown>>
  PROVE  ApprovalInv'
<1> USE DEF ApprovalInv, table
<1>1. Typed'
  BY DEF Typed, ApprovalTypeOK
<1>2. AnswersAreOrdered' /\ EachHasOneCaller' /\ TakenIsAnswered' /\ TakenInOrder'
  BY DEF AnswersAreOrdered, EachHasOneCaller, TakenIsAnswered, TakenInOrder
<1>3. DecisionIsHeld'
  BY DEF DecisionIsHeld, Typed, ApprovalTypeOK
<1>4. OpenIsPending'
  BY DEF OpenIsPending, Registered, Typed, ApprovalTypeOK
<1>5. TimelineFollows'
  BY DEF TimelineFollows, Typed, ApprovalTypeOK
<1>6. AtMostMaxPending'
  BY DEF AtMostMaxPending, Unresolved
<1>7. QED
  BY <1>1, <1>2, <1>3, <1>4, <1>5, <1>6

(* A caller takes the first of the answers to what it asked for.           *)
LEMMA TakesDecision ==
  ASSUME ApprovalInv, NEW c \in Callers, Look(c), ~GivesUp(c), pc'[c] = "answered"
  PROVE  ApprovalInv'
<1> USE DEF ApprovalInv
<1>1. PICK a \in NextAnswer(c) :
        /\ pending' = pending \ {a}
        /\ decision' = [decision EXCEPT ![c] = a]
        /\ got' = [got EXCEPT ![c] = @ \cup {a}]
  BY DEF Look, Typed, ApprovalTypeOK, Abandoned
<1>2. /\ pc[c] = "waiting" /\ pc' = [pc EXCEPT ![c] = "answered"]
      /\ UNCHANGED <<order, verdict, nextOrder, failure, cause, run, asked, shown>>
  BY DEF Look, Typed, ApprovalTypeOK, Abandoned, runStatus
<1>3. /\ a \in Approvals /\ a \in asked[c] /\ order[a] # 0 /\ a \in pending
      /\ \A b \in asked[c] : order[b] # 0 => order[a] <= order[b]
  BY <1>1 DEF NextAnswer, Answered, GivesUp, Typed, ApprovalTypeOK
<1>4. got[c] \cap asked[c] = {} /\ decision[c] = NoApproval
  BY <1>2 DEF DecisionIsHeld
<1>5. Typed'
  BY <1>1, <1>2, <1>3 DEF Typed, ApprovalTypeOK
<1>6. AnswersAreOrdered'
  BY <1>2 DEF AnswersAreOrdered
<1>7. EachHasOneCaller'
  BY <1>1, <1>2, <1>3 DEF EachHasOneCaller, Typed, ApprovalTypeOK
<1>8. TakenIsAnswered'
  BY <1>1, <1>2, <1>3 DEF TakenIsAnswered, Typed, ApprovalTypeOK
<1>9. DecisionIsHeld'
  BY <1>1, <1>2, <1>3, <1>4 DEF DecisionIsHeld, Typed, ApprovalTypeOK
<1>10. OpenIsPending'
  <2>1. \A d \in Callers : d # c => a \notin asked[d]
    BY <1>3 DEF EachHasOneCaller
  <2>2. \A d \in Callers : d # c => pc'[d] = pc[d] /\ decision'[d] = decision[d]
    BY <1>1, <1>2 DEF Typed, ApprovalTypeOK
  <2>3. decision'[c] = a
    BY <1>1 DEF Typed, ApprovalTypeOK
  <2>4. NoApproval \notin asked[c]
    BY ApprovalsAssumption DEF Typed, ApprovalTypeOK
  <2>5. QED
    BY <1>1, <1>2, <1>4, <2>1, <2>2, <2>3, <2>4 DEF OpenIsPending, Registered
<1>11. TimelineFollows'
  BY <1>1, <1>2, <1>3 DEF TimelineFollows, Typed, ApprovalTypeOK
<1>12. TakenInOrder'
  <2> SUFFICES ASSUME NEW d \in Callers, NEW b \in got'[d], NEW e \in asked[d] \ got'[d], order[e] # 0
               PROVE  order[b] < order[e]
    BY <1>2 DEF TakenInOrder
  <2>1. CASE d # c
    BY <1>1, <2>1 DEF TakenInOrder, Typed, ApprovalTypeOK
  <2>2. CASE d = c /\ b # a
    BY <1>1, <2>2 DEF TakenInOrder, Typed, ApprovalTypeOK
  <2>3. CASE d = c /\ b = a
    <3>1. e # a /\ e \in Approvals
      BY <1>1, <2>3 DEF Typed, ApprovalTypeOK
    <3>2. order[a] <= order[e] /\ order[a] # order[e]
      BY <1>3, <2>3, <3>1 DEF AnswersAreOrdered
    <3>3. order[a] \in Nat /\ order[e] \in Nat
      BY <1>3, <3>1 DEF Typed, ApprovalTypeOK
    <3>4. QED
      BY <2>3, <3>2, <3>3
  <2>4. QED
    BY <2>1, <2>2, <2>3
<1>13. AtMostMaxPending'
  <2>1. Unresolved' \subseteq Unresolved
    BY <1>1, <1>2 DEF Unresolved
  <2>2. QED
    BY <2>1, FewerAreWithinTheLimit
<1>14. QED
  BY <1>5, <1>6, <1>7, <1>8, <1>9, <1>10, <1>11, <1>12, <1>13

(* A caller acts on its decision: it no longer asks for it, and the start of *)
(* an allowed call is the third event of that approval.                    *)
LEMMA ActsOnDecision ==
  ASSUME ApprovalInv, NEW c \in Callers, Act(c)
  PROVE  ApprovalInv'
<1> USE DEF ApprovalInv
<1> DEFINE a == decision[c]
<1>1. /\ pc[c] = "answered" /\ Started(c)
      /\ asked' = [asked EXCEPT ![c] = asked[c] \ {a}]
      /\ decision' = [decision EXCEPT ![c] = NoApproval]
      /\ pc' = [pc EXCEPT ![c] = IF c \in Loops THEN "working" ELSE "returned"]
      /\ UNCHANGED <<pending, order, verdict, nextOrder, failure, cause, run, got>>
  BY DEF Act, StillAsked, table, runStatus
<1>2. /\ a \in Approvals /\ a \in got[c] /\ a \in asked[c] /\ got[c] \cap asked[c] = {a}
      /\ order[a] # 0 /\ a \notin pending
      /\ \A d \in Callers : d # c => a \notin asked[d] /\ a \notin got[d]
  BY <1>1 DEF DecisionIsHeld, TakenIsAnswered, EachHasOneCaller, Typed, ApprovalTypeOK
<1>3. /\ shown' \in [Approvals -> Timelines]
      /\ \A b \in Approvals : b # a => shown'[b] = shown[b]
      /\ shown'[a] # shown[a] => run = "active" /\ verdict[a] = "allow"
  <2>1. CASE UNCHANGED shown
    BY <2>1 DEF Typed
  <2>2. CASE verdict[a] = "allow" /\ Published(a, "tool_approval_started")
    <3>1. run = "active" => Append(shown[a], "tool_approval_started") \in Timelines
      BY <1>1, TimelinesGrow DEF TimelineFollows, Timelines
    <3>2. QED
      BY <1>2, <2>2, <3>1, PublishedShows
  <2>3. QED
    BY <1>1, <2>1, <2>2 DEF Started
<1> HIDE DEF a
<1>4. Typed'
  BY <1>1, <1>3, TimelinesAreSequences DEF Typed, ApprovalTypeOK
<1>5. AnswersAreOrdered'
  BY <1>1 DEF AnswersAreOrdered
<1>6. EachHasOneCaller'
  BY <1>1 DEF EachHasOneCaller, Typed, ApprovalTypeOK
<1>7. TakenIsAnswered'
  BY <1>1, <1>2 DEF TakenIsAnswered, Typed, ApprovalTypeOK
<1>8. DecisionIsHeld'
  BY <1>1, <1>2 DEF DecisionIsHeld, Typed, ApprovalTypeOK
<1>9. OpenIsPending'
  <2>1. asked[c] \ {a} \subseteq pending \/ ~Registered
    BY <1>1 DEF OpenIsPending, a
  <2>2. QED
    BY <1>1, <2>1 DEF OpenIsPending, Registered, Typed, ApprovalTypeOK
<1>10. TimelineFollows'
  <2>1. \A b \in Approvals :
          /\ order'[b] = 0 => shown'[b] \in {<<>>, Requested}
          /\ shown'[b] = Completed => verdict'[b] = "allow"
    BY <1>1, <1>2, <1>3 DEF TimelineFollows
  <2>2. \A b \in Approvals : shown'[b] # <<>> => order'[b] # 0 \/ \E d \in Callers : b \in asked'[d]
    BY <1>1, <1>2, <1>3 DEF TimelineFollows, Typed, ApprovalTypeOK
  <2>3. run' = "active" => \A b \in pending' : shown'[b] = IF order'[b] = 0 THEN Requested ELSE Resolved
    BY <1>1, <1>2, <1>3 DEF TimelineFollows, Typed, ApprovalTypeOK
  <2>4. \A d \in Callers : pc'[d] = "answered" => d # c /\ pc[d] = "answered" /\ decision'[d] = decision[d]
    BY <1>1 DEF Typed, ApprovalTypeOK
  <2>5. \A d \in Callers : pc'[d] = "answered" => decision[d] # a /\ decision[d] \in Approvals
    BY <1>2, <2>4 DEF DecisionIsHeld, Typed, ApprovalTypeOK
  <2>6. run' = "active" => \A d \in Callers : pc'[d] = "answered" => shown'[decision'[d]] = Resolved
    BY <1>1, <1>3, <2>4, <2>5 DEF TimelineFollows
  <2>7. QED
    BY <2>1, <2>2, <2>3, <2>6 DEF TimelineFollows
<1>11. TakenInOrder'
  BY <1>1 DEF TakenInOrder, Typed, ApprovalTypeOK
<1>12. AtMostMaxPending'
  BY <1>1 DEF AtMostMaxPending, Unresolved
<1>13. QED
  BY <1>4, <1>5, <1>6, <1>7, <1>8, <1>9, <1>10, <1>11, <1>12
(* A tool takes its approval out when it leaves.                           *)
LEMMA RemovesPending ==
  ASSUME ApprovalInv, NEW c \in Callers, RemovePending(c)
  PROVE  ApprovalInv'
<1> USE DEF ApprovalInv
<1>1. /\ pc[c] = "leaving" /\ pc' = [pc EXCEPT ![c] = "returned"]
      /\ pending' \subseteq pending /\ (Registered => pending' = pending \ asked[c])
      /\ UNCHANGED <<order, verdict, nextOrder, failure, cause, run, asked, decision, got, shown>>
  BY DEF RemovePending, runStatus
<1>2. Typed'
  BY <1>1 DEF Typed, ApprovalTypeOK
<1>3. AnswersAreOrdered' /\ EachHasOneCaller' /\ TakenIsAnswered' /\ TakenInOrder'
  BY <1>1 DEF AnswersAreOrdered, EachHasOneCaller, TakenIsAnswered, TakenInOrder
<1>4. DecisionIsHeld'
  BY <1>1 DEF DecisionIsHeld, Typed, ApprovalTypeOK
<1>5. OpenIsPending'
  BY <1>1 DEF OpenIsPending, Registered, EachHasOneCaller, Typed, ApprovalTypeOK
<1>6. TimelineFollows'
  BY <1>1 DEF TimelineFollows, Typed, ApprovalTypeOK
<1>7. AtMostMaxPending'
  <2>1. Unresolved' \subseteq Unresolved
    BY <1>1 DEF Unresolved
  <2>2. QED
    BY <2>1, FewerAreWithinTheLimit
<1>8. QED
  BY <1>2, <1>3, <1>4, <1>5, <1>6, <1>7

(* An accepted answer is the latest of the run.                            *)
LEMMA Answering ==
  ASSUME ApprovalInv, NEW a \in Approvals, NEW answer \in {"allow", "deny"},
         ResolveToolApproval(a, answer)
  PROVE  ApprovalInv'
<1> USE DEF ApprovalInv
<1>1. /\ Registered /\ a \in pending /\ order[a] = 0
      /\ nextOrder' = nextOrder + 1
      /\ order' = [order EXCEPT ![a] = nextOrder + 1]
      /\ verdict' = [verdict EXCEPT ![a] = answer]
      /\ Published(a, "tool_approval_resolved")
      /\ UNCHANGED <<pending, failure, cause, run, pc, asked, decision, got>>
  BY DEF ResolveToolApproval, Open, runStatus, caller
<1>2. /\ nextOrder \in Nat /\ answer # "none" /\ nextOrder + 1 # 0
      /\ \A b \in Approvals : order[b] \in Nat /\ order[b] < nextOrder + 1
  BY DEF AnswersAreOrdered, Typed, ApprovalTypeOK
<1>3. /\ order' \in [Approvals -> Nat] /\ order'[a] = nextOrder + 1
      /\ \A b \in Approvals : b # a => order'[b] = order[b]
  BY <1>1, <1>2 DEF Typed, ApprovalTypeOK
<1>4. \A c \in Callers : a \notin got[c]
  BY <1>1 DEF TakenIsAnswered
<1>5. /\ shown' \in [Approvals -> Timelines]
      /\ \A b \in Approvals : shown'[b] = IF run = "active" /\ b = a THEN Resolved ELSE shown[b]
  <2>1. run = "active" => shown[a] = Requested
    BY <1>1 DEF TimelineFollows
  <2>2. run = "active" => Append(shown[a], "tool_approval_resolved") = Resolved
    BY <2>1, TimelinesGrow
  <2>3. QED
    BY <1>1, <2>2, PublishedShows DEF Timelines
<1>6. Typed'
  BY <1>1, <1>2, <1>3, <1>5, TimelinesAreSequences DEF Typed, ApprovalTypeOK
<1>7. AnswersAreOrdered'
  <2>1. \A b \in Approvals : (order'[b] = 0 <=> verdict'[b] = "none") /\ order'[b] <= nextOrder'
    BY <1>1, <1>2, <1>3 DEF AnswersAreOrdered, Typed, ApprovalTypeOK
  <2>2. \A b, d \in Approvals : b # d /\ order'[b] # 0 => order'[b] # order'[d]
    BY <1>2, <1>3 DEF AnswersAreOrdered
  <2>3. QED
    BY <2>1, <2>2 DEF AnswersAreOrdered
<1>8. EachHasOneCaller' /\ DecisionIsHeld' /\ OpenIsPending'
  BY <1>1 DEF EachHasOneCaller, DecisionIsHeld, OpenIsPending, Registered
<1>9. TakenIsAnswered'
  BY <1>1, <1>3, <1>4 DEF TakenIsAnswered, Typed, ApprovalTypeOK
<1>10. TimelineFollows'
  <2>1. \A b \in Approvals :
          /\ order'[b] = 0 => shown'[b] \in {<<>>, Requested}
          /\ shown'[b] = Completed => verdict'[b] = "allow"
          /\ shown'[b] # <<>> => order'[b] # 0 \/ \E d \in Callers : b \in asked'[d]
    <3>1. verdict[a] = "none"
      BY <1>1 DEF AnswersAreOrdered
    <3>2. shown[a] # Completed
      BY <3>1 DEF TimelineFollows
    <3>3. QED
      BY <1>1, <1>2, <1>3, <1>5, <3>2, TimelinesDiffer DEF TimelineFollows, Typed, ApprovalTypeOK
  <2>2. run' = "active" => \A b \in pending' : shown'[b] = IF order'[b] = 0 THEN Requested ELSE Resolved
    BY <1>1, <1>2, <1>3, <1>5 DEF TimelineFollows, Typed, ApprovalTypeOK
  <2>3. run' = "active" => \A d \in Callers : pc'[d] = "answered" => shown'[decision'[d]] = Resolved
    BY <1>1, <1>4, <1>5 DEF TimelineFollows, DecisionIsHeld, Typed, ApprovalTypeOK
  <2>4. QED
    BY <2>1, <2>2, <2>3 DEF TimelineFollows
<1>11. TakenInOrder'
  <2> SUFFICES ASSUME NEW c \in Callers, NEW b \in got[c], NEW e \in asked[c] \ got[c], order'[e] # 0
               PROVE  order'[b] < order'[e]
    BY <1>1 DEF TakenInOrder
  <2>1. b \in Approvals /\ e \in Approvals /\ order'[b] = order[b]
    BY <1>3, <1>4 DEF Typed, ApprovalTypeOK
  <2>2. CASE e = a
    BY <1>2, <1>3, <2>1, <2>2
  <2>3. CASE e # a
    BY <1>3, <2>1, <2>3 DEF TakenInOrder
  <2>4. QED
    BY <2>2, <2>3
<1>12. AtMostMaxPending'
  <2>1. Unresolved' \subseteq Unresolved
    BY <1>1, <1>2, <1>3 DEF Unresolved, Typed, ApprovalTypeOK
  <2>2. QED
    BY <2>1, FewerAreWithinTheLimit
<1>13. QED
  BY <1>6, <1>7, <1>8, <1>9, <1>10, <1>11, <1>12

(* The run is cancelled or comes to its end; what is registered only shrinks.*)
LEMMA RunSteps ==
  ASSUME ApprovalInv, CancelRun \/ RunCompletes \/ Release
  PROVE  ApprovalInv'
<1> USE DEF ApprovalInv
<1>1. /\ UNCHANGED <<table, failure, caller, shown>>
      /\ run' \in {"active", "done", "released"} /\ cause' \in {"none", "cancelled", "overflow"}
      /\ run' # run => run' # "active" /\ (run = "active" \/ run = "done")
      /\ (run = "released" => run' = "released")
  BY DEF CancelRun, RunCompletes, Release, Typed, ApprovalTypeOK
<1> USE DEF table, caller
<1>2. Typed'
  BY <1>1 DEF Typed, ApprovalTypeOK
<1>3. AnswersAreOrdered' /\ EachHasOneCaller' /\ TakenIsAnswered' /\ DecisionIsHeld' /\ TakenInOrder'
  BY <1>1 DEF AnswersAreOrdered, EachHasOneCaller, TakenIsAnswered, DecisionIsHeld, TakenInOrder
<1>4. OpenIsPending' /\ TimelineFollows' /\ AtMostMaxPending'
  BY <1>1 DEF OpenIsPending, Registered, TimelineFollows, AtMostMaxPending, Unresolved
<1>5. QED
  BY <1>2, <1>3, <1>4

(* Every step of the run keeps the invariant.                              *)
LEMMA ApprovalInvIsInductive ==
  ASSUME ApprovalInv, [ApprovalNext]_approvalVars
  PROVE  ApprovalInv'
<1> USE DEF ApprovalInv
<1>1. ASSUME NEW c \in Callers, NEW a \in Approvals, Register(c, a)
      PROVE  ApprovalInv'
  <2>1. CASE Registered /\ ~failure /\ ~TooMany
    BY <1>1, <2>1, AcceptedRequest
  <2>2. CASE ~(Registered /\ ~failure /\ ~TooMany)
    <3>1. /\ pc[c] = "working" /\ pc' = [pc EXCEPT ![c] = "returned"]
          /\ failure' \in BOOLEAN /\ cause' \in {"none", "cancelled", "overflow"}
          /\ UNCHANGED <<table, run, asked, decision, got, shown>>
      BY <1>1, <2>2 DEF Register, Failed, runStatus, table, Typed, ApprovalTypeOK
    <3>2. QED
      BY <3>1, CallerMoves
  <2>3. QED
    BY <2>1, <2>2
<1>2. ASSUME NEW c \in Callers, Wait(c) \/ LoopReturns(c) \/ Wake(c)
      PROVE  ApprovalInv'
  <2>1. PICK to \in {"waiting", "returned"} :
          /\ pc[c] \in {"working", "blocked"} /\ pc' = [pc EXCEPT ![c] = to]
          /\ UNCHANGED <<table, failure, cause, run, asked, decision, got, shown>>
    BY <1>2 DEF Wait, LoopReturns, Wake, runStatus
  <2>2. failure' \in BOOLEAN /\ cause' \in {"none", "cancelled", "overflow"}
    BY <2>1 DEF Typed, ApprovalTypeOK
  <2>3. QED
    BY <2>1, <2>2, CallerMoves
<1>3. ASSUME NEW c \in Callers, Look(c)
      PROVE  ApprovalInv'
  <2>1. CASE ~GivesUp(c) /\ pc'[c] = "answered"
    BY <1>3, <2>1, TakesDecision
  <2>2. CASE GivesUp(c) \/ pc'[c] # "answered"
    <3>1. PICK to \in {"leaving", "returned", "blocked"} :
            /\ pc[c] = "waiting" /\ pc' = [pc EXCEPT ![c] = to]
            /\ UNCHANGED <<table, failure, cause, run, asked, decision, got, shown>>
      BY <1>3, <2>2 DEF Look, Abandoned, runStatus, table, Typed, ApprovalTypeOK
    <3>2. failure' \in BOOLEAN /\ cause' \in {"none", "cancelled", "overflow"}
      BY <3>1 DEF Typed, ApprovalTypeOK
    <3>3. QED
      BY <3>1, <3>2, CallerMoves
  <2>3. QED
    BY <2>1, <2>2
<1>4. CASE UNCHANGED approvalVars
  <2>1. UNCHANGED <<pending, order, verdict, nextOrder, failure, cause, run, pc, asked, decision, got, shown>>
    BY <1>4 DEF approvalVars, table, runStatus, caller
  <2>2. QED
    BY <2>1 DEF Typed, ApprovalTypeOK, AnswersAreOrdered, EachHasOneCaller, TakenIsAnswered,
                DecisionIsHeld, OpenIsPending, Registered, TimelineFollows, TakenInOrder,
                AtMostMaxPending, Unresolved
<1>5. QED
  BY <1>1, <1>2, <1>3, <1>4, ActsOnDecision, RemovesPending, Answering, RunSteps
     DEF ApprovalNext, CallerStep

(* In every reachable state of the run's approvals each of them belongs to  *)
(* one caller, has its place among the answers and shows what the table     *)
(* says (engine/approvals.go).                                             *)
THEOREM ApprovalInvariant == ApprovalSpec => []ApprovalInv
<1>1. QED
  BY ApprovalsInitial, ApprovalInvIsInductive, PTL DEF ApprovalSpec
-----------------------------------------------------------------------------
(* What the user sees and what the run waits for agree.                    *)

(* What the runs check of the timelines follows from the invariant.        *)
LEMMA TimelineFromInvariant == ApprovalInv => TimelineIsPending
<1> SUFFICES ASSUME ApprovalInv PROVE TimelineIsPending
  OBVIOUS
<1> USE DEF ApprovalInv
<1>1. ApprovalTypeOK
  BY DEF Typed
<1>2. EventsInOrder
  <2> SUFFICES ASSUME NEW a \in Approvals
               PROVE  /\ \E n \in 0 .. 3 : shown[a] = SubSeq(EventOrder, 1, n)
                      /\ Len(shown[a]) = 3 => verdict[a] = "allow"
    BY DEF EventsInOrder
  <2>1. shown[a] \in Timelines
    BY DEF Typed
  <2>2. QED
    BY <2>1, TimelinesArePrefixes DEF TimelineFollows
<1>3. AskedIsPending
  BY ApprovalsAssumption DEF AskedIsPending, OpenIsPending, DecisionIsHeld, Typed, ApprovalTypeOK
<1>4. QED
  BY <1>1, <1>2, <1>3 DEF TimelineIsPending

(* The timeline of every approval is requested, resolved, started, in that  *)
(* order and at most once, only an allowed call is started, and what a      *)
(* caller waits for is pending while the run is registered                  *)
(* (engine/approvals.go).                                                  *)
THEOREM TimelineAgrees == ApprovalSpec => []TimelineIsPending
BY ApprovalInvariant, TimelineFromInvariant, PTL

(* No decision is taken by two callers, or twice.                          *)
LEMMA OneCallerFromInvariant == ApprovalInv => OneCallerPerDecision
BY DEF ApprovalInv, OneCallerPerDecision, EachHasOneCaller, DecisionIsHeld

(* Only an accepted answer gives an approval a verdict, and only to one that *)
(* has none.                                                               *)
LEMMA FirstAnswerStep ==
  ASSUME ApprovalInv, [ApprovalNext]_approvalVars, NEW a \in Approvals, verdict[a] # "none"
  PROVE  verdict'[a] = verdict[a] /\ order'[a] = order[a]
<1>1. CASE UNCHANGED <<order, verdict>>
  BY <1>1
<1>2. ASSUME NEW b \in Approvals, NEW answer \in {"allow", "deny"}, ResolveToolApproval(b, answer)
      PROVE  verdict'[a] = verdict[a] /\ order'[a] = order[a]
  <2>1. order[a] # 0 /\ order[b] = 0
    BY <1>2 DEF ResolveToolApproval, Open, ApprovalInv, AnswersAreOrdered
  <2>2. QED
    BY <1>2, <2>1 DEF ResolveToolApproval, ApprovalInv, Typed, ApprovalTypeOK
<1>3. QED
  BY <1>1, <1>2 DEF ApprovalNext, CallerStep, Register, Wait, LoopReturns, Look, Wake, Act,
                    RemovePending, CancelRun, RunCompletes, Release, approvalVars, table

(* What a step adds to a caller's decisions is the first answer it had not   *)
(* taken, and everything it had taken was answered before.                 *)
LEMMA TakenStep ==
  ASSUME ApprovalInv, [ApprovalNext]_approvalVars, NEW c \in Callers, got'[c] # got[c]
  PROVE  /\ Look(c) /\ ~GivesUp(c)
         /\ \A a \in got'[c] \ got[c], b \in got[c] : order[b] < order[a]
<1>1. \E d \in Callers : Look(d)
  BY DEF ApprovalNext, CallerStep, Register, Wait, LoopReturns, Wake, Act, RemovePending,
         ResolveToolApproval, CancelRun, RunCompletes, Release, approvalVars, caller
<1>2. PICK d \in Callers : Look(d)
  BY <1>1
<1>3. ~GivesUp(d)
  BY <1>2 DEF Look
<1>4. PICK a \in NextAnswer(d) : got' = [got EXCEPT ![d] = @ \cup {a}]
  BY <1>2, <1>3 DEF Look
<1>5. d = c
  BY <1>4 DEF ApprovalInv, Typed, ApprovalTypeOK
<1>6. got'[c] = got[c] \cup {a} /\ a \in asked[c] /\ order[a] # 0
  BY <1>4, <1>5 DEF NextAnswer, Answered, ApprovalInv, Typed, ApprovalTypeOK
<1>7. QED
  BY <1>2, <1>3, <1>5, <1>6 DEF ApprovalInv, TakenInOrder

(* A decision is made by the user's first accepted answer, is taken by one   *)
(* caller, once, and each caller takes its decisions in the order in which  *)
(* the user made them (approvals.go, ResolveToolApproval and                *)
(* waitForNextToolApproval).                                               *)
THEOREM DecisionsStay == ApprovalSpec => DecisionsAreFinal
<1>1. ApprovalInv /\ [ApprovalNext]_approvalVars =>
        [\A a \in Approvals : verdict[a] # "none" =>
           verdict'[a] = verdict[a] /\ order'[a] = order[a]]_approvalVars
  BY FirstAnswerStep
<1>2. ApprovalInv /\ [ApprovalNext]_approvalVars =>
        [\A c \in Callers : \A a \in got'[c] \ got[c], b \in got[c] : order[b] < order[a]]_approvalVars
  <2>1. ASSUME ApprovalInv, [ApprovalNext]_approvalVars, NEW c \in Callers,
               NEW a \in got'[c] \ got[c], NEW b \in got[c]
        PROVE  order[b] < order[a]
    BY <2>1, TakenStep
  <2>2. QED
    BY <2>1
<1>3. QED
  BY <1>1, <1>2, ApprovalInvariant, OneCallerFromInvariant, PTL
     DEF ApprovalSpec, DecisionsAreFinal, FirstAnswerStays, DecisionsInAnswerOrder

(* Only a request beyond the limit fails the run for its approvals.         *)
LEMMA LimitStep ==
  ASSUME ApprovalInv, [ApprovalNext]_approvalVars, ~failure, failure'
  PROVE  Cardinality(Unresolved) = MaxPending
<1>1. PICK c \in Callers, a \in Approvals : Register(c, a)
  BY DEF ApprovalNext, CallerStep, Wait, LoopReturns, Look, Wake, Act, RemovePending,
         ResolveToolApproval, CancelRun, RunCompletes, Release, approvalVars, runStatus
<1>2. TooMany
  BY <1>1 DEF Register, runStatus
<1>3. QED
  BY <1>2, UnresolvedIsFinite, ApprovalsAssumption DEF TooMany, ApprovalInv, AtMostMaxPending

(* Nothing is taken, answered or added once the run's approvals failed.     *)
LEMMA FailureStep ==
  ASSUME ApprovalInv, [ApprovalNext]_approvalVars, failure
  PROVE  failure' /\ got' = got /\ verdict' = verdict /\ pending' \subseteq pending
<1>1. CASE \E c \in Callers : Look(c)
  <2>1. PICK c \in Callers : Look(c)
    BY <1>1
  <2>2. GivesUp(c)
    BY DEF GivesUp
  <2>3. QED
    BY <2>1, <2>2 DEF Look, runStatus
<1>2. CASE \E c \in Callers : RemovePending(c)
  BY <1>2 DEF RemovePending, runStatus
<1>3. CASE \E c \in Callers, a \in Approvals : Register(c, a)
  BY <1>3 DEF Register, runStatus
<1>4. CASE \E c \in Callers : Wait(c) \/ LoopReturns(c) \/ Wake(c) \/ Act(c)
  BY <1>4 DEF Wait, LoopReturns, Wake, Act, table, runStatus
<1>5. CASE CancelRun \/ RunCompletes \/ Release
  BY <1>5 DEF CancelRun, RunCompletes, Release, table, caller
<1>6. CASE UNCHANGED approvalVars
  BY <1>6 DEF approvalVars, table, runStatus, caller
<1>7. ~ \E a \in Approvals, answer \in {"allow", "deny"} : ResolveToolApproval(a, answer)
  BY DEF ResolveToolApproval, Open
<1>8. QED
  BY <1>1, <1>2, <1>3, <1>4, <1>5, <1>6, <1>7 DEF ApprovalNext, CallerStep

(* At most MaxPending approvals are unanswered, the run fails for them only  *)
(* when one more is asked for, and from then on no caller goes on, no answer *)
(* is accepted and nothing is added (approvals.go,                          *)
(* registerPendingToolApproval and unresolvedToolApprovalCount).           *)
THEOREM LimitStays == ApprovalSpec => LimitIsFinal
<1>1. ApprovalInv /\ ApprovalInv' /\ [ApprovalNext]_approvalVars =>
        [/\ Cardinality(Unresolved') <= MaxPending
         /\ ~failure /\ failure' => Cardinality(Unresolved) = MaxPending]_approvalVars
  BY LimitStep DEF ApprovalInv, AtMostMaxPending
<1>2. ApprovalInv /\ [ApprovalNext]_approvalVars =>
        [failure => failure' /\ got' = got /\ verdict' = verdict /\ pending' \subseteq pending]_approvalVars
  BY FailureStep
<1>3. QED
  BY <1>1, <1>2, ApprovalInvariant, PTL DEF ApprovalSpec, LimitIsFinal, LimitIsExact, FailureIsFinal
=============================================================================
